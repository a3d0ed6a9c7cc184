------------------------------- MODULE Mandates ------------------------------
(***************************************************************************)
(* One member's two standing authorities, the automatic renewal and the    *)
(* recurring donation (apps/payments/renewals/mandates.py and              *)
(* api/renewal_views.py): set up from a form or with a checkout, confirmed *)
(* after the provider saved a card, changed, turned off, thrown away, kept *)
(* through a change to friend, while a charge of theirs may be at the      *)
(* provider.                                                               *)
(*                                                                         *)
(* A request is one step, except that confirming reads the row, asks the   *)
(* provider and saves the whole copy it read.  Amounts are 0 or 1; plans,  *)
(* cadences and charge dates are left out.                                 *)
(***************************************************************************)
EXTENDS Integers, FiniteSets

CONSTANTS Providers,    \* of "stripe", "paypal", "mock"
          Tabs,         \* the member's open forms
          MaxSetups,    \* bound on rows and customers made
          MaxRequests   \* bound on requests

VARIABLES mandates,     \* RenewalMandate rows, one of each kind
          attempt,      \* the RenewalAttempt of each still to be settled
          checkout,     \* the started Payment: what it would buy
          tab,          \* each form, and the copy its confirm request read
          closed,       \* SetupIntents canceled at Stripe
          made,         \* rows and customers made so far
          requests

mandatesVars == <<mandates, attempt, checkout, tab, closed, made, requests>>

Kinds == {"renewal", "donation"}
NoMandate == [id |-> 0, status |-> "none", contribution |-> 0, provider |-> "none",
              method |-> "none", customer |-> 0, setup |-> 0]
NoCheckout == [kind |-> "none"]
Idle == [at |-> "idle"]

MandatesInit ==
    /\ mandates = [k \in Kinds |-> NoMandate]
    /\ attempt = [k \in Kinds |-> "none"]
    /\ closed = {} /\ made = 0 /\ requests = 0
    /\ checkout = NoCheckout
    /\ tab = [t \in Tabs |-> Idle]

Asked == requests < MaxRequests /\ requests' = requests + 1
Other(k) == IF k = "renewal" THEN "donation" ELSE "renewal"
Standing(k) == mandates[k].status \notin {"none", "canceled"}

-----------------------------------------------------------------------------
(* Beginning.                                                              *)

\* A donation needs an amount; a lifetime plan or member is not modelled.
check_renewable(k, contribution) == k = "donation" => contribution > 0

\* No contribution with the renewal while a donation stands.
refuse_renewal_contribution(contribution) == contribution = 0 \/ ~Standing("donation")

\* The contribution comes off the renewal when the member said so.
take_contribution_off_renewal(remove) ==
    Standing("renewal") /\ mandates["renewal"].contribution > 0 => remove

BeginAllowed(k, contribution, remove) ==
    /\ check_renewable(k, contribution)
    /\ IF k = "donation" THEN take_contribution_off_renewal(remove)
       ELSE refuse_renewal_contribution(contribution)

\* Stripe saves a method against a customer, made for the purpose.
ensure_customer(p) == IF p = "stripe" THEN made + 1 ELSE 0

\* The row a setup starts from: nothing saved, whatever it held before.
PendingRow(k, contribution, p) ==
    [NoMandate EXCEPT !.id = IF mandates[k].id = 0 THEN made + 1 ELSE mandates[k].id,
                      !.status = "pending", !.contribution = contribution, !.provider = p,
                      !.customer = ensure_customer(p)]

begin_mandate(k, row) ==
    [mandates EXCEPT ![k] = row,
                     ![Other(k)].contribution =
                         IF k = "donation" /\ Standing("renewal") THEN 0 ELSE @]

abandon_setup(k) == {mandates[k].setup} \ {0}

\* Stripe's setup is the row's own; PayPal's is approved in the browser and not kept.
start_mandate(row) == [row EXCEPT !.setup = row.customer]

\* Provider.start_mandate raised: the row is as it was, the old setup stays closed.
StartFails(k) ==
    /\ closed' = closed \cup abandon_setup(k)
    /\ UNCHANGED <<mandates, attempt, checkout, tab, made>>

MyRenewalSetupView(t, k, contribution, p, remove) ==
    LET row == PendingRow(k, contribution, p) IN
    /\ Asked /\ tab[t] = Idle /\ made < MaxSetups
    /\ BeginAllowed(k, contribution, remove)
    /\ \/ StartFails(k)
       \/ /\ mandates' = begin_mandate(k, start_mandate(row))
          /\ closed' = closed \cup abandon_setup(k)
          /\ tab' = [tab EXCEPT ![t] = [at |-> "form", kind |-> k, provider |-> p,
                                        customer |-> row.customer]]
          /\ made' = made + 1
          /\ UNCHANGED <<attempt, checkout>>

\* The member's card or account is saved at the provider, unless its setup was closed.
EnterMethod(t) ==
    /\ tab[t].at = "form" /\ tab[t].customer \notin closed
    /\ tab' = [tab EXCEPT ![t].at = "entered"]
    /\ UNCHANGED <<mandates, attempt, checkout, closed, made, requests>>

-----------------------------------------------------------------------------
(* Confirming: MyRenewalConfirmView, save_method.                          *)

\* The mandate's provider is asked about what the form sent; Stripe checks the customer.
confirm_mandate(row, form) ==
    /\ row.provider = form.provider \/ row.provider = "mock"
    /\ row.provider = "stripe" => row.customer = form.customer

ConfirmReads(t) ==
    LET k == tab[t].kind  IN
    /\ tab[t].at = "entered" /\ mandates[k].status # "none"
    /\ tab' = [tab EXCEPT ![t] =
                  IF confirm_mandate(mandates[k], tab[t])
                  THEN [at |-> "confirmed", kind |-> k, row |-> mandates[k]] ELSE Idle]
    /\ UNCHANGED <<mandates, attempt, checkout, closed, made, requests>>

\* Only what is new is written, over what the row holds by now.
MutSaveMethod(now, row) ==
    [now EXCEPT !.status = "active", !.method = row.provider, !.setup = 0]

\* The whole copy is saved, its method and status new; a cancellation is undone.
save_method(now, row) ==
    [row EXCEPT !.status = "active", !.method = row.provider, !.setup = 0]

\* mandate.save(): an update, or an insert when the row is gone, which the unique
\* constraint refuses when another took its place.
ConfirmSaves(t) ==
    LET k == tab[t].kind  row == tab[t].row IN
    /\ tab[t].at = "confirmed"
    /\ mandates' = IF mandates[k].id \in {0, row.id}
                   THEN [mandates EXCEPT ![k] = save_method(@, row)] ELSE mandates
    /\ tab' = [tab EXCEPT ![t] = Idle]
    /\ UNCHANGED <<attempt, checkout, closed, made, requests>>

-----------------------------------------------------------------------------
(* Checkouts.                                                              *)

\* A row deleted takes its attempts along.
Deleted(K) == /\ mandates' = [k \in Kinds |-> IF k \in K THEN NoMandate ELSE mandates[k]]
              /\ attempt' = [k \in Kinds |-> IF k \in K THEN "none" ELSE attempt[k]]

Pending == {k \in Kinds : mandates[k].status = "pending"}

\* Pending rows go, but for one with a charge at the provider, which is canceled.
discard_pending_mandate(rows) ==
    LET unsettled == {k \in Pending : attempt[k] = "charged"} IN
    /\ closed' = closed \cup UNION {abandon_setup(k) : k \in Pending}
    /\ mandates' = [k \in Kinds |-> IF k \in unsettled THEN [rows[k] EXCEPT !.status = "canceled"]
                                    ELSE IF k \in Pending THEN NoMandate ELSE rows[k]]

CheckoutView(k, contribution, p, auto, remove) ==
    LET row == PendingRow(k, contribution, p) IN
    /\ Asked /\ checkout = NoCheckout
    /\ k = "donation" => contribution > 0
    /\ IF auto
       THEN /\ made < MaxSetups /\ BeginAllowed(k, contribution, remove)
            /\ \/ StartFails(k)
               \/ /\ mandates' = begin_mandate(k, row)
                  /\ closed' = closed \cup abandon_setup(k)
                  /\ checkout' = [kind |-> k, contribution |-> contribution, provider |-> p]
                  /\ made' = made + 1
                  /\ UNCHANGED <<attempt, tab>>
       ELSE /\ discard_pending_mandate(mandates)
            /\ attempt' = [j \in Kinds |-> IF j \in Pending /\ attempt[j] # "charged"
                                           THEN "none" ELSE attempt[j]]
            /\ checkout' = [kind |-> k, contribution |-> contribution, provider |-> p]
            /\ UNCHANGED <<tab, made>>

pending_mandate_for(payment) ==
    LET row == mandates[payment.kind] IN
    row.status = "pending" /\ row.provider = payment.provider
    /\ row.contribution = payment.contribution

\* The payment settled; the provider saved its method, or did not; or it never settles.
activate_pending_mandate ==
    /\ checkout # NoCheckout
    /\ checkout' = NoCheckout
    /\ \/ mandates' = mandates
       \/ pending_mandate_for(checkout)
          /\ mandates' = [mandates EXCEPT ![checkout.kind] = save_method(@, @)]
    /\ UNCHANGED <<attempt, tab, closed, made, requests>>

-----------------------------------------------------------------------------
(* Changing and ending.                                                    *)

\* MyRenewalView.patch
Patch(k, contribution) ==
    /\ Asked /\ mandates[k].status # "none"
    /\ check_renewable(k, contribution)
    /\ k = "renewal" => refuse_renewal_contribution(contribution)
    /\ mandates' = [mandates EXCEPT ![k].contribution = contribution]
    /\ UNCHANGED <<attempt, checkout, tab, closed, made>>

\* An attempt not yet sent is skipped; one at the provider is left for the scan.
Unsent(k) == IF attempt[k] = "scheduled" THEN "none" ELSE attempt[k]
CanceledRow(k) == [mandates[k] EXCEPT !.status = "canceled"]

\* MyRenewalView.delete, AdminRenewalDetailView.delete
cancel_mandate(k) ==
    /\ Asked /\ Standing(k)
    /\ mandates' = [mandates EXCEPT ![k] = CanceledRow(k)]
    /\ attempt' = [attempt EXCEPT ![k] = Unsent(k)]
    /\ UNCHANGED <<checkout, tab, closed, made>>

\* The account is deactivated.
cancel_all_mandates ==
    LET standing == {k \in Kinds : mandates[k].status \in {"active", "paused"}} IN
    /\ Asked
    /\ discard_pending_mandate([k \in Kinds |-> IF k \in standing THEN CanceledRow(k)
                                                ELSE mandates[k]])
    /\ attempt' = [k \in Kinds |-> IF k \in standing THEN Unsent(k)
                                   ELSE IF k \in Pending /\ attempt[k] # "charged" THEN "none"
                                   ELSE attempt[k]]
    /\ UNCHANGED <<checkout, tab, made>>

\* The contribution of an active renewal goes on as a yearly donation.
keeps_contribution(keep) ==
    /\ mandates["renewal"].status = "active" /\ mandates["renewal"].contribution > 0 /\ keep
KeepRefused(keep) ==
    keeps_contribution(keep) /\ mandates["donation"].status \in {"active", "paused"}

keep_renewal_contribution ==
    LET r == mandates["renewal"] IN
    [mandates EXCEPT
        !["renewal"] = CanceledRow("renewal"),
        !["donation"] = [PendingRow("donation", r.contribution, r.provider) EXCEPT
                            !.status = "active", !.method = r.method, !.customer = r.customer]]

switch_to_friend(keep) ==
    /\ Asked /\ ~KeepRefused(keep)
    /\ \/ /\ mandates["renewal"].status = "pending"
          /\ Deleted({"renewal"}) /\ UNCHANGED <<closed, made>>
       \/ /\ mandates["renewal"].status \in {"active", "paused"}
          /\ attempt' = [attempt EXCEPT !["renewal"] = Unsent("renewal")]
          /\ IF keeps_contribution(keep)
             THEN /\ made < MaxSetups /\ made' = made + 1
                  /\ mandates' = keep_renewal_contribution
                  /\ closed' = closed \cup abandon_setup("donation")
             ELSE /\ mandates' = [mandates EXCEPT !["renewal"] = CanceledRow("renewal")]
                  /\ UNCHANGED <<closed, made>>
    /\ UNCHANGED <<checkout, tab>>

-----------------------------------------------------------------------------
(* The scan: RenewalCharge, reduced to what it does to the row.            *)

schedule_attempt(k) ==
    /\ mandates[k].status = "active" /\ attempt[k] = "none"
    /\ attempt' = [attempt EXCEPT ![k] = "scheduled"]
    /\ UNCHANGED <<mandates, checkout, tab, closed, made, requests>>

Charge(k) ==
    /\ mandates[k].status = "active" /\ attempt[k] = "scheduled"
    /\ attempt' = [attempt EXCEPT ![k] = "charged"]
    /\ UNCHANGED <<mandates, checkout, tab, closed, made, requests>>

\* The answer comes back.  A decline writes the status of the copy the scan read:
\* active, or paused after the last retry, whatever the row says by then.
ChargeEnds(k) ==
    /\ attempt[k] = "charged"
    /\ attempt' = [attempt EXCEPT ![k] = "none"]
    /\ \E status \in {mandates[k].status, "active", "paused"} :
          mandates' = [mandates EXCEPT ![k].status = status]
    /\ UNCHANGED <<checkout, tab, closed, made, requests>>

-----------------------------------------------------------------------------
MandatesNext ==
    \/ \E t \in Tabs, k \in Kinds, contribution \in 0..1, p \in Providers, remove \in BOOLEAN :
          MyRenewalSetupView(t, k, contribution, p, remove)
    \/ \E t \in Tabs : EnterMethod(t) \/ ConfirmReads(t) \/ ConfirmSaves(t)
    \/ \E k \in Kinds, contribution \in 0..1, p \in Providers, auto, remove \in BOOLEAN :
          CheckoutView(k, contribution, p, auto, remove)
    \/ activate_pending_mandate
    \/ \E k \in Kinds, contribution \in 0..1 : Patch(k, contribution)
    \/ \E k \in Kinds : cancel_mandate(k)
    \/ cancel_all_mandates
    \/ \E keep \in BOOLEAN : switch_to_friend(keep)
    \/ \E k \in Kinds : schedule_attempt(k) \/ Charge(k) \/ ChargeEnds(k)

MandatesSpec == MandatesInit /\ [][MandatesNext]_mandatesVars

-----------------------------------------------------------------------------
\* A saved method is one that the row's own provider saved, so a charge goes to the
\* provider that knows it: whatever two forms, a checkout and a stale copy do to the row.
MethodOfProvider ==
    \A k \in Kinds : mandates[k].method \in {"none", mandates[k].provider}
=============================================================================
