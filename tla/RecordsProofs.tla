---------------------------- MODULE RecordsProofs -----------------------------
(****************************************************************************)
(* Mandates: a mandate's saved method is its own provider's, for any       *)
(* number of forms and whatever bounds: the rows' types, and the copies    *)
(* that confirm requests hold, carry the induction.                        *)
(*                                                                         *)
(* Verification: a stamp stands for what is stored, for any number of      *)
(* office forms and any values: the stored row is truthful, and so is      *)
(* every copy that an office form will save whole.  What the verifier's    *)
(* panel was opened with need not be.                                      *)
(*                                                                         *)
(* Membership: the three ways of working out where an account stands agree,*)
(* for any plans and any terms: following the terms from today, one after  *)
(* another, ends where the list's query says, at the least end that no     *)
(* term follows.                                                           *)
(*                                                                         *)
(* Reminders: for any number of scans at once, a row is filed before its   *)
(* copy is sent, so that a copy sent without a row is one whose acceptance *)
(* was lost; and under any schedule the stages' days follow each other.    *)
(*                                                                         *)
(* Aircraft: for any codes, types and requests, every aircraft,            *)
(* registration and alias names a listed type, and an import that folds a  *)
(* hand-added type leaves its aircraft a type of the same name: what the   *)
(* import holds waits under the hand-added type, and the key protects the  *)
(* type from what came to it since.                                        *)
(****************************************************************************)
EXTENDS Mandates, Verification, Reminders, Aircraft, TLAPS, FiniteSetTheorems,
        WellFoundedInduction

-----------------------------------------------------------------------------
(* Mandates.                                                               *)

Methods == Providers \cup {"none"}
Rows == [id : Int, status : {"none", "pending", "active", "paused", "canceled"},
         contribution : 0..1, provider : Methods, method : Methods, customer : Int,
         setup : Int]
Own(entry) == entry.method \in {"none", entry.provider}

\* The rows and the charges have their types, and a checkout names the kind it buys.
MandatesTypes ==
    /\ mandates \in [Kinds -> Rows]
    /\ attempt \in [Kinds -> {"none", "scheduled", "charged"}]
    /\ made \in Int
    /\ checkout = NoCheckout \/ checkout \in [kind : Kinds, contribution : 0..1,
                                              provider : Providers]

\* A form names its kind; the copy a confirm request read is a row, its method its own.
Form == [at : {"form", "entered"}, kind : Kinds, provider : Providers, customer : Int]
Copy == [at : {"confirmed"}, kind : Kinds, row : {entry \in Rows : Own(entry)}]
FormsHoldRows ==
    /\ DOMAIN tab = Tabs /\ tab = [t \in Tabs |-> tab[t]]
    /\ \A t \in Tabs : tab[t] = Idle \/ tab[t] \in Form \/ tab[t] \in Copy

MandatesInv == MandatesTypes /\ FormsHoldRows /\ MethodOfProvider

-----------------------------------------------------------------------------
\* A setup starts from a row with no method.
LEMMA PendingRowOwn ==
    ASSUME NEW k \in Kinds, NEW c \in 0..1, NEW p \in Methods, MandatesTypes
    PROVE  /\ PendingRow(k, c, p) \in Rows /\ PendingRow(k, c, p).method = "none"
           /\ PendingRow(k, c, p).provider = p
           /\ start_mandate(PendingRow(k, c, p)) \in Rows
           /\ start_mandate(PendingRow(k, c, p)).method = "none"
<1>1. mandates[k].id \in Int /\ made + 1 \in Int
  BY DEF MandatesTypes, Rows
<1>2. ensure_customer(p) \in Int
  BY <1>1 DEF ensure_customer
<1> DEFINE row1 == [NoMandate EXCEPT !.id = IF mandates[k].id = 0 THEN made + 1
                                           ELSE mandates[k].id]
           row2 == [row1 EXCEPT !.status = "pending"]
           row3 == [row2 EXCEPT !.contribution = c]
           row4 == [row3 EXCEPT !.provider = p]
<1>3. /\ row4 \in Rows /\ row4.method = "none" /\ row4.provider = p
      /\ PendingRow(k, c, p) = [row4 EXCEPT !.customer = ensure_customer(p)]
  <2>1. row1 \in Rows /\ row1.method = "none"
    BY <1>1 DEF NoMandate, Rows, Methods
  <2>2. row2 \in Rows /\ row2.method = "none"
    BY <2>1 DEF Rows
  <2>3. row3 \in Rows /\ row3.method = "none"
    BY <2>2 DEF Rows
  <2>4. row4 \in Rows /\ row4.method = "none" /\ row4.provider = p
    BY <2>3 DEF Rows
  <2> QED
    BY <2>4 DEF PendingRow
<1> HIDE DEF row4
<1>4. /\ PendingRow(k, c, p) \in Rows /\ PendingRow(k, c, p).method = "none"
      /\ PendingRow(k, c, p).provider = p
  BY <1>2, <1>3 DEF Rows
<1> QED
  BY <1>4 DEF start_mandate, Rows

\* Putting a row with its own method in place leaves every row with its own.
LEMMA BeginKeeps ==
    ASSUME NEW k \in Kinds, NEW entry \in Rows, Own(entry), MandatesTypes, MethodOfProvider
    PROVE  /\ begin_mandate(k, entry) \in [Kinds -> Rows]
           /\ \A j \in Kinds : Own(begin_mandate(k, entry)[j])
  BY DEF begin_mandate, Other, Kinds, Rows, Own, MandatesTypes, MethodOfProvider

\* save_method writes the provider of the copy it saves beside its method.
LEMMA SaveOwn ==
    ASSUME NEW entry \in Rows, NEW now
    PROVE  save_method(now, entry) \in Rows /\ Own(save_method(now, entry))
<1>1. entry.provider \in Methods
  BY DEF Rows
<1> DEFINE row1 == [entry EXCEPT !.status = "active"]
           row2 == [row1 EXCEPT !.method = entry.provider]
<1>2. save_method(now, entry) \in Rows
  <2>1. row1 \in Rows
    BY DEF Rows
  <2>2. row2 \in Rows
    BY <1>1, <2>1 DEF Rows
  <2>3. save_method(now, entry) = [row2 EXCEPT !.setup = 0]
    BY DEF save_method
  <2> HIDE DEF row2
  <2> QED
    BY <2>2, <2>3 DEF Rows
<1>3. save_method(now, entry).method = entry.provider /\ save_method(now, entry).provider = entry.provider
  BY DEF save_method, Rows
<1> QED
  BY <1>2, <1>3 DEF Own

\* Canceling and deleting rows leaves the others alone.
LEMMA CanceledOwn ==
    ASSUME NEW entry \in Rows, Own(entry)
    PROVE  [entry EXCEPT !.status = "canceled"] \in Rows /\ Own([entry EXCEPT !.status = "canceled"])
  BY DEF Rows, Own

\* No mandate holds no method, so it holds none of another provider.
LEMMA NoMandateOwn == NoMandate \in Rows /\ Own(NoMandate)
  BY DEF NoMandate, Rows, Own, Methods

-----------------------------------------------------------------------------
\* There is no mandate and no setup at the start.
LEMMA InitHolds == MandatesInit => MandatesInv
  BY NoMandateOwn DEF MandatesInit, MandatesInv, MandatesTypes, FormsHoldRows, MethodOfProvider, Own, Idle

\* A setup writes a pending mandate of its provider, with no method.
LEMMA SetupKeeps ==
    ASSUME MandatesInv, NEW t \in Tabs, NEW k \in Kinds, NEW c \in 0..1, NEW p \in Providers,
           NEW remove \in BOOLEAN, MyRenewalSetupView(t, k, c, p, remove)
    PROVE  MandatesInv'
<1>1. CASE StartFails(k)
  BY <1>1 DEF StartFails, MandatesInv, MandatesTypes, FormsHoldRows, MethodOfProvider
<1>2. CASE ~StartFails(k)
  <2> DEFINE entry == PendingRow(k, c, p)
  <2>1. /\ mandates' = begin_mandate(k, start_mandate(entry))
        /\ tab' = [tab EXCEPT ![t] = [at |-> "form", kind |-> k, provider |-> p,
                                      customer |-> entry.customer]]
        /\ made' = made + 1 /\ UNCHANGED <<attempt, checkout>>
    BY <1>2 DEF MyRenewalSetupView
  <2>2. p \in Methods
    BY DEF Methods
  <2>3. entry \in Rows /\ start_mandate(entry) \in Rows /\ Own(start_mandate(entry))
    BY <2>2, PendingRowOwn DEF MandatesInv, Own
  <2> HIDE DEF entry
  <2>4. MandatesTypes' /\ MethodOfProvider'
    <3>1. /\ mandates' \in [Kinds -> Rows] /\ \A j \in Kinds : Own(mandates'[j])
      BY <2>1, <2>3, BeginKeeps DEF MandatesInv
    <3> QED
      BY <3>1, <2>1 DEF MandatesInv, MandatesTypes, MethodOfProvider, Own
  <2>5. FormsHoldRows'
    <3>1. [at |-> "form", kind |-> k, provider |-> p, customer |-> entry.customer] \in Form
      BY <2>3 DEF Form, Rows
    <3> QED
      BY <3>1, <2>1 DEF MandatesInv, FormsHoldRows
  <2> QED
    BY <2>4, <2>5 DEF MandatesInv
<1> QED
  BY <1>1, <1>2

\* Entering a card at the provider changes no row.
LEMMA EnterMethodKeeps ==
    ASSUME MandatesInv, NEW t \in Tabs, EnterMethod(t)
    PROVE  MandatesInv'
<1>1. tab[t] \in Form
  BY DEF EnterMethod, MandatesInv, FormsHoldRows, Idle, Copy
<1>2. [tab[t] EXCEPT !.at = "entered"] \in Form
  BY <1>1 DEF Form
<1>3. tab' = [tab EXCEPT ![t] = [tab[t] EXCEPT !.at = "entered"]]
  BY DEF EnterMethod
<1>4. FormsHoldRows'
  BY <1>2, <1>3 DEF MandatesInv, FormsHoldRows
<1> QED
  BY <1>4 DEF EnterMethod, MandatesInv, MandatesTypes, MethodOfProvider

\* A confirm reads the row and keeps a copy, which is a row.
LEMMA ConfirmReadsKeeps ==
    ASSUME MandatesInv, NEW t \in Tabs, ConfirmReads(t)
    PROVE  MandatesInv'
<1>1. tab[t].kind \in Kinds
  BY DEF ConfirmReads, MandatesInv, FormsHoldRows, Idle, Copy, Form
<1>2. mandates[tab[t].kind] \in Rows /\ Own(mandates[tab[t].kind])
  BY <1>1 DEF MandatesInv, MandatesTypes, MethodOfProvider, Own
<1>3. [at |-> "confirmed", kind |-> tab[t].kind, row |-> mandates[tab[t].kind]] \in Copy
  BY <1>1, <1>2 DEF Copy
<1>4. FormsHoldRows'
  BY <1>3 DEF ConfirmReads, MandatesInv, FormsHoldRows
<1> QED
  BY <1>4 DEF ConfirmReads, MandatesInv, MandatesTypes, MethodOfProvider

\* A confirm saves its copy with a method of the copy's own provider.
LEMMA ConfirmSavesKeeps ==
    ASSUME MandatesInv, NEW t \in Tabs, ConfirmSaves(t)
    PROVE  MandatesInv'
<1> DEFINE k == tab[t].kind  entry == tab[t].row
<1>1. k \in Kinds /\ entry \in Rows
  BY DEF ConfirmSaves, MandatesInv, FormsHoldRows, Idle, Copy, Form
<1>2. save_method(mandates[k], entry) \in Rows /\ Own(save_method(mandates[k], entry))
  BY <1>1, SaveOwn
<1>3. mandates' = mandates \/ mandates' = [mandates EXCEPT ![k] = save_method(mandates[k], entry)]
  <2>1. mandates' = IF mandates[tab[t].kind].id \in {0, tab[t].row.id}
                    THEN [mandates EXCEPT ![tab[t].kind] =
                             save_method(mandates[tab[t].kind], tab[t].row)]
                    ELSE mandates
    BY Zenon DEF ConfirmSaves
  <2> QED
    BY <2>1
<1> HIDE DEF k, entry
<1>4. MandatesTypes' /\ MethodOfProvider'
  BY <1>1, <1>2, <1>3 DEF ConfirmSaves, MandatesInv, MandatesTypes, MethodOfProvider, Own
<1>5. FormsHoldRows'
  BY DEF ConfirmSaves, MandatesInv, FormsHoldRows
<1> QED
  BY <1>4, <1>5 DEF MandatesInv

\* Throwing pending rows away keeps what is left, given rows with their own methods.
LEMMA DiscardKeeps ==
    ASSUME NEW rows \in [Kinds -> Rows], \A k \in Kinds : Own(rows[k]),
           discard_pending_mandate(rows)
    PROVE  mandates' \in [Kinds -> Rows] /\ \A k \in Kinds : Own(mandates'[k])
<1> SUFFICES ASSUME NEW k \in Kinds
             PROVE  mandates'[k] \in Rows /\ Own(mandates'[k])
  BY DEF discard_pending_mandate
<1>1. mandates'[k] \in {[rows[k] EXCEPT !.status = "canceled"], NoMandate, rows[k]}
  BY DEF discard_pending_mandate
<1> QED
  BY <1>1, CanceledOwn, NoMandateOwn

\* A checkout writes a pending mandate without a method, or discards the pending ones.
LEMMA CheckoutKeeps ==
    ASSUME MandatesInv, NEW k \in Kinds, NEW c \in 0..1, NEW p \in Providers,
           NEW auto \in BOOLEAN, NEW remove \in BOOLEAN, CheckoutView(k, c, p, auto, remove)
    PROVE  MandatesInv'
<1>1. CASE auto /\ StartFails(k)
  BY <1>1 DEF StartFails, MandatesInv, MandatesTypes, FormsHoldRows, MethodOfProvider
<1>2. CASE auto /\ ~StartFails(k)
  <2> DEFINE entry == PendingRow(k, c, p)
  <2>1. /\ mandates' = begin_mandate(k, entry)
        /\ checkout' = [kind |-> k, contribution |-> c, provider |-> p]
        /\ made' = made + 1 /\ UNCHANGED <<attempt, tab>>
    BY <1>2 DEF CheckoutView
  <2>2. entry \in Rows /\ Own(entry)
    BY PendingRowOwn DEF MandatesInv, Own, Methods
  <2> HIDE DEF entry
  <2>3. mandates' \in [Kinds -> Rows] /\ \A j \in Kinds : Own(mandates'[j])
    BY <2>1, <2>2, BeginKeeps DEF MandatesInv
  <2> QED
    BY <2>1, <2>3 DEF MandatesInv, MandatesTypes, MethodOfProvider, Own, FormsHoldRows
<1>3. CASE ~auto
  <2>1. /\ discard_pending_mandate(mandates)
        /\ attempt' = [j \in Kinds |-> IF j \in Pending /\ attempt[j] # "charged"
                                       THEN "none" ELSE attempt[j]]
        /\ checkout' = [kind |-> k, contribution |-> c, provider |-> p]
        /\ UNCHANGED <<tab, made>>
    BY <1>3 DEF CheckoutView
  <2>2. mandates' \in [Kinds -> Rows] /\ \A j \in Kinds : Own(mandates'[j])
    BY <2>1, DiscardKeeps DEF MandatesInv, MandatesTypes, MethodOfProvider, Own
  <2> QED
    BY <2>1, <2>2 DEF MandatesInv, MandatesTypes, MethodOfProvider, Own, FormsHoldRows
<1> QED
  BY <1>1, <1>2, <1>3

\* A settled payment saves its provider's method in a pending mandate of that provider.
LEMMA ActivateKeeps ==
    ASSUME MandatesInv, activate_pending_mandate
    PROVE  MandatesInv'
<1>1. checkout.kind \in Kinds
  BY DEF activate_pending_mandate, MandatesInv, MandatesTypes
<1> DEFINE entry == mandates[checkout.kind]
<1>2. entry \in Rows
  BY <1>1 DEF MandatesInv, MandatesTypes
<1>3. save_method(entry, entry) \in Rows /\ Own(save_method(entry, entry))
  BY <1>2, SaveOwn
<1>4. mandates' = mandates \/ mandates' = [mandates EXCEPT ![checkout.kind] = save_method(entry, entry)]
  BY DEF activate_pending_mandate
<1> HIDE DEF entry
<1> QED
  BY <1>1, <1>3, <1>4
  DEF activate_pending_mandate, MandatesInv, MandatesTypes, MethodOfProvider, Own, FormsHoldRows

\* Changing the contribution leaves provider and method alone.
LEMMA PatchKeeps ==
    ASSUME MandatesInv, NEW k \in Kinds, NEW c \in 0..1, Patch(k, c)
    PROVE  MandatesInv'
  BY DEF Patch, MandatesInv, MandatesTypes, MethodOfProvider, FormsHoldRows, Rows

\* Canceling leaves provider and method alone.
LEMMA CancelKeeps ==
    ASSUME MandatesInv, NEW k \in Kinds, cancel_mandate(k)
    PROVE  MandatesInv'
<1> DEFINE canceled == CanceledRow(k)
<1>1. mandates[k] \in Rows /\ Own(mandates[k])
  BY DEF MandatesInv, MandatesTypes, MethodOfProvider, Own
<1>2. canceled \in Rows /\ Own(canceled)
  BY <1>1, CanceledOwn DEF CanceledRow
<1>3. /\ mandates' = [mandates EXCEPT ![k] = canceled]
      /\ attempt' = [attempt EXCEPT ![k] = Unsent(k)]
      /\ UNCHANGED <<checkout, tab, closed, made>>
  BY DEF cancel_mandate
<1>4. Unsent(k) \in {"none", "scheduled", "charged"}
  BY DEF Unsent, MandatesInv, MandatesTypes
<1> HIDE DEF canceled
<1>5. MandatesTypes'
  BY <1>2, <1>3, <1>4 DEF MandatesInv, MandatesTypes
<1>6. MethodOfProvider'
  BY <1>2, <1>3 DEF MandatesInv, MandatesTypes, MethodOfProvider, Own
<1>7. FormsHoldRows'
  BY <1>3 DEF MandatesInv, FormsHoldRows
<1> QED
  BY <1>5, <1>6, <1>7 DEF MandatesInv

\* Canceling both mandates does to each what canceling one does.
LEMMA CancelAllKeeps ==
    ASSUME MandatesInv, cancel_all_mandates
    PROVE  MandatesInv'
<1> DEFINE standing == {k \in Kinds : mandates[k].status \in {"active", "paused"}}
           rows == [k \in Kinds |-> IF k \in standing THEN CanceledRow(k) ELSE mandates[k]]
<1>1. rows \in [Kinds -> Rows] /\ \A k \in Kinds : Own(rows[k])
  BY CanceledOwn DEF CanceledRow, MandatesInv, MandatesTypes, MethodOfProvider, Own
<1>2. discard_pending_mandate(rows) /\ UNCHANGED <<checkout, tab, made>>
  BY DEF cancel_all_mandates
<1>3. mandates' \in [Kinds -> Rows] /\ \A k \in Kinds : Own(mandates'[k])
  <2> HIDE DEF rows
  <2> QED BY <1>1, <1>2, DiscardKeeps
<1>4. attempt' \in [Kinds -> {"none", "scheduled", "charged"}]
  BY DEF cancel_all_mandates, Unsent, MandatesInv, MandatesTypes
<1> QED
  BY <1>2, <1>3, <1>4 DEF MandatesInv, MandatesTypes, MethodOfProvider, Own, FormsHoldRows

\* The donation that goes on takes the renewal's method together with its provider.
LEMMA KeptContributionKeeps ==
    ASSUME MandatesInv
    PROVE  /\ keep_renewal_contribution \in [Kinds -> Rows]
           /\ \A k \in Kinds : Own(keep_renewal_contribution[k])
<1> DEFINE r == mandates["renewal"]
           pending == PendingRow("donation", r.contribution, r.provider)
           kept == [pending EXCEPT !.status = "active", !.method = r.method,
                                   !.customer = r.customer]
<1>1. r \in Rows /\ Own(r)
  BY DEF MandatesInv, MandatesTypes, MethodOfProvider, Own, Kinds
<1>2. pending \in Rows /\ pending.provider = r.provider
  BY <1>1, PendingRowOwn DEF MandatesInv, Kinds, Rows
<1>3. kept \in Rows /\ Own(kept)
  <2> HIDE DEF pending, r
  <2> QED BY <1>1, <1>2 DEF Rows, Own
<1>4. CanceledRow("renewal") \in Rows /\ Own(CanceledRow("renewal"))
  BY <1>1, CanceledOwn DEF CanceledRow
<1>5. keep_renewal_contribution
        = [mandates EXCEPT !["renewal"] = CanceledRow("renewal"), !["donation"] = kept]
  BY DEF keep_renewal_contribution
<1> HIDE DEF kept
<1> QED
  BY <1>3, <1>4, <1>5 DEF MandatesInv, MandatesTypes, MethodOfProvider, Own, Kinds

\* Becoming a friend cancels the membership's mandate and may make it a donation's.
LEMMA SwitchKeeps ==
    ASSUME MandatesInv, NEW keep \in BOOLEAN, switch_to_friend(keep)
    PROVE  MandatesInv'
<1>1. UNCHANGED <<checkout, tab>>
  BY DEF switch_to_friend
<1>2. attempt' \in [Kinds -> {"none", "scheduled", "charged"}] /\ made' \in Int
  BY DEF switch_to_friend, Deleted, Unsent, MandatesInv, MandatesTypes
<1>3. mandates' \in [Kinds -> Rows] /\ \A k \in Kinds : Own(mandates'[k])
  <2>1. CASE Deleted({"renewal"})
    BY <2>1, NoMandateOwn DEF Deleted, MandatesInv, MandatesTypes, MethodOfProvider, Own
  <2>2. CASE mandates' = keep_renewal_contribution
    BY <2>2, KeptContributionKeeps
  <2>3. CASE mandates' = [mandates EXCEPT !["renewal"] = CanceledRow("renewal")]
    BY <2>3, CanceledOwn
    DEF CanceledRow, MandatesInv, MandatesTypes, MethodOfProvider, Own, Kinds
  <2> QED
    BY <2>1, <2>2, <2>3 DEF switch_to_friend
<1> QED
  BY <1>1, <1>2, <1>3 DEF MandatesInv, MandatesTypes, MethodOfProvider, Own, FormsHoldRows

\* The scan moves attempts, and writes no method.
LEMMA ScanKeeps ==
    ASSUME MandatesInv, NEW k \in Kinds, schedule_attempt(k) \/ Charge(k) \/ ChargeEnds(k)
    PROVE  MandatesInv'
<1>1. CASE schedule_attempt(k) \/ Charge(k)
  BY <1>1 DEF schedule_attempt, Charge, MandatesInv, MandatesTypes, MethodOfProvider, FormsHoldRows
<1>2. CASE ChargeEnds(k)
  BY <1>2 DEF ChargeEnds, MandatesInv, MandatesTypes, MethodOfProvider, FormsHoldRows, Rows
<1> QED
  BY <1>1, <1>2

-----------------------------------------------------------------------------
\* Every step keeps the inductive invariant.
LEMMA InductiveStep == MandatesInv /\ [MandatesNext]_mandatesVars => MandatesInv'
<1> SUFFICES ASSUME MandatesInv, [MandatesNext]_mandatesVars
             PROVE  MandatesInv'
  OBVIOUS
<1>1. CASE MandatesNext
  BY <1>1, SetupKeeps, EnterMethodKeeps, ConfirmReadsKeeps, ConfirmSavesKeeps, CheckoutKeeps,
     ActivateKeeps, PatchKeeps, CancelKeeps, CancelAllKeeps, SwitchKeeps, ScanKeeps
  DEF MandatesNext
<1>2. CASE UNCHANGED mandatesVars
  BY <1>2 DEF mandatesVars, MandatesInv, MandatesTypes, MethodOfProvider, FormsHoldRows
<1> QED
  BY <1>1, <1>2

\* A saved method is always one its row's provider saved, for any providers, any number of
\* open forms and any bounds on setups and requests: the confirm's save of a stale copy,
\* a checkout, the change to a friend and the scan's answers included.
THEOREM SavedMethodIsOwn == MandatesSpec => []MethodOfProvider
<1>1. MandatesSpec => []MandatesInv
  BY InitHolds, InductiveStep, PTL DEF MandatesSpec
<1>2. MandatesInv => MethodOfProvider
  BY DEF MandatesInv
<1> QED
  BY <1>1, <1>2, PTL

-----------------------------------------------------------------------------
(* Verification.                                                           *)

\* Every stamp of r was given for the values r holds, of an item that is held.
Truthful(r) ==
    \A i \in Items : r.stamp[i].checked =>
        is_held(r, i) /\ r.stamp[i].was = [f \in ITEMS[i] |-> r.field[f]]

CopiesTruthful ==
    /\ copy = [o \in Offices |-> copy[o]]
    /\ \A o \in Offices : copy[o] = NoCopy \/ Truthful(copy[o])

VerificationInv == Truthful(row) /\ CopiesTruthful

-----------------------------------------------------------------------------
\* The field that says whether an item is held is one of the item's own.
LEMMA HeldByOwnField ==
    \A i \in Items : ITEMS[i] \subseteq Fields /\ HeldBy[i] \in ITEMS[i]
<1>1. \A i \in Items : ITEMS[i] \subseteq Fields
  BY DEF Fields
<1>2. CASE subject = "person"
  BY <1>1, <1>2 DEF Items, ITEMS, HeldBy
<1>3. CASE subject # "person"
  BY <1>1, <1>3 DEF Items, ITEMS, HeldBy
<1> QED
  BY <1>2, <1>3

\* Taking the stamps of the items whose fields move is enough.
LEMMA UpdatedTruthful ==
    ASSUME NEW r, NEW changes, Truthful(r)
    PROVE  Truthful(Updated(r, changes))
<1> DEFINE s == Updated(r, changes)
<1> SUFFICES ASSUME NEW i \in Items, s.stamp[i].checked
             PROVE  is_held(s, i) /\ s.stamp[i].was = [f \in ITEMS[i] |-> s.field[f]]
  BY DEF Truthful
<1>1. ITEMS[i] \subseteq Fields /\ HeldBy[i] \in ITEMS[i]
  BY HeldByOwnField
<1>2. s.stamp[i] = IF ITEMS[i] \cap changed_fields(r, changes) # {} THEN Unverified
                   ELSE r.stamp[i]
  BY DEF Updated, clear_stale
<1>3. ITEMS[i] \cap changed_fields(r, changes) = {} /\ s.stamp[i] = r.stamp[i]
  BY <1>2 DEF Unverified
<1>4. \A f \in ITEMS[i] : s.field[f] = r.field[f]
  BY <1>1, <1>3 DEF Updated, changed_fields
<1>5. is_held(r, i) /\ r.stamp[i].was = [f \in ITEMS[i] |-> r.field[f]]
  BY <1>3 DEF Truthful
<1> HIDE DEF s
<1>6. is_held(s, i)
  BY <1>1, <1>4, <1>5 DEF is_held
<1>7. s.stamp[i].was = [f \in ITEMS[i] |-> s.field[f]]
  BY <1>3, <1>4, <1>5
<1> QED
  BY <1>6, <1>7

\* A verifier's ticks stamp held items for what the row holds, and take the other stamps.
LEMMA StampedTruthful ==
    ASSUME NEW changes, NEW ticked, Truthful(Updated(row, changes))
    PROVE  Truthful(Stamped(Updated(row, changes), ticked))
<1> DEFINE r == Updated(row, changes)
           s == Stamped(r, ticked)
<1>1. /\ s.field = r.field
      /\ \A i \in Items : s.stamp[i] = IF i \in ticked /\ is_held(r, i)
                                       THEN IF r.stamp[i].checked THEN r.stamp[i] ELSE Stamp(r, i)
                                       ELSE Unverified
  BY DEF Updated, Stamped
<1> SUFFICES ASSUME NEW i \in Items, s.stamp[i].checked
             PROVE  is_held(s, i) /\ s.stamp[i].was = [f \in ITEMS[i] |-> s.field[f]]
  BY DEF Truthful
<1> HIDE DEF r, s
<1>2. /\ is_held(r, i)
      /\ \/ s.stamp[i] = r.stamp[i] /\ r.stamp[i].checked
         \/ s.stamp[i] = Stamp(r, i)
  BY <1>1 DEF Unverified
<1>3. is_held(s, i)
  BY <1>1, <1>2 DEF is_held
<1>4. s.stamp[i].was = [f \in ITEMS[i] |-> r.field[f]]
  BY <1>2 DEF Stamp, Truthful, r
<1> QED
  BY <1>1, <1>3, <1>4

-----------------------------------------------------------------------------
\* What is truthful stays so while the subject is the same.
LEMMA SubjectStays ==
    ASSUME UNCHANGED subject
    PROVE  ITEMS' = ITEMS /\ Items' = Items
  BY DEF ITEMS, Items

\* A member's own edit clears the stamps of what it changes.
LEMMA OwnUpdateKeeps ==
    ASSUME VerificationInv, NEW c, OwnUpdate(c)
    PROVE  VerificationInv'
<1>1. Truthful(Updated(row, c))
  BY UpdatedTruthful DEF VerificationInv
<1>2. row' = Updated(row, c) /\ UNCHANGED <<subject, copy>>
  BY DEF OwnUpdate
<1>3. Truthful(row)' /\ CopiesTruthful'
  BY <1>1, <1>2, SubjectStays DEF VerificationInv, Truthful, CopiesTruthful, is_held
<1> QED
  BY <1>3 DEF VerificationInv

\* An office's copy is the row as it stands.
LEMMA OfficeReadsKeeps ==
    ASSUME VerificationInv, NEW o \in Offices, OfficeReads(o)
    PROVE  VerificationInv'
<1>1. copy' = [copy EXCEPT ![o] = row] /\ UNCHANGED <<subject, row>>
  BY DEF OfficeReads
<1>2. \A p \in Offices : copy'[p] = copy[p] \/ copy'[p] = row
  BY <1>1 DEF VerificationInv, CopiesTruthful
<1>3. copy' = [p \in Offices |-> copy'[p]]
  BY <1>1 DEF VerificationInv, CopiesTruthful
<1> QED
  BY <1>1, <1>2, <1>3, SubjectStays DEF VerificationInv, Truthful, CopiesTruthful, is_held

\* The office saves its whole copy, which was truthful when it was read: a stamp given
\* since goes, and none is put beside values it was not given for.
LEMMA UpdateMemberKeeps ==
    ASSUME VerificationInv, NEW o \in Offices, NEW c, update_member(o, c)
    PROVE  VerificationInv'
<1>1. Truthful(copy[o])
  BY DEF VerificationInv, CopiesTruthful, update_member
<1>2. Truthful(Updated(copy[o], c))
  BY <1>1, UpdatedTruthful
<1>3. row' = Updated(copy[o], c) /\ copy' = [copy EXCEPT ![o] = NoCopy] /\ UNCHANGED subject
  BY DEF update_member, Saved
<1>4. Truthful(row)'
  BY <1>2, <1>3, SubjectStays DEF Truthful, is_held
<1>5. /\ copy' = [p \in Offices |-> copy'[p]]
      /\ \A p \in Offices : copy'[p] = copy[p] \/ copy'[p] = NoCopy
  BY <1>3 DEF VerificationInv, CopiesTruthful
<1>6. CopiesTruthful'
  BY <1>3, <1>5, SubjectStays DEF VerificationInv, Truthful, CopiesTruthful, is_held
<1> QED
  BY <1>4, <1>6 DEF VerificationInv

\* A stamp records the values the row holds in the step that writes it.
LEMMA VerifyKeeps ==
    ASSUME VerificationInv, NEW c, NEW ticked, verify(c, ticked)
    PROVE  VerificationInv'
<1>1. Truthful(Stamped(Updated(row, c), ticked))
  BY UpdatedTruthful, StampedTruthful DEF VerificationInv
<1>2. row' = Stamped(Updated(row, c), ticked) /\ UNCHANGED <<subject, copy>>
  BY DEF verify
<1>3. Truthful(row)' /\ CopiesTruthful'
  BY <1>1, <1>2, SubjectStays DEF VerificationInv, Truthful, CopiesTruthful, is_held
<1> QED
  BY <1>3 DEF VerificationInv

\* Steps that write neither row nor copy.
LEMMA NothingMoves ==
    ASSUME VerificationInv, UNCHANGED <<subject, row, copy>>
    PROVE  VerificationInv'
  BY SubjectStays DEF VerificationInv, Truthful, CopiesTruthful, is_held

-----------------------------------------------------------------------------
\* A new row has no stamps, and no form is open.
LEMMA VerifiedInitHolds == VerificationInit => VerificationInv
  BY DEF VerificationInit, VerificationInv, Truthful, CopiesTruthful, Unverified

\* Every step keeps the inductive invariant.
LEMMA VerifiedInductiveStep ==
    VerificationInv /\ [VerificationNext]_verificationVars => VerificationInv'
<1> SUFFICES ASSUME VerificationInv, [VerificationNext]_verificationVars
             PROVE  VerificationInv'
  OBVIOUS
<1>1. ASSUME NEW c \in Changes, OwnUpdate(c)
      PROVE  VerificationInv'
  BY <1>1, OwnUpdateKeeps
<1>2. ASSUME NEW o \in Offices, OfficeReads(o)
      PROVE  VerificationInv'
  BY <1>2, OfficeReadsKeeps
<1>3. ASSUME NEW o \in Offices, NEW c \in Changes, update_member(o, c)
      PROVE  VerificationInv'
  BY <1>3, UpdateMemberKeeps
<1>4. CASE OpenPanel
  BY <1>4, NothingMoves DEF OpenPanel
<1>5. ASSUME NEW c \in PanelChanges, NEW ticked \in SUBSET Items,
             verify_member(c, ticked) \/ verify_insurance(c, ticked)
      PROVE  VerificationInv'
  BY <1>5, VerifyKeeps DEF verify_member, verify_insurance
<1>6. CASE UNCHANGED verificationVars
  BY <1>6, NothingMoves DEF verificationVars
<1> QED
  BY <1>1, <1>2, <1>3, <1>4, <1>5, <1>6 DEF VerificationNext

\* Whatever owners, offices with stale copies and verifiers do, a stamp stands for the values
\* the row holds, and whom the check passes holds every item: for any number of office
\* forms, any values of the fields and any number of requests.
THEOREM StampsStandForStoredValues == VerificationSpec => []VerifiedAsStored
<1>1. VerificationSpec => []VerificationInv
  BY VerifiedInitHolds, VerifiedInductiveStep, PTL DEF VerificationSpec
<1>2. VerificationInv => VerifiedAsStored
  <2> SUFFICES ASSUME Truthful(row)
               PROVE  VerifiedAsStored
    BY DEF VerificationInv
  <2>1. \A i \in verified_items(row) :
           is_held(row, i) /\ row.stamp[i].was = [f \in ITEMS[i] |-> row.field[f]]
    BY DEF verified_items, Truthful
  <2>2. ASSUME go_no_go, NEW i \in Items
        PROVE  row.stamp[i].was[HeldBy[i]] # 0
    BY <2>1, <2>2, HeldByOwnField, ZenonT(60) DEF go_no_go, is_fully_verified, is_held
  <2> QED
    BY <2>1, <2>2 DEF VerifiedAsStored
<1> QED
  BY <1>1, <1>2, PTL

-----------------------------------------------------------------------------
(* Membership.                                                             *)

TermStatus == {"none", "active", "expired", "suspended", "canceled"}
TermRow == [status : TermStatus, starts : Int, ends : Int]

\* A finite set of integers that is not empty has a greatest: else some such set of the
\* fewest elements has none, and the set without one of its elements has one.
LEMMA GreatestOf ==
    ASSUME NEW S, S \subseteq Int, IsFiniteSet(S), S # {}
    PROVE  Max(S) \in S /\ \A y \in S : Max(S) >= y
<1> DEFINE Has(A) == \E x \in A : \A y \in A : x >= y
           Bad == {n \in Nat : \E A \in SUBSET S : A # {} /\ Cardinality(A) = n /\ ~Has(A)}
<1>1. Bad = {}
  <2> SUFFICES ASSUME Bad # {} PROVE FALSE
    OBVIOUS
  <2>1. PICK n \in Bad : \A k \in Bad : ~(<<k, n>> \in OpToRel(<, Nat))
    BY NatLessThanWellFounded, WFMin
  <2>2. n \in Nat /\ \A k \in Bad : ~(k < n)
    BY <2>1 DEF OpToRel
  <2>3. PICK A \in SUBSET S : A # {} /\ Cardinality(A) = n /\ ~Has(A)
    BY <2>1
  <2>4. PICK a \in A : TRUE
    BY <2>3
  <2>5. IsFiniteSet(A) /\ IsFiniteSet(A \ {a})
    BY <2>3, FS_Subset
  <2>6. Cardinality(A \ {a}) = n - 1 /\ Cardinality(A \ {a}) \in Nat
    BY <2>3, <2>4, <2>5, FS_RemoveElement, FS_CardinalityType
  <2>7. A \ {a} = {} \/ Has(A \ {a})
    <3>1. Cardinality(A \ {a}) \notin Bad
      <4> HIDE DEF Bad
      <4>1. n - 1 < n /\ n - 1 \in Nat
        BY <2>2, <2>6
      <4> QED
        BY <2>2, <2>6, <4>1
    <3>2. A \ {a} \in SUBSET S
      OBVIOUS
    <3> QED
      BY <2>6, <3>1, <3>2
  <2>8. CASE A \ {a} = {}
    <3>1. A = {a} /\ a \in Int
      BY <2>4, <2>8
    <3> QED
      BY <2>3, <3>1
  <2>9. CASE Has(A \ {a})
    <3>1. PICK x \in A \ {a} : \A y \in A \ {a} : x >= y
      BY <2>9
    <3>2. x \in Int /\ a \in Int /\ A \subseteq Int
      BY <2>4, <3>1
    <3>3. CASE x >= a
      BY <2>3, <3>1, <3>2, <3>3
    <3>4. CASE ~(x >= a)
      <4>1. \A y \in A : a >= y
        BY <3>1, <3>2, <3>4
      <4> QED
        BY <2>3, <2>4, <4>1
    <3> QED
      BY <3>3, <3>4
  <2> QED
    BY <2>7, <2>8, <2>9
<1>2. Cardinality(S) \in Nat
  BY FS_CardinalityType
<1>3. Has(S)
  BY <1>1, <1>2
<1> QED
  BY <1>3 DEF Max

\* The least of a set is what is in it and nothing is below.
LEMMA LeastIs ==
    ASSUME NEW S, S \subseteq Int, NEW m \in S, \A y \in S : m <= y
    PROVE  Min(S) = m
<1>1. \A x \in S : (\A y \in S : x <= y) => x = m
  OBVIOUS
<1> QED
  BY <1>1 DEF Min

AccountKinds == {"member", "friend", "donor"}
UserRow == [kind : AccountKinds, friend_on : Int, active : BOOLEAN, since : Int]
MembersTypes ==
    /\ user \in UserRow /\ terms \in [Slots -> TermRow]
    /\ today \in 1..LastTermDay /\ acts \in 0..MaxActs

\* A term is for life or ends before the lifetime plan does.
EndsInTime(D) ==
    \A t \in Slots : terms[t].ends = Forever \/ terms[t].ends <= LastTermDay + acts * D - 1
MembersInv(D) == MembersTypes /\ EndsInTime(D)

NoneLater == \A t \in Slots : terms[t].ends <= Forever

-----------------------------------------------------------------------------
(* The terms that follow each other from today on.                         *)

ActiveTerms == Having({"active"})
LaterThan(e) == {t \in ActiveTerms : terms[t].ends > e}
Next1(e) == IF Following(e) = {} THEN e ELSE Furthest(Following(e))

\* The last day of some terms is the last day of one of them.
LEMMA FurthestIs ==
    ASSUME MembersTypes, IsFiniteSet(Slots), NEW S \in SUBSET Slots, S # {}
    PROVE  /\ Furthest(S) \in Int
           /\ \E t \in S : terms[t].ends = Furthest(S)
           /\ \A t \in S : terms[t].ends <= Furthest(S)
<1> DEFINE ends == {terms[t].ends : t \in S}
           f == [t \in S |-> terms[t].ends]
<1>1. IsFiniteSet(S)
  BY FS_Subset
<1>2. f \in Surjection(S, ends)
  BY DEF Surjection
<1>3. IsFiniteSet(ends)
  BY <1>1, <1>2, FS_Surjection
<1>4. ends \subseteq Int /\ ends # {}
  BY DEF MembersTypes, TermRow
<1> HIDE DEF ends
<1>5. Max(ends) \in ends /\ \A y \in ends : Max(ends) >= y
  BY <1>3, <1>4, GreatestOf
<1>7. Furthest(S) = Max(ends)
  BY DEF Furthest, ends
<1> QED
  BY <1>4, <1>5, <1>7 DEF ends

\* An end that the terms lead on to from today, which no term that ends the coverage comes
\* before.
Reached(e) ==
    /\ e \in Int /\ e >= today /\ \E t \in ActiveTerms : terms[t].ends = e
    /\ \A t \in ActiveTerms :
          terms[t].ends >= today /\ (~\E f \in Slots : follower(t, f)) => terms[t].ends >= e

LEMMA FirstReached ==
    ASSUME MembersTypes, IsFiniteSet(Slots), Current # {}
    PROVE  Reached(Furthest(Current))
<1> DEFINE e == Furthest(Current)
<1>1. Current \subseteq ActiveTerms /\ Current \in SUBSET Slots
  BY DEF Current, covers, ActiveTerms, Having
<1>2. e \in Int /\ \E t \in Current : terms[t].ends = e
  BY <1>1, FurthestIs
<1>3. PICK c \in Current : terms[c].ends = e
  BY <1>2
<1> HIDE DEF e
<1>4. /\ c \in ActiveTerms /\ c \in Slots /\ terms[c].status = "active"
      /\ terms[c].starts <= today /\ terms[c].ends >= today
      /\ terms[c].starts \in Int /\ today \in Int
  BY <1>1, <1>3 DEF Current, covers, MembersTypes, TermRow
<1>5. ASSUME NEW t \in ActiveTerms, terms[t].ends >= today, ~\E f \in Slots : follower(t, f)
      PROVE  terms[t].ends >= e
  <2>1. terms[t].ends \in Int
    BY DEF MembersTypes, TermRow, ActiveTerms, Having
  <2>2. ~follower(t, c)
    BY <1>4, <1>5
  <2> QED
    BY <1>2, <1>3, <1>4, <1>5, <2>1, <2>2 DEF follower
<1> QED
  BY <1>2, <1>3, <1>4, <1>5 DEF Reached, e

LEMMA NextReached ==
    ASSUME MembersTypes, IsFiniteSet(Slots), NEW e, Reached(e)
    PROVE  /\ Reached(Next1(e))
           /\ Following(e) # {} =>
                 Cardinality(LaterThan(Next1(e))) + 1 <= Cardinality(LaterThan(e))
<1>0. e \in Int
  BY DEF Reached
<1>1. CASE Following(e) = {}
  BY <1>1 DEF Next1
<1>2. CASE Following(e) # {}
  <2> DEFINE n == Furthest(Following(e))
  <2>1. Following(e) \in SUBSET Slots
    BY DEF Following, Having
  <2>2. n \in Int /\ \E t \in Following(e) : terms[t].ends = n
    BY <1>2, <2>1, FurthestIs
  <2>3. PICK c \in Following(e) : terms[c].ends = n
    BY <2>2
  <2>4. Next1(e) = n
    BY <1>2 DEF Next1
  <2> HIDE DEF n
  <2>5. /\ c \in ActiveTerms /\ c \in Slots /\ terms[c].status = "active"
        /\ terms[c].starts <= e + 1 /\ n > e /\ terms[c].starts \in Int /\ today \in Int
    BY <2>1, <2>3 DEF Following, ActiveTerms, Having, MembersTypes, TermRow
  <2>6. ASSUME NEW t \in ActiveTerms, terms[t].ends >= today, ~\E f \in Slots : follower(t, f)
        PROVE  terms[t].ends >= n
    <3>1. terms[t].ends \in Int
      BY DEF MembersTypes, TermRow, ActiveTerms, Having
    <3>2. terms[t].ends >= e
      BY <2>6 DEF Reached
    <3>3. ~follower(t, c)
      BY <2>5, <2>6
    <3> QED
      BY <1>0, <2>2, <2>3, <2>5, <3>1, <3>2, <3>3 DEF follower
  <2>7. Reached(n)
    <3>1. n >= today
      BY <1>0, <2>2, <2>5 DEF Reached
    <3> QED
      BY <2>2, <2>3, <2>5, <2>6, <3>1 DEF Reached
  <2>8. Cardinality(LaterThan(n)) + 1 <= Cardinality(LaterThan(e))
    <3>1. IsFiniteSet(LaterThan(e))
      BY FS_Subset DEF LaterThan, ActiveTerms, Having
    <3>2. c \in LaterThan(e) /\ c \notin LaterThan(n)
      BY <2>2, <2>3, <2>5 DEF LaterThan
    <3>3. LaterThan(n) \subseteq LaterThan(e) \ {c}
      <4>1. \A t \in ActiveTerms : terms[t].ends \in Int
        BY DEF MembersTypes, TermRow, ActiveTerms, Having
      <4> QED
        BY <1>0, <2>2, <2>5, <3>2, <4>1 DEF LaterThan
    <3>4. /\ IsFiniteSet(LaterThan(e) \ {c})
          /\ Cardinality(LaterThan(e) \ {c}) = Cardinality(LaterThan(e)) - 1
      BY <3>1, <3>2, FS_RemoveElement
    <3>5. Cardinality(LaterThan(n)) <= Cardinality(LaterThan(e) \ {c})
      BY <3>3, <3>4, FS_Subset
    <3>6. Cardinality(LaterThan(n)) \in Nat /\ Cardinality(LaterThan(e)) \in Nat
      BY <3>1, <3>3, <3>4, FS_Subset, FS_CardinalityType
    <3> QED
      BY <3>4, <3>5, <3>6
  <2> QED
    BY <2>4, <2>7, <2>8
<1> QED
  BY <1>1, <1>2

\* The chain from the terms of today, one term after another: each link is an end they
\* reach, and by the last there is nothing to follow.
Chain(f) ==
    /\ f[0] = Furthest(Current)
    /\ \A n \in 1..Cardinality(Slots) : f[n] = Next1(f[n - 1])

LEMMA ChainEnds ==
    ASSUME MembersTypes, IsFiniteSet(Slots), Current # {}, NEW f, Chain(f)
    PROVE  LET e == f[Cardinality(Slots)] IN Reached(e) /\ Following(e) = {}
<1> DEFINE N == Cardinality(Slots)
           Good(n) == /\ Reached(f[n])
                      /\ \/ Following(f[n]) = {}
                         \/ n + 1 + Cardinality(LaterThan(f[n])) <= N
           Bad == {n \in Nat : n <= N /\ ~Good(n)}
<1>1. N \in Nat
  BY FS_CardinalityType
<1>2. \A e : IsFiniteSet(LaterThan(e)) /\ Cardinality(LaterThan(e)) \in Nat
  BY FS_Subset, FS_CardinalityType DEF LaterThan, ActiveTerms, Having
<1>3. Good(0)
  <2>1. Reached(f[0])
    BY FirstReached DEF Chain
  <2>2. PICK t \in ActiveTerms : terms[t].ends = f[0]
    BY <2>1 DEF Reached
  <2>3. t \in Slots /\ LaterThan(f[0]) \subseteq Slots \ {t}
    BY <2>1, <2>2 DEF LaterThan, ActiveTerms, Having, Reached
  <2>4. IsFiniteSet(Slots \ {t}) /\ Cardinality(Slots \ {t}) = N - 1
    BY <2>3, FS_RemoveElement
  <2>5. Cardinality(LaterThan(f[0])) <= N - 1
    BY <2>3, <2>4, FS_Subset
  <2> QED
    BY <1>1, <1>2, <2>1, <2>5
<1>4. ASSUME NEW n \in Nat, n + 1 <= N, Good(n)
      PROVE  Good(n + 1)
  <2>1. f[n + 1] = Next1(f[n])
    <3>1. n + 1 \in 1..N /\ (n + 1) - 1 = n
      BY <1>1, <1>4
    <3> QED
      BY <3>1 DEF Chain
  <2>2. Reached(f[n + 1])
    BY <1>4, <2>1, NextReached
  <2>3. CASE Following(f[n]) = {}
    BY <2>1, <2>2, <2>3 DEF Next1
  <2>4. CASE Following(f[n]) # {}
    <3>1. Cardinality(LaterThan(f[n + 1])) + 1 <= Cardinality(LaterThan(f[n]))
      BY <1>4, <2>1, <2>4, NextReached
    <3>2. n + 1 + Cardinality(LaterThan(f[n])) <= N
      BY <1>4, <2>4
    <3> QED
      BY <1>1, <1>2, <2>2, <3>1, <3>2
  <2> QED
    BY <2>3, <2>4
<1>5. Bad = {}
  <2> SUFFICES ASSUME Bad # {} PROVE FALSE
    OBVIOUS
  <2> HIDE DEF Good
  <2>1. PICK n \in Bad : \A k \in Bad : ~(<<k, n>> \in OpToRel(<, Nat))
    BY NatLessThanWellFounded, WFMin
  <2>2. n \in Nat /\ n <= N /\ ~Good(n) /\ \A k \in Bad : ~(k < n)
    BY <2>1 DEF OpToRel
  <2>3. n # 0
    BY <1>3, <2>2
  <2>4. n - 1 \in Nat /\ n - 1 < n /\ n - 1 <= N /\ (n - 1) + 1 = n
    BY <1>1, <2>2, <2>3
  <2>5. Good(n - 1)
    BY <2>2, <2>4
  <2> QED
    BY <1>4, <2>2, <2>4, <2>5
<1>6. Good(N)
  BY <1>1, <1>5
<1> QED
  BY <1>1, <1>2, <1>6

\* There is such a chain, and the coverage is where it ends.
LEMMA CoverageEnds ==
    ASSUME MembersTypes, IsFiniteSet(Slots), Current # {}
    PROVE  Reached(coverage) /\ Following(coverage) = {}
<1> DEFINE N == Cardinality(Slots)
           Rec(f, m) == f = [n \in 0..m |-> IF n = 0 THEN Furthest(Current)
                                ELSE IF Following(f[n - 1]) = {} THEN f[n - 1]
                                ELSE Furthest(Following(f[n - 1]))]
           Bad == {m \in Nat : ~\E f : Rec(f, m)}
<1>1. N \in Nat
  BY FS_CardinalityType
<1>2. \E f : Rec(f, 0)
  <2> DEFINE f == [n \in 0..0 |-> Furthest(Current)]
  <2>1. \A n \in 0..0 : n = 0
    OBVIOUS
  <2>2. Rec(f, 0)
    BY <2>1
  <2> QED
    BY <2>2
<1>3. ASSUME NEW m \in Nat, NEW f, Rec(f, m)
      PROVE  \E g : Rec(g, m + 1)
  <2> DEFINE g == [n \in 0..(m + 1) |-> IF n <= m THEN f[n] ELSE Next1(f[m])]
             next(h, n) == IF n = 0 THEN Furthest(Current)
                           ELSE IF Following(h[n - 1]) = {} THEN h[n - 1]
                           ELSE Furthest(Following(h[n - 1]))
  <2>1. \A n \in 0..m : f[n] = next(f, n)
    BY <1>3
  <2>2. ASSUME NEW n \in 0..(m + 1)
        PROVE  g[n] = next(g, n)
    <3>1. CASE n <= m
      <4>1. n \in 0..m /\ g[n] = f[n] /\ (n # 0 => n - 1 \in 0..(m + 1) /\ n - 1 <= m)
        BY <3>1
      <4>2. n # 0 => g[n - 1] = f[n - 1]
        BY <4>1
      <4> HIDE DEF g
      <4> QED
        BY <2>1, <4>1, <4>2
    <3>2. CASE n = m + 1
      <4>1. n # 0 /\ n - 1 = m /\ m \in 0..(m + 1) /\ m <= m /\ ~(n <= m)
        BY <3>2
      <4>2. g[n] = Next1(f[m]) /\ g[n - 1] = f[m]
        BY <4>1
      <4> HIDE DEF g
      <4> QED
        BY <4>1, <4>2 DEF Next1
    <3>3. n <= m \/ n = m + 1
      OBVIOUS
    <3> HIDE DEF g
    <3> QED
      BY <3>1, <3>2, <3>3
  <2>3. g = [n \in 0..(m + 1) |-> g[n]]
    OBVIOUS
  <2> HIDE DEF g
  <2>4. Rec(g, m + 1)
    BY <2>2, <2>3
  <2> QED
    BY <2>4
<1>4. Bad = {}
  <2> SUFFICES ASSUME Bad # {} PROVE FALSE
    OBVIOUS
  <2> HIDE DEF Rec
  <2>1. PICK n \in Bad : \A k \in Bad : ~(<<k, n>> \in OpToRel(<, Nat))
    BY NatLessThanWellFounded, WFMin
  <2>2. n \in Nat /\ (~\E f : Rec(f, n)) /\ \A k \in Bad : ~(k < n)
    BY <2>1 DEF OpToRel
  <2>3. n # 0
    BY <1>2, <2>2
  <2>4. n - 1 \in Nat /\ n - 1 < n /\ (n - 1) + 1 = n
    BY <2>2, <2>3
  <2>5. PICK f : Rec(f, n - 1)
    BY <2>2, <2>4
  <2> QED
    BY <1>3, <2>2, <2>4, <2>5
<1>5. \E f : Rec(f, N)
  BY <1>1, <1>4
<1> DEFINE chain == CHOOSE f : Rec(f, N)
<1>6. Rec(chain, N)
  BY <1>5
<1>7. coverage = chain[N]
  BY DEF coverage
<1> HIDE DEF chain
<1>8. Chain(chain)
  <2>1. 0 \in 0..N
    BY <1>1
  <2>2. chain[0] = Furthest(Current)
    BY <1>6, <2>1
  <2>3. ASSUME NEW n \in 1..N
        PROVE  chain[n] = Next1(chain[n - 1])
    <3>1. n \in 0..N /\ n # 0
      BY <1>1
    <3> QED
      BY <1>6, <3>1 DEF Next1
  <2> QED
    BY <2>2, <2>3 DEF Chain
<1> QED
  BY <1>7, <1>8, ChainEnds

\* The list's query finds the same day: the least end that no term follows.
LEMMA CoverageAgrees ==
    ASSUME MembersTypes, IsFiniteSet(Slots), NoneLater, Forever \in Int, Current # {}
    PROVE  coverage \in Int /\ coverage = coverage_end
<1> DEFINE e == coverage
<1>1. Reached(e) /\ Following(e) = {}
  BY CoverageEnds
<1> HIDE DEF e
<1>2. /\ e \in Int /\ today \in Int
      /\ \A t \in Slots : terms[t].starts \in Int /\ terms[t].ends \in Int
  BY <1>1 DEF Reached, MembersTypes, TermRow
<1>3. PICK c \in ActiveTerms : terms[c].ends = e
  BY <1>1 DEF Reached
<1>4. c \in Having({"active"}) /\ c \in Slots /\ e >= today /\ e <= Forever
  BY <1>1, <1>3 DEF Reached, ActiveTerms, Having, NoneLater
<1>5. ~\E f \in Slots : follower(c, f)
  <2> SUFFICES ASSUME NEW f \in Slots, follower(c, f) PROVE FALSE
    OBVIOUS
  <2>1. f \in Following(e)
    BY <1>3 DEF follower, Following, Having
  <2> QED
    BY <1>1, <2>1
<1>6. \A b \in boundaries : b \in Int /\ b # Forever /\ b >= e /\ b <= Forever
  <2> SUFFICES ASSUME NEW t \in Having({"active"}), terms[t].ends # Forever,
                      terms[t].ends >= today, ~\E f \in Slots : follower(t, f)
               PROVE  /\ terms[t].ends \in Int /\ terms[t].ends >= e
                      /\ terms[t].ends <= Forever
    BY DEF boundaries
  <2> QED
    BY <1>1, <1>2 DEF Reached, ActiveTerms, Having, NoneLater
<1>7. CASE e = Forever
  <2>1. boundaries = {}
    BY <1>2, <1>6, <1>7
  <2> QED
    BY <1>2, <1>7, <2>1 DEF coverage_end, e
<1>8. CASE e # Forever
  <2>1. e \in boundaries
    BY <1>3, <1>4, <1>5, <1>8 DEF boundaries
  <2>2. boundaries \subseteq Int /\ \A b \in boundaries : e <= b
    BY <1>2, <1>6
  <2>3. Min(boundaries) = e
    BY <2>1, <2>2, LeastIs
  <2> QED
    BY <1>2, <2>1, <2>3 DEF coverage_end, e
<1> QED
  BY <1>7, <1>8

\* Member or friend: Python and the query agree.
LEMMA KindAgrees ==
    ASSUME MembersTypes
    PROVE  /\ effective_kind = account_kind /\ awaits_annotation = awaits_first_term
           /\ account_kind \in AccountKinds
           /\ awaits_first_term => user.kind = "member" /\ account_kind = "friend"
           /\ account_kind = "donor" <=> user.kind = "donor"
           /\ account_kind = "member" => user.kind = "member"
<1>1. user.kind \in AccountKinds /\ user.friend_on \in Int /\ today \in Int
  BY DEF MembersTypes, UserRow
<1>2. HasTerm <=> \E t \in Slots : terms[t].status \in MEMBER_MAKING /\ terms[t].starts <= today
  BY DEF HasTerm, Having
<1>3. FriendBy <=> ~(user.friend_on = NoDay \/ user.friend_on > today)
  BY <1>1 DEF FriendBy
<1>4. effective_kind = account_kind
  BY <1>2 DEF effective_kind, account_kind, FriendBy
<1>5. awaits_annotation <=> awaits_first_term
  BY <1>2, <1>3 DEF awaits_annotation, awaits_first_term, account_kind
<1>6. awaits_annotation \in BOOLEAN /\ awaits_first_term \in BOOLEAN
  BY DEF awaits_annotation, awaits_first_term
<1> QED
  BY <1>1, <1>4, <1>5, <1>6 DEF account_kind, awaits_first_term, AccountKinds

LEMMA TermsAgree ==
    ASSUME MembersTypes
    PROVE  /\ covers_today <=> Current # {}
           /\ started = Past
           /\ Past \in SUBSET Slots
  BY DEF covers_today, Current, covers, started, Past, Having, HeldTerms

\* So the two summaries are the same.
LEMMA SummariesAgree ==
    ASSUME MembersTypes, IsFiniteSet(Slots), NoneLater, Forever \in Int
    PROVE  membership_payload = membership_status
<1>1. CASE account_kind = "donor"
  BY <1>1, KindAgrees DEF membership_payload, membership_status
<1>2. CASE account_kind = "friend"
  BY <1>2, KindAgrees DEF membership_payload, membership_status
<1>3. CASE account_kind = "member" /\ Current # {}
  <2>1. effective_kind = "member" /\ covers_today
    BY <1>3, KindAgrees, TermsAgree
  <2>2. membership_payload = MembershipStatusDict("current", coverage_end)
    BY <2>1 DEF membership_payload
  <2>3. membership_status = MembershipStatusDict("current", coverage)
    BY <1>3 DEF membership_status
  <2> QED
    BY <1>3, <2>2, <2>3, CoverageAgrees
<1>4. CASE account_kind = "member" /\ Current = {} /\ Past # {}
  <2>1. effective_kind = "member" /\ ~covers_today /\ started = Past
    BY <1>4, KindAgrees, TermsAgree
  <2>2. membership_payload = MembershipStatusDict("expired", past_end)
    BY <1>4, <2>1 DEF membership_payload
  <2>3. membership_status = MembershipStatusDict("expired", Furthest(Past))
    BY <1>4 DEF membership_status
  <2> QED
    BY <1>4, <2>1, <2>2, <2>3 DEF past_end
<1>5. CASE account_kind = "member" /\ Current = {} /\ Past = {}
  <2>1. effective_kind = "member" /\ ~covers_today /\ started = {}
    BY <1>5, KindAgrees, TermsAgree
  <2>2. membership_payload = MembershipStatusDict("friend", NoDay)
    BY <2>1 DEF membership_payload
  <2>3. membership_status = MembershipStatusDict("friend", NoDay)
    BY <1>5 DEF membership_status
  <2> QED
    BY <2>2, <2>3
<1> QED
  BY <1>1, <1>2, <1>3, <1>4, <1>5, KindAgrees DEF AccountKinds

\* What the summary of an account says.
LEMMA StatusIs ==
    ASSUME MembersTypes, Forever \in Int
    PROVE  /\ account_kind = "donor" => membership_status = MembershipStatusDict("donor", NoDay)
           /\ account_kind = "friend" /\ awaits_first_term =>
                 membership_status = MembershipStatusDict("none", NoDay)
           /\ account_kind = "friend" /\ ~awaits_first_term =>
                 membership_status = MembershipStatusDict("friend", NoDay)
           /\ account_kind = "member" /\ Current # {} =>
                 membership_status = MembershipStatusDict("current", coverage)
           /\ account_kind = "member" /\ Current = {} /\ Past # {} =>
                 membership_status = MembershipStatusDict("expired", Furthest(Past))
           /\ account_kind = "member" /\ Current = {} /\ Past = {} =>
                 membership_status = MembershipStatusDict("friend", NoDay)
  BY DEF membership_status

LEMMA AnswersAgree ==
    ASSUME MembersTypes, IsFiniteSet(Slots), NoneLater, Forever \in Int, Forever > 0
    PROVE  SameAnswer
<1>1. membership_payload = membership_status
  BY SummariesAgree
<1> DEFINE s == membership_status
           States == {"donor", "none", "friend", "current", "expired"}
<1>2. /\ effective_kind = account_kind /\ awaits_annotation = awaits_first_term
      /\ account_kind \in AccountKinds /\ (covers_today <=> Current # {}) /\ started = Past
      /\ awaits_first_term => account_kind = "friend"
  BY KindAgrees, TermsAgree
<1>3. Forever # NoDay
  BY DEF NoDay
<1>4. /\ account_kind = "donor" => s.status = "donor"
      /\ account_kind = "friend" => s.status = IF awaits_first_term THEN "none" ELSE "friend"
      /\ account_kind = "member" => s.status = IF Current # {} THEN "current"
                                     ELSE IF Past # {} THEN "expired" ELSE "friend"
  BY StatusIs DEF MembershipStatusDict
<1>5. /\ account_kind = "friend" => s.expires_on = NoDay
      /\ account_kind = "member" /\ Current # {} =>
            /\ s.expires_on = IF coverage = Forever THEN NoDay ELSE coverage
            /\ s.is_lifetime = (coverage = Forever)
      /\ account_kind = "member" /\ Current = {} /\ Past # {} =>
            s.expires_on = IF Furthest(Past) = Forever THEN NoDay ELSE Furthest(Past)
      /\ account_kind = "member" /\ Current = {} /\ Past = {} => s.expires_on = NoDay
  BY <1>3, StatusIs DEF MembershipStatusDict
<1> HIDE DEF s
<1>6. \A state \in States : filter_status(state) <=> s.status = state
  <2>1. filter_status("donor") <=> s.status = "donor"
    BY <1>2, <1>4 DEF filter_status, AccountKinds
  <2>2. filter_status("none") <=> s.status = "none"
    BY <1>2, <1>4 DEF filter_status, AccountKinds
  <2>3. filter_status("friend") <=> s.status = "friend"
    BY <1>2, <1>4 DEF filter_status, AccountKinds
  <2>4. filter_status("current") <=> s.status = "current"
    BY <1>2, <1>4 DEF filter_status, AccountKinds
  <2>5. filter_status("expired") <=> s.status = "expired"
    BY <1>2, <1>4 DEF filter_status, AccountKinds
  <2> QED
    BY <2>1, <2>2, <2>3, <2>4, <2>5
<1>7. user.kind # "donor" => account_kind \in {"friend", "member"}
  BY KindAgrees DEF AccountKinds
<1>8. Current # {} => coverage \in Int /\ coverage = coverage_end
  BY CoverageAgrees
<1>9. user.kind # "donor" => effective_expiry = s.expires_on
  <2>1. CASE account_kind = "friend"
    BY <1>2, <1>5, <2>1 DEF effective_expiry
  <2>2. CASE account_kind = "member" /\ Current # {}
    BY <1>2, <1>5, <1>8, <2>2 DEF effective_expiry
  <2>3. CASE account_kind = "member" /\ Current = {}
    BY <1>2, <1>5, <2>3 DEF effective_expiry, past_end
  <2> QED
    BY <1>7, <2>1, <2>2, <2>3
<1>10. user.kind # "donor" => \A days \in 0..LastTermDay : filter_expiring_within(days) <=>
          s.status = "current" /\ ~s.is_lifetime /\ s.expires_on <= today + days
  <2>1. CASE account_kind = "friend"
    BY <1>2, <1>4, <2>1 DEF filter_expiring_within
  <2>2. CASE account_kind = "member" /\ Current # {}
    BY <1>2, <1>4, <1>5, <1>8, <2>2 DEF filter_expiring_within
  <2>3. CASE account_kind = "member" /\ Current = {}
    BY <1>2, <1>4, <2>3 DEF filter_expiring_within
  <2> QED
    BY <1>7, <2>1, <2>2, <2>3
<1>11. \A kind \in {"member", "friend", "donor"} : listed_kind_q(kind) <=> listed_kind = kind
  BY <1>2 DEF listed_kind_q, listed_kind, AccountKinds
<1> QED
  BY <1>1, <1>6, <1>9, <1>10, <1>11 DEF SameAnswer, s

-----------------------------------------------------------------------------
\* Writing a kind, or the day an account was first a member, leaves the row a row.
LEMMA UserRows ==
    ASSUME NEW u \in UserRow, NEW kind \in AccountKinds, NEW day \in Int
    PROVE  set_kind(u, kind) \in UserRow /\ stamp_member_since(u, day) \in UserRow
<1>1. [u EXCEPT !.kind = kind] \in UserRow
  BY DEF UserRow
<1> DEFINE one == [u EXCEPT !.kind = kind]
<1>2. set_kind(u, kind) = [one EXCEPT !.friend_on = NoDay]
  BY DEF set_kind
<1> HIDE DEF one
<1>3. one \in UserRow
  BY <1>1 DEF one
<1>4. set_kind(u, kind) \in UserRow
  BY <1>2, <1>3 DEF UserRow, NoDay
<1>5. stamp_member_since(u, day) \in UserRow
  BY DEF stamp_member_since, UserRow
<1> QED
  BY <1>4, <1>5

LEMMA StatusRows ==
    ASSUME MembersTypes, NEW S, NEW status \in TermStatus
    PROVE  /\ WithStatus(S, status) \in [Slots -> TermRow]
           /\ \A t \in Slots : WithStatus(S, status)[t].ends = terms[t].ends
<1>1. \A t \in Slots : /\ [terms[t] EXCEPT !.status = status] \in TermRow
                       /\ [terms[t] EXCEPT !.status = status].ends = terms[t].ends
  BY DEF MembersTypes, TermRow
<1> QED
  BY <1>1 DEF MembersTypes, WithStatus

\* Each call moves the latest end a term can have by the longest plan at most.
LEMMA CallsReach ==
    ASSUME NEW D \in Nat \ {0}, LastTermDay \in Nat \ {0}, MaxActs \in Nat, NEW n \in 0..MaxActs
    PROVE  /\ n * D \in Nat /\ (n + 1) * D = n * D + D /\ n * D <= MaxActs * D
           /\ MaxActs * D \in Nat
<1>1. n * D \in Nat /\ MaxActs * D \in Nat
  OBVIOUS
<1>2. (n + 1) * D = n * D + D
  OBVIOUS
<1>3. PICK m \in Nat : MaxActs = n + m
  <2>1. MaxActs - n \in Nat /\ MaxActs = n + (MaxActs - n)
    OBVIOUS
  <2> QED
    BY <2>1
<1>4. (n + m) * D = n * D + m * D /\ m * D \in Nat
  OBVIOUS
<1>5. n * D <= MaxActs * D
  BY <1>1, <1>3, <1>4
<1> QED
  BY <1>1, <1>2, <1>5

LEMMA EndsHold ==
    ASSUME MembershipValues, NEW D \in Nat \ {0}, MembersInv(D)
    PROVE  /\ Fits(D) => NoneLater
           /\ latest_expiry \in Int
           /\ StartOn \in Int
           /\ StartOn <= LastTermDay + acts * D
<1>1. /\ LastTermDay \in Nat \ {0} /\ MaxActs \in Nat /\ acts \in 0..MaxActs /\ Forever \in Int
      /\ today \in 1..LastTermDay
  BY DEF MembershipValues, MembersInv, MembersTypes
<1>2. acts * D \in Nat /\ acts * D <= MaxActs * D /\ MaxActs * D \in Nat
  BY <1>1, CallsReach
<1>3. \A t \in Slots : /\ terms[t].ends \in Int
                       /\ terms[t].ends = Forever \/ terms[t].ends <= LastTermDay + acts * D - 1
  BY DEF MembersInv, MembersTypes, EndsInTime, TermRow
<1> DEFINE base == acts * D
           most == MaxActs * D
<1>4. base \in Nat /\ most \in Nat /\ base <= most
  BY <1>2
<1>5. Fits(D) => LastTermDay + most - 1 < Forever
  BY DEF Fits
<1>6. \A t \in Slots : /\ terms[t].ends \in Int
                       /\ terms[t].ends = Forever \/ terms[t].ends <= LastTermDay + base - 1
  BY <1>3
<1> HIDE DEF base, most
<1>7. Fits(D) => NoneLater
  BY <1>1, <1>4, <1>5, <1>6 DEF NoneLater
<1> DEFINE S == {terms[t].ends : t \in Having(COVERING)}
           f == [t \in Having(COVERING) |-> terms[t].ends]
<1>8. IsFiniteSet(Having(COVERING)) /\ f \in Surjection(Having(COVERING), S)
  BY FS_Subset DEF MembershipValues, Having, Surjection
<1>9. IsFiniteSet(S \union {NoDay})
  BY <1>8, FS_Surjection, FS_AddElement
<1>10. \A x \in S \union {NoDay} : x \in Int /\ (x = Forever \/ x <= LastTermDay + base - 1)
  BY <1>1, <1>4, <1>6 DEF Having, NoDay
<1> HIDE DEF S
<1>11. Max(S \union {NoDay}) \in S \union {NoDay}
  <2>1. S \union {NoDay} \subseteq Int
    BY <1>10
  <2> QED
    BY <1>9, <2>1, GreatestOf
<1>12. latest_expiry \in Int /\ (latest_expiry = Forever \/ latest_expiry <= LastTermDay + base - 1)
  BY <1>10, <1>11 DEF latest_expiry, S
<1>13. StartOn \in Int /\ StartOn <= LastTermDay + base
  BY <1>1, <1>4, <1>12 DEF StartOn
<1> QED
  BY <1>7, <1>12, <1>13 DEF base

\* A term begun in reach ends in reach.
LEMMA TermBegins ==
    ASSUME MembershipValues, NEW D \in Nat \ {0}, Fits(D), MembersInv(D), Act,
           NEW days \in Durations, NEW start \in Int, start <= LastTermDay + acts * D,
           activate_term(days, start), today' = today
    PROVE  MembersInv(D)'
<1>1. /\ LastTermDay \in Nat \ {0} /\ MaxActs \in Nat /\ acts \in 0..MaxActs /\ Forever \in Int
      /\ acts' = acts + 1 /\ acts' \in 0..MaxActs
      /\ days \in Nat /\ (days = Forever \/ days <= D)
  BY DEF MembershipValues, MembersInv, MembersTypes, Act, Fits
<1>2. acts * D \in Nat /\ (acts + 1) * D = acts * D + D
  BY <1>1, CallsReach
<1> DEFINE base == acts * D
           ends == IF days = Forever THEN Forever ELSE start + days - 1
           newRow == [status |-> IF user.active THEN "active" ELSE "suspended",
                   starts |-> start, ends |-> ends]
<1>3. base \in Nat /\ acts' * D = base + D /\ start <= LastTermDay + base
  BY <1>1, <1>2
<1>4. \A t \in Slots : terms[t].ends = Forever \/ terms[t].ends <= LastTermDay + base - 1
  BY DEF MembersInv, EndsInTime
<1> HIDE DEF base
<1>5. ends \in Int /\ (ends = Forever \/ ends <= LastTermDay + (base + D) - 1)
  BY <1>1, <1>3
<1> HIDE DEF ends
<1>6. newRow \in TermRow /\ newRow.ends = ends
  BY <1>5 DEF TermRow, TermStatus
<1>7. terms' = [terms EXCEPT ![Min(Free)] = newRow]
  BY DEF activate_term, ends
<1> HIDE DEF newRow
<1>8. terms' \in [Slots -> TermRow]
  BY <1>6, <1>7 DEF MembersInv, MembersTypes
<1>9. \A t \in Slots : terms'[t] = terms[t] \/ terms'[t] = newRow
  BY <1>7 DEF MembersInv, MembersTypes
<1>10. \A t \in Slots : terms[t].ends \in Int
  BY DEF MembersInv, MembersTypes, TermRow
<1>11. \A t \in Slots : terms'[t].ends = Forever \/ terms'[t].ends <= LastTermDay + (base + D) - 1
  BY <1>1, <1>3, <1>4, <1>5, <1>6, <1>9, <1>10
<1>12. EndsInTime(D)'
  BY <1>3, <1>11 DEF EndsInTime
<1>13. user' \in UserRow
  <2>1. user \in UserRow /\ "member" \in AccountKinds
    BY DEF MembersInv, MembersTypes, AccountKinds
  <2>2. stamp_member_since(user, start) \in UserRow
    BY <2>1, UserRows
  <2>3. set_kind(stamp_member_since(user, start), "member") \in UserRow
    BY <2>1, <2>2, UserRows
  <2> QED
    BY <2>2, <2>3 DEF activate_term
<1> QED
  BY <1>1, <1>8, <1>12, <1>13 DEF MembersInv, MembersTypes

\* A step that changes no end, or but one within reach, and counts its call, keeps them.
LEMMA EndsStay ==
    ASSUME MembershipValues, NEW D \in Nat \ {0}, MembersInv(D),
           acts' = acts \/ Act, terms' \in [Slots -> TermRow],
           \A t \in Slots : terms'[t].ends = terms[t].ends
                            \/ (acts' # acts /\ terms'[t].ends \in (1..LastTermDay) \union {Forever})
    PROVE  EndsInTime(D)' /\ acts' \in 0..MaxActs
<1>1. /\ LastTermDay \in Nat \ {0} /\ MaxActs \in Nat /\ acts \in 0..MaxActs /\ Forever \in Int
      /\ acts' \in 0..MaxActs /\ (acts' = acts \/ acts' = acts + 1)
  BY DEF MembershipValues, MembersInv, MembersTypes, Act
<1>2. acts * D \in Nat /\ (acts + 1) * D = acts * D + D
  BY <1>1, CallsReach
<1> DEFINE base == acts * D
           next == acts' * D
<1>3. base \in Nat /\ (acts' = acts => next = base) /\ (acts' # acts => next = base + D)
  BY <1>1, <1>2
<1>4. \A t \in Slots : terms[t].ends = Forever \/ terms[t].ends <= LastTermDay + base - 1
  BY DEF MembersInv, EndsInTime
<1> HIDE DEF base, next
<1>5. \A t \in Slots : terms[t].ends \in Int /\ terms'[t].ends \in Int
  BY DEF MembersInv, MembersTypes, TermRow
<1>6. \A t \in Slots : terms'[t].ends = Forever \/ terms'[t].ends <= LastTermDay + next - 1
  BY <1>1, <1>3, <1>4, <1>5
<1> QED
  BY <1>1, <1>6 DEF EndsInTime, next

\* Every step but a term's purchase: it leaves the ends, or moves one within reach.
LEMMA TermsKept ==
    ASSUME MembershipValues, NEW D \in Nat \ {0}, Fits(D), MembersInv(D),
           acts' = acts \/ Act, today' = today, user' \in UserRow,
           terms' \in [Slots -> TermRow],
           \A t \in Slots : terms'[t].ends = terms[t].ends
                            \/ (acts' # acts /\ terms'[t].ends \in (1..LastTermDay) \union {Forever})
    PROVE  MembersInv(D)'
  BY EndsStay DEF MembersInv, MembersTypes

\* A member who leaves later leaves on a day.
LEMMA FriendDay ==
    ASSUME MembershipValues, NEW D \in Nat \ {0}, Fits(D), MembersInv(D),
           membership_status.status = "current"
    PROVE  membership_status.expires_on + 1 \in Int
<1>1. MembersTypes /\ IsFiniteSet(Slots) /\ NoneLater /\ Forever \in Int
  BY EndsHold DEF MembersInv, MembershipValues
<1>2. account_kind \in AccountKinds
  BY <1>1, KindAgrees
<1>3. account_kind = "member" /\ Current # {}
  BY <1>1, <1>2, StatusIs DEF MembershipStatusDict, AccountKinds
<1>4. membership_status = MembershipStatusDict("current", coverage)
  BY <1>1, <1>3, StatusIs
<1>5. coverage \in Int
  BY <1>1, <1>3, CoverageAgrees
<1> QED
  BY <1>4, <1>5 DEF MembershipStatusDict, NoDay

LEMMA MembershipStep ==
    ASSUME MembershipValues, NEW D \in Nat \ {0}, Fits(D), MembersInv(D),
           [MembershipNext]_memberVars
    PROVE  MembersInv(D)'
<1>0. /\ user \in UserRow /\ terms \in [Slots -> TermRow] /\ MembersTypes
      /\ today \in 1..LastTermDay /\ acts \in 0..MaxActs
      /\ \A t \in Slots : terms[t] \in TermRow
      /\ {"member", "friend"} \subseteq AccountKinds
      /\ {"active", "expired", "suspended", "canceled"} \subseteq TermStatus
  BY DEF MembersInv, MembersTypes, AccountKinds, TermStatus
<1>1. ASSUME NEW days \in Durations, Pay(days)
      PROVE  MembersInv(D)'
  BY <1>1, EndsHold, TermBegins DEF Pay
<1>2. ASSUME NEW days \in Durations, NEW start \in 0..LastTermDay, grant_term(days, start)
      PROVE  MembersInv(D)'
  <2> DEFINE from == IF start = NoDay THEN StartOn ELSE start
  <2>1. from \in Int /\ from <= LastTermDay + acts * D
    <3>1. LastTermDay \in Nat \ {0} /\ MaxActs \in Nat
      BY DEF MembershipValues
    <3>2. acts * D \in Nat
      BY <1>0, <3>1, CallsReach
    <3>3. start <= LastTermDay + acts * D
      BY <3>1, <3>2
    <3> QED
      BY <3>3, EndsHold
  <2>2. activate_term(days, from) /\ Act /\ today' = today
    BY <1>2 DEF grant_term
  <2> HIDE DEF from
  <2> QED
    BY <2>1, <2>2, TermBegins
<1>3. ASSUME NEW t \in Slots, cancel_term(t)
      PROVE  MembersInv(D)'
  <2>1. terms' = WithStatus({t}, "canceled") /\ Act /\ UNCHANGED <<user, today>>
    BY <1>3 DEF cancel_term
  <2> QED
    BY <1>0, <2>1, StatusRows, TermsKept
<1>4. ASSUME NEW t \in Slots, NEW status \in MEMBER_MAKING \union NOT_PAST,
             NEW end \in (1..LastTermDay) \union {Forever}, CorrectTerm(t, status, end)
      PROVE  MembersInv(D)'
  <2> DEFINE one == [terms[t] EXCEPT !.status = status]
             newRow == [one EXCEPT !.ends = end]
  <2>1. status \in TermStatus /\ end \in Int
    BY DEF MEMBER_MAKING, NOT_PAST, TermStatus, MembershipValues
  <2>2. one \in TermRow
    BY <1>0, <2>1 DEF TermRow
  <2>3. terms' = [terms EXCEPT ![t] = newRow] /\ Act /\ UNCHANGED <<user, today>>
    BY <1>4 DEF CorrectTerm
  <2> HIDE DEF one
  <2>4. newRow \in TermRow /\ newRow.ends = end
    BY <2>1, <2>2 DEF TermRow
  <2> HIDE DEF newRow
  <2>5. terms' \in [Slots -> TermRow] /\ acts' # acts
    BY <1>0, <2>3, <2>4 DEF Act
  <2>6. \A u \in Slots : terms'[u].ends = terms[u].ends
                         \/ (acts' # acts /\ terms'[u].ends \in (1..LastTermDay) \union {Forever})
    BY <1>0, <2>3, <2>4, <2>5
  <2> QED
    BY <1>0, <2>3, <2>5, <2>6, TermsKept
<1>5. CASE suspend_terms
  <2>1. user' \in UserRow
    BY <1>0, <1>5 DEF suspend_terms, UserRow
  <2>2. Act /\ today' = today
        /\ terms' = WithStatus({t \in Having({"active"}) : terms[t].ends >= today}, "suspended")
    BY <1>5 DEF suspend_terms
  <2> QED
    BY <1>0, <2>1, <2>2, StatusRows, TermsKept
<1>6. CASE restore_terms
  <2>1. user' \in UserRow
    BY <1>0, <1>6 DEF restore_terms, UserRow
  <2>2. \A t \in Slots, status \in TermStatus :
           /\ [terms[t] EXCEPT !.status = status] \in TermRow
           /\ [terms[t] EXCEPT !.status = status].ends = terms[t].ends
    BY <1>0 DEF TermRow
  <2>3. Act /\ today' = today
        /\ terms' = [t \in Slots |->
             IF terms[t].status # "suspended" THEN terms[t]
             ELSE [terms[t] EXCEPT !.status = IF terms[t].ends >= today THEN "active"
                                              ELSE "expired"]]
    BY <1>6 DEF restore_terms
  <2>4. \A t \in Slots : terms'[t] \in TermRow /\ terms'[t].ends = terms[t].ends
    BY <1>0, <2>2, <2>3
  <2>5. terms' \in [Slots -> TermRow]
    BY <2>3, <2>4
  <2> QED
    BY <2>1, <2>3, <2>4, <2>5, TermsKept
<1>7. CASE become_friend
  <2>1. Act /\ UNCHANGED <<terms, today>>
    BY <1>7 DEF become_friend
  <2>2. user' \in UserRow
    <3>1. CASE membership_status.status = "current"
      <4> DEFINE day == membership_status.expires_on + 1
      <4>1. day \in Int
        BY <3>1, FriendDay
      <4>2. user' = [user EXCEPT !.friend_on = day]
        BY <1>7, <3>1 DEF become_friend
      <4> HIDE DEF day
      <4> QED
        BY <1>0, <4>1, <4>2 DEF UserRow
    <3>2. CASE membership_status.status # "current"
      <4>1. user' = set_kind(user, "friend")
        BY <1>7, <3>2 DEF become_friend
      <4> QED
        BY <1>0, <4>1, UserRows DEF NoDay
    <3> QED
      BY <3>1, <3>2
  <2> QED
    BY <1>0, <2>1, <2>2, TermsKept
<1>8. CASE undo_become_friend
  <2>1. Act /\ UNCHANGED <<terms, today>> /\ user' = [user EXCEPT !.friend_on = NoDay]
    BY <1>8 DEF undo_become_friend
  <2>2. user' \in UserRow
    BY <1>0, <2>1 DEF UserRow, NoDay
  <2> QED
    BY <1>0, <2>1, <2>2, TermsKept
<1>9. ASSUME NEW kind \in {"member", "friend"}, update_account(kind) \/ upgrade_donor(kind)
      PROVE  MembersInv(D)'
  <2>1. Act /\ UNCHANGED <<terms, today>> /\ user' = set_kind(user, kind)
    BY <1>9 DEF update_account, upgrade_donor
  <2>2. user' \in UserRow
    BY <1>0, <2>1, UserRows DEF NoDay
  <2> QED
    BY <1>0, <2>1, <2>2, TermsKept
<1>10. CASE expire_lapsed_memberships
  <2>1. acts' = acts /\ UNCHANGED <<user, today>> /\ terms' = Expired
    BY <1>10 DEF expire_lapsed_memberships
  <2> QED
    BY <1>0, <2>1, StatusRows, TermsKept DEF Expired
<1>11. CASE convert_due_friends
  <2>1. acts' = acts /\ UNCHANGED <<terms, today>> /\ user' \in {set_kind(user, "friend"), user}
    BY <1>11 DEF convert_due_friends
  <2>2. user' \in UserRow
    BY <1>0, <2>1, UserRows DEF NoDay
  <2> QED
    BY <1>0, <2>1, <2>2, TermsKept
<1>12. CASE NextDay
  <2>1. today' \in 1..LastTermDay /\ UNCHANGED <<user, terms, acts>>
    BY <1>0, <1>12 DEF NextDay, MembershipValues
  <2> QED
    BY <1>0, <2>1 DEF MembersInv, MembersTypes, EndsInTime
<1>13. CASE UNCHANGED memberVars
  BY <1>13 DEF MembersInv, MembersTypes, EndsInTime, memberVars
<1> QED
  BY <1>1, <1>2, <1>3, <1>4, <1>5, <1>6, <1>7, <1>8, <1>9, <1>10, <1>11, <1>12, <1>13
  DEF MembershipNext, MemberStep

\* Whatever an account's terms and however they follow, overlap or leave gaps, its own page,
\* the members' list and the list's filters say the same of it.
THEOREM StandingsAgree == MembershipValues => (MembershipSpec => []SameAnswer)
<1> SUFFICES ASSUME MembershipValues PROVE MembershipSpec => []SameAnswer
  OBVIOUS
<1>1. PICK D \in Nat \ {0} : Fits(D)
  <2>1. 1..Forever \subseteq Nat \ {0}
    BY DEF MembershipValues
  <2> QED
    BY <2>1 DEF MembershipValues
<1>2. MembershipInit => MembersInv(D)
  <2> SUFFICES ASSUME MembershipInit PROVE MembersInv(D)
    OBVIOUS
  <2>1. NoTerm \in TermRow /\ NoTerm.ends = 0
    BY DEF NoTerm, TermRow, TermStatus, NoDay
  <2>2. terms \in [Slots -> TermRow] /\ \A t \in Slots : terms[t].ends = 0
    BY <2>1 DEF MembershipInit
  <2>3. user \in UserRow
    <3>1. user \in [kind : {"member", "friend", "donor"}, friend_on : {0}, active : {TRUE},
                    since : {0}]
      BY DEF MembershipInit, NoDay
    <3>2. /\ {0} \subseteq Int /\ {TRUE} \subseteq BOOLEAN
          /\ {"member", "friend", "donor"} \subseteq AccountKinds
      BY DEF AccountKinds
    <3> DEFINE A == {TRUE}
    <3>3. A \subseteq BOOLEAN
      OBVIOUS
    <3>4. user \in [kind : {"member", "friend", "donor"}, friend_on : {0}, active : A, since : {0}]
      BY <3>1
    <3> HIDE DEF A
    <3> QED
      BY <3>2, <3>3, <3>4 DEF UserRow
  <2>4. acts * D = 0 /\ LastTermDay - 1 >= 0
    BY DEF MembershipInit, MembershipValues
  <2> QED
    BY <2>2, <2>3, <2>4 DEF MembershipInit, MembershipValues, MembersInv, MembersTypes,
       EndsInTime
<1>3. MembersInv(D) /\ [MembershipNext]_memberVars => MembersInv(D)'
  BY <1>1, MembershipStep
<1>4. MembersInv(D) => SameAnswer
  <2> SUFFICES ASSUME MembersInv(D) PROVE SameAnswer
    OBVIOUS
  <2>1. MembersTypes /\ IsFiniteSet(Slots) /\ NoneLater /\ Forever \in Int
    BY <1>1, EndsHold DEF MembersInv, MembershipValues
  <2>2. Forever > 0
    <3>1. MaxActs * D \in Nat /\ LastTermDay \in Nat \ {0}
      BY CallsReach DEF MembershipValues
    <3> QED
      BY <1>1, <2>1, <3>1 DEF Fits
  <2> QED
    BY <2>1, <2>2, AnswersAgree
<1> QED
  BY <1>2, <1>3, <1>4, PTL DEF MembershipSpec

-----------------------------------------------------------------------------
(* Reminders.                                                              *)

\* A scan has its fields, and the counts are counts.
ReminderTypes ==
    /\ DOMAIN scan = Scans /\ scan = [r \in Scans |-> scan[r]]
    /\ \A r \in Scans : scan[r] = [at |-> scan[r].at, kind |-> scan[r].kind,
                                   left |-> scan[r].left, day |-> scan[r].day,
                                   slot |-> scan[r].slot]
    /\ inbox \in [Pairs -> Nat] /\ lost \in [Pairs -> Nat]

\* A scan about to send has its row filed, and every earlier copy under that row is one
\* whose acceptance was lost; no two scans are about to send the same one.
FiledFirst ==
    \A r \in Scans : scan[r].at = "filed" =>
        /\ Pair(r) \in log
        /\ Pair(r) \in Pairs => inbox[Pair(r)] <= lost[Pair(r)]
        /\ \A q \in Scans : scan[q].at = "filed" /\ Pair(q) = Pair(r) => q = r

\* Where no row stands, every copy is one whose acceptance was lost.
UnfiledLost == \A p \in Pairs : p \notin log => inbox[p] <= lost[p]

RemindersInv == ReminderTypes /\ FiledFirst /\ UnfiledLost /\ CopiesOnce

\* Nothing added is nothing changed.
LEMMA SameCounts ==
    ASSUME NEW count \in [Pairs -> Nat], NEW p
    PROVE  count = [count EXCEPT ![p] = @ + 0]
  OBVIOUS

\* One more, or none, of one pair.
LEMMA CountsUp ==
    ASSUME NEW count \in [Pairs -> Nat], NEW p, NEW n \in 0..1, NEW after,
           after = [count EXCEPT ![p] = @ + n]
    PROVE  /\ after \in [Pairs -> Nat]
           /\ \A q \in Pairs : after[q] = IF q = p THEN count[q] + n ELSE count[q]
<1>1. \A q \in Pairs : after[q] = IF q = p THEN count[q] + n ELSE count[q]
  OBVIOUS
<1>2. \A q \in Pairs : after[q] \in Nat
  BY <1>1
<1> QED
  BY <1>1, <1>2

\* A step that leaves the scans' rows and the copies as they are, with no scan newly about
\* to send, keeps the invariant.
LEMMA RemindersElsewhere ==
    ASSUME RemindersInv, UNCHANGED <<log, inbox, lost>>, NEW r \in Scans, NEW new,
           new = [at |-> new.at, kind |-> new.kind, left |-> new.left, day |-> new.day,
                  slot |-> new.slot],
           new.at # "filed", scan' = [scan EXCEPT ![r] = new]
    PROVE  RemindersInv'
<1>1. scan' = [q \in Scans |-> IF q = r THEN new ELSE scan[q]]
  BY DEF RemindersInv, ReminderTypes
<1>2. ReminderTypes'
  <2>1. DOMAIN scan' = Scans /\ scan' = [q \in Scans |-> scan'[q]]
    BY <1>1
  <2>2. \A q \in Scans :
           scan'[q] = [at |-> scan'[q].at, kind |-> scan'[q].kind, left |-> scan'[q].left,
                       day |-> scan'[q].day, slot |-> scan'[q].slot]
    <3> SUFFICES ASSUME NEW q \in Scans
                 PROVE  scan'[q] = [at |-> scan'[q].at, kind |-> scan'[q].kind,
                                    left |-> scan'[q].left, day |-> scan'[q].day,
                                    slot |-> scan'[q].slot]
      OBVIOUS
    <3>1. CASE q = r
      <4>1. scan'[q] = new
        BY <3>1, <1>1
      <4> QED
        BY <4>1
    <3>2. CASE q # r
      <4>1. scan'[q] = scan[q]
        BY <3>2, <1>1
      <4> QED
        BY <4>1 DEF RemindersInv, ReminderTypes
    <3> QED
      BY <3>1, <3>2
  <2> QED
    BY <2>1, <2>2 DEF RemindersInv, ReminderTypes
<1>3. FiledFirst'
  <2> SUFFICES ASSUME NEW q \in Scans, scan'[q].at = "filed"
               PROVE  /\ Pair(q)' \in log
                      /\ Pair(q)' \in Pairs => inbox[Pair(q)'] <= lost[Pair(q)']
                      /\ \A s \in Scans : scan'[s].at = "filed" /\ Pair(s)' = Pair(q)' => s = q
    BY DEF FiledFirst
  <2>1. \A s \in Scans : scan'[s].at = "filed" => scan'[s] = scan[s]
    BY <1>1
  <2>2. \A s \in Scans : scan'[s].at = "filed" => scan[s].at = "filed" /\ Pair(s)' = Pair(s)
    BY <2>1 DEF Pair
  <2> QED
    BY <2>2 DEF RemindersInv, FiledFirst
<1> QED
  BY <1>2, <1>3 DEF RemindersInv, UnfiledLost, CopiesOnce

\* Filing: the scan that files the row is the only one about to send under it.
LEMMA FileRowKeeps ==
    ASSUME RemindersInv, NEW r \in Scans, FileRow(r)
    PROVE  RemindersInv'
<1> DEFINE new == [scan[r] EXCEPT !.at = IF Filed(Pair(r)) THEN "filed" ELSE "stage"]
<1>1. scan' = [q \in Scans |-> IF q = r THEN new ELSE scan[q]]
  BY DEF RemindersInv, ReminderTypes, FileRow
<1>2. /\ new = [at |-> new.at, kind |-> scan[r].kind, left |-> scan[r].left,
                day |-> scan[r].day, slot |-> scan[r].slot]
      /\ new.at = IF Filed(Pair(r)) THEN "filed" ELSE "stage"
  <2>1. scan[r] = [at |-> scan[r].at, kind |-> scan[r].kind, left |-> scan[r].left,
                   day |-> scan[r].day, slot |-> scan[r].slot]
    BY DEF RemindersInv, ReminderTypes
  <2> QED
    BY <2>1
<1>3. UNCHANGED <<inbox, lost>> /\ log' = log \union {Pair(r)} /\ scan[r].at = "read"
  BY DEF FileRow
<1> HIDE DEF new
<1>4. \A q \in Scans : Pair(q)' = Pair(q)
  BY <1>1, <1>2 DEF Pair
<1>5. \A q \in Scans : scan'[q].at = "filed" =>
         \/ q # r /\ scan[q].at = "filed"
         \/ q = r /\ Pair(r) \notin log
  BY <1>1, <1>2 DEF Filed
<1>6. FiledFirst'
  <2> SUFFICES ASSUME NEW q \in Scans, scan'[q].at = "filed"
               PROVE  /\ Pair(q) \in log'
                      /\ Pair(q) \in Pairs => inbox[Pair(q)] <= lost[Pair(q)]
                      /\ \A s \in Scans : scan'[s].at = "filed" /\ Pair(s) = Pair(q) => s = q
    BY <1>3, <1>4 DEF FiledFirst
  <2> QED
    BY <1>3, <1>5 DEF RemindersInv, FiledFirst, UnfiledLost
<1>7. ReminderTypes'
  <2>1. \A q \in Scans :
           scan'[q] = [at |-> scan'[q].at, kind |-> scan'[q].kind, left |-> scan'[q].left,
                       day |-> scan'[q].day, slot |-> scan'[q].slot]
    <3> SUFFICES ASSUME NEW q \in Scans
                 PROVE  scan'[q] = [at |-> scan'[q].at, kind |-> scan'[q].kind,
                                    left |-> scan'[q].left, day |-> scan'[q].day,
                                    slot |-> scan'[q].slot]
      OBVIOUS
    <3>1. CASE q = r
      <4>1. scan'[q] = new
        BY <3>1, <1>1
      <4> QED
        BY <4>1, <1>2
    <3>2. CASE q # r
      <4>1. scan'[q] = scan[q]
        BY <3>2, <1>1
      <4> QED
        BY <4>1 DEF RemindersInv, ReminderTypes
    <3> QED
      BY <3>1, <3>2
  <2> QED
    BY <1>1, <1>3, <2>1 DEF RemindersInv, ReminderTypes
<1> QED
  BY <1>3, <1>6, <1>7 DEF RemindersInv, UnfiledLost, CopiesOnce

\* A scan lets go of a row it was about to send under.  A copy may have gone out; if so the
\* row stays, or the copy's acceptance was lost.
LEMMA LetGoKeeps ==
    ASSUME RemindersInv, NEW r \in Scans, scan[r].at = "filed", NEW new,
           new = [at |-> new.at, kind |-> new.kind, left |-> new.left, day |-> new.day,
                  slot |-> new.slot],
           new.at # "filed", scan' = [scan EXCEPT ![r] = new],
           NEW sent \in 0..1, NEW unheard \in 0..1,
           inbox' = [inbox EXCEPT ![Pair(r)] = @ + sent],
           lost' = [lost EXCEPT ![Pair(r)] = @ + unheard],
           log' = log \/ (log' = log \ {Pair(r)} /\ sent <= unheard)
    PROVE  RemindersInv'
<1>1. scan' = [q \in Scans |-> IF q = r THEN new ELSE scan[q]]
  BY DEF RemindersInv, ReminderTypes
<1>2. \A q \in Scans : scan'[q].at = "filed" =>
         /\ q # r /\ scan[q].at = "filed" /\ Pair(q)' = Pair(q) /\ Pair(q) # Pair(r)
  <2> SUFFICES ASSUME NEW q \in Scans, scan'[q].at = "filed"
               PROVE  /\ q # r /\ scan[q].at = "filed" /\ Pair(q)' = Pair(q)
                      /\ Pair(q) # Pair(r)
    OBVIOUS
  <2>1. q # r /\ scan'[q] = scan[q]
    BY <1>1
  <2>2. Pair(q)' = Pair(q) /\ scan[q].at = "filed"
    BY <2>1 DEF Pair
  <2>3. \A s \in Scans : scan[s].at = "filed" /\ Pair(s) = Pair(r) => s = r
    BY DEF RemindersInv, FiledFirst
  <2> QED
    BY <2>1, <2>2, <2>3
<1>3. /\ inbox' \in [Pairs -> Nat]
      /\ \A p \in Pairs : inbox'[p] = IF p = Pair(r) THEN inbox[p] + sent ELSE inbox[p]
  BY CountsUp DEF RemindersInv, ReminderTypes
<1>4. /\ lost' \in [Pairs -> Nat]
      /\ \A p \in Pairs : lost'[p] = IF p = Pair(r) THEN lost[p] + unheard ELSE lost[p]
  BY CountsUp DEF RemindersInv, ReminderTypes
<1>5. Pair(r) \in log /\ (Pair(r) \in Pairs => inbox[Pair(r)] <= lost[Pair(r)])
  BY DEF RemindersInv, FiledFirst
<1>6. FiledFirst'
  <2> SUFFICES ASSUME NEW q \in Scans, scan'[q].at = "filed"
               PROVE  /\ Pair(q)' \in log'
                      /\ Pair(q)' \in Pairs => inbox'[Pair(q)'] <= lost'[Pair(q)']
                      /\ \A s \in Scans : scan'[s].at = "filed" /\ Pair(s)' = Pair(q)' => s = q
    BY DEF FiledFirst
  <2>1. Pair(q) \in log /\ (Pair(q) \in Pairs => inbox[Pair(q)] <= lost[Pair(q)])
    BY <1>2 DEF RemindersInv, FiledFirst
  <2>2. Pair(q) \in log' /\ (Pair(q) \in Pairs => inbox'[Pair(q)] <= lost'[Pair(q)])
    BY <1>2, <1>3, <1>4, <2>1
  <2>3. \A s \in Scans : scan'[s].at = "filed" /\ Pair(s)' = Pair(q)' => s = q
    BY <1>2 DEF RemindersInv, FiledFirst
  <2> QED
    BY <1>2, <2>2, <2>3
<1>7. UnfiledLost' /\ CopiesOnce'
  <2> SUFFICES ASSUME NEW p \in Pairs
               PROVE  (p \notin log' => inbox'[p] <= lost'[p]) /\ inbox'[p] <= 1 + lost'[p]
    BY DEF UnfiledLost, CopiesOnce
  <2>1. inbox[p] \in Nat /\ lost[p] \in Nat
    BY DEF RemindersInv, ReminderTypes
  <2>2. (p \notin log => inbox[p] <= lost[p]) /\ inbox[p] <= 1 + lost[p]
    BY DEF RemindersInv, UnfiledLost, CopiesOnce
  <2>3. CASE p = Pair(r)
    BY <2>3, <1>3, <1>4, <1>5, <2>1
  <2>4. CASE p # Pair(r)
    BY <2>4, <1>3, <1>4, <2>2
  <2> QED
    BY <2>3, <2>4
<1>8. \A q \in Scans :
         scan'[q] = [at |-> scan'[q].at, kind |-> scan'[q].kind, left |-> scan'[q].left,
                     day |-> scan'[q].day, slot |-> scan'[q].slot]
  <2> SUFFICES ASSUME NEW q \in Scans
               PROVE  scan'[q] = [at |-> scan'[q].at, kind |-> scan'[q].kind,
                                  left |-> scan'[q].left, day |-> scan'[q].day,
                                  slot |-> scan'[q].slot]
    OBVIOUS
  <2>1. CASE q = r
    <3>1. scan'[q] = new
      BY <2>1, <1>1
    <3> QED
      BY <3>1
  <2>2. CASE q # r
    <3>1. scan'[q] = scan[q]
      BY <2>2, <1>1
    <3> QED
      BY <3>1 DEF RemindersInv, ReminderTypes
  <2> QED
    BY <2>1, <2>2
<1> QED
  BY <1>1, <1>3, <1>4, <1>6, <1>7, <1>8 DEF RemindersInv, ReminderTypes

\* Every step.  Only a scan that sends, or dies about to, touches a row and its copies at once.
LEMMA ReminderScanKeeps ==
    ASSUME RemindersInv, NEW r \in Scans,
           \/ send_renewal_reminders(r) \/ ScanStep(r)
           \/ \E delivered \in BOOLEAN : Die(r, delivered)
    PROVE  RemindersInv'
<1> DEFINE fields(s) == s = [at |-> s.at, kind |-> s.kind, left |-> s.left, day |-> s.day,
                             slot |-> s.slot]
<1>0. fields(scan[r]) /\ fields(NoScan) /\ NoScan.at = "idle"
  BY DEF RemindersInv, ReminderTypes, NoScan
<1>1. CASE send_renewal_reminders(r)
  <2> DEFINE one == [NoScan EXCEPT !.at = "flipped"]
             new == [one EXCEPT !.day = today]
  <2>1. fields(one) /\ one.at = "flipped"
    BY <1>0
  <2>3. scan' = [scan EXCEPT ![r] = new] /\ UNCHANGED <<log, inbox, lost>>
    BY <1>1 DEF send_renewal_reminders
  <2> HIDE DEF one
  <2>2. fields(new) /\ new.at = "flipped"
    BY <2>1
  <2> HIDE DEF new
  <2> QED
    BY <2>2, <2>3, RemindersElsewhere
<1>2. CASE ConvertFriends(r)
  <2> DEFINE new == [scan[r] EXCEPT !.at = "stage"]
  <2>1. fields(new) /\ new.at = "stage"
    BY <1>0
  <2>2. scan' = [scan EXCEPT ![r] = new] /\ UNCHANGED <<log, inbox, lost>>
    BY <1>2 DEF ConvertFriends
  <2> HIDE DEF new
  <2> QED
    BY <2>1, <2>2, RemindersElsewhere
<1>3. CASE Stage(r)
  <2> DEFINE one == [scan[r] EXCEPT !.kind = @ + 1]
             new == [one EXCEPT !.left = candidates(KIND_ORDER[scan[r].kind + 1], scan[r].day)]
  <2>0. scan[r].at = "stage" /\ UNCHANGED <<log, inbox, lost>>
    BY <1>3 DEF Stage
  <2>1. fields(one) /\ one.at = "stage"
    BY <1>0, <2>0
  <2>2. \/ scan' = [scan EXCEPT ![r] = NoScan]
        \/ scan' = [scan EXCEPT ![r] = new]
    BY <1>3 DEF Stage
  <2> HIDE DEF one
  <2>3. fields(new) /\ new.at = "stage"
    BY <2>1
  <2> HIDE DEF new
  <2> QED
    BY <1>0, <2>0, <2>2, <2>3, RemindersElsewhere
<1>4. CASE SendOne(r)
  <2> DEFINE t == Min(scan[r].left)
             one == [scan[r] EXCEPT !.left = @ \ {t}]
             two == [one EXCEPT !.slot = t]
             new == [two EXCEPT !.at = IF ~Skipped(t, KIND_ORDER[scan[r].kind])
                                       THEN "read" ELSE @]
  <2>0. scan[r].at = "stage"
    BY <1>4 DEF SendOne
  <2>1. fields(one) /\ one.at = "stage"
    BY <1>0, <2>0
  <2>2. scan' = [scan EXCEPT ![r] = new] /\ UNCHANGED <<log, inbox, lost>>
    BY <1>4 DEF SendOne
  <2> HIDE DEF one
  <2>3. fields(two) /\ two.at = "stage"
    BY <2>1
  <2> HIDE DEF two
  <2>4. fields(new) /\ new.at # "filed"
    BY <2>3
  <2> HIDE DEF new
  <2> QED
    BY <2>2, <2>4, RemindersElsewhere
<1>5. CASE FileRow(r)
  BY <1>5, FileRowKeeps
<1>6. ASSUME NEW answer \in {"accepted", "refused", "lost"}, Deliver(r, answer)
      PROVE  RemindersInv'
  <2> DEFINE new == [scan[r] EXCEPT !.at = "stage"]
             sent == IF answer = "refused" THEN 0 ELSE 1
             unheard == IF answer = "lost" THEN 1 ELSE 0
  <2>1. fields(new) /\ new.at = "stage"
    BY <1>0
  <2>2. scan' = [scan EXCEPT ![r] = new] /\ scan[r].at = "filed"
    BY <1>6 DEF Deliver
  <2>0. /\ inbox = [inbox EXCEPT ![Pair(r)] = @ + 0]
        /\ lost = [lost EXCEPT ![Pair(r)] = @ + 0]
    BY SameCounts DEF RemindersInv, ReminderTypes
  <2>3. inbox' = [inbox EXCEPT ![Pair(r)] = @ + sent]
    BY <1>6, <2>0 DEF Deliver
  <2>4. lost' = [lost EXCEPT ![Pair(r)] = @ + unheard]
    BY <1>6, <2>0 DEF Deliver
  <2>5. log' = log \/ (log' = log \ {Pair(r)} /\ sent <= unheard)
    BY <1>6 DEF Deliver
  <2>6. sent \in 0..1 /\ unheard \in 0..1
    OBVIOUS
  <2> HIDE DEF new, sent, unheard
  <2> QED
    BY <2>1, <2>2, <2>3, <2>4, <2>5, <2>6, LetGoKeeps
<1>7. ASSUME NEW delivered \in BOOLEAN, Die(r, delivered)
      PROVE  RemindersInv'
  <2> DEFINE sent == IF delivered THEN 1 ELSE 0
  <2>1. scan' = [scan EXCEPT ![r] = NoScan] /\ UNCHANGED <<log, lost>>
    BY <1>7 DEF Die
  <2>2. CASE scan[r].at = "filed"
    <3>0. /\ inbox = [inbox EXCEPT ![Pair(r)] = @ + 0]
          /\ lost = [lost EXCEPT ![Pair(r)] = @ + 0]
      BY SameCounts DEF RemindersInv, ReminderTypes
    <3>1. inbox' = [inbox EXCEPT ![Pair(r)] = @ + sent]
      BY <1>7, <3>0 DEF Die
    <3>2. lost' = [lost EXCEPT ![Pair(r)] = @ + 0]
      BY <2>1, <3>0
    <3>3. sent \in 0..1 /\ 0 \in 0..1
      OBVIOUS
    <3>4. NoScan = [at |-> NoScan.at, kind |-> NoScan.kind, left |-> NoScan.left, day |-> NoScan.day,
                  slot |-> NoScan.slot]
      BY <1>0
    <3> HIDE DEF sent, fields
    <3> QED
      BY <1>0, <2>1, <2>2, <3>1, <3>2, <3>3, <3>4, LetGoKeeps
  <2>3. CASE scan[r].at # "filed"
    <3>1. inbox' = inbox
      BY <1>7, <2>3 DEF Die
    <3> QED
      BY <1>0, <2>1, <3>1, RemindersElsewhere
  <2> QED
    BY <2>2, <2>3
<1> QED
  BY <1>1, <1>2, <1>3, <1>4, <1>5, <1>6, <1>7 DEF ScanStep

LEMMA RemindersStep ==
    ASSUME RemindersInv, [RemindersNext]_<<memberVars, reminderVars>>
    PROVE  RemindersInv'
<1>1. CASE \E r \in Scans : \/ send_renewal_reminders(r) \/ ScanStep(r)
                          \/ \E delivered \in BOOLEAN : Die(r, delivered)
  BY <1>1, ReminderScanKeeps
<1>2. CASE UNCHANGED <<scan, log, inbox, lost>>
  <2>1. \A r \in Scans : Pair(r)' = Pair(r)
    BY <1>2 DEF Pair
  <2> QED
    BY <1>2, <2>1 DEF RemindersInv, ReminderTypes, FiledFirst, UnfiledLost, CopiesOnce
<1>3. \/ ReminderSchedulePut \/ MandateChanges \/ UNCHANGED reminderVars
         => UNCHANGED <<scan, log, inbox, lost>>
  BY DEF ReminderSchedulePut, MandateChanges, reminderVars
<1> QED
  BY <1>1, <1>2, <1>3 DEF RemindersNext

\* At the start no scan has a row filed, and nobody has a copy.
LEMMA RemindersBegin == RemindersInit => RemindersInv
<1> SUFFICES ASSUME RemindersInit PROVE RemindersInv
  OBVIOUS
<1>1. /\ scan = [r \in Scans |-> NoScan]
      /\ inbox = [p \in Pairs |-> 0] /\ lost = [p \in Pairs |-> 0]
  BY DEF RemindersInit, ScansInit
<1>2. \A r \in Scans : scan[r] = NoScan
  BY <1>1
<1>3. \A p \in Pairs : inbox[p] = 0 /\ lost[p] = 0
  BY <1>1
<1>4. NoScan = [at |-> NoScan.at, kind |-> NoScan.kind, left |-> NoScan.left,
                day |-> NoScan.day, slot |-> NoScan.slot]
  BY DEF NoScan
<1>5. DOMAIN scan = Scans /\ scan = [r \in Scans |-> scan[r]]
  BY <1>1
<1>6. inbox \in [Pairs -> Nat] /\ lost \in [Pairs -> Nat]
  BY <1>1
<1>7. ReminderTypes
  BY <1>2, <1>4, <1>5, <1>6 DEF ReminderTypes
<1>8. FiledFirst
  <2>1. NoScan.at # "filed"
    BY DEF NoScan
  <2> QED
    BY <1>2, <2>1 DEF FiledFirst
<1>9. UnfiledLost /\ CopiesOnce
  BY <1>3 DEF UnfiledLost, CopiesOnce
<1> QED
  BY <1>7, <1>8, <1>9 DEF RemindersInv

\* However many scans run at once, and whichever die or lose an answer, a member has a
\* stage's reminder for a term once, but for copies whose acceptance was lost.
THEOREM CopiesAreSentOnce == RemindersSpec => []CopiesOnce
<1>1. RemindersInit => RemindersInv
  BY RemindersBegin
<1>2. RemindersInv /\ [RemindersNext]_<<memberVars, reminderVars>> => RemindersInv'
  BY RemindersStep
<1>3. RemindersInv => CopiesOnce
  BY DEF RemindersInv
<1> QED
  BY <1>1, <1>2, <1>3, PTL DEF RemindersSpec

-----------------------------------------------------------------------------
(* The stages of a term.                                                   *)

\* Only schedules in order are ever set, and a term's days are days.
StagesInv ==
    /\ schedule \in [1..4 -> Int] /\ schedule_ok(schedule)
    /\ today \in Int /\ terms \in [Slots -> TermRow]

\* The next day after the terms an account holds is a day.
LEMMA StartIsDay ==
    ASSUME ReminderValues, StagesInv
    PROVE  StartOn \in Int
<1> DEFINE ends == {terms[t].ends : t \in Having(COVERING)}
<1>1. IsFiniteSet(Having(COVERING))
  BY FS_Subset DEF ReminderValues, Having
<1>2. IsFiniteSet(ends)
  <2> DEFINE f == [t \in Having(COVERING) |-> terms[t].ends]
  <2>1. f \in Surjection(Having(COVERING), ends)
    BY DEF Surjection
  <2> QED
    BY <1>1, <2>1, FS_Surjection
<1>3. IsFiniteSet(ends \union {NoDay})
  BY <1>2, FS_AddElement
<1>4. ends \union {NoDay} \subseteq Int
  BY DEF StagesInv, TermRow, Having, NoDay
<1> HIDE DEF ends
<1>5. Max(ends \union {NoDay}) \in ends \union {NoDay}
  BY <1>3, <1>4, GreatestOf
<1>6. latest_expiry \in Int
  BY <1>4, <1>5 DEF latest_expiry, ends
<1> QED
  BY <1>6 DEF StartOn, StagesInv

\* A new status leaves a row a row.
LEMMA WithStatusRows ==
    ASSUME StagesInv, NEW S, NEW status \in TermStatus
    PROVE  WithStatus(S, status) \in [Slots -> TermRow]
<1>1. \A t \in Slots : [terms[t] EXCEPT !.status = status] \in TermRow
  BY DEF StagesInv, TermRow
<1> QED
  BY <1>1 DEF StagesInv, WithStatus

\* A term bought ends on a day.
LEMMA PayKeeps ==
    ASSUME ReminderValues, StagesInv, NEW days \in Durations, Pay(days)
    PROVE  terms' \in [Slots -> TermRow]
<1>1. days \in Int /\ Forever \in Int /\ StartOn \in Int /\ today \in Int
  BY StartIsDay DEF ReminderValues, StagesInv
<1> DEFINE ends == IF days = Forever THEN Forever ELSE StartOn + days - 1
           newRow == [status |-> IF user.active THEN "active" ELSE "suspended",
                   starts |-> StartOn, ends |-> ends]
<1>2. ends \in Int
  BY <1>1
<1> HIDE DEF ends
<1>3. newRow \in TermRow
  BY <1>1, <1>2 DEF TermRow, TermStatus
<1>4. terms' = [terms EXCEPT ![Min(Free)] = newRow]
  BY DEF Pay, activate_term, ends
<1> HIDE DEF newRow
<1> QED
  BY <1>3, <1>4 DEF StagesInv

LEMMA StagesStep ==
    ASSUME ReminderValues, StagesInv, [RemindersNext]_<<memberVars, reminderVars>>
    PROVE  StagesInv'
<1>1. ASSUME NEW r \in Scans, send_renewal_reminders(r)
      PROVE  StagesInv'
  <2>1. "expired" \in TermStatus
    BY DEF TermStatus
  <2>2. terms' \in [Slots -> TermRow]
    BY <1>1, <2>1, WithStatusRows DEF send_renewal_reminders, Expired
  <2> QED
    BY <1>1, <2>2 DEF send_renewal_reminders, StagesInv
<1>2. ASSUME NEW r \in Scans, ScanStep(r) \/ \E delivered \in BOOLEAN : Die(r, delivered)
      PROVE  UNCHANGED <<terms, today, schedule>>
  BY <1>2 DEF ScanStep, ConvertFriends, Stage, SendOne, FileRow, Deliver, Die, memberVars
<1>3. CASE ReminderSchedulePut
  BY <1>3 DEF ReminderSchedulePut, ReminderValues, StagesInv
<1>4. CASE MandateChanges
  BY <1>4 DEF MandateChanges, StagesInv
<1>5. ASSUME NEW days \in Durations, Pay(days), UNCHANGED reminderVars
      PROVE  StagesInv'
  BY <1>5, PayKeeps DEF Pay, StagesInv, reminderVars
<1>6. ASSUME NEW t \in Slots, cancel_term(t), UNCHANGED reminderVars
      PROVE  StagesInv'
  BY <1>6, WithStatusRows DEF cancel_term, StagesInv, reminderVars, TermStatus
<1>7. CASE suspend_terms /\ UNCHANGED reminderVars
  BY <1>7, WithStatusRows DEF suspend_terms, StagesInv, reminderVars, TermStatus
<1>8. CASE restore_terms /\ UNCHANGED reminderVars
  <2>1. \A t \in Slots, status \in TermStatus : [terms[t] EXCEPT !.status = status] \in TermRow
    BY DEF StagesInv, TermRow
  <2>2. terms' \in [Slots -> TermRow]
    BY <1>8, <2>1 DEF restore_terms, StagesInv, TermStatus
  <2> QED
    BY <1>8, <2>2 DEF restore_terms, StagesInv, reminderVars
<1>9. CASE (become_friend \/ (NextDay /\ OfToday)) /\ UNCHANGED reminderVars
  BY <1>9 DEF become_friend, NextDay, StagesInv, reminderVars
<1>10. UNCHANGED <<terms, today, schedule>> => StagesInv'
  BY DEF StagesInv
<1> QED
  BY <1>1, <1>2, <1>3, <1>4, <1>5, <1>6, <1>7, <1>8, <1>9, <1>10
  DEF RemindersNext, memberVars, reminderVars

-----------------------------------------------------------------------------
\* The stages in order.
LEMMA KindsAre == ReminderKinds = {"first", "second", "final", "expired", "lapsed"}
<1>1. Len(KIND_ORDER) = 5
  BY DEF KIND_ORDER
<1>2. 1..Len(KIND_ORDER) = {1, 2, 3, 4, 5}
  BY <1>1
<1> QED
  BY <1>2 DEF ReminderKinds, KIND_ORDER

\* Which ends a stage is for: each stage's days begin where the next one's end.
LEMMA Spans ==
    ASSUME schedule \in [1..4 -> Int], schedule_ok(schedule), NEW day \in Int
    PROVE  /\ stage_span("first", day) = (day + schedule[2] + 1)..(day + schedule[1])
           /\ stage_span("second", day) = (day + schedule[3] + 1)..(day + schedule[2])
           /\ stage_span("final", day) = (day + 1)..(day + schedule[3])
           /\ stage_span("expired", day) = (day - 6)..day
           /\ stage_span("lapsed", day) = (day - schedule[4] - 30)..(day - schedule[4])
<1> DEFINE s(i) == schedule[i]
           later(kind) == {offset(k) : k \in {k \in ReminderKinds : offset(k) > offset(kind)}}
<1>1. /\ s(1) \in Int /\ s(2) \in Int /\ s(3) \in Int /\ s(4) \in Int
      /\ s(1) > s(2) /\ s(2) > s(3) /\ s(3) >= 1 /\ s(4) >= 7
  BY DEF schedule_ok, MIN_FINAL, MIN_LAPSED, MAX_LAPSED
<1>2. /\ offset("first") = -s(1) /\ offset("second") = -s(2) /\ offset("final") = -s(3)
      /\ offset("expired") = 0 /\ offset("lapsed") = s(4)
  BY DEF offset
<1>3. /\ later("first") = {-s(2), -s(3), 0, s(4)}
      /\ later("second") = {-s(3), 0, s(4)}
      /\ later("final") = {0, s(4)}
  <2> HIDE DEF s
  <2>1. /\ {k \in ReminderKinds : offset(k) > offset("first")} = {"second", "final", "expired", "lapsed"}
        /\ {k \in ReminderKinds : offset(k) > offset("second")} = {"final", "expired", "lapsed"}
        /\ {k \in ReminderKinds : offset(k) > offset("final")} = {"expired", "lapsed"}
    BY <1>1, <1>2, KindsAre
  <2> QED
    BY <1>2, <2>1
<1>4. /\ Min(later("first")) = -s(2) /\ Min(later("second")) = -s(3)
      /\ Min(later("final")) = 0
  <2> HIDE DEF s, later
  <2>0. /\ {-s(2), -s(3), 0, s(4)} \subseteq Int /\ -s(2) <= -s(3) /\ -s(3) <= 0
        /\ 0 <= s(4) /\ -s(2) <= 0 /\ -s(2) <= s(4) /\ -s(3) <= s(4)
        /\ -s(2) <= -s(2) /\ -s(3) <= -s(3) /\ 0 <= 0
    BY <1>1
  <2>1. Min({-s(2), -s(3), 0, s(4)}) = -s(2)
    <3>1. \A y \in {-s(2), -s(3), 0, s(4)} : -s(2) <= y
      BY <2>0
    <3> QED
      BY <2>0, <3>1, LeastIs
  <2>2. Min({-s(3), 0, s(4)}) = -s(3)
    <3>1. \A y \in {-s(3), 0, s(4)} : -s(3) <= y
      BY <2>0
    <3> QED
      BY <2>0, <3>1, LeastIs
  <2>3. Min({0, s(4)}) = 0
    <3>1. \A y \in {0, s(4)} : 0 <= y
      BY <2>0
    <3> QED
      BY <2>0, <3>1, LeastIs
  <2> QED
    BY <1>3, <2>1, <2>2, <2>3
<1>5. /\ reach("first") = s(1) - s(2) - 1 /\ reach("second") = s(2) - s(3) - 1
      /\ reach("final") = s(3) - 1 /\ reach("expired") = 6 /\ reach("lapsed") = 30
  <2>1. \A kind \in {"first", "second", "final"} :
           reach(kind) = Min(later(kind)) - offset(kind) - 1
    BY DEF reach
  <2>2. reach("expired") = 6 /\ reach("lapsed") = 30
    BY DEF reach
  <2> HIDE DEF s, later
  <2> QED
    BY <1>1, <1>2, <1>4, <2>1, <2>2
<1>6. \A i \in {1, 2, 3, 4} : s(i) = schedule[i]
  OBVIOUS
<1> HIDE DEF s, later
<1>7. /\ stage_span("first", day) = (day + s(2) + 1)..(day + s(1))
      /\ stage_span("second", day) = (day + s(3) + 1)..(day + s(2))
      /\ stage_span("final", day) = (day + 1)..(day + s(3))
      /\ stage_span("expired", day) = (day - 6)..day
      /\ stage_span("lapsed", day) = (day - s(4) - 30)..(day - s(4))
  <2>1. /\ day - (-s(1)) - (s(1) - s(2) - 1) = day + s(2) + 1 /\ day - (-s(1)) = day + s(1)
        /\ day - (-s(2)) - (s(2) - s(3) - 1) = day + s(3) + 1 /\ day - (-s(2)) = day + s(2)
        /\ day - (-s(3)) - (s(3) - 1) = day + 1 /\ day - (-s(3)) = day + s(3)
        /\ day - 0 - 6 = day - 6 /\ day - 0 = day
    BY <1>1
  <2> QED
    BY <1>2, <1>5, <2>1 DEF stage_span
<1> QED
  BY <1>6, <1>7

\* The days of the stages follow each other, so no day is in two.
LEMMA StagesApart ==
    ASSUME StagesInv
    PROVE  OneStage
<1> SUFFICES ASSUME NEW t \in HeldTerms
             PROVE  LET stages == {k \in ReminderKinds : terms[t].ends \in stage_span(k, today)}
                    IN  /\ Cardinality(stages) <= 1
                        /\ today - terms[t].ends \in (-schedule[1])..6 => stages # {}
  BY DEF OneStage
<1> DEFINE e == terms[t].ends
           stages == {k \in ReminderKinds : e \in stage_span(k, today)}
<1>1. e \in Int /\ today \in Int /\ t \in Slots
  BY DEF StagesInv, TermRow, HeldTerms
<1>2. /\ schedule[1] \in Int /\ schedule[2] \in Int /\ schedule[3] \in Int /\ schedule[4] \in Int
      /\ schedule[1] > schedule[2] /\ schedule[2] > schedule[3]
      /\ schedule[3] >= 1 /\ schedule[4] >= 7
  BY DEF StagesInv, schedule_ok, MIN_FINAL, MIN_LAPSED, MAX_LAPSED
<1>3. /\ stage_span("first", today) = (today + schedule[2] + 1)..(today + schedule[1])
      /\ stage_span("second", today) = (today + schedule[3] + 1)..(today + schedule[2])
      /\ stage_span("final", today) = (today + 1)..(today + schedule[3])
      /\ stage_span("expired", today) = (today - 6)..today
      /\ stage_span("lapsed", today) = (today - schedule[4] - 30)..(today - schedule[4])
  BY Spans DEF StagesInv
<1> HIDE DEF e
<1>4. /\ "first" \in stages <=> today + schedule[2] + 1 <= e /\ e <= today + schedule[1]
      /\ "second" \in stages <=> today + schedule[3] + 1 <= e /\ e <= today + schedule[2]
      /\ "final" \in stages <=> today + 1 <= e /\ e <= today + schedule[3]
      /\ "expired" \in stages <=> today - 6 <= e /\ e <= today
      /\ "lapsed" \in stages <=> today - schedule[4] - 30 <= e /\ e <= today - schedule[4]
  <2>1. \A k \in {"first", "second", "final", "expired", "lapsed"} :
           k \in stages <=> e \in stage_span(k, today)
    BY KindsAre
  <2> HIDE DEF stages
  <2>2. \A a, b \in Int : e \in a..b <=> a <= e /\ e <= b
    BY <1>1
  <2>3. /\ today + schedule[2] + 1 \in Int /\ today + schedule[3] + 1 \in Int
        /\ today + 1 \in Int /\ today - 6 \in Int /\ today - schedule[4] - 30 \in Int
        /\ today + schedule[1] \in Int /\ today + schedule[2] \in Int
        /\ today + schedule[3] \in Int /\ today - schedule[4] \in Int
    BY <1>1, <1>2
  <2>4. "first" \in stages <=> today + schedule[2] + 1 <= e /\ e <= today + schedule[1]
    BY <1>3, <2>1, <2>2, <2>3
  <2>5. "second" \in stages <=> today + schedule[3] + 1 <= e /\ e <= today + schedule[2]
    BY <1>3, <2>1, <2>2, <2>3
  <2>6. "final" \in stages <=> today + 1 <= e /\ e <= today + schedule[3]
    BY <1>3, <2>1, <2>2, <2>3
  <2>7. "expired" \in stages <=> today - 6 <= e /\ e <= today
    BY <1>1, <1>3, <2>1, <2>2, <2>3
  <2>8. "lapsed" \in stages <=> today - schedule[4] - 30 <= e /\ e <= today - schedule[4]
    BY <1>3, <2>1, <2>2, <2>3
  <2> QED
    BY <2>4, <2>5, <2>6, <2>7, <2>8
<1>5. stages \subseteq {"first", "second", "final", "expired", "lapsed"}
  BY KindsAre
<1> HIDE DEF stages
<1>6. \A k \in stages, l \in stages : k = l
  BY <1>1, <1>2, <1>4, <1>5
<1>7. Cardinality(stages) <= 1
  <2>1. CASE stages = {}
    BY <2>1, FS_EmptySet
  <2>2. CASE stages # {}
    <3>1. PICK k \in stages : TRUE
      BY <2>2
    <3>2. stages = {k}
      BY <1>6, <3>1
    <3>3. Cardinality({k}) = 1
      BY FS_Singleton
    <3> QED
      BY <3>2, <3>3
  <2> QED
    BY <2>1, <2>2
<1>8. today - e \in (-schedule[1])..6 => stages # {}
  <2> SUFFICES ASSUME today - e \in (-schedule[1])..6 PROVE stages # {}
    OBVIOUS
  <2>1. e <= today + schedule[1] /\ today - 6 <= e
    BY <1>1, <1>2
  <2> QED
    BY <1>1, <1>2, <1>4, <2>1
<1> QED
  BY <1>7, <1>8 DEF e, stages

\* On every day a term is in at most one stage, and in exactly one from the first stage's
\* day to the sixth after its end, whatever schedules administrators set.
THEOREM StagesLeaveNoGap == ReminderValues => (RemindersSpec => []OneStage)
<1> SUFFICES ASSUME ReminderValues PROVE RemindersSpec => []OneStage
  OBVIOUS
<1>1. RemindersInit => StagesInv
  <2> SUFFICES ASSUME RemindersInit PROVE StagesInv
    OBVIOUS
  <2>1. NoTerm \in TermRow
    BY DEF NoTerm, TermRow, TermStatus, NoDay
  <2>2. PICK days \in Durations, active \in BOOLEAN :
           terms = [t \in Slots |->
             IF t = 1 THEN [status |-> IF active THEN "active" ELSE "suspended",
                            starts |-> 1, ends |-> days] ELSE NoTerm]
    BY DEF RemindersInit
  <2>3. [status |-> IF active THEN "active" ELSE "suspended", starts |-> 1, ends |-> days]
           \in TermRow
    BY DEF TermRow, TermStatus, ReminderValues
  <2> QED
    BY <2>1, <2>2, <2>3 DEF RemindersInit, ScansInit, ReminderValues, StagesInv
<1>2. StagesInv /\ [RemindersNext]_<<memberVars, reminderVars>> => StagesInv'
  BY StagesStep
<1>3. StagesInv => OneStage
  BY StagesApart
<1> QED
  BY <1>1, <1>2, <1>3, PTL DEF RemindersSpec

\* Together: one reminder for each stage of a term, and a day of one stage.
THEOREM RemindersAreSentOnce == ReminderValues => (RemindersSpec => []RemindedOnce)
<1> SUFFICES ASSUME ReminderValues PROVE RemindersSpec => []RemindedOnce
  OBVIOUS
<1>1. RemindersSpec => []CopiesOnce
  BY CopiesAreSentOnce
<1>2. RemindersSpec => []OneStage
  BY StagesLeaveNoGap
<1>3. CopiesOnce /\ OneStage => RemindedOnce
  BY DEF RemindedOnce
<1> QED
  BY <1>1, <1>2, <1>3, PTL

-----------------------------------------------------------------------------
(* The register of aircraft.                                               *)

AircraftRow == [type : TypeIds \cup {0}, created_by : Callers \cup {0},
                updated_by : Callers \cup {0}]
Moves == UNION {[D -> Codes] : D \in SUBSET NNumbers}
ImportRows == [at : {"types", "fold"}, file : Files, todo : SUBSET Customs,
               custom : Customs \cup {0}, moved : Moves, deleted : SUBSET Customs]
Askings == {NoWork} \cup [at : {"type"}, name : Names]
           \cup [at : {"add", "edit"}, n : NNumbers, type : TypeIds]
RegisterTypes ==
    /\ types \in [TypeIds -> Names \cup {"none", "gone"}]
    /\ aircraft \in [NNumbers -> AircraftRow]
    /\ \A n \in NNumbers : OnFile(n) => aircraft[n].type # 0
    /\ registry \in [NNumbers -> Codes \cup {0}]
    /\ aliases \in [Names -> TypeIds \cup {0}]
    /\ import \in {NoWork} \cup ImportRows
    /\ asking \in [Callers -> Askings]

\* The import holds each aircraft it moves, which waits under the type it moves it from; the
\* one it moves it to has that name when the import commits; and an aircraft of a type it has
\* deleted is one it moves.
Moved(n) ==
    /\ aircraft[n].type \in Customs /\ Listed(aircraft[n].type)
    /\ Seen(import.moved[n]) = types[aircraft[n].type]
FoldSound ==
    import.at # "idle" =>
        /\ \A id \in import.todo \cup import.deleted : Listed(id)
        /\ import.custom # 0 => import.custom \in import.todo
        /\ \A n \in DOMAIN import.moved : Moved(n)
        /\ \A n \in NNumbers : aircraft[n].type \in import.deleted => n \in DOMAIN import.moved

RegisterInv == RegisterTypes /\ Registered /\ FoldSound

-----------------------------------------------------------------------------
\* An import at work has its fields; one that is not has no other.
LEMMA ImportFields ==
    ASSUME RegisterTypes
    PROVE  /\ import.at = "idle" <=> import = NoWork
           /\ import.at # "idle" =>
                 /\ import \in ImportRows
                 /\ import.moved \in [DOMAIN import.moved -> Codes]
                 /\ DOMAIN import.moved \subseteq NNumbers
<1>1. \A craft \in ImportRows : craft.at # "idle"
  BY DEF ImportRows
<1>2. NoWork.at = "idle"
  BY DEF NoWork
<1>3. import.at = "idle" <=> import = NoWork
  BY <1>1, <1>2 DEF RegisterTypes
<1>4. ASSUME import.at # "idle"
      PROVE  /\ import \in ImportRows
             /\ import.moved \in [DOMAIN import.moved -> Codes]
             /\ DOMAIN import.moved \subseteq NNumbers
  <2>1. import \in ImportRows
    BY <1>3, <1>4 DEF RegisterTypes
  <2>2. import.moved \in Moves
    BY <2>1 DEF ImportRows
  <2>3. PICK D \in SUBSET NNumbers : import.moved \in [D -> Codes]
    BY <2>2 DEF Moves
  <2> QED
    BY <2>1, <2>3
<1> QED
  BY <1>3, <1>4

\* The name of an FAA type in the import's transaction, now and after a step.
NameIn(file, table, c) == IF file.names[c] # "none" THEN file.names[c] ELSE table[c]

LEMMA SeenOfCode ==
    ASSUME RegisterTypes, import.at # "idle", NEW c \in Codes
    PROVE  Seen(c) = NameIn(import.file, types, c)
<1>1. c \notin import.deleted
  BY ImportFields, RegisterKeys DEF ImportRows
<1> QED
  BY <1>1 DEF Seen, NameIn

LEMMA SeenLater ==
    ASSUME RegisterTypes, import.at # "idle", import'.at # "idle",
           import'.file = import.file, import'.deleted \subseteq Customs,
           \A c \in Codes : types'[c] = types[c],
           NEW c \in Codes
    PROVE  Seen(c)' = Seen(c)
<1>1. c \notin import'.deleted
  BY RegisterKeys
<1>2. Seen(c)' = IF import'.file.names[c] # "none" THEN import'.file.names[c] ELSE types'[c]
  BY <1>1 DEF Seen
<1> QED
  BY <1>2, SeenOfCode DEF NameIn

-----------------------------------------------------------------------------
(* What requests do.                                                       *)

\* A request that only asks or answers.
LEMMA AskingKeeps ==
    ASSUME RegisterInv, UNCHANGED <<types, aircraft, registry, aliases, import>>,
           asking' \in [Callers -> Askings]
    PROVE  RegisterInv'
  BY DEF RegisterInv, RegisterTypes, Registered, FoldSound, Moved, Seen, Listed, OnFile

LEMMA CreateTypeKeeps ==
    ASSUME RegisterInv, NEW u \in Callers, CreateType(u)
    PROVE  RegisterInv'
<1>1. asking[u] \in [at : {"type"}, name : Names]
  BY DEF RegisterInv, RegisterTypes, CreateType, Askings, NoWork
<1>2. PICK id \in Customs : types[id] = "none" /\ types' = [types EXCEPT ![id] = asking[u].name]
  BY DEF CreateType
<1>3. UNCHANGED <<aircraft, registry, aliases, import>>
  BY DEF CreateType
<1>4. id \in TypeIds /\ id \notin Codes /\ asking[u].name \in Names
  BY <1>1, <1>2, RegisterKeys DEF TypeIds
<1>5. types' \in [TypeIds -> Names \cup {"none", "gone"}]
  BY <1>2, <1>4 DEF RegisterInv, RegisterTypes
<1>6. \A x \in TypeIds : Listed(x) => Listed(x)' /\ types'[x] = types[x]
  BY <1>2, <1>4, RegisterKeys DEF Listed, RegisterInv, RegisterTypes
<1>7. asking' \in [Callers -> Askings]
  BY DEF CreateType, RegisterInv, RegisterTypes, Askings
<1>8. RegisterTypes'
  BY <1>3, <1>5, <1>7 DEF RegisterInv, RegisterTypes, OnFile
<1>9. Registered'
  <2>1. \A n \in NNumbers : OnFile(n)' => Listed(aircraft[n].type)'
    BY <1>3, <1>6 DEF RegisterInv, RegisterTypes, Registered, OnFile, AircraftRow
  <2>2. \A n \in NNumbers : registry'[n] # 0 => Listed(registry[n])'
    BY <1>3, <1>6 DEF RegisterInv, RegisterTypes, Registered, TypeIds
  <2>3. \A name \in Names : aliases'[name] # 0 => types'[aliases'[name]] = name
    BY <1>3, <1>6 DEF RegisterInv, RegisterTypes, Registered, Listed
  <2> QED
    BY <2>1, <2>2, <2>3 DEF Registered
<1>10. FoldSound'
  <2>1. SUFFICES ASSUME import.at # "idle"
                 PROVE  /\ \A x \in import.todo \cup import.deleted : Listed(x)'
                        /\ import.custom # 0 => import.custom \in import.todo
                        /\ \A n \in DOMAIN import.moved : Moved(n)'
                        /\ \A n \in NNumbers :
                              aircraft[n].type \in import.deleted => n \in DOMAIN import.moved
    BY <1>3 DEF FoldSound
  <2>2. /\ import \in ImportRows /\ import.moved \in [DOMAIN import.moved -> Codes]
        /\ import.deleted \subseteq Customs /\ import.todo \subseteq Customs
    BY <2>1, ImportFields DEF RegisterInv, ImportRows
  <2>3. \A x \in import.todo \cup import.deleted : Listed(x)'
    BY <1>6, <2>1, <2>2 DEF RegisterInv, FoldSound, TypeIds
  <2>4. \A c \in Codes : types'[c] = types[c]
    BY <1>2, <1>4 DEF RegisterInv, RegisterTypes, TypeIds
  <2>5. \A c \in Codes : Seen(c)' = Seen(c)
    BY <1>3, <2>1, <2>2, <2>4, SeenLater DEF RegisterInv
  <2>6. ASSUME NEW n \in DOMAIN import.moved PROVE Moved(n)'
    <3>1. Moved(n) /\ import.moved[n] \in Codes
      BY <2>1, <2>2 DEF RegisterInv, FoldSound
    <3>2. Seen(import.moved[n])' = Seen(import.moved[n])
      <4>1. import'.moved[n] = import.moved[n]
        BY <1>3
      <4> QED
        BY <2>5, <3>1, <4>1, <1>3 DEF Seen
    <3>3. Listed(aircraft[n].type)' /\ types'[aircraft[n].type] = types[aircraft[n].type]
      BY <1>3, <1>6, <3>1 DEF Moved, TypeIds, Listed
    <3> QED
      BY <1>3, <3>1, <3>2, <3>3 DEF Moved
  <2> QED
    BY <2>1, <2>3, <2>6 DEF RegisterInv, FoldSound
<1> QED
  BY <1>8, <1>9, <1>10 DEF RegisterInv

\* A row written that no import holds, of a type that none is deleting.
LEMMA AircraftKeeps ==
    ASSUME RegisterInv, NEW n \in NNumbers, ~HeldByImport(n),
           NEW craft \in AircraftRow,
           craft = NoAircraft \/ (craft.type # 0 /\ Listed(craft.type) /\ ~Deleting(craft.type)),
           aircraft' = [aircraft EXCEPT ![n] = craft],
           UNCHANGED <<types, registry, aliases, import>>, asking' \in [Callers -> Askings]
    PROVE  RegisterInv'
<1>1. aircraft \in [NNumbers -> AircraftRow] /\ aircraft' \in [NNumbers -> AircraftRow]
  BY DEF RegisterInv, RegisterTypes
<1>2. aircraft'[n] = craft /\ \A m \in NNumbers \ {n} : aircraft'[m] = aircraft[m]
  BY <1>1
<1>3. RegisterTypes'
  BY <1>1, <1>2 DEF RegisterInv, RegisterTypes, OnFile, NoAircraft
<1>4. Registered'
  <2>1. \A m \in NNumbers : OnFile(m)' => Listed(aircraft[m].type)'
    BY <1>2 DEF RegisterInv, Registered, OnFile, Listed, NoAircraft
  <2> QED
    BY <2>1 DEF RegisterInv, Registered, Listed
<1>5. FoldSound'
  <2>1. CASE import.at = "idle"
    BY <2>1 DEF FoldSound
  <2>2. CASE import.at # "idle"
    <3>1. n \notin DOMAIN import.moved
      BY <2>2 DEF HeldByImport
    <3>2. DOMAIN import.moved \subseteq NNumbers \ {n} /\ import.deleted \subseteq Customs
      BY <2>2, <3>1, ImportFields DEF RegisterInv, ImportRows
    <3>3. craft.type \notin import.deleted
      BY <2>2, <3>2, RegisterKeys DEF Deleting, NoAircraft
    <3>4. \A m \in NNumbers : aircraft'[m].type \in import.deleted => m \in DOMAIN import.moved
      BY <1>2, <2>2, <3>3 DEF RegisterInv, FoldSound
    <3>5. \A m \in DOMAIN import.moved : Moved(m)'
      <4> TAKE m \in DOMAIN import.moved
      <4>1. Moved(m) /\ aircraft'[m] = aircraft[m]
        BY <1>2, <2>2, <3>2 DEF RegisterInv, FoldSound
      <4> QED
        BY <4>1 DEF Moved, Listed, Seen
    <3> QED
      BY <2>2, <3>4, <3>5 DEF RegisterInv, FoldSound, Listed
  <2> QED
    BY <2>1, <2>2
<1> QED
  BY <1>3, <1>4, <1>5 DEF RegisterInv

\* An aircraft the import holds is on file.
LEMMA HeldIsOnFile ==
    ASSUME RegisterInv, NEW n \in NNumbers, HeldByImport(n)
    PROVE  OnFile(n)
<1>1. Moved(n)
  BY DEF HeldByImport, RegisterInv, FoldSound
<1>2. aircraft[n].type # 0
  BY <1>1, RegisterKeys DEF Moved
<1> QED
  BY <1>2 DEF OnFile, NoAircraft

LEMMA CreateKeeps ==
    ASSUME RegisterInv, NEW u \in Callers, perform_create(u)
    PROVE  RegisterInv'
<1> DEFINE r == asking[u]
           craft == [type |-> r.type, created_by |-> u, updated_by |-> u]
<1>1. r \in [at : {"add", "edit"}, n : NNumbers, type : TypeIds]
  BY DEF RegisterInv, RegisterTypes, perform_create, Askings, NoWork
<1>2. /\ UNCHANGED <<types, registry, aliases, import>>
      /\ asking' = [asking EXCEPT ![u] = NoWork] /\ ~Deleting(r.type)
      /\ aircraft' = IF OnFile(r.n) \/ ~Listed(r.type) THEN aircraft
                     ELSE [aircraft EXCEPT ![r.n] = craft]
  BY DEF perform_create, Replied
<1>3. asking' \in [Callers -> Askings]
  BY <1>2 DEF RegisterInv, RegisterTypes, Askings
<1>4. r.n \in NNumbers /\ r.type \in TypeIds /\ r.type # 0
  BY <1>1, RegisterKeys DEF TypeIds
<1>5. craft \in AircraftRow /\ craft.type = r.type
  BY <1>4 DEF AircraftRow
<1> HIDE DEF r, craft
<1>6. CASE OnFile(r.n) \/ ~Listed(r.type)
  BY <1>2, <1>3, <1>6, AskingKeeps
<1>7. CASE ~OnFile(r.n) /\ Listed(r.type)
  BY <1>2, <1>3, <1>4, <1>5, <1>7, AircraftKeeps, HeldIsOnFile
<1> QED
  BY <1>6, <1>7

LEMMA UpdateKeeps ==
    ASSUME RegisterInv, NEW u \in Callers, perform_update(u)
    PROVE  RegisterInv'
<1> DEFINE r == asking[u]
           one == [aircraft[r.n] EXCEPT !.type = r.type]
           craft == [one EXCEPT !.updated_by = u]
           typed == [aircraft EXCEPT ![r.n].type = r.type]
           both == [typed EXCEPT ![r.n].updated_by = u]
<1>1. r \in [at : {"add", "edit"}, n : NNumbers, type : TypeIds]
  BY DEF RegisterInv, RegisterTypes, perform_update, Askings, NoWork
<1>2. /\ UNCHANGED <<types, registry, aliases, import>>
      /\ asking' = [asking EXCEPT ![u] = NoWork] /\ ~Deleting(r.type) /\ ~HeldByImport(r.n)
      /\ aircraft' = IF ~OnFile(r.n) \/ ~Listed(r.type) THEN aircraft ELSE both
  BY DEF perform_update, Replied
<1>3. asking' \in [Callers -> Askings]
  BY <1>2 DEF RegisterInv, RegisterTypes, Askings
<1>4. r.n \in NNumbers /\ r.type \in TypeIds /\ r.type # 0 /\ aircraft[r.n] \in AircraftRow
  BY <1>1, RegisterKeys DEF TypeIds, RegisterInv, RegisterTypes
<1> HIDE DEF r
<1>5. one \in AircraftRow /\ one.type = r.type
  BY <1>4 DEF AircraftRow
<1>6. typed = [aircraft EXCEPT ![r.n] = one]
  OBVIOUS
<1>7. typed \in [NNumbers -> AircraftRow] /\ typed[r.n] = one
  <2> HIDE DEF one, typed
  <2> QED
    BY <1>4, <1>5, <1>6 DEF RegisterInv, RegisterTypes
<1> HIDE DEF one
<1>8. craft \in AircraftRow /\ craft.type = r.type
  BY <1>5 DEF AircraftRow
<1>9. both = [aircraft EXCEPT ![r.n] = craft]
  <2> HIDE DEF typed
  <2>1. both = [typed EXCEPT ![r.n] = craft]
    BY <1>7
  <2> HIDE DEF both, craft
  <2> QED
    BY <1>4, <1>6, <1>7, <2>1 DEF RegisterInv, RegisterTypes
<1> HIDE DEF typed, both, craft
<1>10. CASE ~OnFile(r.n) \/ ~Listed(r.type)
  BY <1>2, <1>3, <1>10, AskingKeeps
<1>11. CASE OnFile(r.n) /\ Listed(r.type)
  BY <1>2, <1>3, <1>4, <1>8, <1>9, <1>11, AircraftKeeps
<1> QED
  BY <1>10, <1>11

LEMMA RequestsKeep ==
    ASSUME RegisterInv,
           \/ \E u \in Callers : \E name \in Names : AddType(u, name)
           \/ \E u \in Callers : CreateType(u) \/ perform_create(u) \/ perform_update(u)
           \/ \E u \in Callers, n \in NNumbers :
                 delete_aircraft(u, n) \/ \E id \in TypeIds : Submit(u, n, id)
    PROVE  RegisterInv' /\ NameKept
<1>1. import' = import
  BY DEF AddType, CreateType, perform_create, perform_update, delete_aircraft, Submit, Replied
<1>2. NameKept
  BY <1>1 DEF NameKept
<1>3. ASSUME NEW u \in Callers, NEW name \in Names, AddType(u, name)
      PROVE  RegisterInv'
  <2>1. asking' \in [Callers -> Askings]
    BY <1>3 DEF AddType, RegisterInv, RegisterTypes, Askings
  <2> QED
    BY <1>3, <2>1, AskingKeeps DEF AddType
<1>4. ASSUME NEW u \in Callers, NEW n \in NNumbers, NEW id \in TypeIds, Submit(u, n, id)
      PROVE  RegisterInv'
  <2> DEFINE craft == [at |-> IF OnFile(n) THEN "edit" ELSE "add", n |-> n, type |-> id]
  <2>1. craft \in Askings
    BY DEF Askings
  <2>2. asking' = [asking EXCEPT ![u] = craft]
    BY <1>4 DEF Submit
  <2> HIDE DEF craft
  <2>3. asking' \in [Callers -> Askings]
    BY <2>1, <2>2 DEF RegisterInv, RegisterTypes
  <2> QED
    BY <1>4, <2>3, AskingKeeps DEF Submit
<1>5. ASSUME NEW u \in Callers, NEW n \in NNumbers, delete_aircraft(u, n)
      PROVE  RegisterInv'
  <2>1. NoAircraft \in AircraftRow
    BY DEF NoAircraft, AircraftRow
  <2>2. asking' \in [Callers -> Askings]
    BY <1>5 DEF delete_aircraft, RegisterInv, RegisterTypes
  <2> QED
    BY <1>5, <2>1, <2>2, AircraftKeeps DEF delete_aircraft
<1> QED
  BY <1>2, <1>3, <1>4, <1>5, CreateTypeKeeps, CreateKeeps, UpdateKeeps

-----------------------------------------------------------------------------
(* The import.                                                             *)

\* Its own record is all that changes.
LEMMA ImportTurns ==
    ASSUME RegisterInv, UNCHANGED <<types, aircraft, registry, aliases, asking>>,
           import' \in {NoWork} \cup ImportRows
    PROVE  /\ RegisterTypes' /\ Registered'
           /\ NameKept
           /\ import'.at = "idle" => FoldSound'
<1>1. RegisterTypes'
  BY DEF RegisterInv, RegisterTypes, OnFile
<1>2. Registered'
  BY DEF RegisterInv, Registered, OnFile, Listed
<1>3. NameKept
  BY DEF NameKept
<1> QED
  BY <1>1, <1>2, <1>3 DEF FoldSound

LEMMA ImportBeginsKeeps ==
    ASSUME RegisterInv, NEW file \in Files, ImportBegins(file)
    PROVE  RegisterInv' /\ NameKept
<1>1. /\ import' = [at |-> "types", file |-> file, todo |-> {}, custom |-> 0,
                    moved |-> <<>>, deleted |-> {}]
      /\ UNCHANGED <<types, aircraft, registry, aliases, asking>>
  BY DEF ImportBegins
<1>2. <<>> \in [{} -> Codes] /\ DOMAIN <<>> = {}
  OBVIOUS
<1>3. <<>> \in Moves
  BY <1>2 DEF Moves
<1>4. import' \in ImportRows
  BY <1>1, <1>3 DEF ImportRows
<1>5. FoldSound'
  BY <1>1, <1>2 DEF FoldSound
<1> QED
  BY <1>1, <1>4, <1>5, ImportTurns DEF RegisterInv

LEMMA ReadCustomsKeeps ==
    ASSUME RegisterInv, ReadCustoms
    PROVE  RegisterInv' /\ NameKept
<1> DEFINE listed == {id \in Customs : Listed(id)}
           one == [import EXCEPT !.at = "fold"]
           two == [one EXCEPT !.todo = listed]
<1>1. /\ import.at = "types" /\ import' = two
      /\ UNCHANGED <<types, aircraft, registry, aliases, asking>>
  BY DEF ReadCustoms
<1>2. import \in ImportRows
  BY <1>1, ImportFields DEF RegisterInv
<1>3. /\ one \in ImportRows /\ one.at = "fold" /\ one.file = import.file
      /\ one.custom = import.custom /\ one.moved = import.moved /\ one.deleted = import.deleted
  BY <1>2 DEF ImportRows
<1> HIDE DEF one
<1>4. listed \subseteq Customs
  OBVIOUS
<1> HIDE DEF listed
<1>5. /\ two \in ImportRows /\ two.at = "fold" /\ two.file = import.file /\ two.todo = listed
      /\ two.custom = import.custom /\ two.moved = import.moved /\ two.deleted = import.deleted
  BY <1>3, <1>4 DEF ImportRows
<1> HIDE DEF two
<1>6. /\ import'.at = "fold" /\ import'.file = import.file /\ import'.todo = listed
      /\ import'.custom = import.custom /\ import'.moved = import.moved
      /\ import'.deleted = import.deleted
  BY <1>1, <1>5
<1>7. FoldSound'
  <2>1. \A n \in DOMAIN import.moved : Moved(n) /\ import.moved[n] \in Codes
    BY <1>1, ImportFields DEF RegisterInv, FoldSound
  <2>2. \A c \in Codes : Seen(c)' = Seen(c)
    BY <1>1, <1>2, <1>6, SeenLater DEF RegisterInv, ImportRows
  <2>3. \A n \in DOMAIN import.moved : Seen(import.moved[n])' = Seen(import.moved[n])
    BY <1>1, <1>6, <2>1, <2>2 DEF Seen
  <2>4. \A n \in DOMAIN import'.moved : Moved(n)'
    BY <1>1, <1>6, <2>1, <2>3 DEF Moved, Listed
  <2>5. \A id \in import'.todo \cup import'.deleted : Listed(id)'
    BY <1>1, <1>6 DEF RegisterInv, FoldSound, Listed, listed
  <2>6. import'.custom # 0 => import'.custom \in import'.todo
    <3>1. import.custom # 0 => import.custom \in Customs /\ Listed(import.custom)
      BY <1>1, <1>2 DEF RegisterInv, FoldSound, ImportRows
    <3> QED
      BY <1>6, <3>1 DEF listed
  <2> QED
    BY <1>1, <1>6, <2>4, <2>5, <2>6 DEF RegisterInv, FoldSound
<1> QED
  BY <1>1, <1>5, <1>7, ImportTurns DEF RegisterInv

\* Some code is the least of the twins, and it is the one that is taken.
LEMMA LeastTwin ==
    ASSUME NEW T, T \subseteq Codes, T # {}
    PROVE  (CHOOSE c \in T : \A d \in T : c <= d) \in T
<1>1. T \subseteq Nat
  BY RegisterKeys
<1>2. PICK c \in T : \A d \in T : <<d, c>> \notin OpToRel(<, Nat)
  BY <1>1, NatLessThanWellFounded, WFMin
<1>3. \A d \in T : ~(d < c)
  BY <1>1, <1>2 DEF OpToRel
<1>4. \A d \in T : c <= d
  BY <1>1, <1>3
<1> QED
  BY <1>4

LEMMA MoveKeeps ==
    ASSUME RegisterInv, NEW custom \in Customs, MoveAircraft(custom)
    PROVE  RegisterInv' /\ NameKept
<1> DEFINE twin == CHOOSE c \in Twins(custom) : \A d \in Twins(custom) : c <= d
           hers == {n \in NNumbers : aircraft[n].type = custom /\ ~HeldByImport(n)}
           moves == [n \in DOMAIN import.moved \cup hers |->
                        IF n \in hers THEN twin ELSE import.moved[n]]
           less == import.todo \ {custom}
           none == [import EXCEPT !.todo = less]
           one == [import EXCEPT !.custom = custom]
           two == [one EXCEPT !.moved = moves]
<1>1. /\ import.at = "fold" /\ import.custom = 0 /\ custom \in import.todo
      /\ import' = IF Twins(custom) = {} THEN none ELSE two
      /\ UNCHANGED <<types, aircraft, registry, aliases, asking>>
  BY DEF MoveAircraft
<1>2. /\ import \in ImportRows /\ import.moved \in [DOMAIN import.moved -> Codes]
      /\ DOMAIN import.moved \subseteq NNumbers
  BY <1>1, ImportFields DEF RegisterInv
<1>3. Listed(custom)
  BY <1>1 DEF RegisterInv, FoldSound
<1>4. CASE Twins(custom) = {}
  <2>1. /\ none \in ImportRows /\ none.at = "fold" /\ none.file = import.file
        /\ none.todo = less /\ none.custom = 0 /\ none.moved = import.moved
        /\ none.deleted = import.deleted
    BY <1>1, <1>2 DEF ImportRows
  <2> HIDE DEF none
  <2>2. import' = none
    BY <1>1, <1>4
  <2>3. \A c \in Codes : Seen(c)' = Seen(c)
    BY <1>1, <1>2, <2>1, <2>2, SeenLater DEF RegisterInv, ImportRows
  <2>4. \A n \in DOMAIN import'.moved : Moved(n)'
    <3>1. \A n \in DOMAIN import.moved : Moved(n) /\ import.moved[n] \in Codes
      BY <1>1, <1>2 DEF RegisterInv, FoldSound
    <3>2. \A n \in DOMAIN import.moved : Seen(import.moved[n])' = Seen(import.moved[n])
      BY <2>1, <2>2, <2>3, <3>1 DEF Seen
    <3>3. DOMAIN import'.moved = DOMAIN import.moved /\ UNCHANGED <<types, aircraft>>
      BY <1>1, <2>1, <2>2
    <3> HIDE DEF twin, hers, moves, less, one, two
    <3> QED
      BY <3>1, <3>2, <3>3 DEF Moved, Listed
  <2>5. FoldSound'
    BY <1>1, <2>1, <2>2, <2>4 DEF RegisterInv, FoldSound, Listed
  <2> QED
    BY <1>1, <2>1, <2>2, <2>5, ImportTurns DEF RegisterInv
<1>5. CASE Twins(custom) # {}
  <2>1. twin \in Codes /\ Seen(twin) = types[custom]
    <3>1. Twins(custom) \subseteq Codes
      BY DEF Twins
    <3>2. twin \in Twins(custom)
      BY <1>5, <3>1, LeastTwin
    <3> QED
      BY <3>2 DEF Twins
  <2> HIDE DEF twin
  <2>2. hers \subseteq NNumbers
    OBVIOUS
  <2>3. /\ moves \in [DOMAIN import.moved \cup hers -> Codes]
        /\ DOMAIN moves = DOMAIN import.moved \cup hers
        /\ \A n \in hers : moves[n] = twin
        /\ \A n \in DOMAIN import.moved : n \notin hers => moves[n] = import.moved[n]
    <3> HIDE DEF hers
    <3> QED
      BY <1>2, <2>1
  <2> HIDE DEF moves, hers
  <2>4. moves \in Moves
    BY <1>2, <2>2, <2>3 DEF Moves
  <2>5. /\ one \in ImportRows /\ one.at = "fold" /\ one.file = import.file
        /\ one.todo = import.todo /\ one.custom = custom /\ one.deleted = import.deleted
    BY <1>1, <1>2 DEF ImportRows
  <2> HIDE DEF one
  <2>6. /\ two \in ImportRows /\ two.at = "fold" /\ two.file = import.file
        /\ two.todo = import.todo /\ two.custom = custom /\ two.deleted = import.deleted
        /\ two.moved = moves
    BY <2>4, <2>5 DEF ImportRows
  <2> HIDE DEF two
  <2>7. import' = two
    BY <1>1, <1>5
  <2>8. \A c \in Codes : Seen(c)' = Seen(c)
    BY <1>1, <1>2, <2>6, <2>7, SeenLater DEF RegisterInv, ImportRows
  <2>9. ASSUME NEW n \in DOMAIN import'.moved PROVE Moved(n)'
    <3>1. n \in hers \/ (n \in DOMAIN import.moved /\ n \notin hers)
      BY <2>3, <2>6, <2>7
    <3>2. import'.moved[n] \in Codes /\ import'.moved[n] = moves[n]
      BY <2>3, <2>6, <2>7
    <3>3. Seen(import.moved[n])' = Seen(moves[n])
      BY <2>8, <3>2 DEF Seen
    <3>4. CASE n \in hers
      <4>1. aircraft[n].type = custom /\ moves[n] = twin
        BY <2>3, <3>4 DEF hers
      <4> QED
        BY <1>1, <1>3, <2>1, <3>3, <4>1 DEF Moved, Listed
    <3>5. CASE n \in DOMAIN import.moved /\ n \notin hers
      <4>1. Moved(n) /\ moves[n] = import.moved[n]
        BY <1>1, <2>3, <3>5 DEF RegisterInv, FoldSound
      <4> QED
        BY <1>1, <3>3, <4>1 DEF Moved, Listed
    <3> QED
      BY <3>1, <3>4, <3>5
  <2>10. \A n \in NNumbers : aircraft'[n].type \in import'.deleted => n \in DOMAIN import'.moved
    BY <1>1, <2>3, <2>6, <2>7 DEF RegisterInv, FoldSound
  <2>11. \A id \in import'.todo \cup import'.deleted : Listed(id)'
    BY <1>1, <2>6, <2>7 DEF RegisterInv, FoldSound, Listed
  <2>12. FoldSound'
    BY <1>1, <2>6, <2>7, <2>9, <2>10, <2>11 DEF FoldSound
  <2> QED
    BY <1>1, <2>6, <2>7, <2>12, ImportTurns DEF RegisterInv
<1> QED
  BY <1>4, <1>5

LEMMA DeleteKeeps ==
    ASSUME RegisterInv, DeleteCustom
    PROVE  RegisterInv' /\ NameKept
<1> DEFINE id == import.custom
           less == import.todo \ {id}
           more == import.deleted \cup {id}
           one == [import EXCEPT !.custom = 0]
           two == [one EXCEPT !.todo = less]
           three == [two EXCEPT !.deleted = more]
<1>1. /\ import.at = "fold" /\ id # 0
      /\ import' = IF Protected(id) THEN NoWork ELSE three
      /\ UNCHANGED <<types, aircraft, registry, aliases, asking>>
  BY DEF DeleteCustom
<1>2. /\ import \in ImportRows /\ import.moved \in [DOMAIN import.moved -> Codes]
      /\ DOMAIN import.moved \subseteq NNumbers
  BY <1>1, ImportFields DEF RegisterInv
<1>3. id \in Customs /\ id \in import.todo /\ Listed(id)
  BY <1>1, <1>2 DEF RegisterInv, FoldSound, ImportRows
<1>4. CASE Protected(id)
  BY <1>1, <1>4, ImportTurns DEF RegisterInv, NoWork
<1>5. CASE ~Protected(id)
  <2>1. less \subseteq Customs /\ more \subseteq Customs
    BY <1>2, <1>3 DEF ImportRows
  <2>2. /\ one \in ImportRows /\ one.at = "fold" /\ one.file = import.file
        /\ one.custom = 0 /\ one.moved = import.moved
    BY <1>1, <1>2 DEF ImportRows
  <2>3. \A x \in more : x \in import.deleted \/ x = id
    OBVIOUS
  <2>4. \A x \in less \cup more : Listed(x)
    BY <1>1, <1>3 DEF RegisterInv, FoldSound
  <2> HIDE DEF one, less, more
  <2>5. /\ two \in ImportRows /\ two.at = "fold" /\ two.file = import.file /\ two.todo = less
        /\ two.custom = 0 /\ two.moved = import.moved
    BY <2>1, <2>2 DEF ImportRows
  <2> HIDE DEF two
  <2>6. /\ three \in ImportRows /\ three.at = "fold" /\ three.file = import.file
        /\ three.todo = less /\ three.custom = 0 /\ three.moved = import.moved
        /\ three.deleted = more
    BY <2>1, <2>5 DEF ImportRows
  <2> HIDE DEF three
  <2>7. import' = three
    BY <1>1, <1>5
  <2>8. \A c \in Codes : Seen(c)' = Seen(c)
    BY <1>1, <1>2, <2>1, <2>6, <2>7, SeenLater DEF RegisterInv
  <2>9. \A n \in DOMAIN import'.moved : Moved(n)'
    <3>1. \A n \in DOMAIN import.moved : Moved(n) /\ import.moved[n] \in Codes
      BY <1>1, <1>2 DEF RegisterInv, FoldSound
    <3>2. \A n \in DOMAIN import.moved : Seen(import.moved[n])' = Seen(import.moved[n])
      BY <2>6, <2>7, <2>8, <3>1 DEF Seen
    <3> QED
      BY <1>1, <2>6, <2>7, <3>1, <3>2 DEF Moved, Listed
  <2>10. ASSUME NEW n \in NNumbers, aircraft[n].type \in more
         PROVE  n \in DOMAIN import.moved
    <3>1. CASE aircraft[n].type \in import.deleted
      BY <1>1, <3>1 DEF RegisterInv, FoldSound
    <3>2. CASE aircraft[n].type = id
      BY <1>5, <3>2 DEF Protected, HeldByImport
    <3> QED
      BY <2>3, <2>10, <3>1, <3>2
  <2>11. FoldSound'
    BY <1>1, <2>4, <2>6, <2>7, <2>9, <2>10 DEF FoldSound, Listed
  <2> QED
    BY <1>1, <2>6, <2>7, <2>11, ImportTurns DEF RegisterInv
<1> QED
  BY <1>4, <1>5

LEMMA ImportFailsKeeps ==
    ASSUME RegisterInv, ImportFails
    PROVE  RegisterInv' /\ NameKept
<1>1. import'.at = "idle"
  BY DEF ImportFails, NoWork
<1> QED
  BY <1>1, ImportTurns DEF ImportFails, RegisterInv

\* What the import's transaction sees of a type is what it will be: a name of the file, a type
\* that is gone, or the type as it is.
LEMMA SeenNames ==
    ASSUME RegisterInv, import.at # "idle"
    PROVE  /\ \A id \in TypeIds : Seen(id) \in Names \cup {"none", "gone"}
           /\ \A c \in Codes : Listed(c) => Seen(c) \in Names
           /\ \A id \in Customs : id \notin import.deleted => Seen(id) = types[id]
<1>1. /\ import.file.names \in [Codes -> Names \cup {"none"}]
      /\ import.deleted \subseteq Customs
  BY ImportFields DEF RegisterInv, ImportRows, Files
<1>2. \A c \in Codes : Seen(c) = NameIn(import.file, types, c)
  BY SeenOfCode DEF RegisterInv
<1>3. \A id \in Customs : Seen(id) = IF id \in import.deleted THEN "gone" ELSE types[id]
  BY RegisterKeys DEF Seen
<1>4. types \in [TypeIds -> Names \cup {"none", "gone"}]
  BY DEF RegisterInv, RegisterTypes
<1>5. \A c \in Codes : /\ Seen(c) \in Names \cup {"none", "gone"}
                       /\ Listed(c) => Seen(c) \in Names
  BY <1>1, <1>2, <1>4 DEF NameIn, TypeIds, Listed
<1>6. \A id \in Customs : Seen(id) \in Names \cup {"none", "gone"}
  BY <1>3, <1>4 DEF TypeIds
<1> QED
  BY <1>3, <1>5, <1>6 DEF TypeIds

LEMMA CommitImportKeeps ==
    ASSUME RegisterInv, NEW types_only \in BOOLEAN, CommitImport(types_only)
    PROVE  RegisterInv' /\ NameKept
<1>1. /\ import.at = "fold" /\ import' = NoWork /\ UNCHANGED asking
      /\ types' = [id \in TypeIds |-> Seen(id)]
      /\ aircraft' = [n \in NNumbers |->
                         IF HeldByImport(n) THEN [aircraft[n] EXCEPT !.type = import.moved[n]]
                         ELSE aircraft[n]]
      /\ registry' = IF types_only THEN registry ELSE write_registrations
      /\ aliases' \in [Names -> TypeIds \cup {0}]
      /\ \A name \in Names : Resolved(name, aliases'[name])
  BY DEF CommitImport
<1>2. /\ import \in ImportRows /\ import.moved \in [DOMAIN import.moved -> Codes]
      /\ DOMAIN import.moved \subseteq NNumbers
      /\ import.file \in Files
  BY <1>1, ImportFields DEF RegisterInv, ImportRows
<1>3. /\ \A id \in TypeIds : Seen(id) \in Names \cup {"none", "gone"}
      /\ \A c \in Codes : Listed(c) => Seen(c) \in Names
      /\ \A id \in Customs : id \notin import.deleted => Seen(id) = types[id]
  BY <1>1, SeenNames
<1>4. \A id \in TypeIds : types'[id] = Seen(id)
  BY <1>1
<1>5. types' \in [TypeIds -> Names \cup {"none", "gone"}]
  <2> DEFINE S(id) == Seen(id)
  <2>1. /\ types' = [id \in TypeIds |-> S(id)]
        /\ \A id \in TypeIds : S(id) \in Names \cup {"none", "gone"}
    BY <1>1, <1>3
  <2> HIDE DEF S
  <2> QED
    BY <2>1
\* Aircraft: held or not.
<1>6. ASSUME NEW n \in NNumbers, HeldByImport(n)
      PROVE  /\ import.moved[n] \in Codes /\ aircraft[n].type \in Customs
             /\ Seen(import.moved[n]) = types[aircraft[n].type]
             /\ Listed(aircraft[n].type) /\ OnFile(n)
             /\ aircraft'[n] \in AircraftRow /\ aircraft'[n].type = import.moved[n]
  <2>1. n \in DOMAIN import.moved /\ Moved(n)
    BY <1>6 DEF HeldByImport, RegisterInv, FoldSound
  <2>2. aircraft'[n] = [aircraft[n] EXCEPT !.type = import.moved[n]]
    BY <1>1, <1>6
  <2>3. import.moved[n] \in Codes /\ aircraft[n] \in AircraftRow
    BY <1>2, <2>1 DEF RegisterInv, RegisterTypes
  <2>4. aircraft'[n] \in AircraftRow /\ aircraft'[n].type = import.moved[n]
    BY <2>2, <2>3 DEF AircraftRow, TypeIds
  <2> QED
    BY <1>6, <2>1, <2>3, <2>4, HeldIsOnFile DEF Moved
<1>7. ASSUME NEW n \in NNumbers, ~HeldByImport(n)
      PROVE  aircraft'[n] = aircraft[n] /\ aircraft[n].type \notin import.deleted
  <2>1. aircraft[n].type \notin import.deleted
    BY <1>1, <1>7 DEF RegisterInv, FoldSound, HeldByImport
  <2> QED
    BY <1>1, <1>7, <2>1
<1>8. aircraft' \in [NNumbers -> AircraftRow]
  <2>1. \A n \in NNumbers : aircraft'[n] \in AircraftRow
    BY <1>6, <1>7 DEF RegisterInv, RegisterTypes
  <2>2. aircraft' = [n \in NNumbers |-> aircraft'[n]]
    BY <1>1
  <2> QED
    BY <2>1, <2>2
<1>9. ASSUME NEW n \in NNumbers, OnFile(n)'
      PROVE  aircraft'[n].type \in TypeIds /\ aircraft'[n].type # 0
             /\ types'[aircraft'[n].type] \in Names
  <2>1. CASE HeldByImport(n)
    <3>1. /\ import.moved[n] \in Codes /\ aircraft'[n].type = import.moved[n]
          /\ Seen(import.moved[n]) = types[aircraft[n].type] /\ Listed(aircraft[n].type)
      BY <1>6, <2>1
    <3>2. import.moved[n] \in TypeIds /\ import.moved[n] # 0
      BY <3>1, RegisterKeys DEF TypeIds
    <3>3. types'[import.moved[n]] = types[aircraft[n].type]
      BY <1>4, <3>1, <3>2
    <3> QED
      BY <3>1, <3>2, <3>3 DEF Listed
  <2>2. CASE ~HeldByImport(n)
    <3>1. OnFile(n) /\ aircraft'[n].type = aircraft[n].type /\ aircraft[n] \in AircraftRow
      BY <1>7, <1>9, <2>2 DEF OnFile, RegisterInv, RegisterTypes
    <3>2. aircraft[n].type \in TypeIds /\ aircraft[n].type # 0 /\ Listed(aircraft[n].type)
      BY <3>1 DEF AircraftRow, RegisterInv, RegisterTypes, Registered
    <3>3. Seen(aircraft[n].type) \in Names
      BY <1>3, <1>7, <2>2, <3>2 DEF TypeIds, Listed
    <3> QED
      BY <1>4, <3>1, <3>2, <3>3
  <2> QED
    BY <2>1, <2>2
<1>10. /\ registry' \in [NNumbers -> Codes \cup {0}]
       /\ \A n \in NNumbers : registry'[n] # 0 => types'[registry'[n]] \in Names
  <2>1. CASE types_only
    <3>1. registry' = registry /\ registry \in [NNumbers -> Codes \cup {0}]
      BY <1>1, <2>1 DEF RegisterInv, RegisterTypes
    <3>2. ASSUME NEW n \in NNumbers, registry[n] # 0 PROVE types'[registry[n]] \in Names
      <4>1. registry[n] \in Codes /\ Listed(registry[n])
        BY <3>1, <3>2 DEF RegisterInv, Registered
      <4> QED
        BY <1>3, <1>4, <4>1 DEF TypeIds
    <3> QED
      BY <3>1, <3>2
  <2>2. CASE ~types_only
    <3>1. import.file.typed \in [NNumbers -> Codes \cup {0}]
      BY <1>2 DEF Files
    <3>2. \A n \in NNumbers :
             registry'[n] = IF import.file.typed[n] # 0 /\ Seen(import.file.typed[n]) \in Names
                            THEN import.file.typed[n] ELSE 0
      BY <1>1, <2>2 DEF write_registrations
    <3>3. registry' = [n \in NNumbers |-> registry'[n]]
      BY <1>1, <2>2 DEF write_registrations
    <3>4. \A n \in NNumbers : registry'[n] \in Codes \cup {0}
      BY <3>1, <3>2
    <3>5. \A n \in NNumbers : registry'[n] # 0 => types'[registry'[n]] \in Names
      BY <1>4, <3>1, <3>2 DEF TypeIds
    <3> QED
      BY <3>3, <3>4, <3>5
  <2> QED
    BY <2>1, <2>2
<1>11. \A name \in Names : aliases'[name] # 0 => types'[aliases'[name]] = name
  <2> TAKE name \in Names
  <2> HAVE aliases'[name] # 0
  <2>1. aliases'[name] \in TypeIds /\ Resolved(name, aliases'[name])
    BY <1>1
  <2>2. Seen(aliases'[name]) = name
    BY <2>1 DEF Resolved
  <2> QED
    BY <1>4, <2>1, <2>2
<1>12. RegisterTypes'
  <2>1. import' \in {NoWork} \cup ImportRows /\ asking' \in [Callers -> Askings]
    BY <1>1 DEF RegisterInv, RegisterTypes
  <2>2. \A n \in NNumbers : OnFile(n)' => aircraft'[n].type # 0
    BY <1>9
  <2> QED
    BY <1>1, <1>5, <1>8, <1>10, <2>1, <2>2 DEF RegisterTypes
<1>13. Registered'
  BY <1>9, <1>10, <1>11 DEF Registered, Listed
<1>14. FoldSound'
  BY <1>1 DEF FoldSound, NoWork
<1>15. NameKept
  <2>1. SUFFICES ASSUME NEW n \in NNumbers, OnFile(n), aircraft[n].type \in Customs
                 PROVE  types'[aircraft'[n].type] = types[aircraft[n].type]
    BY DEF NameKept
  <2>2. CASE HeldByImport(n)
    BY <1>4, <1>6, <2>2 DEF TypeIds
  <2>3. CASE ~HeldByImport(n)
    BY <1>3, <1>4, <1>7, <2>1, <2>3 DEF TypeIds
  <2> QED
    BY <2>2, <2>3
<1> QED
  BY <1>12, <1>13, <1>14, <1>15 DEF RegisterInv

LEMMA RegisterStep ==
    RegisterInv /\ [RegisterNext]_registerVars => RegisterInv' /\ NameKept
<1> SUFFICES ASSUME RegisterInv, [RegisterNext]_registerVars
             PROVE  RegisterInv' /\ NameKept
  OBVIOUS
<1>1. CASE UNCHANGED registerVars
  <2>1. UNCHANGED <<types, aircraft, registry, aliases, import>> /\ asking' \in [Callers -> Askings]
    BY <1>1 DEF registerVars, RegisterInv, RegisterTypes
  <2> QED
    BY <2>1, AskingKeeps DEF NameKept
<1> QED
  BY <1>1, RequestsKeep, ImportBeginsKeeps, ReadCustomsKeeps, DeleteKeeps, ImportFailsKeeps,
     MoveKeeps, CommitImportKeeps DEF RegisterNext

LEMMA RegisterBegins == RegisterInit => RegisterInv
<1> SUFFICES ASSUME RegisterInit PROVE RegisterInv
  OBVIOUS
<1>1. NoAircraft \in AircraftRow /\ NoWork \in Askings
  BY DEF NoAircraft, AircraftRow, Askings
<1>2. RegisterTypes
  BY <1>1 DEF RegisterInit, RegisterTypes, OnFile
<1>3. Registered
  BY DEF RegisterInit, Registered, OnFile
<1>4. FoldSound
  BY DEF RegisterInit, FoldSound, NoWork
<1> QED
  BY <1>2, <1>3, <1>4 DEF RegisterInv

\* Whatever members and administrators save beside the import's transaction, every aircraft,
\* registration and alias names a listed type, and folding a hand-added type into the FAA's
\* renames nobody's aircraft (import_registry, fold_custom_types, on_delete=PROTECT).
THEOREM RegisterAlwaysStands == RegisterSpec => RegisterStands
<1>1. RegisterInv /\ [RegisterNext]_registerVars => RegisterInv' /\ (Registered' /\ NameKept)
  <2>1. RegisterInv' => Registered'
    BY DEF RegisterInv
  <2> QED
    BY <2>1, RegisterStep
<1> QED
  BY <1>1, RegisterBegins, PTL DEF RegisterSpec, RegisterStands
=============================================================================
