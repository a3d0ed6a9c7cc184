--------------------------- MODULE RenewalCharge ---------------------------
(***************************************************************************)
(* The charge step of the automatic-renewal scan                           *)
(* (backend/apps/payments/renewals/charge.py), for ONE mandate: how a      *)
(* scheduled attempt is claimed, its payment written, the provider asked,  *)
(* and the answer (or its absence) recorded, while scans die, requests and *)
(* answers are lost or late, webhooks arrive, a treasurer settles charges  *)
(* held in doubt, and the member turns the mandate off and on.             *)
(*                                                                         *)
(* Database rows are the records att[a] (RenewalAttempt), pay[p] (Payment) *)
(* and mandate (RenewalMandate).  scan[s] is the in-memory state of a scan *)
(* process: the attempt it is taking and the COPIES of the rows it read    *)
(* earlier, which may be stale by the time they are used.  prov[p] is what *)
(* the provider holds for payment p; net[p] is the request, or the answer, *)
(* on its way between the two.                                             *)
(*                                                                         *)
(* Time is abstracted to what the code tells apart: a claim younger or     *)
(* older than RENEWAL_STALE_MINUTES, a payment sent less or more than      *)
(* REQUEST_ID_RETENTION ago, a key the provider still knows or has         *)
(* forgotten.  Calendar dates are left to RenewalCalendar.                 *)
(***************************************************************************)
EXTENDS Naturals, FiniteSets

CONSTANTS
    Scans,        \* scan processes: the systemd timer's and the portal's "Run now"
    None,         \* SQL NULL
    Dead,         \* a claim stamp whose scan died, still younger than stale_after()
    Stale,        \* a claim stamp older than stale_after()
    MaxAttempts,  \* bound: RenewalAttempt rows
    MaxPayments,  \* bound: Payment rows
    MaxByHand,    \* bound: terms bought outside the scan
    MaxCrashes,   \* bound: scans that die half way
    Retries,      \* Len(RETRY_OFFSETS)
    Provider,     \* the provider the mandate's payments are taken with
    LateRequests  \* whether a request may still be on its way when a later scan starts

ASSUME ClaimAssumption ==
    /\ None \notin Scans /\ Dead \notin Scans /\ Stale \notin Scans
    /\ None # Dead /\ None # Stale /\ Dead # Stale
ASSUME BoundAssumption ==
    /\ MaxAttempts \in Nat /\ MaxPayments \in Nat /\ MaxByHand \in Nat
    /\ MaxCrashes \in Nat /\ Retries \in Nat
    /\ None \notin Nat
ASSUME ProviderAssumption ==
    Provider \in {"stripe", "paypal"} /\ LateRequests \in BOOLEAN

Attempts == 1..MaxAttempts
Payments == 1..MaxPayments

VARIABLES
    mandate,   \* RenewalMandate: status and failure_count
    att,       \* RenewalAttempt rows ("none": not written yet)
    pay,       \* Payment rows ("none": not written yet; "deleted": thrown away)
    covered,   \* the term the member's coverage reaches (term_to_renew)
    lock,      \* the scan's advisory lock
    scan,      \* in-memory state of each scan process
    prov,      \* what the provider holds for each payment
    net,       \* the request or the answer on the wire for each payment
    crashes    \* scans that have died so far

rows == <<mandate, att, pay, covered>>
provider == <<prov, net>>
vars == <<mandate, att, pay, covered, lock, scan, prov, net, crashes>>

MandateStatus == {"pending", "active", "paused", "canceled"}
Outcome == {"none", "scheduled", "succeeded", "failed", "skipped"}
PaymentStatus == {"none", "pending", "succeeded", "failed", "deleted"}
PC == {"idle", "notice", "read", "charge", "claim", "claimed", "create", "take", "wait",
       "find", "thrown", "capture", "flag", "success", "rolled", "failure", "decline",
       "retry"}

AttemptRow == [outcome: Outcome, claim: Scans \cup {None, Dead, Stale},
               payment: Payments \cup {None}, in_doubt: BOOLEAN, flagged: BOOLEAN,
               term: Nat]
PaymentRow == [status: PaymentStatus, sent: {"no", "recent", "old"}, ref: BOOLEAN,
               owner: Attempts \cup {None}]
ScanState == [pc: PC, a: Attempts \cup {None}, p: Payments \cup {None}, in_doubt: BOOLEAN,
              mstatus: MandateStatus, mfailures: 0..(Retries + 1), fresh: BOOLEAN]
ProviderRecord == [charge: {"none", "created", "pending", "declined", "taken", "mismatched"},
                   key: {"unused", "kept", "aged", "forgotten"}, taken: Nat]

\* The charges that took money, "mismatched" another amount than PayPal was asked for.
Money == {"taken", "mismatched"}

TypeOK ==
    /\ mandate \in [status: MandateStatus, failures: 0..(Retries + 1)]
    /\ att \in [Attempts -> AttemptRow]
    /\ pay \in [Payments -> PaymentRow]
    /\ covered \in Nat
    /\ lock \in Scans \cup {None}
    /\ scan \in [Scans -> ScanState]
    /\ prov \in [Payments -> ProviderRecord]
    /\ net \in [Payments -> {"idle", "sent", "ok", "dup"}]
    /\ crashes \in 0..MaxCrashes

(***************************************************************************)
(* Init: a mandate just activated, a term about to be renewed, no attempt. *)
(***************************************************************************)
Unwritten == [outcome |-> "none", claim |-> None, payment |-> None, in_doubt |-> FALSE,
              flagged |-> FALSE, term |-> 0]
Resting == [pc |-> "idle", a |-> None, p |-> None, in_doubt |-> FALSE,
            mstatus |-> "pending", mfailures |-> 0, fresh |-> FALSE]

Init ==
    /\ mandate = [status |-> "active", failures |-> 0]
    /\ att = [a \in Attempts |-> Unwritten]
    /\ pay = [p \in Payments |->
                [status |-> "none", sent |-> "no", ref |-> FALSE, owner |-> None]]
    /\ covered = 0
    /\ lock = None
    /\ scan = [s \in Scans |-> Resting]
    /\ prov = [p \in Payments |-> [charge |-> "none", key |-> "unused", taken |-> 0]]
    /\ net = [p \in Payments |-> "idle"]
    /\ crashes = 0

(***************************************************************************)
(* Rows                                                                    *)
(***************************************************************************)
Scheduled == {a \in Attempts : att[a].outcome = "scheduled"}

\* schedule_attempt: renewal_attempt_one_scheduled_per_mandate refuses a second
\* scheduled row; a is the next primary key.
NewAttempt(a, term) ==
    [att EXCEPT ![a] = [Unwritten EXCEPT !.outcome = "scheduled", !.term = term]]
NextAttempt(a) ==
    /\ att[a].outcome = "none"
    /\ \A b \in Attempts : b < a => att[b].outcome # "none"

\* mark_succeeded / _complete: a no-op on a settled payment; otherwise it settles
\* the payment and activates the term it buys.
Succeeds(p) ==
    /\ pay' = [pay EXCEPT ![p].status = "succeeded", ![p].ref = TRUE]
    /\ covered' = IF pay[p].status = "succeeded" THEN covered ELSE covered + 1

\* activate_pending_mandate, the last step of _complete: a setup the member has begun,
\* for the same plan, contribution and provider, is switched on with the method this
\* charge was made with, when the provider's record names one.
ActivatedBy(p) ==
    {mandate} \cup {m \in {[status |-> "active", failures |-> 0]} :
                      mandate.status = "pending" /\ pay[p].status # "succeeded"}

\* mark_failed never downgrades a payment whose money arrived.
Failed(row) == IF row.status = "succeeded" THEN row ELSE [row EXCEPT !.status = "failed"]

\* _close and _release are conditional updates on this scan's own claim stamp.
Holds(s) == LET a == scan[s].a IN att[a].outcome = "scheduled" /\ att[a].claim = s

\* _release(attempt), when the claim is still this scan's.
Release(s) ==
    att' = IF Holds(s) THEN [att EXCEPT ![scan[s].a].claim = None] ELSE att

\* The scan has dealt with its attempt: the run ends and the lock is released.
Done(s) ==
    /\ scan' = [scan EXCEPT ![s] = Resting]
    /\ lock' = None

Goto(s, pc) ==
    /\ scan' = [scan EXCEPT ![s].pc = pc]
    /\ UNCHANGED lock

\* _skip_reason: the mandate's status is the copy read with the due list; coverage
\* (which here stands for friend and lifetime too) is read now.
SkipReason(s) ==
    \/ scan[s].mstatus # "active"
    \/ covered > att[scan[s].a].term

\* _paid_meanwhile: the payment of an attempt in doubt has succeeded since.
PaidMeanwhile(s) == scan[s].p # None /\ pay[scan[s].p].status = "succeeded"

(***************************************************************************)
(* The scan: run_auto_renewals, _scan, _notice                             *)
(***************************************************************************)
\* scan_lock, then active_mandates(): the mandate is copied for the notice step.
Start(s) ==
    /\ scan[s].pc = "idle"
    /\ lock = None
    /\ LateRequests \/ \A p \in Payments : net[p] # "sent"
    /\ lock' = s
    /\ scan' = [scan EXCEPT ![s] = [Resting EXCEPT !.pc = "notice", !.mstatus = mandate.status]]
    /\ UNCHANGED <<rows, provider, crashes>>

\* _notice / _catch_up: schedule the charge, when its date has come, for a term
\* without a waiting attempt or one that already succeeded.
Notice(s) ==
    /\ scan[s].pc = "notice"
    /\ scan[s].mstatus = "active"
    /\ Scheduled = {}
    /\ ~ \E a \in Attempts : att[a].outcome = "succeeded" /\ att[a].term = covered
    /\ \E a \in Attempts : NextAttempt(a) /\ att' = NewAttempt(a, covered)
    /\ Goto(s, "read")
    /\ UNCHANGED <<mandate, pay, covered, provider, crashes>>

\* _abandon: the lapse is longer than CATCH_UP_DAYS and nothing was ever attempted.
Abandon(s) ==
    /\ scan[s].pc = "notice"
    /\ scan[s].mstatus = "active"
    /\ ~ \E a \in Attempts : att[a].outcome # "none" /\ att[a].term = covered
    /\ mandate' = [mandate EXCEPT !.status = "paused"]
    /\ Goto(s, "read")
    /\ UNCHANGED <<att, pay, covered, provider, crashes>>

\* Nothing to announce: no active mandate, a friend, a date still to come.
NoNotice(s) ==
    /\ scan[s].pc = "notice"
    /\ Goto(s, "read")
    /\ UNCHANGED <<rows, provider, crashes>>

\* due_attempts: the attempt and its mandate are copied into memory.
Read(s) ==
    /\ scan[s].pc = "read"
    /\ \E a \in Scheduled :
         scan' = [scan EXCEPT ![s] =
                    [pc |-> "charge", a |-> a, p |-> att[a].payment,
                     in_doubt |-> att[a].in_doubt, mstatus |-> mandate.status,
                     mfailures |-> mandate.failures, fresh |-> FALSE]]
    /\ UNCHANGED <<rows, lock, provider, crashes>>

\* Nothing is due: no attempt is scheduled, or the one that is waits for its day.
NothingDue(s) ==
    /\ scan[s].pc = "read"
    /\ Done(s)
    /\ UNCHANGED <<rows, provider, crashes>>

(***************************************************************************)
(* charge(attempt)                                                         *)
(***************************************************************************)
\* Held in doubt: skipped, and flagged again once the member's term has run out.
WaitInDoubt(s) ==
    /\ scan[s].pc = "charge"
    /\ scan[s].in_doubt /\ ~PaidMeanwhile(s)
    /\ \E lapsed \in BOOLEAN :
         att' = [att EXCEPT ![scan[s].a].flagged = @ \/ lapsed]
    /\ Done(s)
    /\ UNCHANGED <<mandate, pay, covered, provider, crashes>>

\* In doubt, but the payment has succeeded: _paid_meanwhile lets it go.
LetGo(s) ==
    /\ scan[s].pc = "charge"
    /\ scan[s].in_doubt /\ PaidMeanwhile(s)
    /\ att' = [att EXCEPT ![scan[s].a].in_doubt = FALSE]
    /\ scan' = [scan EXCEPT ![s].pc = "claim", ![s].in_doubt = FALSE]
    /\ UNCHANGED <<mandate, pay, covered, lock, provider, crashes>>

\* _skip, by way of _finish, which is NOT conditional on the claim.
Skip(s) ==
    /\ scan[s].pc = "charge"
    /\ ~scan[s].in_doubt /\ scan[s].p = None /\ SkipReason(s)
    /\ att' = [att EXCEPT ![scan[s].a].outcome = "skipped"]
    /\ Done(s)
    /\ UNCHANGED <<mandate, pay, covered, provider, crashes>>

GoOn(s) ==
    /\ scan[s].pc = "charge"
    /\ ~scan[s].in_doubt
    /\ scan[s].p # None \/ ~SkipReason(s)
    /\ Goto(s, "claim")
    /\ UNCHANGED <<rows, provider, crashes>>

\* Mutant: a dead scan's claim is never taken over.
ClaimNoTakeover(s) ==
    LET a == scan[s].a IN
    /\ scan[s].pc = "claim"
    /\ att[a].outcome = "scheduled" /\ att[a].claim = None
    /\ att' = [att EXCEPT ![a].claim = s]
    /\ scan' = [scan EXCEPT ![s].pc = "claimed", ![s].p = att[a].payment,
                            ![s].in_doubt = att[a].in_doubt]
    /\ UNCHANGED <<mandate, pay, covered, lock, provider, crashes>>

\* _claim: one conditional update; the payment and the doubt are read again.
Claim(s) ==
    LET a == scan[s].a IN
    /\ scan[s].pc = "claim"
    /\ att[a].outcome = "scheduled" /\ att[a].claim \in {None, Stale}
    /\ att' = [att EXCEPT ![a].claim = s]
    /\ scan' = [scan EXCEPT ![s].pc = "claimed", ![s].p = att[a].payment,
                            ![s].in_doubt = att[a].in_doubt]
    /\ UNCHANGED <<mandate, pay, covered, lock, provider, crashes>>

\* The claim is refused: counted as in_flight.
InFlight(s) ==
    LET a == scan[s].a IN
    /\ scan[s].pc = "claim"
    /\ ~(att[a].outcome = "scheduled" /\ att[a].claim \in {None, Stale})
    /\ Done(s)
    /\ UNCHANGED <<rows, provider, crashes>>

\* Put in doubt between the read and the claim, and still unpaid: given back.  A second
\* line of defence: while the lock keeps other scans out, this does not happen.
GiveBack(s) ==
    /\ scan[s].pc = "claimed"
    /\ Release(s)
    /\ Done(s)
    /\ UNCHANGED <<mandate, pay, covered, provider, crashes>>

\* A claimed attempt is resumed when it carries a payment, and charged when not.
Proceed(s) ==
    /\ scan[s].pc = "claimed"
    /\ att' = IF scan[s].in_doubt THEN [att EXCEPT ![scan[s].a].in_doubt = FALSE] ELSE att
    /\ scan' = [scan EXCEPT ![s].pc = IF scan[s].p = None THEN "create" ELSE "find",
                            ![s].in_doubt = FALSE]
    /\ UNCHANGED <<mandate, pay, covered, lock, provider, crashes>>

AfterClaim(s) ==
    IF scan[s].in_doubt /\ ~PaidMeanwhile(s) THEN GiveBack(s) ELSE Proceed(s)

\* create_checkout and the attempt that owns the payment, in one transaction.  The
\* attempt's save is not conditional on its outcome.
Create(s) ==
    /\ scan[s].pc = "create"
    /\ \E p \in Payments :
         /\ pay[p].status = "none"
         /\ \A q \in Payments : q < p => pay[q].status # "none"
         /\ pay' = [pay EXCEPT ![p].status = "pending", ![p].owner = scan[s].a]
         /\ att' = [att EXCEPT ![scan[s].a].payment = p]
         /\ scan' = [scan EXCEPT ![s].pc = "take", ![s].p = p, ![s].fresh = TRUE]
    /\ UNCHANGED <<mandate, covered, lock, provider, crashes>>

\* create_checkout refuses: the plan is gone, or the member holds a lifetime term.
Unpriced(s) ==
    /\ scan[s].pc = "create"
    /\ att' = [att EXCEPT ![scan[s].a].outcome = "skipped"]
    /\ Done(s)
    /\ UNCHANGED <<mandate, pay, covered, provider, crashes>>

(***************************************************************************)
(* _take, and the provider's charge_mandate                                *)
(***************************************************************************)
\* _postpone(discard): a payment this scan wrote and never sent is thrown away.
Postpone(s, payNow, discard) ==
    LET a == scan[s].a  p == scan[s].p IN
    IF discard /\ Holds(s)
    THEN /\ att' = [att EXCEPT ![a].claim = None, ![a].payment = None]
         /\ pay' = [payNow EXCEPT ![p].status = "deleted"]
    ELSE /\ Release(s)
         /\ pay' = payNow

\* PayPal went unanswered earlier in this run: put off before anything is stamped.
Breaker(s) ==
    /\ scan[s].pc = "take"
    /\ Provider = "paypal"
    /\ Postpone(s, pay, scan[s].fresh)
    /\ Done(s)
    /\ UNCHANGED <<mandate, covered, provider, crashes>>

\* The provider is not configured, or the request certainly never left: a stamp this
\* call made on an older payment is taken back.
NotSent(s) ==
    LET p == scan[s].p
        stamp == IF pay[p].sent = "no" /\ scan[s].fresh THEN "recent" ELSE pay[p].sent
    IN
    /\ scan[s].pc = "take"
    /\ Postpone(s, [pay EXCEPT ![p].sent = stamp], scan[s].fresh)
    /\ Done(s)
    /\ UNCHANGED <<mandate, covered, provider, crashes>>

\* charge_sent_at is stamped the first time; the request leaves, keyed on the payment.
\* There is always a method to charge: the copy of the mandate was active, and a mandate is
\* made active with its method and loses it with its status (save_method, begin_mandate).
Send(s) ==
    LET p == scan[s].p IN
    /\ scan[s].pc = "take"
    /\ pay' = [pay EXCEPT ![p].sent = IF @ = "no" THEN "recent" ELSE @]
    /\ net' = [net EXCEPT ![p] = "sent"]
    /\ Goto(s, "wait")
    /\ UNCHANGED <<mandate, att, covered, prov, crashes>>

\* _hold: released, the payment stays; flagged once when pending for days.
Hold(s) ==
    \E days \in BOOLEAN :
      LET a == scan[s].a
          told == [att EXCEPT ![a].flagged = @ \/ days]
      IN att' = IF Holds(s) THEN [told EXCEPT ![a].claim = None] ELSE told

\* _doubt: released with in_doubt set; the treasurer is told in a second write.
Doubt(s) ==
    LET a == scan[s].a IN
    IF Holds(s)
    THEN /\ att' = [att EXCEPT ![a].claim = None, ![a].in_doubt = TRUE]
         /\ Goto(s, "flag")
    ELSE /\ att' = att
         /\ Done(s)

\* Mutant: a charge still settling is taken for a success.
SettleEager(s, charge) ==
    LET p == scan[s].p IN
    \/ /\ charge \in {"taken", "pending"}
       /\ Succeeds(p)
       /\ mandate' \in ActivatedBy(p)
       /\ Goto(s, "success")
       /\ UNCHANGED att
    \/ /\ charge = "declined"
       /\ Goto(s, "failure")
       /\ UNCHANGED rows

\* What the provider's record says, settled by settle_renewal / settle_renewal_order.
\* The order's or the intent's id is stored first; a refusal may come without one.  Money
\* PayPal captured that verify_capture does not agree with leaves the charge in doubt.
Settle(s, charge) ==
    LET p == scan[s].p IN
    \/ /\ charge = "taken"
       /\ Succeeds(p)
       /\ mandate' \in ActivatedBy(p)
       /\ Goto(s, "success")
       /\ UNCHANGED att
    \/ /\ charge = "pending"
       /\ pay' = [pay EXCEPT ![p].ref = TRUE]
       /\ Hold(s)
       /\ Done(s)
       /\ UNCHANGED <<mandate, covered>>
    \/ /\ charge = "declined"
       /\ \E named \in BOOLEAN : pay' = [pay EXCEPT ![p].ref = @ \/ named]
       /\ Goto(s, "failure")
       /\ UNCHANGED <<mandate, att, covered>>
    \/ /\ charge = "created"
       /\ pay' = [pay EXCEPT ![p].ref = TRUE]
       /\ Goto(s, "capture")
       /\ UNCHANGED <<mandate, att, covered>>
    \/ /\ charge = "mismatched" /\ Provider = "paypal"
       /\ pay' = [pay EXCEPT ![p].ref = TRUE]
       /\ Doubt(s)
       /\ UNCHANGED <<mandate, covered>>

\* The provider's answer arrives.
Answered(s) ==
    LET p == scan[s].p IN
    /\ scan[s].pc = "wait"
    /\ net[p] = "ok"
    /\ net' = [net EXCEPT ![p] = "idle"]
    /\ Settle(s, prov[p].charge)
    /\ UNCHANGED <<prov, crashes>>

\* PayPal refuses the order as a DUPLICATE_INVOICE_ID.
Duplicate(s) ==
    LET p == scan[s].p IN
    /\ scan[s].pc = "wait"
    /\ net[p] = "dup"
    /\ net' = [net EXCEPT ![p] = "idle"]
    /\ Doubt(s)
    /\ UNCHANGED <<mandate, pay, covered, prov, crashes>>

\* Mutant: silence is taken for a decline.
NoAnswerDeclines(s) ==
    /\ scan[s].pc = "wait"
    /\ net' = [net EXCEPT ![scan[s].p] = IF @ = "sent" THEN "sent" ELSE "idle"]
    /\ Goto(s, "failure")
    /\ UNCHANGED <<rows, prov, crashes>>

\* Mutant: silence is taken for a request that never left.
NoAnswerDiscards(s) ==
    /\ scan[s].pc = "wait"
    /\ net' = [net EXCEPT ![scan[s].p] = IF @ = "sent" THEN "sent" ELSE "idle"]
    /\ Postpone(s, pay, TRUE)
    /\ Done(s)
    /\ UNCHANGED <<mandate, covered, prov, crashes>>

\* No usable answer.  Stripe: ProviderUnavailableError, put off with its payment.
\* PayPal: create_renewal_order has retried under one id until its deadline, and the
\* charge is in doubt.
NoAnswer(s) ==
    LET p == scan[s].p IN
    /\ scan[s].pc = "wait"
    /\ net' = [net EXCEPT ![p] = IF @ = "sent" THEN "sent" ELSE "idle"]
    /\ IF Provider = "stripe"
       THEN Postpone(s, pay, FALSE) /\ Done(s)
       ELSE Doubt(s) /\ UNCHANGED pay
    /\ UNCHANGED <<mandate, covered, prov, crashes>>

\* _flag, after _doubt.
Flag(s) ==
    /\ scan[s].pc = "flag"
    /\ att' = [att EXCEPT ![scan[s].a].flagged = TRUE]
    /\ Done(s)
    /\ UNCHANGED <<mandate, pay, covered, provider, crashes>>

\* What comes of a charge at the provider.
Charged(p, charge) ==
    [prov EXCEPT ![p].charge = charge,
                 ![p].taken = IF charge \in Money THEN @ + 1 ELSE @]

\* settle_renewal_order: an order not yet COMPLETED is captured under its own key.
Capture(s) ==
    LET p == scan[s].p IN
    /\ scan[s].pc = "capture"
    /\ \E charge \in {"taken", "mismatched", "pending", "declined"} :
         /\ prov' = IF prov[p].charge = "created" THEN Charged(p, charge) ELSE prov
         /\ Settle(s, prov'[p].charge)
    /\ UNCHANGED <<net, crashes>>

\* The capture goes unanswered, whether or not PayPal made it.
CaptureUnanswered(s) ==
    LET p == scan[s].p IN
    /\ scan[s].pc = "capture"
    /\ \/ UNCHANGED prov
       \/ /\ prov[p].charge = "created"
          /\ prov' = Charged(p, "taken")
    /\ Postpone(s, pay, FALSE)
    /\ Done(s)
    /\ UNCHANGED <<mandate, covered, net, crashes>>

\* PayPal refuses the capture itself: a decline, or, with DUPLICATE_INVOICE_ID, a charge in
\* doubt (renewal_refusal).  Refusing CalDART's credentials is an outage, as above.
CaptureRefused(s) ==
    /\ scan[s].pc = "capture" /\ Provider = "paypal"
    /\ \/ Goto(s, "failure") /\ UNCHANGED att
       \/ Doubt(s)
    /\ UNCHANGED <<mandate, pay, covered, provider, crashes>>

(***************************************************************************)
(* _resume: a payment sent before is looked up before anything is charged  *)
(***************************************************************************)
\* Already marked succeeded, by the webhook or by an answer whose scan then died.
AlreadyPaid(s) ==
    /\ scan[s].pc = "find"
    /\ pay[scan[s].p].status = "succeeded"
    /\ Goto(s, "success")
    /\ UNCHANGED <<rows, provider, crashes>>

\* Whether find_mandate_charge can look the charge up: Stripe lists the customer's
\* intents by metadata, PayPal only reads an order whose id was stored.
CanLookUp(p) == Provider = "stripe" \/ pay[p].ref

Found(s) ==
    LET p == scan[s].p IN
    /\ scan[s].pc = "find"
    /\ pay[p].status # "succeeded"
    /\ CanLookUp(p)
    /\ prov[p].charge # "none"
    /\ Settle(s, prov[p].charge)
    /\ UNCHANGED <<provider, crashes>>

\* Mutant: the provider is not asked.
NeverAsks(s) == pay[scan[s].p].status # "succeeded"

\* The provider doesn't hold a charge -- or, for PayPal without an order id, one
\* sent recently enough for its PayPal-Request-Id to bring the order back.
FindsNothing(s) ==
    LET p == scan[s].p IN
    /\ pay[p].status # "succeeded"
    /\ IF CanLookUp(p) THEN prov[p].charge = "none" ELSE pay[p].sent # "old"

ChargeAgain(s) ==
    /\ scan[s].pc = "find"
    /\ FindsNothing(s)
    /\ ~SkipReason(s)
    /\ scan' = [scan EXCEPT ![s].pc = "take", ![s].fresh = FALSE]
    /\ UNCHANGED <<rows, lock, provider, crashes>>

\* The attempt should no longer be charged: its payment is detached and deleted ...
ThrowAway(s) ==
    /\ scan[s].pc = "find"
    /\ FindsNothing(s)
    /\ SkipReason(s)
    /\ pay' = [pay EXCEPT ![scan[s].p].status = "deleted"]
    /\ att' = [att EXCEPT ![scan[s].a].payment = None]
    /\ Goto(s, "thrown")
    /\ UNCHANGED <<mandate, covered, provider, crashes>>

\* ... and then it is skipped (_skip, by way of the unconditional _finish).
SkipThrown(s) ==
    /\ scan[s].pc = "thrown"
    /\ att' = [att EXCEPT ![scan[s].a].outcome = "skipped"]
    /\ Done(s)
    /\ UNCHANGED <<mandate, pay, covered, provider, crashes>>

\* PayPal may hold an order it no longer recognizes the id of.
TooOld(s) ==
    LET p == scan[s].p IN
    /\ scan[s].pc = "find"
    /\ pay[p].status # "succeeded"
    /\ ~CanLookUp(p) /\ pay[p].sent = "old"
    /\ Doubt(s)
    /\ UNCHANGED <<mandate, pay, covered, provider, crashes>>

\* The provider cannot be asked, or PayPal refuses CalDART's credentials.
LookupUnavailable(s) ==
    LET p == scan[s].p IN
    /\ scan[s].pc = "find"
    /\ pay[p].status # "succeeded"
    /\ CanLookUp(p)
    /\ Postpone(s, pay, FALSE)
    /\ Done(s)
    /\ UNCHANGED <<mandate, covered, provider, crashes>>

\* PayPal refuses to show the order for any other reason: counted as a decline, whatever
\* PayPal holds (renewal_refusal).
LookupRefused(s) ==
    /\ scan[s].pc = "find"
    /\ Provider = "paypal"
    /\ pay[scan[s].p].status # "succeeded" /\ pay[scan[s].p].ref
    /\ Goto(s, "failure")
    /\ UNCHANGED <<rows, provider, crashes>>

(***************************************************************************)
(* _record_success and _record_failure                                     *)
(***************************************************************************)
\* Mutant: closed whoever holds the claim.
CloseUnconditional(s, outcome, next) ==
    /\ att' = [att EXCEPT ![scan[s].a].outcome = outcome, ![scan[s].a].claim = None]
    /\ Goto(s, next)

\* _close: a scan whose claim is gone records nothing and emails nobody.  (A closed
\* attempt's stamp is never read again; the model clears it.)
Close(s, outcome, next) ==
    IF Holds(s)
    THEN /\ att' = [att EXCEPT ![scan[s].a].outcome = outcome, ![scan[s].a].claim = None]
         /\ Goto(s, next)
    ELSE /\ att' = att
         /\ Done(s)

RecordSuccess(s) ==
    /\ scan[s].pc = "success"
    /\ Close(s, "succeeded", "rolled")
    /\ UNCHANGED <<mandate, pay, covered, provider, crashes>>

\* The mandate's failure count is cleared.
RollForward(s) ==
    /\ scan[s].pc = "rolled"
    /\ mandate' = [mandate EXCEPT !.failures = 0]
    /\ Done(s)
    /\ UNCHANGED <<att, pay, covered, provider, crashes>>

RecordFailure(s) ==
    /\ scan[s].pc = "failure"
    /\ Close(s, "failed", "decline")
    /\ UNCHANGED <<mandate, pay, covered, provider, crashes>>

\* Mutant: one rung too many.
DeclineOffByOne(s) ==
    LET failures == scan[s].mfailures + 1 IN
    /\ scan[s].pc = "decline"
    /\ pay' = [pay EXCEPT ![scan[s].p] = Failed(@)]
    /\ scan[s].mstatus = "active"
    /\ mandate' = [status |-> IF failures > Retries + 1 THEN "paused" ELSE "active",
                   failures |-> failures]
    /\ Goto(s, "retry")
    /\ UNCHANGED <<att, covered, provider, crashes>>

\* The rung of the ladder: the payment is marked failed, and failure_count and status
\* are saved from the scan's own copy of the mandate.
Decline(s) ==
    LET failures == scan[s].mfailures + 1
        paused == failures > Retries
    IN
    /\ scan[s].pc = "decline"
    /\ pay' = [pay EXCEPT ![scan[s].p] = Failed(@)]
    /\ IF scan[s].mstatus # "active"
       THEN Done(s) /\ UNCHANGED mandate
       ELSE /\ mandate' = [status |-> IF paused THEN "paused" ELSE "active",
                           failures |-> failures]
            /\ IF paused THEN Done(s) ELSE Goto(s, "retry")
    /\ UNCHANGED <<att, covered, provider, crashes>>

\* After the member's email, the retry: schedule_attempt, which leaves the charge to
\* the attempt already waiting when there is one.
Retry(s) ==
    /\ scan[s].pc = "retry"
    /\ IF Scheduled # {}
       THEN att' = att
       ELSE \E b \in Attempts : NextAttempt(b) /\ att' = NewAttempt(b, att[scan[s].a].term)
    /\ Done(s)
    /\ UNCHANGED <<mandate, pay, covered, provider, crashes>>

(***************************************************************************)
(* A scan that dies: its session's lock goes, its claim stamp stays.       *)
(***************************************************************************)
Crash(s) ==
    /\ scan[s].pc # "idle"
    /\ crashes < MaxCrashes
    /\ crashes' = crashes + 1
    /\ att' = [a \in Attempts |->
                 IF att[a].claim = s THEN [att[a] EXCEPT !.claim = Dead] ELSE att[a]]
    /\ scan' = [scan EXCEPT ![s] = Resting]
    /\ lock' = None
    /\ UNCHANGED <<mandate, pay, covered, provider>>

\* RENEWAL_STALE_MINUTES go by.  A live scan's claim never gets that old:
\* MINIMUM_STALE_MINUTES and CREATE_DEADLINE_SECONDS are chosen so.
ClaimGoesStale(a) ==
    /\ att[a].claim = Dead /\ att[a].outcome = "scheduled"
    /\ att' = [att EXCEPT ![a].claim = Stale]
    /\ UNCHANGED <<mandate, pay, covered, lock, scan, provider, crashes>>

(***************************************************************************)
(* The provider                                                            *)
(***************************************************************************)
InTheHandsOf(s, p) == scan[s].p = p /\ scan[s].pc \in {"find", "take", "wait", "capture"}

\* Mutant: the order names no invoice.
NoInvoice(p) == FALSE

\* Every order for a payment names that payment as its invoice_id, and PayPal refuses
\* an invoice it has been paid for.
InvoiceRefused(p) == Provider = "paypal" /\ prov[p].charge \in Money \cup {"pending"}

\* Every request for a payment carries that payment's idempotency key, and a provider
\* that still knows the key brings back what it already made.
KeyKnown(p) == prov[p].key \in {"kept", "aged"}

\* A request reaches the provider; anything not recognized is a new charge.
Process(p) ==
    /\ net[p] = "sent"
    /\ \/ /\ KeyKnown(p)
          /\ net' = [net EXCEPT ![p] = "ok"]
          /\ UNCHANGED prov
       \/ /\ ~KeyKnown(p) /\ InvoiceRefused(p)
          /\ net' = [net EXCEPT ![p] = "dup"]
          /\ UNCHANGED prov
       \/ /\ ~KeyKnown(p) /\ ~InvoiceRefused(p)
          /\ \E charge \in {"taken", "mismatched", "pending", "declined", "created"} :
               /\ charge \in {"mismatched", "created"} => Provider = "paypal"
               /\ prov' = [prov EXCEPT ![p] =
                             [charge |-> charge, key |-> "kept",
                              taken |-> IF charge \in Money THEN @.taken + 1 ELSE @.taken]]
          /\ net' = [net EXCEPT ![p] = "ok"]
    /\ UNCHANGED <<rows, lock, scan, crashes>>

\* A request or an answer is lost.
Lose(p) ==
    /\ net[p] # "idle"
    /\ net' = [net EXCEPT ![p] = "idle"]
    /\ UNCHANGED <<rows, lock, scan, prov, crashes>>

\* A charge the provider was still settling comes through, or is refused.
PendingSettles(p) ==
    /\ prov[p].charge = "pending"
    /\ prov' \in {Charged(p, "taken"), Charged(p, "declined")}
    /\ UNCHANGED <<rows, lock, scan, net, crashes>>

\* REQUEST_ID_RETENTION goes by since the payment was sent.
Elapse(p) ==
    /\ pay[p].owner # None /\ att[pay[p].owner].outcome = "scheduled"
    /\ pay[p].sent = "recent" \/ prov[p].key = "kept"
    /\ pay' = [pay EXCEPT ![p].sent = IF @ = "recent" THEN "old" ELSE @]
    /\ prov' = [prov EXCEPT ![p].key = IF @ = "kept" THEN "aged" ELSE @]
    /\ UNCHANGED <<mandate, att, covered, lock, scan, net, crashes>>

\* The provider forgets the key: PayPal an hour later, Stripe after a day.  No single
\* charge, and no request on the wire, lasts that long.
Forget(p) ==
    /\ pay[p].owner # None /\ att[pay[p].owner].outcome = "scheduled"
    /\ prov[p].key = "aged"
    /\ net[p] = "idle"
    /\ \A s \in Scans : ~InTheHandsOf(s, p)
    /\ prov' = [prov EXCEPT ![p].key = "forgotten"]
    /\ UNCHANGED <<rows, lock, scan, net, crashes>>

\* The webhook.  Stripe's names the payment in its metadata; PayPal's is refused by
\* verify_capture unless the payment already stores that order.
Webhook(p) ==
    /\ pay[p].status \in {"pending", "failed"}
    /\ CanLookUp(p)
    /\ \/ /\ prov[p].charge = "taken"
          /\ Succeeds(p)
          /\ mandate' \in ActivatedBy(p)
       \/ /\ prov[p].charge = "declined"
          /\ pay' = [pay EXCEPT ![p] = Failed(@)]
          /\ UNCHANGED <<mandate, covered>>
    /\ UNCHANGED <<att, lock, scan, provider, crashes>>

(***************************************************************************)
(* settle_in_doubt: the treasurer's answer, with attempt and payment locked *)
(***************************************************************************)
InDoubt(a) == att[a].in_doubt /\ att[a].outcome = "scheduled"
Settled(row) == [row EXCEPT !.in_doubt = FALSE, !.flagged = FALSE, !.claim = None]

\* paid: PayPal confirms the capture, and charge() records it in the same transaction.
SettlePaid(a) ==
    LET p == att[a].payment IN
    /\ InDoubt(a)
    /\ Provider = "paypal" /\ prov[p].charge = "taken"
    /\ Succeeds(p)
    /\ att' = [att EXCEPT ![a] = [Settled(@) EXCEPT !.outcome = "succeeded"]]
    /\ \E m \in ActivatedBy(p) : mandate' = [m EXCEPT !.failures = 0]
    /\ UNCHANGED <<lock, scan, provider, crashes>>

\* released: the treasurer found no payment -- or overlooked it.
SettleReleased(a) ==
    LET p == att[a].payment IN
    /\ InDoubt(a)
    /\ pay[p].status # "succeeded"
    /\ pay' = [pay EXCEPT ![p].sent = "no"]
    /\ att' = [att EXCEPT ![a] = Settled(@)]
    /\ UNCHANGED <<mandate, covered, lock, scan, provider, crashes>>

\* failed: closed without a charge; an active mandate is paused (_close_unpaid).
SettleFailed(a) ==
    LET p == att[a].payment IN
    /\ InDoubt(a)
    /\ pay[p].status # "succeeded"
    /\ att' = [att EXCEPT ![a] = [Settled(@) EXCEPT !.outcome = "failed"]]
    /\ pay' = [pay EXCEPT ![p] = Failed(@)]
    /\ mandate' = [mandate EXCEPT !.status = IF @ = "active" THEN "paused" ELSE @]
    /\ UNCHANGED <<covered, lock, scan, provider, crashes>>

(***************************************************************************)
(* The member                                                              *)
(***************************************************************************)
\* cancel_mandate: an attempt without a payment is skipped; one with a payment is
\* left for the scan to settle.
CancelMandate ==
    /\ mandate.status # "canceled"
    /\ mandate' = [mandate EXCEPT !.status = "canceled"]
    /\ att' = [a \in Attempts |->
                 IF att[a].outcome = "scheduled" /\ att[a].payment = None
                 THEN [att[a] EXCEPT !.outcome = "skipped"] ELSE att[a]]
    /\ UNCHANGED <<pay, covered, lock, scan, provider, crashes>>

\* begin_mandate: replaced by a pending authority without a method.
BeginMandate ==
    /\ mandate.status # "pending"
    /\ mandate' = [status |-> "pending", failures |-> 0]
    /\ UNCHANGED <<att, pay, covered, lock, scan, provider, crashes>>

\* save_method: the provider confirms the method.  MyRenewalConfirmView doesn't look at
\* the mandate's status: a setup confirmed late switches a canceled one on again.
SaveMethod ==
    /\ mandate' = [status |-> "active", failures |-> 0]
    /\ UNCHANGED <<att, pay, covered, lock, scan, provider, crashes>>

\* The charge is no longer owed: a term paid by hand or granted, a lifetime term, or
\* the member become a friend.
RenewByHand ==
    /\ covered < MaxByHand
    /\ covered' = covered + 1
    /\ UNCHANGED <<mandate, att, pay, lock, scan, provider, crashes>>

(***************************************************************************)
(* The specification                                                       *)
(***************************************************************************)
ScanStep(s) ==
    \/ Start(s) \/ Notice(s) \/ Abandon(s) \/ NoNotice(s) \/ Read(s) \/ NothingDue(s)
    \/ WaitInDoubt(s) \/ LetGo(s) \/ Skip(s) \/ GoOn(s) \/ Claim(s) \/ InFlight(s)
    \/ AfterClaim(s) \/ Create(s) \/ Unpriced(s)
    \/ Breaker(s) \/ NotSent(s) \/ Send(s) \/ Answered(s) \/ Duplicate(s) \/ NoAnswer(s)
    \/ Flag(s) \/ Capture(s) \/ CaptureUnanswered(s) \/ CaptureRefused(s)
    \/ AlreadyPaid(s) \/ Found(s) \/ ChargeAgain(s) \/ ThrowAway(s) \/ SkipThrown(s) \/ TooOld(s)
    \/ LookupUnavailable(s) \/ LookupRefused(s)
    \/ RecordSuccess(s) \/ RollForward(s) \/ RecordFailure(s) \/ Decline(s)
    \/ Retry(s)

ProviderStep(p) ==
    Process(p) \/ Lose(p) \/ PendingSettles(p) \/ Elapse(p) \/ Forget(p) \/ Webhook(p)

TreasurerStep(a) == SettlePaid(a) \/ SettleReleased(a) \/ SettleFailed(a)

MemberStep == CancelMandate \/ BeginMandate \/ SaveMethod \/ RenewByHand

Next ==
    \/ \E s \in Scans : ScanStep(s) \/ Crash(s)
    \/ \E p \in Payments : ProviderStep(p)
    \/ \E a \in Attempts : TreasurerStep(a) \/ ClaimGoesStale(a)
    \/ MemberStep

Spec == Init /\ [][Next]_vars

(***************************************************************************)
(* Properties                                                              *)
(***************************************************************************)
\* The payments ever written for attempt a that the provider took money for, thrown
\* away or not.
TakenFor(a) == {p \in Payments : pay[p].owner = a /\ prov[p].taken > 0}

\* However often a charge is repeated -- after a lost answer, a dead scan, a treasurer's
\* mistaken release -- the provider takes the money of one payment at most once.
ChargedOnce == \A p \in Payments : prov[p].taken <= 1

\* One attempt never costs the member two charges, though its payment may be thrown
\* away and written afresh (_postpone(discard), charge).
OneChargePerAttempt == \A a \in Attempts : Cardinality(TakenFor(a)) <= 1

\* An attempt is recorded as charged only on money the provider really took, under the
\* payment it carries (_record_success after mark_succeeded).
SucceededMeansTaken ==
    \A a \in Attempts : att[a].outcome = "succeeded" =>
        /\ att[a].payment # None
        /\ pay[att[a].payment].status = "succeeded"
        /\ prov[att[a].payment].taken = 1

\* An attempt recorded as failed never had its money taken, unless a treasurer closed a
\* charge in doubt (which only PayPal's are): a decline is believed only when Stripe says
\* that it took nothing.  PayPal's are left out: a lookup it refuses counts as a decline
\* whatever it holds (find_mandate_charge, renewal_refusal).
DeclinedMeansUntaken ==
    Provider = "stripe" =>
        \A a \in Attempts : att[a].outcome = "failed" => TakenFor(a) = {}

\* Money the provider took always has a payment row to be recorded on: a payment is
\* thrown away only when the provider was never asked, or holds nothing.
MoneyHasPayment == \A p \in Payments : prov[p].taken > 0 => pay[p].status # "deleted"

\* An active mandate always has a rung of its retry ladder left: the decline that spends
\* the last one pauses it, whichever copy of the mandate the scan saved.
ActiveHasRetries == mandate.status = "active" => mandate.failures <= Retries

\* What a scan, a cancellation or a treasurer closed stays closed as it was: no late
\* answer, stale copy or second settlement rewrites it (_close, _finish, settle_in_doubt).
\* And a charge held in doubt is let go only on its payment's success or on the treasurer's
\* word (closed, or stamped as never sent): no scan lifts the hold by itself.
ClosedStaysClosed ==
    [][\A a \in Attempts :
          /\ att[a].outcome \in {"succeeded", "failed", "skipped"} =>
                 att'[a].outcome = att[a].outcome
          /\ att[a].in_doubt /\ ~att'[a].in_doubt =>
                 \/ att'[a].outcome # "scheduled"
                 \/ pay'[att[a].payment].status = "succeeded"
                 \/ pay'[att[a].payment].sent = "no"]_vars

\* Scans keep starting, the timer's if nobody presses Run now, and one that runs steps on;
\* a scheduled attempt that stays due is read by some scan; dead claims age; and a provider
\* that scans ask again and again about a charge it holds eventually answers one of them.
Fairness ==
    /\ WF_vars(\E s \in Scans : Start(s))
    /\ \A s \in Scans : WF_vars(ScanStep(s) /\ ~Start(s))
    /\ SF_vars(\E s \in Scans : Read(s)) /\ SF_vars(\E s \in Scans : Found(s))
    /\ \A a \in Attempts : WF_vars(ClaimGoesStale(a))

FairSpec == Spec /\ Fairness

\* A charge Stripe took for a waiting attempt is in the end recorded as taken, whatever
\* answers were lost, scans died or mandates were turned off on the way: no claim, lost
\* answer or cancellation strands it (_claim's takeover, _resume).
TakenIsRecorded ==
    \A a \in Attempts :
        (att[a].outcome = "scheduled" /\ TakenFor(a) # {}) ~> (att[a].outcome = "succeeded")
=============================================================================
