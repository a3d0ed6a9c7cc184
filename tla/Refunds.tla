------------------------------ MODULE Refunds ------------------------------
(***************************************************************************)
(* Giving money back (backend/apps/payments/refunds.py), for ONE payment:  *)
(* issue_refund, which writes a pending row in one transaction, asks the   *)
(* provider between transactions, and records the answer in a second; and  *)
(* record_dashboard_refund, which the providers' notifications call, for   *)
(* refunds issued in the provider's own dashboard and for CalDART's own.   *)
(* Treasurers' requests run side by side and may die at any point;         *)
(* notifications come at any time and any number of times; the payment     *)
(* itself may still be settling.                                           *)
(*                                                                         *)
(* The second transaction does not lock the payment: it reads the total of *)
(* the refunds committed by then, and writes the payment's status later.   *)
(* Totals and Conclude are those two statements.  Every other transaction  *)
(* holds the payment's row lock (select_for_update) and is one step.       *)
(***************************************************************************)
EXTENDS Naturals, FiniteSets, FiniteSetsExt

CONSTANTS
    Amount,       \* amount_cents of the payment, in units a refund is a number of
    Refunds,      \* bound: the refunds issued from the portal
    ProvIds,      \* bound: the refunds the provider makes, by their provider_ref
    None,         \* a blank provider_ref
    Manual        \* whether the payment was recorded by hand, with no provider to ask

ASSUME RefundAssumption ==
    /\ Amount \in Nat \ {0}
    /\ IsFiniteSet(Refunds) /\ IsFiniteSet(ProvIds)
    /\ None \notin ProvIds
    /\ Manual \in BOOLEAN

VARIABLES
    payment,   \* Payment: its status, and whether its term was canceled
    refund,    \* the Refund rows issue_refund wrote ("none": not written)
    filed,     \* how many Refund rows record_dashboard_refund wrote for each provider_ref:
               \* one at most, however often the notification comes
    worker,    \* issue_refund's own state while it runs
    given,     \* the provider's refunds: the amount given back under each id, 0 for none
    notified   \* whether the notification of each has been delivered, and answered 200

vars == <<payment, refund, filed, worker, given, notified>>

PaymentStatus == {"pending", "failed", "succeeded", "partially_refunded", "refunded"}
SettledStatuses == {"succeeded", "partially_refunded", "refunded"}

RefundRow == [status: {"none", "pending", "succeeded", "failed"}, amount: 0..Amount,
              ref: ProvIds \cup {None}]
Worker == [pc: {"idle", "asking", "answered", "totalled"}, ref: ProvIds \cup {None},
           total: Nat, cancel_term: BOOLEAN]

TypeOK ==
    /\ payment \in [status: PaymentStatus, term_canceled: BOOLEAN]
    /\ refund \in [Refunds -> RefundRow]
    /\ filed \in [ProvIds -> 0..1]
    /\ worker \in [Refunds -> Worker]
    /\ given \in [ProvIds -> 0..Amount]
    /\ notified \in [ProvIds -> BOOLEAN]

Resting == [pc |-> "idle", ref |-> None, total |-> 0, cancel_term |-> FALSE]

Init ==
    /\ payment = [status |-> "pending", term_canceled |-> FALSE]
    /\ refund = [r \in Refunds |-> [status |-> "none", amount |-> 0, ref |-> None]]
    /\ filed = [i \in ProvIds |-> 0]
    /\ worker = [r \in Refunds |-> Resting]
    /\ given = [i \in ProvIds |-> 0]
    /\ notified = [i \in ProvIds |-> FALSE]

(***************************************************************************)
(* Totals                                                                  *)
(***************************************************************************)
Settled == payment.status \in SettledStatuses

\* The rows issue_refund wrote whose status is one of those given.
OwnTotal(statuses) ==
    MapThenSumSet(LAMBDA r : refund[r].amount, {r \in Refunds : refund[r].status \in statuses})

\* The rows a notification wrote, which are always succeeded.
FiledTotal == MapThenSumSet(LAMBDA i : filed[i] * given[i], ProvIds)

\* Payment.refunded_cents
RefundedCents == OwnTotal({"succeeded"}) + FiledTotal

\* Mutant: a refund still in flight is not held back.
ClaimedSucceeded == RefundedCents

\* claimed_cents: every row but the failed ones.
ClaimedCents == OwnTotal({"pending", "succeeded"}) + FiledTotal

\* apply_refund_totals, on what the transaction read as the refunds' total.
StatusFor(total) ==
    IF total >= Amount THEN "refunded"
    ELSE IF total > 0 THEN "partially_refunded" ELSE "succeeded"

(***************************************************************************)
(* The payment (services.py)                                               *)
(***************************************************************************)
\* _complete: a payment whose money has already arrived is returned as it is.
MarkSucceeded ==
    /\ ~Settled
    /\ payment' = [payment EXCEPT !.status = "succeeded"]
    /\ UNCHANGED <<refund, filed, worker, given, notified>>

\* mark_failed: never downgrades such a payment.
MarkFailed ==
    /\ ~Settled
    /\ payment' = [payment EXCEPT !.status = "failed"]
    /\ UNCHANGED <<refund, filed, worker, given, notified>>

(***************************************************************************)
(* issue_refund                                                            *)
(***************************************************************************)
\* The first transaction: the payment is locked, the amount checked, the row written.
Issue(r) ==
    /\ refund[r].status = "none"
    /\ Settled
    /\ \E n \in 1..Amount, cancel \in BOOLEAN :
         /\ n + ClaimedCents <= Amount
         /\ refund' = [refund EXCEPT ![r] = [status |-> "pending", amount |-> n, ref |-> None]]
         /\ worker' = [worker EXCEPT ![r] =
                         [Resting EXCEPT !.pc = "asking", !.cancel_term = cancel]]
    /\ UNCHANGED <<payment, filed, given, notified>>

\* What the provider has given back.  It never gives back more than it took.
GivenTotal == MapThenSumSet(LAMBDA i : given[i], ProvIds)
Gives(i, n) ==
    /\ given[i] = 0
    /\ GivenTotal + n <= Amount
    /\ given' = [given EXCEPT ![i] = n]

\* _ask_the_provider: the refund is made under an id of the provider's choosing; for a
\* payment recorded by hand there is nobody to ask.
Ask(r) ==
    /\ worker[r].pc = "asking"
    /\ IF Manual
       THEN worker' = [worker EXCEPT ![r].pc = "answered"] /\ UNCHANGED given
       ELSE \E i \in ProvIds :
              /\ Gives(i, refund[r].amount)
              /\ worker' = [worker EXCEPT ![r].pc = "answered", ![r].ref = i]
    /\ UNCHANGED <<payment, refund, filed, notified>>

\* Mutant: an answer that never came is taken for a refund.
NoAnswerSucceeds(r) ==
    /\ worker[r].pc \in {"asking", "answered"} /\ ~Manual
    /\ refund' = [refund EXCEPT ![r].status = "succeeded"]
    /\ worker' = [worker EXCEPT ![r] = Resting]
    /\ UNCHANGED <<payment, filed, given, notified>>

\* The provider refuses, cannot be reached, or gives the money back and its answer is
\* lost: the row is failed all the same, and the treasurer told to check the dashboard.
NoAnswer(r) ==
    /\ worker[r].pc \in {"asking", "answered"} /\ ~Manual
    /\ refund' = [refund EXCEPT ![r].status = "failed"]
    /\ worker' = [worker EXCEPT ![r] = Resting]
    /\ UNCHANGED <<payment, filed, given, notified>>

\* The second transaction saves its own row and sums the succeeded ones: its own and
\* those committed by now ...
Totals(r) ==
    /\ worker[r].pc = "answered"
    /\ worker' = [worker EXCEPT ![r].pc = "totalled",
                                ![r].total = RefundedCents + refund[r].amount]
    /\ UNCHANGED <<payment, refund, filed, given, notified>>

\* ... then writes the payment's status, cancels the term when asked to, and commits.
Conclude(r) ==
    /\ worker[r].pc = "totalled"
    /\ refund' = [refund EXCEPT ![r].status = "succeeded", ![r].ref = worker[r].ref]
    /\ payment' = [status |-> StatusFor(worker[r].total),
                   term_canceled |-> payment.term_canceled \/ worker[r].cancel_term]
    /\ worker' = [worker EXCEPT ![r] = Resting]
    /\ UNCHANGED <<filed, given, notified>>

\* The request dies: what was not committed is lost, a pending row stays pending.
Crash(r) ==
    /\ worker[r].pc # "idle"
    /\ worker' = [worker EXCEPT ![r] = Resting]
    /\ UNCHANGED <<payment, refund, filed, given, notified>>

(***************************************************************************)
(* The provider's dashboard, and its notifications                         *)
(***************************************************************************)
\* Somebody refunds in the provider's dashboard, of money the provider took -- or a
\* request the portal gave up on reaches the provider late.
Dashboard(i) ==
    /\ ~Manual
    /\ \E n \in 1..Amount : Gives(i, n)
    /\ UNCHANGED <<payment, refund, filed, worker, notified>>

\* A refund already carries this provider_ref.
OnFile(i) == filed[i] > 0 \/ \E r \in Refunds : refund[r].ref = i

\* The succeeded row of refund i, and the payment's totals with it: apply_refund_totals
\* leaves a payment alone whose money has not arrived.
File(i) ==
    /\ filed' = [filed EXCEPT ![i] = @ + 1]
    /\ payment' = IF Settled
                  THEN [payment EXCEPT !.status = StatusFor(RefundedCents + given[i])]
                  ELSE payment

\* Mutant: the payment's state is not looked at.
RecordsUnsettled(i) == ~OnFile(i)

\* Mutant: only a payment nothing was given back of is taken notice of.
RecordsUnrefunded(i) == payment.status = "succeeded" /\ ~OnFile(i)

\* record_dashboard_refund writes nothing for a payment that has not settled, nor for a
\* refund already on file.
Records(i) == Settled /\ ~OnFile(i)

\* handle_webhook: delivered at any time and any number of times, and always answered
\* 200, so that a notification nothing was made of is not sent again for its own sake.
Notify(i) ==
    /\ given[i] > 0
    /\ notified' = [notified EXCEPT ![i] = TRUE]
    /\ IF Records(i) THEN File(i) ELSE UNCHANGED <<filed, payment>>
    /\ UNCHANGED <<refund, worker, given>>

(***************************************************************************)
(* The specification                                                       *)
(***************************************************************************)
RequestStep(r) ==
    Issue(r) \/ Ask(r) \/ NoAnswer(r) \/ Totals(r) \/ Conclude(r) \/ Crash(r)

Next ==
    \/ MarkSucceeded \/ MarkFailed
    \/ \E r \in Refunds : RequestStep(r)
    \/ \E i \in ProvIds : Dashboard(i) \/ Notify(i)

Spec == Init /\ [][Next]_vars

\* The provider repeats a notification until one delivery is answered, and no longer.
FairSpec == Spec /\ \A i \in ProvIds : WF_vars(~notified[i] /\ Notify(i))

(***************************************************************************)
(* Properties                                                              *)
(***************************************************************************)
\* However many treasurers refund at once, what issue_refund asks the provider for never
\* comes to more than the payment took: a refund in flight holds its amount back
\* (claimed_cents under the payment's lock).
OwnWithinPayment == OwnTotal({"pending", "succeeded"}) <= Amount

\* A refund is recorded only against money that arrived: no row is written for a payment
\* still pending or failed, where settling it later would lose the refund.
RefundNeedsMoney ==
    ~Settled => /\ \A r \in Refunds : refund[r].status = "none"
                /\ \A i \in ProvIds : filed[i] = 0

\* A row issue_refund marked succeeded stands for one refund the provider made, of that
\* very amount, and no two of them for the same one.
SucceededMeansGiven ==
    ~Manual =>
      \A r \in Refunds : refund[r].status = "succeeded" =>
        /\ refund[r].ref # None
        /\ given[refund[r].ref] = refund[r].amount
        /\ \A q \in Refunds : refund[q].ref = refund[r].ref => q = r

\* Every refund whose notification is still to come when its payment has settled ends up
\* on file, by the request's own answer or, when that was lost or its request died, by
\* the notification.  (One notified before the payment settled is dropped, for a
\* treasurer to reconcile: record_dashboard_refund says so.)
GivenIsFiled == \A i \in ProvIds : (given[i] > 0 /\ Settled /\ ~notified[i]) ~> OnFile(i)

\* A refund the provider made is on file at most once: the notification of one CalDART
\* itself issued is a no-op.
FiledOnce ==
    \A i \in ProvIds : filed[i] + Cardinality({r \in Refunds : refund[r].ref = i}) <= 1
=============================================================================
