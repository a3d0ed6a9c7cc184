--------------------------- MODULE RefundsProofs ---------------------------
(***************************************************************************)
(* Theorems about Refunds, for any amount and any number of refunds: a     *)
(* refund is recorded only against money that arrived, one recorded as     *)
(* succeeded is one the provider made, and what issue_refund asks back     *)
(* never comes to more than the payment.                                   *)
(*                                                                         *)
(* The last is about a sum over rows (claimed_cents).  The middle part     *)
(* proves what is needed of MapThenSumSet: that its recursive function     *)
(* exists for every finite set, that any member of the set can be taken    *)
(* out of the sum, and that the sum depends on the members' values only.   *)
(* Each is an induction over finite sets, done by taking a set with no     *)
(* proper subset that fails (SmallestSet).                                 *)
(***************************************************************************)
EXTENDS Refunds, FiniteSetTheorems, WellFoundedInduction, TLAPS

\* The rows and the requests have their fields; a request's total may be anything.
Shape ==
    /\ payment = [status |-> payment.status, term_canceled |-> payment.term_canceled]
    /\ refund \in [Refunds -> RefundRow]
    /\ filed = [i \in ProvIds |-> filed[i]]
    /\ given \in [ProvIds -> 0..Amount]
    /\ worker = [r \in Refunds |-> worker[r]]
    /\ \A r \in Refunds :
         /\ worker[r] = [pc |-> worker[r].pc, ref |-> worker[r].ref,
                         total |-> worker[r].total, cancel_term |-> worker[r].cancel_term]
         /\ worker[r].pc \in {"idle", "asking", "answered", "totalled"}
         /\ worker[r].ref \in ProvIds \cup {None}

\* The id a row or its request holds is one the provider gave exactly that amount under.
RowBacked(r) ==
    /\ refund[r].status # "none" => refund[r].amount > 0
    /\ refund[r].ref # None => refund[r].status = "succeeded"
    /\ ~Manual /\ refund[r].status = "succeeded" => refund[r].ref # None
    /\ refund[r].ref # None => given[refund[r].ref] = refund[r].amount

RequestBacked(r) ==
    /\ worker[r].pc # "idle" => refund[r].status = "pending"
    /\ worker[r].pc \in {"idle", "asking"} => worker[r].ref = None
    /\ ~Manual /\ worker[r].pc \in {"answered", "totalled"} => worker[r].ref # None
    /\ worker[r].ref # None => given[worker[r].ref] = refund[r].amount

Backed == \A r \in Refunds : RowBacked(r) /\ RequestBacked(r)

\* No two refunds hold the same id.
Has(r, i) == refund[r].ref = i \/ worker[r].ref = i
Apart == \A q, r \in Refunds, i \in ProvIds : Has(q, i) /\ Has(r, i) => q = r

IndInv == Shape /\ Backed /\ Apart /\ RefundNeedsMoney

-----------------------------------------------------------------------------
\* An id the provider has not used yet is held by nobody.
LEMMA UnusedUnheld ==
    ASSUME IndInv, NEW i \in ProvIds, given[i] = 0, NEW r \in Refunds
    PROVE  ~Has(r, i)
<1>1. RowBacked(r) /\ RequestBacked(r)
  BY DEF IndInv, Backed
<1>2. refund[r] \in RefundRow
  BY DEF IndInv, Shape
<1>3. refund[r].ref # i
  BY <1>1, <1>2, RefundAssumption DEF RowBacked, RefundRow
<1>4. worker[r].ref # i
  BY <1>1, <1>2, RefundAssumption DEF RowBacked, RequestBacked, RefundRow, IndInv, Shape
<1> QED
  BY <1>3, <1>4 DEF Has

\* Whatever the refunds come to, the payment stays settled.
LEMMA StatusSettled == \A total : StatusFor(total) \in SettledStatuses
BY DEF StatusFor, SettledStatuses

\* Nothing is asked, written or given at first.
LEMMA InitInv == Init => IndInv
<1> SUFFICES ASSUME Init PROVE IndInv
  OBVIOUS
<1> USE RefundAssumption
<1>1. Shape
  <2>1. payment = [status |-> payment.status, term_canceled |-> payment.term_canceled]
    BY DEF Init
  <2>2. refund \in [Refunds -> RefundRow] /\ given \in [ProvIds -> 0..Amount]
    BY DEF Init, RefundRow
  <2>3. filed = [i \in ProvIds |-> filed[i]] /\ worker = [r \in Refunds |-> worker[r]]
    BY DEF Init
  <2> QED
    BY <2>1, <2>2, <2>3 DEF Init, Shape, Resting
<1>2. Backed
  BY DEF Init, Backed, RowBacked, RequestBacked, Resting
<1>3. Apart
  BY DEF Init, Apart, Has, Resting
<1>4. RefundNeedsMoney
  BY DEF Init, RefundNeedsMoney
<1> QED
  BY <1>1, <1>2, <1>3, <1>4 DEF IndInv

-----------------------------------------------------------------------------
(* One step of each operation. *)

\* MarkSucceeded and MarkFailed change only the status of an unsettled payment.
LEMMA MarkInv == IndInv /\ (MarkSucceeded \/ MarkFailed) => IndInv'
<1> SUFFICES ASSUME IndInv, MarkSucceeded \/ MarkFailed PROVE IndInv'
  OBVIOUS
<1>1. UNCHANGED <<refund, filed, worker, given>> /\ ~Settled
  BY DEF MarkSucceeded, MarkFailed
<1>2. Shape'
  BY <1>1 DEF MarkSucceeded, MarkFailed, IndInv, Shape
<1>3. Backed' /\ Apart'
  BY <1>1 DEF IndInv, Backed, RowBacked, RequestBacked, Apart, Has
<1>4. RefundNeedsMoney'
  BY <1>1 DEF IndInv, RefundNeedsMoney
<1> QED
  BY <1>2, <1>3, <1>4 DEF IndInv

\* A new row holds no id yet.
LEMMA IssueInv == ASSUME IndInv, NEW r \in Refunds, Issue(r) PROVE IndInv'
<1> USE RefundAssumption
<1>1. PICK n \in 1..Amount, cancel \in BOOLEAN :
        /\ refund' = [refund EXCEPT ![r] = [status |-> "pending", amount |-> n, ref |-> None]]
        /\ worker' = [worker EXCEPT ![r] = [pc |-> "asking", ref |-> None, total |-> 0,
                                            cancel_term |-> cancel]]
  BY DEF Issue, Resting
<1>2. UNCHANGED <<payment, filed, given>> /\ Settled
  BY DEF Issue
<1>3. \A q \in Refunds :
        /\ refund'[q] = IF q = r THEN [status |-> "pending", amount |-> n, ref |-> None]
                        ELSE refund[q]
        /\ worker'[q] = IF q = r THEN [pc |-> "asking", ref |-> None, total |-> 0,
                                       cancel_term |-> cancel]
                        ELSE worker[q]
  BY <1>1 DEF IndInv, Shape
<1>4. Shape'
  <2>1. refund' \in [Refunds -> RefundRow]
    BY <1>1 DEF IndInv, Shape, RefundRow
  <2>2. worker' = [q \in Refunds |-> worker'[q]]
    BY <1>1 DEF IndInv, Shape
  <2> QED
    BY <1>2, <1>3, <2>1, <2>2 DEF IndInv, Shape
<1>5. Backed'
  BY <1>2, <1>3 DEF IndInv, Backed, RowBacked, RequestBacked
<1>6. Apart'
  BY <1>3 DEF IndInv, Apart, Has
<1>7. RefundNeedsMoney'
  BY <1>2 DEF RefundNeedsMoney, Settled
<1> QED
  BY <1>4, <1>5, <1>6, <1>7 DEF IndInv

\* The id the provider chooses is new, so the request that holds it is alone.
LEMMA AskInv == ASSUME IndInv, NEW r \in Refunds, Ask(r) PROVE IndInv'
<1> USE RefundAssumption
<1>1. UNCHANGED <<payment, refund, filed>> /\ worker[r].pc = "asking"
  BY DEF Ask
<1>2. RefundNeedsMoney'
  BY <1>1 DEF IndInv, RefundNeedsMoney, Settled
<1>3. RowBacked(r) /\ RequestBacked(r) /\ refund[r] \in RefundRow
  BY DEF IndInv, Backed, Shape
<1>4. CASE Manual
  <2>1. worker' = [worker EXCEPT ![r].pc = "answered"] /\ given' = given
    BY <1>4 DEF Ask
  <2>2. \A q \in Refunds :
          worker'[q] = IF q = r THEN [pc |-> "answered", ref |-> worker[r].ref,
                                      total |-> worker[r].total,
                                      cancel_term |-> worker[r].cancel_term]
                       ELSE worker[q]
    BY <2>1 DEF IndInv, Shape
  <2>3. Shape'
    <3>1. worker' = [q \in Refunds |-> worker'[q]]
      BY <2>1 DEF IndInv, Shape
    <3> QED
      BY <1>1, <2>1, <2>2, <3>1 DEF IndInv, Shape
  <2>4. Backed'
    BY <1>1, <1>4, <2>1, <2>2 DEF IndInv, Backed, RowBacked, RequestBacked
  <2>5. Apart'
    BY <1>1, <2>2 DEF IndInv, Apart, Has
  <2> QED
    BY <1>2, <2>3, <2>4, <2>5 DEF IndInv
<1>5. CASE ~Manual
  <2>1. PICK i \in ProvIds :
          /\ given[i] = 0
          /\ given' = [given EXCEPT ![i] = refund[r].amount]
          /\ worker' = [worker EXCEPT ![r].pc = "answered", ![r].ref = i]
    BY <1>5 DEF Ask, Gives
  <2>2. \A q \in Refunds :
          worker'[q] = IF q = r THEN [pc |-> "answered", ref |-> i, total |-> worker[r].total,
                                      cancel_term |-> worker[r].cancel_term]
                       ELSE worker[q]
    <3>1. worker = [q \in Refunds |-> worker[q]]
      BY DEF IndInv, Shape
    <3>2. worker[r] = [pc |-> worker[r].pc, ref |-> worker[r].ref,
                       total |-> worker[r].total, cancel_term |-> worker[r].cancel_term]
      BY DEF IndInv, Shape
    <3>3. worker'[r] = [worker[r] EXCEPT !.pc = "answered", !.ref = i]
      BY <2>1, <3>1
    <3>4. worker'[r] = [pc |-> "answered", ref |-> i, total |-> worker[r].total,
                        cancel_term |-> worker[r].cancel_term]
      BY <3>2, <3>3
    <3> QED
      BY <2>1, <3>1, <3>4
  <2>3. \A j \in ProvIds : given'[j] = IF j = i THEN refund[r].amount ELSE given[j]
    BY <2>1 DEF IndInv, Shape
  <2>4. \A q \in Refunds : refund[q].ref # i /\ worker[q].ref # i
    BY <2>1, UnusedUnheld DEF Has
  <2>5. Shape'
    <3>1. worker' = [q \in Refunds |-> worker'[q]]
      BY <2>1 DEF IndInv, Shape
    <3>2. given' \in [ProvIds -> 0..Amount]
      BY <1>3, <2>1 DEF IndInv, Shape, RefundRow
    <3> QED
      BY <1>1, <2>2, <3>1, <3>2 DEF IndInv, Shape
  <2>6. ASSUME NEW q \in Refunds PROVE RowBacked(q)' /\ RequestBacked(q)'
    <3>1. RowBacked(q) /\ RequestBacked(q) /\ refund[q] \in RefundRow
            /\ worker[q].ref \in ProvIds \cup {None}
      BY DEF IndInv, Backed, Shape
    <3>2. refund[q].ref # None => given'[refund[q].ref] = given[refund[q].ref]
      BY <3>1, <2>3, <2>4 DEF RefundRow
    <3>3. worker[q].ref # None => given'[worker[q].ref] = given[worker[q].ref]
      BY <3>1, <2>3, <2>4
    <3>4. RowBacked(q)'
      BY <1>1, <3>1, <3>2 DEF RowBacked
    <3>5. CASE q = r
      BY <1>1, <1>3, <2>2, <2>3, <3>4, <3>5 DEF RequestBacked
    <3>6. CASE q # r
      BY <1>1, <2>2, <3>1, <3>3, <3>4, <3>6 DEF RequestBacked
    <3> QED
      BY <3>4, <3>5, <3>6
  <2>7. Apart'
    BY <1>1, <2>2, <2>4 DEF IndInv, Apart, Has
  <2> QED
    BY <1>2, <2>5, <2>6, <2>7 DEF IndInv, Backed
<1> QED
  BY <1>4, <1>5

\* A request that ends without an answer lets go of its id; its row keeps its own.
LEMMA EndInv == ASSUME IndInv, NEW r \in Refunds, NoAnswer(r) \/ Crash(r) PROVE IndInv'
<1> USE RefundAssumption
<1>1. /\ UNCHANGED <<payment, filed, given>>
      /\ worker[r].pc # "idle"
      /\ worker' = [worker EXCEPT ![r] = Resting]
      /\ refund' = refund \/ refund' = [refund EXCEPT ![r].status = "failed"]
  BY DEF NoAnswer, Crash
<1>2. \A q \in Refunds : worker'[q] = IF q = r THEN Resting ELSE worker[q]
  BY <1>1 DEF IndInv, Shape
<1>3. \A q \in Refunds :
        /\ refund'[q].status = refund[q].status \/ (q = r /\ refund'[q].status = "failed")
        /\ refund'[q].amount = refund[q].amount /\ refund'[q].ref = refund[q].ref
  BY <1>1 DEF IndInv, Shape, RefundRow
<1>4. Shape'
  <2>1. worker' = [q \in Refunds |-> worker'[q]]
    BY <1>1 DEF IndInv, Shape
  <2>2. refund' \in [Refunds -> RefundRow]
    <3>1. refund \in [Refunds -> RefundRow]
      BY DEF IndInv, Shape
    <3>2. refund[r] \in RefundRow
      BY <3>1
    <3>3. [refund[r] EXCEPT !.status = "failed"] \in RefundRow
      BY <3>2 DEF RefundRow
    <3>4. CASE refund' = [refund EXCEPT ![r].status = "failed"]
      <4>1. refund' = [refund EXCEPT ![r] = [refund[r] EXCEPT !.status = "failed"]]
        BY <3>1, <3>4
      <4> QED
        BY <3>1, <3>3, <4>1
    <3> QED
      BY <1>1, <3>1, <3>4
  <2>3. ASSUME NEW q \in Refunds
        PROVE  /\ worker'[q] = [pc |-> worker'[q].pc, ref |-> worker'[q].ref,
                         total |-> worker'[q].total, cancel_term |-> worker'[q].cancel_term]
               /\ worker'[q].pc \in {"idle", "asking", "answered", "totalled"}
               /\ worker'[q].ref \in ProvIds \cup {None}
    <3>1. CASE q = r
      BY <1>2, <3>1 DEF Resting
    <3>2. CASE q # r
      BY <1>2, <3>2 DEF IndInv, Shape
    <3> QED
      BY <3>1, <3>2
  <2> QED
    BY <1>1, <2>1, <2>2, <2>3 DEF IndInv, Shape
<1>5. ASSUME NEW q \in Refunds PROVE RowBacked(q)' /\ RequestBacked(q)'
  <2>1. RowBacked(q) /\ RequestBacked(q)
    BY DEF IndInv, Backed
  <2>2. q = r => refund[q].status = "pending"
    BY <1>1, <2>1 DEF RequestBacked
  <2>3. given' = given
    BY <1>1
  <2>4. RowBacked(q)'
    BY <1>3, <2>1, <2>2, <2>3 DEF RowBacked
  <2>5. CASE q = r
    <3>1. worker'[q].pc = "idle" /\ worker'[q].ref = None
      BY <1>2, <2>5 DEF Resting
    <3> QED
      BY <2>4, <3>1 DEF RequestBacked
  <2>6. CASE q # r
    <3>1. worker'[q] = worker[q] /\ refund'[q].status = refund[q].status
          /\ refund'[q].amount = refund[q].amount /\ refund'[q].ref = refund[q].ref
      BY <1>2, <1>3, <2>6
    <3> QED
      BY <2>1, <2>3, <2>4, <3>1 DEF RequestBacked
  <2> QED
    BY <2>4, <2>5, <2>6
<1>6. Apart'
  BY <1>2, <1>3 DEF IndInv, Apart, Has, Resting
<1>7. RefundNeedsMoney'
  <2>1. refund[r].status = "pending"
    BY <1>1 DEF IndInv, Backed, RequestBacked
  <2> QED
    BY <1>1, <2>1 DEF IndInv, RefundNeedsMoney, Settled
<1> QED
  BY <1>4, <1>5, <1>6, <1>7 DEF IndInv, Backed

\* The sum changes nothing but the request's own total.
LEMMA TotalsInv == ASSUME IndInv, NEW r \in Refunds, Totals(r) PROVE IndInv'
<1>1. PICK total : worker' = [worker EXCEPT ![r].pc = "totalled", ![r].total = total]
  BY DEF Totals
<1>2. UNCHANGED <<payment, refund, filed, given>> /\ worker[r].pc = "answered"
  BY DEF Totals
<1>3. \A q \in Refunds :
        worker'[q] = IF q = r THEN [pc |-> "totalled", ref |-> worker[r].ref, total |-> total,
                                    cancel_term |-> worker[r].cancel_term]
                     ELSE worker[q]
  <2>1. worker = [q \in Refunds |-> worker[q]]
    BY DEF IndInv, Shape
  <2>2. worker[r] = [pc |-> worker[r].pc, ref |-> worker[r].ref,
                     total |-> worker[r].total, cancel_term |-> worker[r].cancel_term]
    BY DEF IndInv, Shape
  <2>3. worker'[r] = [worker[r] EXCEPT !.pc = "totalled", !.total = total]
    BY <1>1, <2>1
  <2>4. worker'[r] = [pc |-> "totalled", ref |-> worker[r].ref, total |-> total,
                      cancel_term |-> worker[r].cancel_term]
    BY <2>2, <2>3
  <2> QED
    BY <1>1, <2>1, <2>4
<1>4. Shape'
  <2>1. worker' = [q \in Refunds |-> worker'[q]]
    BY <1>1 DEF IndInv, Shape
  <2> QED
    BY <1>2, <1>3, <2>1 DEF IndInv, Shape
<1>5. Backed'
  BY <1>2, <1>3 DEF IndInv, Backed, RowBacked, RequestBacked
<1>6. Apart'
  BY <1>2, <1>3 DEF IndInv, Apart, Has
<1>7. RefundNeedsMoney'
  BY <1>2 DEF IndInv, RefundNeedsMoney, Settled
<1> QED
  BY <1>4, <1>5, <1>6, <1>7 DEF IndInv

\* The row takes over the id its request holds.
LEMMA ConcludeInv == ASSUME IndInv, NEW r \in Refunds, Conclude(r) PROVE IndInv'
<1> USE RefundAssumption
<1>1. /\ worker[r].pc = "totalled"
      /\ refund' = [refund EXCEPT ![r].status = "succeeded", ![r].ref = worker[r].ref]
      /\ worker' = [worker EXCEPT ![r] = Resting]
      /\ UNCHANGED <<filed, given>>
  BY DEF Conclude
<1>2. Settled' /\ payment' = [status |-> payment'.status,
                             term_canceled |-> payment'.term_canceled]
  BY StatusSettled DEF Conclude, Settled
<1>3. \A q \in Refunds : worker'[q] = IF q = r THEN Resting ELSE worker[q]
  BY <1>1 DEF IndInv, Shape
<1>4. \A q \in Refunds :
        /\ refund'[q].status = IF q = r THEN "succeeded" ELSE refund[q].status
        /\ refund'[q].ref = IF q = r THEN worker[r].ref ELSE refund[q].ref
        /\ refund'[q].amount = refund[q].amount
  BY <1>1 DEF IndInv, Shape, RefundRow
<1>5. Shape'
  <2>1. worker' = [q \in Refunds |-> worker'[q]]
    BY <1>1 DEF IndInv, Shape
  <2>2. worker[r].ref \in ProvIds \cup {None} /\ refund[r] \in RefundRow
    BY DEF IndInv, Shape
  <2>3. [refund[r] EXCEPT !.status = "succeeded", !.ref = worker[r].ref] \in RefundRow
    BY <2>2 DEF RefundRow
  <2>4. refund' = [refund EXCEPT ![r] =
                     [refund[r] EXCEPT !.status = "succeeded", !.ref = worker[r].ref]]
    BY <1>1 DEF IndInv, Shape
  <2>5. refund' \in [Refunds -> RefundRow]
    BY <2>3, <2>4 DEF IndInv, Shape
  <2> QED
    BY <1>1, <1>2, <1>3, <2>1, <2>5 DEF IndInv, Shape, Resting
<1>6. ASSUME NEW q \in Refunds PROVE RowBacked(q)' /\ RequestBacked(q)'
  <2>1. RowBacked(q) /\ RequestBacked(q)
    BY DEF IndInv, Backed
  <2>2. CASE q # r
    BY <1>1, <1>3, <1>4, <2>1, <2>2 DEF RowBacked, RequestBacked
  <2>3. CASE q = r
    <3>1. refund[q].status = "pending" /\ refund[q].amount > 0
      BY <1>1, <2>1, <2>3 DEF RowBacked, RequestBacked
    <3>2. RowBacked(q)'
      BY <1>1, <1>4, <2>1, <2>3, <3>1 DEF RowBacked, RequestBacked
    <3>3. RequestBacked(q)'
      BY <1>3, <2>3 DEF RequestBacked, Resting
    <3> QED
      BY <3>2, <3>3
  <2> QED
    BY <2>2, <2>3
<1>7. Apart'
  BY <1>3, <1>4 DEF IndInv, Apart, Has, Resting
<1>8. RefundNeedsMoney'
  BY <1>2 DEF RefundNeedsMoney
<1> QED
  BY <1>5, <1>6, <1>7, <1>8 DEF IndInv, Backed

\* A refund made in the dashboard takes an id nobody holds.
LEMMA DashboardInv == ASSUME IndInv, NEW i \in ProvIds, Dashboard(i) PROVE IndInv'
<1> USE RefundAssumption
<1>1. PICK n \in 1..Amount : given[i] = 0 /\ given' = [given EXCEPT ![i] = n]
  BY DEF Dashboard, Gives
<1>2. UNCHANGED <<payment, refund, filed, worker>>
  BY DEF Dashboard
<1>3. \A q \in Refunds : refund[q].ref # i /\ worker[q].ref # i
  BY <1>1, UnusedUnheld DEF Has
<1>4. Shape'
  <2>1. given' \in [ProvIds -> 0..Amount]
    BY <1>1 DEF IndInv, Shape
  <2> QED
    BY <1>2, <2>1 DEF IndInv, Shape
<1>5. ASSUME NEW q \in Refunds PROVE RowBacked(q)' /\ RequestBacked(q)'
  <2>1. /\ RowBacked(q) /\ RequestBacked(q) /\ refund[q] \in RefundRow
        /\ worker[q].ref \in ProvIds \cup {None}
    BY DEF IndInv, Backed, Shape
  <2>2. \A j \in ProvIds : j # i => given'[j] = given[j]
    BY <1>1 DEF IndInv, Shape
  <2> QED
    BY <1>2, <1>3, <2>1, <2>2 DEF RowBacked, RequestBacked, RefundRow
<1>6. Apart'
  BY <1>2 DEF IndInv, Apart, Has
<1>7. RefundNeedsMoney'
  BY <1>2 DEF IndInv, RefundNeedsMoney, Settled
<1> QED
  BY <1>4, <1>5, <1>6, <1>7 DEF IndInv, Backed

\* A notification writes a row for a settled payment only, and leaves it settled.
LEMMA NotifyInv == ASSUME IndInv, NEW i \in ProvIds, Notify(i) PROVE IndInv'
<1>1. UNCHANGED <<refund, worker, given>>
  BY DEF Notify
<1>2. ASSUME Records(i) PROVE Shape' /\ RefundNeedsMoney'
  <2>1. PICK total : payment' = [payment EXCEPT !.status = StatusFor(total)]
    BY <1>2 DEF Notify, Records, File
  <2>2. filed' = [filed EXCEPT ![i] = @ + 1]
    BY <1>2 DEF Notify, File
  <2>3. payment = [status |-> payment.status, term_canceled |-> payment.term_canceled]
    BY DEF IndInv, Shape
  <2>4. payment' = [status |-> StatusFor(total), term_canceled |-> payment.term_canceled]
    BY <2>1, <2>3
  <2>5. Settled'
    BY <2>4, StatusSettled DEF Settled
  <2>6. filed' = [j \in ProvIds |-> filed'[j]]
    BY <2>2 DEF IndInv, Shape
  <2>7. Shape'
    BY <1>1, <2>4, <2>6 DEF IndInv, Shape
  <2>8. RefundNeedsMoney'
    BY <2>5 DEF RefundNeedsMoney
  <2> QED
    BY <2>7, <2>8
<1>3. ASSUME ~Records(i) PROVE Shape' /\ RefundNeedsMoney'
  <2>1. UNCHANGED <<payment, filed>>
    BY <1>3 DEF Notify
  <2> QED
    BY <1>1, <2>1 DEF IndInv, Shape, RefundNeedsMoney, Settled
<1>4. Backed' /\ Apart'
  BY <1>1 DEF IndInv, Backed, RowBacked, RequestBacked, Apart, Has
<1> QED
  BY <1>2, <1>3, <1>4 DEF IndInv

-----------------------------------------------------------------------------
\* Every step preserves the inductive invariant.
LEMMA NextInv == IndInv /\ [Next]_vars => IndInv'
<1> SUFFICES ASSUME IndInv, [Next]_vars PROVE IndInv'
  OBVIOUS
<1>1. CASE UNCHANGED vars
  BY <1>1 DEF vars, IndInv, Shape, Backed, RowBacked, RequestBacked, Apart, Has,
              RefundNeedsMoney, Settled
<1>2. CASE Next
  BY <1>2, MarkInv, IssueInv, AskInv, EndInv, TotalsInv, ConcludeInv, DashboardInv, NotifyInv
     DEF Next, RequestStep
<1> QED
  BY <1>1, <1>2

\* The inductive invariant holds in every reachable state.
LEMMA Invariance == Spec => []IndInv
BY InitInv, NextInv, PTL DEF Spec

\* However requests, notifications and the payment's own settlement interleave, no refund
\* is recorded against a payment whose money has not arrived (issue_refund and
\* record_dashboard_refund look at the status under the payment's lock).
THEOREM RefundsNeedMoney == Spec => []RefundNeedsMoney
<1>1. IndInv => RefundNeedsMoney
  BY DEF IndInv
<1> QED
  BY <1>1, Invariance, PTL

\* A row issue_refund marked succeeded stands for a refund the provider made, of that very
\* amount, and no two of them for the same one.
THEOREM SucceededRefundsWereGiven == Spec => []SucceededMeansGiven
<1>1. IndInv => SucceededMeansGiven
  <2> SUFFICES ASSUME IndInv, ~Manual, NEW r \in Refunds, refund[r].status = "succeeded"
               PROVE  /\ refund[r].ref # None
                      /\ given[refund[r].ref] = refund[r].amount
                      /\ \A q \in Refunds : refund[q].ref = refund[r].ref => q = r
    BY DEF SucceededMeansGiven
  <2>1. RowBacked(r) /\ refund[r] \in RefundRow
    BY DEF IndInv, Backed, Shape
  <2>2. refund[r].ref \in ProvIds
    BY <2>1 DEF RowBacked, RefundRow
  <2> QED
    BY <2>1, <2>2 DEF RowBacked, IndInv, Apart, Has
<1> QED
  BY <1>1, Invariance, PTL

-----------------------------------------------------------------------------
(* Sums over finite sets, as MapThenSumSet takes them: one member after the other, in an *)
(* order CHOOSE gives.                                                                   *)

Chosen(s) == CHOOSE x \in s : TRUE

\* f holds the sum of v over every subset of S.
Adds(v, S, f) ==
    f = [s \in SUBSET S |-> IF s = {} THEN 0
                            ELSE v[Chosen(s)] + f[s \ {Chosen(s)}]]

Sum(v, S) == (CHOOSE f : Adds(v, S, f))[S]

\* Some set of a collection of subsets of a finite set has no proper subset in it.
LEMMA SmallestSet ==
    ASSUME NEW S, IsFiniteSet(S), NEW D \in SUBSET SUBSET S, D # {}
    PROVE  \E U \in D : \A T \in SUBSET U : T # U => T \notin D
<1>1. FiniteSubsetsOf(S) = SUBSET S
  BY FS_FiniteSubsetsOfFinite
<1>2. IsWellFoundedOn(StrictSubsetOrdering(S), SUBSET S)
  BY <1>1, FS_StrictSubsetOrderingWellFounded
<1>3. PICK U \in D : \A T \in D : <<T, U>> \notin StrictSubsetOrdering(S)
  BY <1>2, WFMin
<1>4. \A T \in SUBSET U : T # U /\ T \in D => <<T, U>> \in StrictSubsetOrdering(S)
  BY DEF StrictSubsetOrdering
<1>5. \A T \in SUBSET U : T # U => T \notin D
  BY <1>3, <1>4
<1> QED
  BY <1>5

\* The member CHOOSE takes out of a set that is not empty.
LEMMA ChosenIn == \A s : s # {} => Chosen(s) \in s
BY DEF Chosen

\* What a function that adds v holds.
LEMMA AddsAt ==
    ASSUME NEW v, NEW S, NEW f, Adds(v, S, f), NEW T \in SUBSET S
    PROVE  /\ T = {} => f[T] = 0
           /\ T # {} => f[T] = v[Chosen(T)] + f[T \ {Chosen(T)}]
BY DEF Adds

\* Two such functions agree where both are defined.
LEMMA AddsAgree ==
    ASSUME NEW v, NEW S, NEW R, NEW f, NEW g, Adds(v, S, f), Adds(v, R, g),
           NEW T \in SUBSET S, T \in SUBSET R, IsFiniteSet(T)
    PROVE  f[T] = g[T]
<1> DEFINE D == {U \in SUBSET T : f[U] # g[U]}
<1>1. SUFFICES ASSUME D # {} PROVE FALSE
  OBVIOUS
<1>2. PICK U \in D : \A V \in SUBSET U : V # U => V \notin D
  <2>1. D \in SUBSET SUBSET T
    OBVIOUS
  <2> HIDE DEF D
  <2> QED BY <1>1, <2>1, SmallestSet
<1>3. U \in SUBSET S /\ U \in SUBSET R /\ f[U] # g[U]
  OBVIOUS
<1>4. PICK c : c = Chosen(U)
  OBVIOUS
<1>5. /\ U = {} => f[U] = 0 /\ g[U] = 0
      /\ U # {} => c \in U /\ f[U] = v[c] + f[U \ {c}] /\ g[U] = v[c] + g[U \ {c}]
  <2>1. /\ U = {} => f[U] = 0
        /\ U # {} => f[U] = v[Chosen(U)] + f[U \ {Chosen(U)}]
    <3> HIDE DEF D
    <3> QED BY <1>3, AddsAt
  <2>2. /\ U = {} => g[U] = 0
        /\ U # {} => g[U] = v[Chosen(U)] + g[U \ {Chosen(U)}]
    <3> HIDE DEF D
    <3> QED BY <1>3, AddsAt
  <2>3. U # {} => c \in U
    BY <1>4, ChosenIn
  <2> QED
    BY <1>4, <2>1, <2>2, <2>3
<1>6. U # {} => f[U \ {c}] = g[U \ {c}]
  BY <1>2, <1>5
<1> QED
  BY <1>3, <1>5, <1>6

\* Every function that adds v over S has the sum at S.
LEMMA SumIs ==
    ASSUME NEW v, NEW S, IsFiniteSet(S), NEW f, Adds(v, S, f)
    PROVE  f[S] = Sum(v, S)
<1>1. Adds(v, S, CHOOSE g : Adds(v, S, g))
  OBVIOUS
<1>2. PICK g : g = CHOOSE h : Adds(v, S, h)
  OBVIOUS
<1>3. Adds(v, S, g) /\ Sum(v, S) = g[S]
  BY <1>1, <1>2 DEF Sum
<1> QED
  BY <1>3, AddsAgree

\* There is such a function for every finite set.
LEMMA AddsExists ==
    ASSUME NEW v, NEW S, IsFiniteSet(S)
    PROVE  \E f : Adds(v, S, f)
<1> DEFINE D == {T \in SUBSET S : ~ \E f : Adds(v, T, f)}
<1>1. SUFFICES ASSUME D # {} PROVE FALSE
  OBVIOUS
<1>2. PICK U \in D : \A T \in SUBSET U : T # U => T \notin D
  <2>1. D \in SUBSET SUBSET S
    OBVIOUS
  <2> HIDE DEF D
  <2> QED BY <1>1, <2>1, SmallestSet
<1>3. U \in SUBSET S /\ ~ \E f : Adds(v, U, f)
  OBVIOUS
<1>4. \A T \in SUBSET U : T # U => \E f : Adds(v, T, f)
  BY <1>2, <1>3
<1> HIDE DEF D
<1>5. \A T \in SUBSET U : IsFiniteSet(T)
  BY <1>3, FS_Subset
<1> DEFINE F == [s \in SUBSET U |-> IF s = {} THEN 0 ELSE v[Chosen(s)] + Sum(v, s \ {Chosen(s)})]
<1>6. \A s \in SUBSET U : s # {} => Chosen(s) \in s
  BY ChosenIn
<1>7. ASSUME NEW T \in SUBSET U, T # U PROVE F[T] = Sum(v, T)
  <2>1. PICK f : Adds(v, T, f)
    BY <1>4, <1>7
  <2>2. f[T] = Sum(v, T)
    BY <1>5, <2>1, SumIs
  <2>3. CASE T = {}
    <3>1. f[T] = 0
      BY <2>1, <2>3, AddsAt
    <3>2. F[T] = 0
      BY <2>3
    <3> QED BY <2>2, <3>1, <3>2
  <2>4. CASE T # {}
    <3>1. PICK x : x = Chosen(T)
      OBVIOUS
    <3>2. x \in T /\ f[T] = v[x] + f[T \ {x}]
      <4>1. T \in SUBSET T
        OBVIOUS
      <4>2. f[T] = v[Chosen(T)] + f[T \ {Chosen(T)}]
        <5> HIDE DEF F
        <5> QED BY <2>1, <2>4, <4>1, AddsAt
      <4> QED
        BY <2>4, <3>1, <4>2, ChosenIn
    <3>3. T \ {x} \in SUBSET U /\ T \ {x} # U
      BY <3>2
    <3>4. PICK g : Adds(v, T \ {x}, g)
      BY <1>4, <3>3
    <3>5. g[T \ {x}] = Sum(v, T \ {x})
      BY <1>5, <3>3, <3>4, SumIs
    <3>6. f[T \ {x}] = g[T \ {x}]
      BY <1>5, <2>1, <3>3, <3>4, AddsAgree
    <3>7. F[T] = v[x] + Sum(v, T \ {x})
      BY <2>4, <3>1
    <3> QED BY <2>2, <3>2, <3>5, <3>6, <3>7
  <2> QED
    BY <2>3, <2>4
<1>8. \A s \in SUBSET U : s # {} => F[s \ {Chosen(s)}] = Sum(v, s \ {Chosen(s)})
  <2> TAKE s \in SUBSET U
  <2> HAVE s # {}
  <2>1. s \ {Chosen(s)} \in SUBSET U /\ s \ {Chosen(s)} # U
    BY <1>6
  <2> HIDE DEF F
  <2> QED BY <1>7, <2>1
<1>9. F = [s \in SUBSET U |-> IF s = {} THEN 0 ELSE v[Chosen(s)] + F[s \ {Chosen(s)}]]
  <2>1. \A s \in SUBSET U : F[s] = IF s = {} THEN 0 ELSE v[Chosen(s)] + F[s \ {Chosen(s)}]
    <3> TAKE s \in SUBSET U
    <3>1. F[s] = IF s = {} THEN 0 ELSE v[Chosen(s)] + Sum(v, s \ {Chosen(s)})
      OBVIOUS
    <3> HIDE DEF F
    <3> QED BY <1>8, <3>1
  <2>2. F = [s \in SUBSET U |-> F[s]]
    OBVIOUS
  <2> HIDE DEF F
  <2> QED BY <2>1, <2>2
<1>10. Adds(v, U, F)
  <2> HIDE DEF F
  <2> QED BY <1>9 DEF Adds
<1> QED
  BY <1>3, <1>10

\* A sum takes any function that adds.
LEMMA SumAdds ==
    ASSUME NEW v, NEW S, IsFiniteSet(S)
    PROVE  \E f : Adds(v, S, f) /\ f[S] = Sum(v, S)
BY AddsExists, SumIs

\* The sum over nothing, and over a set by the member CHOOSE takes.
LEMMA SumStep ==
    ASSUME NEW v, NEW S, IsFiniteSet(S), NEW c, c = Chosen(S)
    PROVE  /\ S = {} => Sum(v, S) = 0
           /\ S # {} => c \in S /\ Sum(v, S) = v[c] + Sum(v, S \ {c})
<1>1. PICK f : Adds(v, S, f) /\ f[S] = Sum(v, S)
  BY SumAdds
<1>2. /\ S = {} => f[S] = 0
      /\ S # {} => c \in S /\ f[S] = v[c] + f[S \ {c}]
  BY <1>1, AddsAt, ChosenIn
<1>3. f[S \ {c}] = Sum(v, S \ {c})
  <2>1. IsFiniteSet(S \ {c})
    BY FS_Subset
  <2>2. PICK g : Adds(v, S \ {c}, g) /\ g[S \ {c}] = Sum(v, S \ {c})
    BY <2>1, SumAdds
  <2> QED
    BY <1>1, <2>1, <2>2, AddsAgree
<1> QED
  BY <1>1, <1>2, <1>3

\* A sum of numbers is a number.
LEMMA SumIsNumber ==
    ASSUME NEW v, NEW S, IsFiniteSet(S), \A x \in S : v[x] \in Nat
    PROVE  Sum(v, S) \in Nat
<1> DEFINE D == {T \in SUBSET S : Sum(v, T) \notin Nat}
<1>1. SUFFICES ASSUME D # {} PROVE FALSE
  OBVIOUS
<1>2. PICK U \in D : \A T \in SUBSET U : T # U => T \notin D
  <2>1. D \in SUBSET SUBSET S
    OBVIOUS
  <2> HIDE DEF D
  <2> QED BY <1>1, <2>1, SmallestSet
<1>3. U \in SUBSET S /\ Sum(v, U) \notin Nat
  OBVIOUS
<1>4. \A T \in SUBSET U : T # U => Sum(v, T) \in Nat
  BY <1>2, <1>3
<1> HIDE DEF D
<1>5. PICK c : c = Chosen(U)
  OBVIOUS
<1>6. IsFiniteSet(U)
  BY <1>3, FS_Subset
<1>7. /\ U = {} => Sum(v, U) = 0
      /\ U # {} => c \in U /\ Sum(v, U) = v[c] + Sum(v, U \ {c})
  BY <1>5, <1>6, SumStep
<1>8. U # {} => Sum(v, U \ {c}) \in Nat /\ v[c] \in Nat
  BY <1>3, <1>4, <1>7
<1> QED
  BY <1>3, <1>7, <1>8

\* Every member of a set is one of the terms of its sum.
LEMMA SumTakes ==
    ASSUME NEW v, NEW S, IsFiniteSet(S), \A x \in S : v[x] \in Nat, NEW y \in S
    PROVE  Sum(v, S) = v[y] + Sum(v, S \ {y})
<1> DEFINE Off(T) == \E x \in T : Sum(v, T) # v[x] + Sum(v, T \ {x})
           D == {T \in SUBSET S : Off(T)}
<1>1. SUFFICES ASSUME D # {} PROVE FALSE
  OBVIOUS
<1>2. PICK U \in D : \A T \in SUBSET U : T # U => T \notin D
  <2>1. D \in SUBSET SUBSET S
    OBVIOUS
  <2> HIDE DEF D
  <2> QED BY <1>1, <2>1, SmallestSet
<1>3. U \in SUBSET S /\ Off(U)
  OBVIOUS
<1>4. \A T \in SUBSET U : T # U => ~Off(T)
  <2> HIDE DEF Off
  <2> QED BY <1>2, <1>3
<1> HIDE DEF D
<1>5. PICK x \in U : Sum(v, U) # v[x] + Sum(v, U \ {x})
  BY <1>3
<1>6. PICK c : c = Chosen(U)
  OBVIOUS
<1>7. \A T \in SUBSET U : IsFiniteSet(T) /\ Sum(v, T) \in Nat
  <2> TAKE T \in SUBSET U
  <2>1. IsFiniteSet(T)
    BY <1>3, FS_Subset
  <2>2. \A z \in T : v[z] \in Nat
    BY <1>3
  <2> QED BY <2>1, <2>2, SumIsNumber
<1>8. c \in U /\ Sum(v, U) = v[c] + Sum(v, U \ {c})
  <2>1. IsFiniteSet(U) /\ U # {}
    BY <1>5, <1>7
  <2> QED BY <1>6, <2>1, SumStep
<1>9. c # x
  BY <1>5, <1>8
<1>10. Sum(v, U \ {c}) = v[x] + Sum(v, (U \ {c}) \ {x})
  <2>1. U \ {c} \in SUBSET U /\ U \ {c} # U /\ x \in U \ {c}
    BY <1>8, <1>9
  <2> QED BY <1>4, <2>1
<1>11. Sum(v, U \ {x}) = v[c] + Sum(v, (U \ {x}) \ {c})
  <2>1. U \ {x} \in SUBSET U /\ U \ {x} # U /\ c \in U \ {x}
    BY <1>8, <1>9
  <2> QED BY <1>4, <2>1
<1>12. (U \ {c}) \ {x} = (U \ {x}) \ {c}
  OBVIOUS
<1>13. PICK n \in Nat : n = Sum(v, (U \ {x}) \ {c})
  BY <1>7
<1>14. v[x] \in Nat /\ v[c] \in Nat
  BY <1>3, <1>8
<1>15. v[c] + (v[x] + n) = v[x] + (v[c] + n)
  BY <1>14
<1> QED
  BY <1>5, <1>8, <1>10, <1>11, <1>12, <1>13, <1>15

\* The sum depends on the values of the members only.
LEMMA SumSame ==
    ASSUME NEW v, NEW u, NEW S, IsFiniteSet(S), \A x \in S : v[x] = u[x]
    PROVE  Sum(v, S) = Sum(u, S)
<1>1. PICK f : Adds(v, S, f) /\ f[S] = Sum(v, S)
  BY SumAdds
<1>2. \A s \in SUBSET S : s # {} => v[Chosen(s)] = u[Chosen(s)]
  BY ChosenIn
<1>3. Adds(u, S, f)
  BY <1>1, <1>2 DEF Adds
<1> QED
  BY <1>1, <1>3, SumIs

-----------------------------------------------------------------------------
(* The refunds' totals. *)

\* The amounts of some rows, and the rows with some status.
Amounts(rows) == [r \in Refunds |-> rows[r].amount]
Held(rows, statuses) == {r \in Refunds : rows[r].status \in statuses}

AddsRows(rows, S, f) ==
    f = [s \in SUBSET S |-> IF s = {} THEN 0
                            ELSE rows[Chosen(s)].amount + f[s \ {Chosen(s)}]]

RowsTotal(rows, statuses) ==
    (CHOOSE f : AddsRows(rows, Held(rows, statuses), f))[Held(rows, statuses)]

\* claimed_cents and refunded_cents add up the rows they name.
LEMMA RowsTotalIsSum ==
    ASSUME NEW rows, NEW st
    PROVE  RowsTotal(rows, st) = Sum(Amounts(rows), Held(rows, st))
<1> DEFINE v == Amounts(rows)
<1>1. PICK S \in SUBSET Refunds : S = Held(rows, st)
  BY DEF Held
<1>2. IsFiniteSet(S)
  BY RefundAssumption, FS_Subset
<1>3. \A s \in SUBSET S : s # {} => v[Chosen(s)] = rows[Chosen(s)].amount
  BY ChosenIn DEF Amounts
<1> HIDE DEF v
<1>4. \A f : Adds(v, S, f) <=> AddsRows(rows, S, f)
  BY <1>3 DEF Adds, AddsRows
<1>5. PICK f : AddsRows(rows, S, f)
  BY <1>2, <1>4, AddsExists
<1>6. PICK g : g = CHOOSE h : AddsRows(rows, S, h)
  OBVIOUS
<1>7. Adds(v, S, g)
  BY <1>4, <1>5, <1>6
<1>8. g[S] = Sum(v, S)
  BY <1>2, <1>7, SumIs
<1> QED
  BY <1>1, <1>6, <1>8 DEF RowsTotal, v

\* What the code sums over the refunds with some status is the sum over all of them of
\* their amount there and nothing elsewhere.
LEMMA OwnTotalIsSum ==
    \A st : /\ OwnTotal(st) = RowsTotal(refund, st)
            /\ OwnTotal(st)' = RowsTotal(refund', st)
<1>1. \A st : OwnTotal(st) = RowsTotal(refund, st)
  BY DEF OwnTotal, MapThenSumSet, MapThenFoldSet, RowsTotal, AddsRows, Held, Chosen
<1>2. \A st : OwnTotal(st)' = RowsTotal(refund', st)
  BY DEF OwnTotal, MapThenSumSet, MapThenFoldSet, RowsTotal, AddsRows, Held, Chosen
<1> QED
  BY <1>1, <1>2

\* What the notifications filed is a number.
AddsFiled(S, f) ==
    f = [s \in SUBSET S |-> IF s = {} THEN 0
                            ELSE filed[Chosen(s)] * given[Chosen(s)] + f[s \ {Chosen(s)}]]

\* What notifications filed adds up to a number.
LEMMA FiledTotalIsNumber ==
    ASSUME \A i \in ProvIds : filed[i] \in Nat /\ given[i] \in Nat
    PROVE  FiledTotal \in Nat
<1> DEFINE v == [i \in ProvIds |-> filed[i] * given[i]]
<1>1. \A i \in ProvIds : v[i] \in Nat
  OBVIOUS
<1>2. \A s \in SUBSET ProvIds : s # {} => v[Chosen(s)] = filed[Chosen(s)] * given[Chosen(s)]
  BY ChosenIn
<1> HIDE DEF v
<1>3. \A f : Adds(v, ProvIds, f) <=> AddsFiled(ProvIds, f)
  BY <1>2 DEF Adds, AddsFiled
<1>4. PICK f : AddsFiled(ProvIds, f)
  BY <1>3, RefundAssumption, AddsExists
<1>5. PICK g : g = CHOOSE h : AddsFiled(ProvIds, h)
  OBVIOUS
<1>6. Adds(v, ProvIds, g)
  BY <1>3, <1>4, <1>5
<1>7. g[ProvIds] \in Nat
  BY <1>1, <1>6, RefundAssumption, SumIs, SumIsNumber
<1>8. FiledTotal = (CHOOSE h : AddsFiled(ProvIds, h))[ProvIds]
  BY DEF FiledTotal, MapThenSumSet, MapThenFoldSet, AddsFiled, Chosen
<1> QED
  BY <1>5, <1>7, <1>8

\* One row comes to the total.
LEMMA TotalGrows ==
    ASSUME NEW rows \in [Refunds -> RefundRow], NEW new \in [Refunds -> RefundRow], NEW st,
           NEW r \in Refunds, rows[r].status \notin st, new[r].status \in st,
           \A q \in Refunds \ {r} : new[q] = rows[q]
    PROVE  /\ RowsTotal(new, st) = new[r].amount + RowsTotal(rows, st)
           /\ RowsTotal(rows, st) \in Nat
<1>1. PICK S \in SUBSET Refunds : S = Held(rows, st)
  BY DEF Held
<1>2. PICK T \in SUBSET Refunds : T = Held(new, st)
  BY DEF Held
<1>3. r \in T /\ T \ {r} = S
  BY <1>1, <1>2 DEF Held
<1>4. IsFiniteSet(S) /\ IsFiniteSet(T)
  BY RefundAssumption, FS_Subset
<1>5. PICK v : v = Amounts(rows)
  OBVIOUS
<1>6. PICK u : u = Amounts(new)
  OBVIOUS
<1>7. /\ \A x \in T : u[x] \in Nat
      /\ \A x \in S : v[x] \in Nat
      /\ \A x \in S : u[x] = v[x]
      /\ u[r] = new[r].amount
  BY <1>3, <1>5, <1>6 DEF Amounts, RefundRow
<1>8. Sum(u, T) = u[r] + Sum(u, S)
  BY <1>3, <1>4, <1>7, SumTakes
<1>9. Sum(u, S) = Sum(v, S)
  BY <1>4, <1>7, SumSame
<1>10. Sum(v, S) \in Nat
  BY <1>4, <1>7, SumIsNumber
<1>11. RowsTotal(rows, st) = Sum(v, S) /\ RowsTotal(new, st) = Sum(u, T)
  BY <1>1, <1>2, <1>5, <1>6, RowsTotalIsSum
<1> QED
  BY <1>7, <1>8, <1>9, <1>10, <1>11

\* Rows that keep their amount and stay in or out of a total leave it as it is.
LEMMA TotalStays ==
    ASSUME NEW rows, NEW new, NEW st,
           \A q \in Refunds : /\ new[q].status \in st <=> rows[q].status \in st
                              /\ new[q].amount = rows[q].amount
    PROVE  RowsTotal(new, st) = RowsTotal(rows, st)
<1>1. PICK S \in SUBSET Refunds : S = Held(rows, st)
  BY DEF Held
<1>2. Held(new, st) = S
  BY <1>1 DEF Held
<1>3. \A x \in S : Amounts(new)[x] = Amounts(rows)[x]
  BY DEF Amounts
<1>4. IsFiniteSet(S)
  BY RefundAssumption, FS_Subset
<1>5. Sum(Amounts(new), S) = Sum(Amounts(rows), S)
  BY <1>3, <1>4, SumSame
<1> QED
  BY <1>1, <1>2, <1>5, RowsTotalIsSum

\* Nothing is claimed when nothing has been refunded.
LEMMA NoTotal ==
    ASSUME NEW rows, NEW st, \A q \in Refunds : rows[q].status \notin st
    PROVE  RowsTotal(rows, st) = 0
<1>1. Held(rows, st) = {}
  BY DEF Held
<1>2. IsFiniteSet({})
  BY FS_EmptySet
<1>3. Sum(Amounts(rows), {}) = 0
  BY <1>2, SumStep
<1> QED
  BY <1>1, <1>3, RowsTotalIsSum

-----------------------------------------------------------------------------
(* What is asked of the provider stays within the payment. *)

Claiming == {"pending", "succeeded"}

OwnInv == IndInv /\ filed \in [ProvIds -> Nat] /\ OwnWithinPayment

\* The invariant speaks of the total the lemmas speak of.
LEMMA OwnIsRowsTotal ==
    /\ OwnWithinPayment <=> RowsTotal(refund, Claiming) <= Amount
    /\ OwnWithinPayment' <=> RowsTotal(refund', Claiming) <= Amount
<1>1. OwnTotal({"pending", "succeeded"}) = RowsTotal(refund, {"pending", "succeeded"})
  BY OwnTotalIsSum
<1>2. OwnTotal({"pending", "succeeded"})' = RowsTotal(refund', {"pending", "succeeded"})
  BY OwnTotalIsSum
<1> QED
  BY <1>1, <1>2 DEF OwnWithinPayment, Claiming

\* A notification is filed as a number of rows.
LEMMA FiledNumbers == OwnInv /\ [Next]_vars => filed' \in [ProvIds -> Nat]
<1> SUFFICES ASSUME OwnInv, [Next]_vars PROVE filed' \in [ProvIds -> Nat]
  OBVIOUS
<1>1. filed' = filed \/ \E i \in ProvIds : filed' = [filed EXCEPT ![i] = @ + 1]
  BY DEF Next, RequestStep, MarkSucceeded, MarkFailed, Issue, Ask, NoAnswer, Totals, Conclude,
         Crash, Dashboard, Notify, File, vars
<1> QED
  BY <1>1 DEF OwnInv

\* The new row fits beside the claims of the others, for what was filed is no less than
\* nothing.
LEMMA IssueWithin ==
    ASSUME OwnInv, IndInv', NEW r \in Refunds, Issue(r)
    PROVE  OwnWithinPayment'
<1>1. PICK n \in 1..Amount :
        /\ n + ClaimedCents <= Amount
        /\ refund' = [refund EXCEPT ![r] = [status |-> "pending", amount |-> n, ref |-> None]]
  BY DEF Issue
<1>2. refund \in [Refunds -> RefundRow] /\ refund' \in [Refunds -> RefundRow]
  BY DEF OwnInv, IndInv, Shape
<1>3. refund[r].status \notin Claiming /\ refund'[r].status \in Claiming
      /\ refund'[r].amount = n /\ \A q \in Refunds \ {r} : refund'[q] = refund[q]
  BY <1>1, <1>2 DEF Issue, Claiming
<1>4. /\ RowsTotal(refund', Claiming) = n + RowsTotal(refund, Claiming)
      /\ RowsTotal(refund, Claiming) \in Nat
  BY <1>2, <1>3, TotalGrows
<1>5. FiledTotal \in Nat
  <2>1. \A i \in ProvIds : filed[i] \in Nat /\ given[i] \in Nat
    BY DEF OwnInv, IndInv, Shape
  <2> QED
    BY <2>1, FiledTotalIsNumber
<1>6. ClaimedCents = RowsTotal(refund, Claiming) + FiledTotal
  BY OwnTotalIsSum DEF ClaimedCents, Claiming
<1>7. PICK t \in Nat : t = RowsTotal(refund, Claiming)
  BY <1>4
<1>8. PICK f \in Nat : f = FiledTotal
  BY <1>5
<1>9. n + (t + f) <= Amount
  BY <1>1, <1>6, <1>7, <1>8
<1>10. n + t <= Amount
  BY <1>9, RefundAssumption
<1> QED
  BY <1>4, <1>7, <1>10, OwnIsRowsTotal

\* A failed refund gives its claim up.
LEMMA NoAnswerWithin ==
    ASSUME OwnInv, IndInv', NEW r \in Refunds, NoAnswer(r)
    PROVE  OwnWithinPayment'
<1>1. refund' = [refund EXCEPT ![r].status = "failed"] /\ worker[r].pc # "idle"
  BY DEF NoAnswer
<1>2. refund \in [Refunds -> RefundRow] /\ refund' \in [Refunds -> RefundRow]
  BY DEF OwnInv, IndInv, Shape
<1>3. refund[r].status = "pending"
  BY <1>1 DEF OwnInv, IndInv, Backed, RequestBacked
<1>4. refund'[r].status = "failed" /\ \A q \in Refunds \ {r} : refund[q] = refund'[q]
  BY <1>1, <1>2 DEF RefundRow
<1>5. refund'[r].status \notin Claiming /\ refund[r].status \in Claiming
  BY <1>3, <1>4 DEF Claiming
<1>6. /\ RowsTotal(refund, Claiming) = refund[r].amount + RowsTotal(refund', Claiming)
      /\ RowsTotal(refund', Claiming) \in Nat
  BY <1>2, <1>4, <1>5, TotalGrows
<1>7. refund[r].amount \in Nat /\ Amount \in Nat
  BY <1>2, RefundAssumption DEF RefundRow
<1>8. RowsTotal(refund, Claiming) <= Amount
  BY OwnIsRowsTotal DEF OwnInv
<1>9. RowsTotal(refund', Claiming) <= Amount
  BY <1>6, <1>7, <1>8
<1> QED
  BY <1>9, OwnIsRowsTotal

\* A concluded refund was claimed already.
LEMMA ConcludeWithin ==
    ASSUME OwnInv, NEW r \in Refunds, Conclude(r)
    PROVE  OwnWithinPayment'
<1>1. /\ refund' = [refund EXCEPT ![r].status = "succeeded", ![r].ref = worker[r].ref]
      /\ worker[r].pc # "idle"
  BY DEF Conclude
<1>2. refund \in [Refunds -> RefundRow]
  BY DEF OwnInv, IndInv, Shape
<1>3. refund[r].status = "pending"
  BY <1>1 DEF OwnInv, IndInv, Backed, RequestBacked
<1>4. /\ refund'[r].status = "succeeded" /\ refund'[r].amount = refund[r].amount
      /\ \A q \in Refunds \ {r} : refund'[q] = refund[q]
  BY <1>1, <1>2 DEF RefundRow
<1>5. \A q \in Refunds : /\ refund'[q].status \in Claiming <=> refund[q].status \in Claiming
                         /\ refund'[q].amount = refund[q].amount
  BY <1>3, <1>4 DEF Claiming
<1>6. RowsTotal(refund', Claiming) = RowsTotal(refund, Claiming)
  BY <1>5, TotalStays
<1> QED
  BY <1>6, OwnIsRowsTotal DEF OwnInv

\* The other steps write no row of issue_refund's.
LEMMA OtherWithin ==
    ASSUME OwnInv, refund' = refund PROVE OwnWithinPayment'
BY OwnIsRowsTotal DEF OwnInv

\* Every step keeps the bound on the claims, with the type of what was filed.
LEMMA OwnInvKept == OwnInv /\ [Next]_vars => OwnInv'
<1> SUFFICES ASSUME OwnInv, [Next]_vars PROVE OwnInv'
  OBVIOUS
<1>1. IndInv' /\ filed' \in [ProvIds -> Nat]
  BY NextInv, FiledNumbers DEF OwnInv
<1>2. ASSUME UNCHANGED vars PROVE OwnWithinPayment'
  BY <1>2, OtherWithin DEF vars
<1>3. ASSUME MarkSucceeded \/ MarkFailed PROVE OwnWithinPayment'
  BY <1>3, OtherWithin DEF MarkSucceeded, MarkFailed
<1>4. ASSUME NEW r \in Refunds, RequestStep(r) PROVE OwnWithinPayment'
  <2>1. CASE Issue(r)
    BY <1>1, <2>1, IssueWithin
  <2>2. CASE NoAnswer(r)
    BY <1>1, <2>2, NoAnswerWithin
  <2>3. CASE Conclude(r)
    BY <2>3, ConcludeWithin
  <2>4. CASE Ask(r) \/ Totals(r) \/ Crash(r)
    BY <2>4, OtherWithin DEF Ask, Totals, Crash
  <2> QED
    BY <1>4, <2>1, <2>2, <2>3, <2>4 DEF RequestStep
<1>5. ASSUME NEW i \in ProvIds, Dashboard(i) \/ Notify(i) PROVE OwnWithinPayment'
  BY <1>5, OtherWithin DEF Dashboard, Notify
<1>6. OwnWithinPayment'
  BY <1>2, <1>3, <1>4, <1>5 DEF Next
<1> QED
  BY <1>1, <1>6 DEF OwnInv

\* The money asked back never comes to more than the payment, for any amount, any number
\* of treasurers and any interleaving: the claim is checked and written under one lock, a
\* row claims its amount until it fails, and what notifications filed only takes away from
\* what may be claimed (claimed_cents).
THEOREM RefundsWithinPayment == Spec => []OwnWithinPayment
<1>1. Init => OwnInv
  <2> SUFFICES ASSUME Init PROVE OwnInv
    OBVIOUS
  <2>1. RowsTotal(refund, Claiming) = 0
    <3>1. \A q \in Refunds : refund[q].status \notin Claiming
      BY DEF Init, Claiming
    <3> QED BY <3>1, NoTotal
  <2>2. OwnWithinPayment
    BY <2>1, OwnIsRowsTotal, RefundAssumption
  <2>3. filed \in [ProvIds -> Nat]
    BY DEF Init
  <2> QED
    BY <2>2, <2>3, InitInv DEF OwnInv
<1>2. OwnInv => OwnWithinPayment
  BY DEF OwnInv
<1> QED
  BY <1>1, <1>2, OwnInvKept, PTL DEF Spec
=============================================================================
