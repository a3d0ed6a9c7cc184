------------------------ MODULE RenewalChargeProofs ------------------------
(***************************************************************************)
(* What RenewalCharge promises for every number of scans, attempts,        *)
(* payments, crashes and rungs: its types, that an active mandate has a    *)
(* rung of its ladder left, that no payment is ever taken twice, and that  *)
(* what an attempt records is what happened to the member's money.         *)
(*                                                                         *)
(* ChargedOnce is not inductive.  Behind it stand three facts: a payment   *)
(* the provider never saw has an unused key; a Stripe request only leaves  *)
(* under a key Stripe has not forgotten (because _resume looks the charge  *)
(* up first); and a PayPal invoice already paid is refused.  IndInv says   *)
(* so, together with what the scan's in-memory copies may hold.            *)
(*                                                                         *)
(* The recorded outcomes need more: OutcomeInv says that one scan works at *)
(* a time, what it may still believe of its attempt before and after it    *)
(* claims it, and that an attempt and its live payment name each other.    *)
(***************************************************************************)
EXTENDS RenewalCharge, FiniteSetTheorems, TLAPS

-----------------------------------------------------------------------------
(* The parts of TypeOK, by the rows they are about. *)
MandateType == mandate \in [status: MandateStatus, failures: 0..(Retries + 1)]
AttType == att \in [Attempts -> AttemptRow]
PayType == pay \in [Payments -> PaymentRow]
ScanType == scan \in [Scans -> ScanState]
ProvType == prov \in [Payments -> ProviderRecord]
NetType == net \in [Payments -> {"idle", "sent", "ok", "dup"}]

\* A scan past the due list has an attempt; one about to ask the provider a payment;
\* and its copy of an active mandate has a rung left, as the row had when it was read.
CopiesOK(st) ==
    /\ st.pc \notin {"idle", "notice", "read"} => st.a # None
    /\ st.pc \in {"find", "take", "wait", "capture"} => st.p # None
    /\ st.mstatus = "active" => st.mfailures <= Retries

ScanInv == ScanType /\ \A s \in Scans : CopiesOK(scan[s])

\* Payments that attempts and scans name have been written.
AttBorn == \A a \in Attempts : att[a].payment # None => pay[att[a].payment].status # "none"
ScanBorn == \A s \in Scans : scan[s].p # None => pay[scan[s].p].status # "none"

\* The provider has never heard of a payment that was not written yet.
Unheard ==
    \A p \in Payments : pay[p].status = "none" => net[p] = "idle" /\ prov[p].key = "unused"

\* A key is used by the first charge, and the money is taken by one that took money.
MoneyInv ==
    \A p \in Payments :
        /\ prov[p].key = "unused" <=> prov[p].charge = "none"
        /\ prov[p].taken = IF prov[p].charge \in Money THEN 1 ELSE 0

\* Stripe is only asked under a key it has not forgotten.
KeySent == Provider = "stripe" => \A p \in Payments : net[p] = "sent" => prov[p].key # "forgotten"
KeyTake ==
    Provider = "stripe" =>
        \A s \in Scans : scan[s].pc = "take" => prov[scan[s].p].key # "forgotten"

IndInv ==
    /\ TypeOK
    /\ ActiveHasRetries
    /\ ScanInv
    /\ AttBorn /\ ScanBorn /\ Unheard
    /\ MoneyInv
    /\ KeySent /\ KeyTake

-----------------------------------------------------------------------------
(* The scan's in-memory state. *)

\* Replacing one scan's state by a sound one.
LEMMA ScanUpdate ==
    ASSUME ScanInv, NEW s \in Scans, NEW st \in ScanState, CopiesOK(st),
           scan' = [scan EXCEPT ![s] = st]
    PROVE  ScanInv'
<1>1. \A r \in Scans : scan'[r] = IF r = s THEN st ELSE scan[r]
  BY DEF ScanInv, ScanType
<1> QED
  BY <1>1 DEF ScanInv, ScanType

\* A scan that is done holds nothing.
LEMMA DoneScan ==
    ASSUME ScanInv, NEW s \in Scans, scan' = [scan EXCEPT ![s] = Resting]
    PROVE  ScanInv'
<1>1. Resting \in ScanState /\ CopiesOK(Resting)
  BY BoundAssumption DEF Resting, ScanState, PC, MandateStatus, CopiesOK
<1> QED
  BY <1>1, ScanUpdate

\* Moving on keeps a scan's copies, and every place it moves to has what it needs.
LEMMA GotoScan ==
    ASSUME ScanInv, NEW s \in Scans, NEW pc \in PC, Goto(s, pc),
           scan[s].a # None \/ pc = "read",
           pc \in {"find", "take", "wait", "capture"} => scan[s].p # None
    PROVE  ScanInv'
<1> DEFINE st == [scan[s] EXCEPT !.pc = pc]
<1>1. scan' = [scan EXCEPT ![s] = st]
  BY DEF Goto
<1>2. st \in ScanState
  BY DEF ScanInv, ScanType, ScanState
<1>3. CopiesOK(st)
  BY DEF ScanInv, ScanType, ScanState, CopiesOK
<1> QED
  BY <1>1, <1>2, <1>3, ScanUpdate

\* Settling moves the scan on with the copies it had, or ends its attempt.
LEMMA SettleScan ==
    ASSUME ScanInv, NEW s \in Scans, NEW charge, Settle(s, charge),
           scan[s].a # None, scan[s].p # None
    PROVE  ScanInv'
<1>1. \/ Done(s) \/ Goto(s, "success") \/ Goto(s, "failure") \/ Goto(s, "capture")
      \/ Goto(s, "flag")
  BY DEF Settle, Doubt
<1>2. CASE Done(s)
  BY <1>2, DoneScan DEF Done
<1> QED
  BY <1>1, <1>2, GotoScan DEF PC

\* Putting an attempt in doubt moves the scan on, or ends its attempt.
LEMMA DoubtScan ==
    ASSUME ScanInv, NEW s \in Scans, Doubt(s), scan[s].a # None
    PROVE  ScanInv'
<1>1. Done(s) \/ Goto(s, "flag")
  BY DEF Doubt
<1>2. CASE Done(s)
  BY <1>2, DoneScan DEF Done
<1> QED
  BY <1>1, <1>2, GotoScan DEF PC

\* Closing an attempt moves the scan on, or ends its attempt.
LEMMA CloseScan ==
    ASSUME ScanInv, NEW s \in Scans, NEW outcome, NEW next \in {"rolled", "decline"},
           Close(s, outcome, next), scan[s].a # None
    PROVE  ScanInv'
<1>1. Done(s) \/ Goto(s, next)
  BY DEF Close
<1>2. CASE Done(s)
  BY <1>2, DoneScan DEF Done
<1> QED
  BY <1>1, <1>2, GotoScan DEF PC

\* The scan's in-memory state keeps its invariant through every step.
LEMMA ScanStepInv ==
    ASSUME IndInv, Next
    PROVE  ScanInv'
<1>1. ScanInv
  BY DEF IndInv
<1>2. ASSUME NEW s \in Scans,
             \/ NothingDue(s) \/ WaitInDoubt(s) \/ Skip(s) \/ InFlight(s) \/ GiveBack(s)
             \/ Unpriced(s) \/ Breaker(s) \/ NotSent(s) \/ Flag(s) \/ CaptureUnanswered(s)
             \/ SkipThrown(s) \/ LookupUnavailable(s) \/ RollForward(s) \/ Retry(s) \/ Crash(s)
      PROVE  ScanInv'
  <2>1. scan' = [scan EXCEPT ![s] = Resting]
    BY <1>2 DEF NothingDue, WaitInDoubt, Skip, InFlight, GiveBack, Unpriced, Breaker, NotSent,
                Flag, CaptureUnanswered, SkipThrown, LookupUnavailable, RollForward, Retry,
                Crash, Done
  <2> QED
    BY <1>1, <2>1, DoneScan
<1>3. ASSUME NEW s \in Scans, Start(s)
      PROVE  ScanInv'
  <2> DEFINE st == [Resting EXCEPT !.pc = "notice", !.mstatus = mandate.status]
  <2>1. Resting \in ScanState /\ Resting.mfailures = 0
    BY BoundAssumption DEF Resting, ScanState, PC, MandateStatus
  <2>2. mandate.status \in MandateStatus
    BY DEF IndInv, TypeOK
  <2>3. st \in ScanState
    BY <2>1, <2>2 DEF ScanState, PC
  <2>4. CopiesOK(st)
    BY <2>1, BoundAssumption DEF ScanState, CopiesOK
  <2>5. scan' = [scan EXCEPT ![s] = st]
    BY <1>3 DEF Start
  <2> QED
    BY <1>1, <2>3, <2>4, <2>5, ScanUpdate
<1>4. ASSUME NEW s \in Scans, Notice(s) \/ Abandon(s) \/ NoNotice(s)
      PROVE  ScanInv'
  <2>1. Goto(s, "read")
    BY <1>4 DEF Notice, Abandon, NoNotice
  <2> QED
    BY <1>1, <2>1, GotoScan DEF PC
<1>5. ASSUME NEW s \in Scans, Read(s)
      PROVE  ScanInv'
  <2>1. PICK a \in Scheduled :
          scan' = [scan EXCEPT ![s] =
                    [pc |-> "charge", a |-> a, p |-> att[a].payment,
                     in_doubt |-> att[a].in_doubt, mstatus |-> mandate.status,
                     mfailures |-> mandate.failures, fresh |-> FALSE]]
    BY <1>5 DEF Read
  <2> DEFINE st == [pc |-> "charge", a |-> a, p |-> att[a].payment,
                    in_doubt |-> att[a].in_doubt, mstatus |-> mandate.status,
                    mfailures |-> mandate.failures, fresh |-> FALSE]
  <2>2. a \in Attempts /\ att[a] \in AttemptRow
    BY DEF IndInv, TypeOK, Scheduled
  <2>3. st \in ScanState
    BY <2>2 DEF IndInv, TypeOK, ScanState, PC, AttemptRow
  <2>4. CopiesOK(st)
    BY <2>2, BoundAssumption DEF IndInv, ActiveHasRetries, Attempts, CopiesOK
  <2> QED
    BY <1>1, <2>1, <2>3, <2>4, ScanUpdate
<1>6. ASSUME NEW s \in Scans, scan[s].pc \notin {"idle", "notice", "read"}
      PROVE  scan[s] \in ScanState /\ scan[s].a # None /\ CopiesOK(scan[s])
  BY <1>1, <1>6 DEF ScanInv, ScanType, CopiesOK
<1>7. ASSUME NEW s \in Scans, LetGo(s)
      PROVE  ScanInv'
  <2> DEFINE st == [scan[s] EXCEPT !.pc = "claim", !.in_doubt = FALSE]
  <2>1. scan' = [scan EXCEPT ![s] = st]
    BY <1>7 DEF LetGo
  <2>2. st \in ScanState /\ CopiesOK(st)
    BY <1>6, <1>7 DEF LetGo, ScanState, PC, CopiesOK
  <2> QED
    BY <1>1, <2>1, <2>2, ScanUpdate
<1>8. ASSUME NEW s \in Scans, Claim(s)
      PROVE  ScanInv'
  <2> DEFINE a == scan[s].a
             st == [scan[s] EXCEPT !.pc = "claimed", !.p = att[a].payment,
                                   !.in_doubt = att[a].in_doubt]
  <2>1. scan' = [scan EXCEPT ![s] = st]
    BY <1>8 DEF Claim
  <2>2. scan[s] \in ScanState /\ a # None /\ CopiesOK(scan[s])
    BY <1>6, <1>8 DEF Claim
  <2>3. att[a] \in AttemptRow
    BY <2>2 DEF IndInv, TypeOK, ScanState
  <2>4. st \in ScanState /\ CopiesOK(st)
    BY <2>2, <2>3 DEF ScanState, AttemptRow, PC, CopiesOK
  <2> QED
    BY <1>1, <2>1, <2>4, ScanUpdate
<1>9. ASSUME NEW s \in Scans, Proceed(s)
      PROVE  ScanInv'
  <2> DEFINE st == [scan[s] EXCEPT !.pc = IF scan[s].p = None THEN "create" ELSE "find",
                                   !.in_doubt = FALSE]
  <2>1. scan' = [scan EXCEPT ![s] = st]
    BY <1>9 DEF Proceed
  <2>2. st \in ScanState /\ CopiesOK(st)
    BY <1>6, <1>9 DEF Proceed, ScanState, PC, CopiesOK
  <2> QED
    BY <1>1, <2>1, <2>2, ScanUpdate
<1>10. ASSUME NEW s \in Scans, Create(s)
       PROVE  ScanInv'
  <2>1. PICK p \in Payments :
          scan' = [scan EXCEPT ![s].pc = "take", ![s].p = p, ![s].fresh = TRUE]
    BY <1>10 DEF Create
  <2> DEFINE st == [scan[s] EXCEPT !.pc = "take", !.p = p, !.fresh = TRUE]
  <2>2. p # None
    BY BoundAssumption DEF Payments
  <2>3. st \in ScanState /\ CopiesOK(st)
    BY <1>6, <1>10, <2>2, ZenonT(60) DEF Create, ScanState, PC, CopiesOK
  <2>4. scan' = [scan EXCEPT ![s] = st]
    BY <2>1
  <2> QED
    BY <1>1, <2>3, <2>4, ScanUpdate
<1>11. ASSUME NEW s \in Scans, ChargeAgain(s)
       PROVE  ScanInv'
  <2> DEFINE st == [scan[s] EXCEPT !.pc = "take", !.fresh = FALSE]
  <2>1. scan' = [scan EXCEPT ![s] = st]
    BY <1>11 DEF ChargeAgain
  <2>2. st \in ScanState /\ CopiesOK(st)
    BY <1>6, <1>11 DEF ChargeAgain, ScanState, PC, CopiesOK
  <2> QED
    BY <1>1, <2>1, <2>2, ScanUpdate
<1>12. ASSUME NEW s \in Scans,
              GoOn(s) \/ Send(s) \/ AlreadyPaid(s) \/ ThrowAway(s) \/ LookupRefused(s)
       PROVE  ScanInv'
  <2>1. /\ scan[s].pc \in {"charge", "take", "find"}
        /\ \/ Goto(s, "claim") \/ Goto(s, "success") \/ Goto(s, "thrown") \/ Goto(s, "failure")
           \/ scan[s].pc = "take" /\ Goto(s, "wait")
    BY <1>12 DEF GoOn, Send, AlreadyPaid, ThrowAway, LookupRefused
  <2>2. scan[s].a # None /\ (scan[s].pc = "take" => scan[s].p # None)
    BY <1>6, <2>1 DEF CopiesOK
  <2> QED
    BY <1>1, <2>1, <2>2, GotoScan DEF PC
<1>13. ASSUME NEW s \in Scans, Answered(s) \/ Capture(s) \/ Found(s)
       PROVE  ScanInv'
  <2>1. scan[s].pc \in {"wait", "capture", "find"} /\ \E charge : Settle(s, charge)
    BY <1>13 DEF Answered, Capture, Found
  <2>2. scan[s].a # None /\ scan[s].p # None
    BY <1>6, <2>1 DEF CopiesOK
  <2> QED
    BY <1>1, <2>1, <2>2, SettleScan
<1>14. ASSUME NEW s \in Scans,
              Duplicate(s) \/ NoAnswer(s) \/ TooOld(s) \/ CaptureRefused(s)
       PROVE  ScanInv'
  <2>1. scan[s].pc \in {"wait", "find", "capture"} /\ (Doubt(s) \/ Done(s) \/ Goto(s, "failure"))
    BY <1>14 DEF Duplicate, NoAnswer, TooOld, CaptureRefused
  <2>2. scan[s].a # None
    BY <1>6, <2>1
  <2> QED
    BY <1>1, <2>1, <2>2, DoubtScan, DoneScan, GotoScan DEF Done, PC
<1>15. ASSUME NEW s \in Scans, RecordSuccess(s) \/ RecordFailure(s)
       PROVE  ScanInv'
  <2>1. /\ scan[s].pc \in {"success", "failure"}
        /\ \E outcome : \E next \in {"rolled", "decline"} : Close(s, outcome, next)
    BY <1>15 DEF RecordSuccess, RecordFailure
  <2>2. scan[s].a # None
    BY <1>6, <2>1
  <2> QED
    BY <1>1, <2>1, <2>2, CloseScan
<1>16. ASSUME NEW s \in Scans, Decline(s)
       PROVE  ScanInv'
  <2>1. scan[s].pc = "decline" /\ (Done(s) \/ Goto(s, "retry"))
    BY <1>16 DEF Decline
  <2>2. scan[s].a # None
    BY <1>6, <2>1
  <2>3. CASE Done(s)
    BY <1>1, <2>3, DoneScan DEF Done
  <2> QED
    BY <1>1, <2>1, <2>2, <2>3, GotoScan DEF PC
<1>17. ASSUME \/ \E p \in Payments : ProviderStep(p)
              \/ \E a \in Attempts : TreasurerStep(a) \/ ClaimGoesStale(a)
              \/ MemberStep
       PROVE  ScanInv'
  <2>1. scan' = scan
    BY <1>17 DEF ProviderStep, TreasurerStep, MemberStep, Process, Lose, PendingSettles,
       Elapse,
                 Forget, Webhook, SettlePaid, SettleReleased, SettleFailed, ClaimGoesStale,
                 CancelMandate, BeginMandate, SaveMethod, RenewByHand
  <2> QED
    BY <1>1, <2>1 DEF ScanInv, ScanType
<1> QED
  BY <1>2, <1>3, <1>4, <1>5, <1>7, <1>8, <1>9, <1>10, <1>11, <1>12, <1>13, <1>14, <1>15,
     <1>16, <1>17 DEF Next, ScanStep, AfterClaim
-----------------------------------------------------------------------------
(* Payment rows: once written, a row is never unwritten. *)
PayGrown(f) ==
    /\ f \in [Payments -> PaymentRow]
    /\ \A p \in Payments : pay[p].status # "none" => f[p].status # "none"

\* Rewriting one row, without unwriting it.
LEMMA PayUpdate ==
    ASSUME NEW f, PayGrown(f), NEW p, NEW r,
           p \in Payments => r \in PaymentRow,
           p \in Payments => r.status # "none" \/ r.status = f[p].status
    PROVE  PayGrown([f EXCEPT ![p] = r])
<1> DEFINE g == [f EXCEPT ![p] = r]
<1>1. g \in [Payments -> PaymentRow]
  BY DEF PayGrown
<1>2. \A q \in Payments : g[q] = IF q = p THEN r ELSE f[q]
  BY DEF PayGrown
<1>3. \A q \in Payments : pay[q].status # "none" => g[q].status # "none"
  BY <1>2 DEF PayGrown
<1> QED
  BY <1>1, <1>3 DEF PayGrown

\* What a step does to the payments: none goes back to not being written.  Marking one
\* as paid writes its status.
LEMMA PaySucceeds ==
    ASSUME PayType, NEW p, Succeeds(p)
    PROVE  PayGrown(pay')
<1> DEFINE r == [pay[p] EXCEPT !.status = "succeeded", !.ref = TRUE]
<1>1. pay' = [pay EXCEPT ![p] = r]
  BY DEF Succeeds
<1>2. ASSUME p \in Payments PROVE r \in PaymentRow /\ r.status # "none"
  BY <1>2 DEF PayType, PaymentRow, PaymentStatus
<1> QED
  BY <1>1, <1>2, PayUpdate DEF PayGrown, PayType

\* Settling marks the scan's payment as paid, or names its order.
LEMMA PaySettle ==
    ASSUME PayType, NEW s, NEW charge, Settle(s, charge)
    PROVE  PayGrown(pay')
<1> DEFINE p == scan[s].p
           r(b) == [pay[p] EXCEPT !.ref = b]
<1>1. \/ Succeeds(p)
      \/ pay' = [pay EXCEPT ![p] = r(TRUE)]
      \/ \E named \in BOOLEAN : pay' = [pay EXCEPT ![p] = r(pay[p].ref \/ named)]
  BY DEF Settle
<1>2. ASSUME NEW b \in BOOLEAN PROVE PayGrown([pay EXCEPT ![p] = r(b)])
  <2>1. ASSUME p \in Payments PROVE r(b) \in PaymentRow /\ r(b).status = pay[p].status
    BY <2>1 DEF PayType, PaymentRow
  <2>2. PayGrown(pay)
    BY DEF PayGrown, PayType
  <2> HIDE DEF r
  <2> QED
    BY <2>1, <2>2, PayUpdate
<1>3. Succeeds(p) => PayGrown(pay')
  BY PaySucceeds
<1>4. ASSUME NEW named \in BOOLEAN PROVE (pay[p].ref \/ named) \in BOOLEAN
  BY ZenonT(30)
<1> HIDE DEF r
<1> QED
  BY <1>1, <1>2, <1>3, <1>4

\* Postponing leaves the payments as given, or deletes one this scan wrote and never sent.
LEMMA PayPostpone ==
    ASSUME NEW s, NEW f, PayGrown(f), NEW discard, Postpone(s, f, discard)
    PROVE  PayGrown(pay')
<1> DEFINE p == scan[s].p
           r == [f[p] EXCEPT !.status = "deleted"]
<1>1. pay' = f \/ pay' = [f EXCEPT ![p] = r]
  BY DEF Postpone
<1>2. ASSUME p \in Payments PROVE r \in PaymentRow /\ r.status # "none"
  BY <1>2 DEF PayGrown, PaymentRow, PaymentStatus
<1>3. PayGrown([f EXCEPT ![p] = r])
  BY <1>2, PayUpdate
<1> QED
  BY <1>1, <1>3

\* Marking a payment failed, or leaving one whose money arrived.
LEMMA PayFailed ==
    ASSUME PayType, NEW p, pay' = [pay EXCEPT ![p] = Failed(@)]
    PROVE  PayGrown(pay')
<1>1. ASSUME p \in Payments PROVE Failed(pay[p]) \in PaymentRow /\ Failed(pay[p]).status # "none"
  BY <1>1 DEF PayType, PaymentRow, PaymentStatus, Failed
<1>2. PayGrown(pay)
  BY DEF PayGrown, PayType
<1>3. PayGrown([pay EXCEPT ![p] = Failed(pay[p])])
  BY <1>1, <1>2, PayUpdate
<1> QED
  BY <1>3

\* Every step keeps the payments' type and unwrites none.
LEMMA PayStep ==
    ASSUME IndInv, Next
    PROVE  PayGrown(pay')
<1>1. PayType
  BY DEF IndInv, TypeOK, PayType
<1>2. PayGrown(pay)
  <2>1. pay \in [Payments -> PaymentRow]
    BY <1>1 DEF PayType
  <2> QED
    BY <2>1, Zenon DEF PayGrown
<1>3. ASSUME NEW s \in Scans,
             \/ Start(s) \/ Notice(s) \/ Abandon(s) \/ NoNotice(s) \/ Read(s) \/ NothingDue(s)
             \/ WaitInDoubt(s) \/ LetGo(s) \/ Skip(s) \/ GoOn(s) \/ Claim(s) \/ InFlight(s)
             \/ GiveBack(s) \/ Proceed(s) \/ Unpriced(s) \/ Duplicate(s) \/ Flag(s)
             \/ AlreadyPaid(s) \/ ChargeAgain(s) \/ SkipThrown(s) \/ TooOld(s)
             \/ CaptureRefused(s) \/ LookupRefused(s) \/ RecordSuccess(s) \/ RollForward(s) \/ RecordFailure(s) \/ Retry(s) \/ Crash(s)
      PROVE  pay' = pay
  BY <1>3 DEF Start, Notice, Abandon, NoNotice, Read, NothingDue, WaitInDoubt, LetGo, Skip,
              GoOn, Claim, InFlight, GiveBack, Proceed, Unpriced, Duplicate, Flag, AlreadyPaid,
              ChargeAgain, SkipThrown, TooOld, CaptureRefused, LookupRefused, RecordSuccess,
              RollForward, RecordFailure, Retry, Crash, rows
<1>4. ASSUME NEW s \in Scans, Create(s)
      PROVE  PayGrown(pay')
  <2>1. PICK p \in Payments :
          pay' = [pay EXCEPT ![p].status = "pending", ![p].owner = scan[s].a]
    BY <1>4 DEF Create
  <2> DEFINE r == [pay[p] EXCEPT !.status = "pending", !.owner = scan[s].a]
  <2>2. scan[s].a \in Attempts \cup {None}
    BY DEF IndInv, ScanInv, ScanType, ScanState
  <2>3. r \in PaymentRow /\ r.status # "none"
    BY <1>1, <2>2 DEF PayType, PaymentRow, PaymentStatus
  <2>4. pay' = [pay EXCEPT ![p] = r]
    BY <2>1
  <2> QED
    BY <1>2, <2>3, <2>4, PayUpdate
<1>5. ASSUME NEW s \in Scans,
             Breaker(s) \/ NoAnswer(s) \/ CaptureUnanswered(s) \/ LookupUnavailable(s)
      PROVE  PayGrown(pay')
  <2>1. pay' = pay \/ \E discard : Postpone(s, pay, discard)
    BY <1>5 DEF Breaker, NoAnswer, CaptureUnanswered, LookupUnavailable
  <2> QED
    BY <1>2, <2>1, PayPostpone
<1>6. ASSUME NEW s \in Scans, NotSent(s)
      PROVE  PayGrown(pay')
  <2> DEFINE p == scan[s].p
             stamp == IF pay[p].sent = "no" /\ scan[s].fresh THEN "recent" ELSE pay[p].sent
             r == [pay[p] EXCEPT !.sent = stamp]
  <2>1. Postpone(s, [pay EXCEPT ![p] = r], scan[s].fresh)
    BY <1>6 DEF NotSent
  <2>2. ASSUME p \in Payments PROVE r \in PaymentRow /\ r.status = pay[p].status
    BY <1>1, <2>2 DEF PayType, PaymentRow
  <2>3. PayGrown([pay EXCEPT ![p] = r])
    BY <1>2, <2>2, PayUpdate
  <2> QED
    BY <2>1, <2>3, PayPostpone
<1>7. ASSUME NEW s \in Scans, Send(s)
      PROVE  PayGrown(pay')
  <2> DEFINE p == scan[s].p
             r == [pay[p] EXCEPT !.sent = IF @ = "no" THEN "recent" ELSE @]
  <2>1. pay' = [pay EXCEPT ![p] = r]
    BY <1>7 DEF Send
  <2>2. ASSUME p \in Payments PROVE r \in PaymentRow /\ r.status = pay[p].status
    BY <1>1, <2>2 DEF PayType, PaymentRow
  <2> QED
    BY <1>2, <2>1, <2>2, PayUpdate
<1>8. ASSUME NEW s \in Scans, Answered(s) \/ Capture(s) \/ Found(s)
      PROVE  PayGrown(pay')
  <2>1. \E charge : Settle(s, charge)
    BY <1>8 DEF Answered, Capture, Found
  <2> QED
    BY <1>1, <2>1, PaySettle
<1>9. ASSUME NEW s \in Scans, ThrowAway(s)
      PROVE  PayGrown(pay')
  <2> DEFINE p == scan[s].p
             r == [pay[p] EXCEPT !.status = "deleted"]
  <2>1. pay' = [pay EXCEPT ![p] = r]
    BY <1>9 DEF ThrowAway
  <2>2. ASSUME p \in Payments PROVE r \in PaymentRow /\ r.status # "none"
    BY <1>1, <2>2 DEF PayType, PaymentRow, PaymentStatus
  <2> QED
    BY <1>2, <2>1, <2>2, PayUpdate
<1>10. ASSUME NEW s \in Scans, Decline(s)
       PROVE  PayGrown(pay')
  BY <1>1, <1>10, PayFailed DEF Decline
<1>11. ASSUME NEW p \in Payments,
              Process(p) \/ Lose(p) \/ PendingSettles(p) \/ Forget(p)
       PROVE  pay' = pay
  BY <1>11 DEF Process, Lose, PendingSettles, Forget, rows
<1>12. ASSUME NEW p \in Payments, Elapse(p)
       PROVE  PayGrown(pay')
  <2> DEFINE r == [pay[p] EXCEPT !.sent = IF @ = "recent" THEN "old" ELSE @]
  <2>1. pay' = [pay EXCEPT ![p] = r]
    BY <1>12 DEF Elapse
  <2>2. r \in PaymentRow /\ r.status = pay[p].status
    BY <1>1 DEF PayType, PaymentRow
  <2> QED
    BY <1>2, <2>1, <2>2, PayUpdate
<1>13. ASSUME NEW p \in Payments, Webhook(p)
       PROVE  PayGrown(pay')
  BY <1>1, <1>13, PaySucceeds, PayFailed DEF Webhook
<1>14. ASSUME NEW a \in Attempts, SettlePaid(a) \/ SettleFailed(a)
       PROVE  PayGrown(pay')
  BY <1>1, <1>14, PaySucceeds, PayFailed DEF SettlePaid, SettleFailed
<1>15. ASSUME NEW a \in Attempts, SettleReleased(a)
       PROVE  PayGrown(pay')
  <2> DEFINE p == att[a].payment
             r == [pay[p] EXCEPT !.sent = "no"]
  <2>1. pay' = [pay EXCEPT ![p] = r]
    BY <1>15 DEF SettleReleased
  <2>2. ASSUME p \in Payments PROVE r \in PaymentRow /\ r.status = pay[p].status
    BY <1>1, <2>2 DEF PayType, PaymentRow
  <2> QED
    BY <1>2, <2>1, <2>2, PayUpdate
<1>16. ASSUME MemberStep \/ \E a \in Attempts : ClaimGoesStale(a)
       PROVE  pay' = pay
  BY <1>16 DEF MemberStep, ClaimGoesStale, CancelMandate, BeginMandate, SaveMethod, RenewByHand
<1> QED
  BY <1>2, <1>3, <1>4, <1>5, <1>6, <1>7, <1>8, <1>9, <1>10, <1>11, <1>12, <1>13, <1>14, <1>15,
     <1>16 DEF Next, ScanStep, AfterClaim, ProviderStep, TreasurerStep
-----------------------------------------------------------------------------
(* Attempt rows: their type, and that the payments they name have been written. *)
AttGood(f) ==
    /\ f \in [Attempts -> AttemptRow]
    /\ \A a \in Attempts : f[a].payment # None => pay'[f[a].payment].status # "none"

\* Rewriting one row, with its payment kept, cleared or just written.
LEMMA AttUpdate ==
    ASSUME NEW f, AttGood(f), NEW a, NEW r,
           a \in Attempts => r \in AttemptRow,
           a \in Attempts => \/ r.payment = None
                             \/ r.payment = f[a].payment
                             \/ pay'[r.payment].status # "none"
    PROVE  AttGood([f EXCEPT ![a] = r])
<1> DEFINE g == [f EXCEPT ![a] = r]
<1>1. g \in [Attempts -> AttemptRow]
  BY DEF AttGood
<1>2. \A b \in Attempts : g[b] = IF b = a THEN r ELSE f[b]
  BY DEF AttGood
<1>3. \A b \in Attempts : g[b].payment # None => pay'[g[b].payment].status # "none"
  BY <1>2 DEF AttGood
<1> QED
  BY <1>1, <1>3 DEF AttGood

\* Fields other than the payment may take any value of their type.
LEMMA AttFields ==
    ASSUME NEW f, AttGood(f), NEW a,
           NEW outcome \in Outcome, NEW claim \in Scans \cup {None, Dead, Stale},
           NEW in_doubt \in BOOLEAN, NEW flagged \in BOOLEAN
    PROVE  /\ AttGood([f EXCEPT ![a].outcome = outcome])
           /\ AttGood([f EXCEPT ![a].claim = claim])
           /\ AttGood([f EXCEPT ![a].in_doubt = in_doubt])
           /\ AttGood([f EXCEPT ![a].flagged = flagged])
           /\ AttGood([f EXCEPT ![a].payment = None])
<1>1. a \in Attempts => f[a] \in AttemptRow
  BY DEF AttGood
<1>2. AttGood([f EXCEPT ![a] = [f[a] EXCEPT !.outcome = outcome]])
  BY <1>1, AttUpdate DEF AttemptRow
<1>3. AttGood([f EXCEPT ![a] = [f[a] EXCEPT !.claim = claim]])
  BY <1>1, AttUpdate DEF AttemptRow
<1>4. AttGood([f EXCEPT ![a] = [f[a] EXCEPT !.in_doubt = in_doubt]])
  BY <1>1, AttUpdate DEF AttemptRow
<1>5. AttGood([f EXCEPT ![a] = [f[a] EXCEPT !.flagged = flagged]])
  BY <1>1, AttUpdate DEF AttemptRow
<1>6. AttGood([f EXCEPT ![a] = [f[a] EXCEPT !.payment = None]])
  BY <1>1, AttUpdate DEF AttemptRow
<1> QED
  BY <1>2, <1>3, <1>4, <1>5, <1>6

\* What each part of a step does to the attempts: a released claim is no claim.
LEMMA AttRelease ==
    ASSUME AttGood(att), NEW s, Release(s)
    PROVE  AttGood(att')
<1>1. AttGood([att EXCEPT ![scan[s].a].claim = None])
  BY AttFields DEF Outcome
<1> QED
  BY <1>1 DEF Release

\* Postponing gives the claim back, and detaches a payment that is thrown away.
LEMMA AttPostpone ==
    ASSUME AttGood(att), NEW s, NEW f, NEW discard, Postpone(s, f, discard)
    PROVE  AttGood(att')
<1> DEFINE a == scan[s].a
           r == [att[a] EXCEPT !.claim = None, !.payment = None]
<1>1. Release(s) \/ att' = [att EXCEPT ![a] = r]
  BY DEF Postpone
<1>2. ASSUME a \in Attempts PROVE r \in AttemptRow /\ r.payment = None
  BY <1>2 DEF AttGood, AttemptRow
<1>3. AttGood([att EXCEPT ![a] = r])
  BY <1>2, AttUpdate
<1>4. Release(s) => AttGood(att')
  BY AttRelease
<1> QED
  BY <1>1, <1>3, <1>4

\* Holding gives the claim back, and may flag the attempt.
LEMMA AttHold ==
    ASSUME AttGood(att), NEW s, Hold(s)
    PROVE  AttGood(att')
<1> DEFINE a == scan[s].a
<1>1. PICK days \in BOOLEAN :
        LET told == [att EXCEPT ![a].flagged = @ \/ days]
        IN  att' = IF Holds(s) THEN [told EXCEPT ![a].claim = None] ELSE told
  BY DEF Hold
<1> DEFINE flagged == att[a].flagged \/ days
           told == [att EXCEPT ![a].flagged = flagged]
<1>2. flagged \in BOOLEAN
  OBVIOUS
<1>3. AttGood(told)
  <2> HIDE DEF flagged
  <2> QED
    BY <1>2, AttFields DEF Outcome
<1>4. att' = told \/ att' = [told EXCEPT ![a].claim = None]
  BY <1>1
<1> HIDE DEF told
<1>5. AttGood([told EXCEPT ![a].claim = None])
  BY <1>3, AttFields DEF Outcome
<1> QED
  BY <1>3, <1>4, <1>5

\* An attempt put in doubt gives its claim back.
LEMMA AttDoubt ==
    ASSUME AttGood(att), NEW s, Doubt(s)
    PROVE  AttGood(att')
<1> DEFINE a == scan[s].a
           r == [att[a] EXCEPT !.claim = None, !.in_doubt = TRUE]
<1>1. att' = att \/ att' = [att EXCEPT ![a] = r]
  BY DEF Doubt
<1>2. ASSUME a \in Attempts PROVE r \in AttemptRow /\ r.payment = att[a].payment
  BY <1>2 DEF AttGood, AttemptRow
<1>3. AttGood([att EXCEPT ![a] = r])
  BY <1>2, AttUpdate
<1> QED
  BY <1>1, <1>3

\* Settling may hold the attempt or put it in doubt, and writes nothing else to it.
LEMMA AttSettle ==
    ASSUME AttGood(att), NEW s, NEW charge, Settle(s, charge)
    PROVE  AttGood(att')
<1>1. att' = att \/ Hold(s) \/ Doubt(s)
  BY DEF Settle, rows
<1> QED
  BY <1>1, AttHold, AttDoubt

\* Closing writes an outcome and gives the claim back.
LEMMA AttClose ==
    ASSUME AttGood(att), NEW s, NEW outcome \in Outcome, NEW next, Close(s, outcome, next)
    PROVE  AttGood(att')
<1> DEFINE a == scan[s].a
           r == [att[a] EXCEPT !.outcome = outcome, !.claim = None]
<1>1. att' = att \/ att' = [att EXCEPT ![a] = r]
  BY DEF Close
<1>2. ASSUME a \in Attempts PROVE r \in AttemptRow /\ r.payment = att[a].payment
  BY <1>2 DEF AttGood, AttemptRow
<1>3. AttGood([att EXCEPT ![a] = r])
  BY <1>2, AttUpdate
<1> QED
  BY <1>1, <1>3

\* A new attempt is scheduled, unclaimed and without a payment.
LEMMA AttNew ==
    ASSUME AttGood(att), NEW a, NEW term \in Nat
    PROVE  AttGood(NewAttempt(a, term))
<1> DEFINE r == [Unwritten EXCEPT !.outcome = "scheduled", !.term = term]
<1>1. r \in AttemptRow /\ r.payment = None
  BY DEF AttemptRow, Outcome, Unwritten
<1> QED
  BY <1>1, AttUpdate DEF NewAttempt

\* A settled attempt, closed or not, is well formed.
LEMMA AttSettled ==
    ASSUME AttGood(att), NEW a \in Attempts, NEW outcome \in Outcome
    PROVE  /\ AttGood([att EXCEPT ![a] = Settled(att[a])])
           /\ AttGood([att EXCEPT ![a] = [Settled(att[a]) EXCEPT !.outcome = outcome]])
<1>1. att[a] \in AttemptRow
  BY DEF AttGood
<1>2. Settled(att[a]) \in AttemptRow /\ Settled(att[a]).payment = att[a].payment
  BY <1>1 DEF Settled, AttemptRow
<1> DEFINE r == [Settled(att[a]) EXCEPT !.outcome = outcome]
<1>3. r \in AttemptRow /\ r.payment = att[a].payment
  BY <1>2 DEF AttemptRow
<1>4. AttGood([att EXCEPT ![a] = Settled(att[a])])
  BY <1>2, AttUpdate
<1>5. AttGood([att EXCEPT ![a] = r])
  BY <1>3, AttUpdate
<1> QED
  BY <1>4, <1>5

\* Every step keeps the attempts' type and the payments they name.
LEMMA AttStep ==
    ASSUME IndInv, Next
    PROVE  AttGood(att')
<1>1. AttGood(att)
  BY PayStep DEF IndInv, TypeOK, AttBorn, AttGood, PayGrown, AttemptRow
<1>2. ASSUME NEW s \in Scans,
             \/ Start(s) \/ Abandon(s) \/ NoNotice(s) \/ Read(s) \/ NothingDue(s) \/ GoOn(s)
             \/ InFlight(s) \/ Send(s) \/ AlreadyPaid(s) \/ ChargeAgain(s) \/ RollForward(s)
             \/ LookupRefused(s) \/ Decline(s)
      PROVE  att' = att
  BY <1>2 DEF Start, Abandon, NoNotice, Read, NothingDue, GoOn, InFlight, Send, AlreadyPaid,
              ChargeAgain, RollForward, LookupRefused, Decline, rows
<1>3. ASSUME NEW s \in Scans, Notice(s)
      PROVE  AttGood(att')
  <2>1. covered \in Nat
    BY DEF IndInv, TypeOK
  <2>2. \A a \in Attempts : AttGood(NewAttempt(a, covered))
    BY <1>1, <2>1, AttNew
  <2> QED
    BY <1>3, <2>2 DEF Notice
<1>4. ASSUME NEW s \in Scans, WaitInDoubt(s) \/ Flag(s)
      PROVE  AttGood(att')
  <2>1. PICK flagged \in BOOLEAN : att' = [att EXCEPT ![scan[s].a].flagged = flagged]
    <3>1. CASE WaitInDoubt(s)
      <4>1. PICK lapsed \in BOOLEAN :
              att' = [att EXCEPT ![scan[s].a].flagged = @ \/ lapsed]
        BY <3>1 DEF WaitInDoubt
      <4> WITNESS (att[scan[s].a].flagged \/ lapsed) \in BOOLEAN
      <4> QED
        BY <4>1
    <3>2. CASE Flag(s)
      BY <3>2 DEF Flag
    <3> QED
      BY <1>4, <3>1, <3>2
  <2> QED
    BY <1>1, <2>1, AttFields DEF Outcome
<1>5. ASSUME NEW s \in Scans, LetGo(s) \/ Proceed(s)
      PROVE  AttGood(att')
  <2>1. att' = att \/ att' = [att EXCEPT ![scan[s].a].in_doubt = FALSE]
    BY <1>5 DEF LetGo, Proceed
  <2>2. AttGood([att EXCEPT ![scan[s].a].in_doubt = FALSE])
    BY <1>1, AttFields DEF Outcome
  <2> QED
    BY <1>1, <2>1, <2>2
<1>6. ASSUME NEW s \in Scans, Skip(s) \/ Unpriced(s) \/ SkipThrown(s)
      PROVE  AttGood(att')
  <2>1. att' = [att EXCEPT ![scan[s].a].outcome = "skipped"]
    BY <1>6 DEF Skip, Unpriced, SkipThrown
  <2>2. AttGood([att EXCEPT ![scan[s].a].outcome = "skipped"])
    BY <1>1, AttFields DEF Outcome
  <2> QED
    BY <2>1, <2>2
<1>7. ASSUME NEW s \in Scans, Claim(s)
      PROVE  AttGood(att')
  <2>1. AttGood([att EXCEPT ![scan[s].a].claim = s])
    BY <1>1, AttFields DEF Outcome
  <2> QED
    BY <1>7, <2>1 DEF Claim
<1>8. ASSUME NEW s \in Scans, GiveBack(s)
      PROVE  AttGood(att')
  BY <1>1, <1>8, AttRelease DEF GiveBack
<1>9. ASSUME NEW s \in Scans, Create(s)
      PROVE  AttGood(att')
  <2>1. PICK p \in Payments :
          /\ pay' = [pay EXCEPT ![p].status = "pending", ![p].owner = scan[s].a]
          /\ att' = [att EXCEPT ![scan[s].a].payment = p]
    BY <1>9 DEF Create
  <2> DEFINE r == [att[scan[s].a] EXCEPT !.payment = p]
  <2>2. pay'[p].status # "none"
    BY <2>1 DEF IndInv, TypeOK, PaymentRow
  <2>3. scan[s].a \in Attempts => r \in AttemptRow /\ r.payment = p
    BY <1>1 DEF AttGood, AttemptRow
  <2>4. AttGood([att EXCEPT ![scan[s].a] = r])
    BY <1>1, <2>2, <2>3, AttUpdate
  <2> QED
    BY <2>1, <2>4
<1>10. ASSUME NEW s \in Scans,
              \/ Breaker(s) \/ NotSent(s) \/ CaptureUnanswered(s) \/ LookupUnavailable(s)
              \/ NoAnswer(s) \/ Duplicate(s) \/ TooOld(s) \/ CaptureRefused(s)
       PROVE  AttGood(att')
  <2>1. att' = att \/ Doubt(s) \/ \E f, discard : Postpone(s, f, discard)
    BY <1>10 DEF Breaker, NotSent, CaptureUnanswered, LookupUnavailable, NoAnswer, Duplicate,
                 TooOld, CaptureRefused
  <2> QED
    BY <1>1, <2>1, AttPostpone, AttDoubt
<1>11. ASSUME NEW s \in Scans, Answered(s) \/ Capture(s) \/ Found(s)
       PROVE  AttGood(att')
  <2>1. \E charge : Settle(s, charge)
    BY <1>11 DEF Answered, Capture, Found
  <2> QED
    BY <1>1, <2>1, AttSettle
<1>12. ASSUME NEW s \in Scans, ThrowAway(s)
       PROVE  AttGood(att')
  <2>1. AttGood([att EXCEPT ![scan[s].a].payment = None])
    BY <1>1, AttFields DEF Outcome
  <2> QED
    BY <1>12, <2>1 DEF ThrowAway
<1>13. ASSUME NEW s \in Scans, RecordSuccess(s) \/ RecordFailure(s)
       PROVE  AttGood(att')
  BY <1>1, <1>13, AttClose DEF RecordSuccess, RecordFailure, Outcome
<1>14. ASSUME NEW s \in Scans, Retry(s)
       PROVE  AttGood(att')
  <2>1. scan[s].a \in Attempts
    BY <1>14 DEF IndInv, ScanInv, ScanType, ScanState, CopiesOK, Retry
  <2>2. att[scan[s].a].term \in Nat
    BY <2>1 DEF IndInv, TypeOK, AttemptRow
  <2>3. \A b \in Attempts : AttGood(NewAttempt(b, att[scan[s].a].term))
    BY <1>1, <2>2, AttNew
  <2> QED
    BY <1>1, <1>14, <2>3 DEF Retry
<1>15. ASSUME NEW s \in Scans, Crash(s)
       PROVE  AttGood(att')
  <2>1. \A a \in Attempts : /\ [att[a] EXCEPT !.claim = Dead] \in AttemptRow
                            /\ [att[a] EXCEPT !.claim = Dead].payment = att[a].payment
    BY <1>1 DEF AttGood, AttemptRow
  <2>2. \A a \in Attempts : att'[a] = att[a] \/ att'[a] = [att[a] EXCEPT !.claim = Dead]
    BY <1>15 DEF Crash
  <2>3. att' \in [Attempts -> AttemptRow]
    BY <1>1, <1>15, <2>1 DEF Crash, AttGood
  <2> QED
    BY <1>1, <2>1, <2>2, <2>3 DEF AttGood
<1>16. ASSUME NEW a \in Attempts, ClaimGoesStale(a)
       PROVE  AttGood(att')
  <2>1. AttGood([att EXCEPT ![a].claim = Stale])
    BY <1>1, AttFields DEF Outcome
  <2> QED
    BY <1>16, <2>1 DEF ClaimGoesStale
<1>17. ASSUME NEW a \in Attempts, SettlePaid(a) \/ SettleReleased(a) \/ SettleFailed(a)
       PROVE  AttGood(att')
  BY <1>1, <1>17, AttSettled DEF SettlePaid, SettleReleased, SettleFailed, Outcome
<1>18. ASSUME CancelMandate
       PROVE  AttGood(att')
  <2>1. \A a \in Attempts : /\ [att[a] EXCEPT !.outcome = "skipped"] \in AttemptRow
                            /\ [att[a] EXCEPT !.outcome = "skipped"].payment = att[a].payment
    BY <1>1 DEF AttGood, AttemptRow, Outcome
  <2>2. \A a \in Attempts : att'[a] = att[a] \/ att'[a] = [att[a] EXCEPT !.outcome = "skipped"]
    BY <1>18 DEF CancelMandate
  <2>3. att' \in [Attempts -> AttemptRow]
    BY <1>1, <1>18, <2>1 DEF CancelMandate, AttGood
  <2> QED
    BY <1>1, <2>1, <2>2, <2>3 DEF AttGood
<1>19. ASSUME \/ \E p \in Payments : ProviderStep(p)
              \/ BeginMandate \/ SaveMethod \/ RenewByHand
       PROVE  att' = att
  BY <1>19 DEF ProviderStep, Process, Lose, PendingSettles, Elapse, Forget, Webhook, rows,
               BeginMandate, SaveMethod, RenewByHand
<1> QED
  BY <1>1, <1>2, <1>3, <1>4, <1>5, <1>6, <1>7, <1>8, <1>9, <1>10, <1>11, <1>12, <1>13, <1>14,
     <1>15, <1>16, <1>17, <1>18, <1>19 DEF Next, ScanStep, AfterClaim, TreasurerStep, MemberStep
-----------------------------------------------------------------------------
(* The provider: keys, money, and what is on the wire. *)

\* The payment a scan holds has been written.
LEMMA ScanBornStep ==
    ASSUME IndInv, Next
    PROVE  ScanBorn'
<1>1. \A q \in Payments : pay[q].status # "none" => pay'[q].status # "none"
  BY PayStep DEF PayGrown
<1>2. /\ scan \in [Scans -> ScanState]
      /\ \A s \in Scans : scan[s].p # None => pay'[scan[s].p].status # "none"
  BY <1>1 DEF IndInv, ScanInv, ScanType, ScanBorn, ScanState
<1>3. \A a \in Attempts : att[a].payment # None => pay'[att[a].payment].status # "none"
  BY <1>1 DEF IndInv, TypeOK, AttBorn, AttemptRow
<1>4. ASSUME NEW s \in Scans, NEW st, scan' = [scan EXCEPT ![s] = st],
             st.p # None => pay'[st.p].status # "none"
      PROVE  ScanBorn'
  BY <1>2, <1>4 DEF ScanBorn
<1>5. ASSUME NEW s \in Scans, Done(s) \/ scan' = [scan EXCEPT ![s] = Resting]
      PROVE  ScanBorn'
  BY <1>4, <1>5 DEF Done, Resting
<1>6. ASSUME NEW s \in Scans, NEW pc, Goto(s, pc)
      PROVE  ScanBorn'
  <2>1. scan' = [scan EXCEPT ![s] = [scan[s] EXCEPT !.pc = pc]]
    BY <1>6 DEF Goto
  <2>2. [scan[s] EXCEPT !.pc = pc].p = scan[s].p
    BY <1>2 DEF ScanState
  <2> QED
    BY <1>2, <1>4, <2>1, <2>2
<1>7. ASSUME NEW s \in Scans,
             \/ Notice(s) \/ Abandon(s) \/ NoNotice(s) \/ NothingDue(s) \/ WaitInDoubt(s)
             \/ Skip(s) \/ GoOn(s) \/ InFlight(s) \/ GiveBack(s) \/ Unpriced(s) \/ Breaker(s)
             \/ NotSent(s) \/ Send(s) \/ Answered(s) \/ Duplicate(s) \/ NoAnswer(s) \/ Flag(s)
             \/ Capture(s) \/ CaptureUnanswered(s) \/ CaptureRefused(s) \/ AlreadyPaid(s)
             \/ Found(s) \/ ThrowAway(s) \/ SkipThrown(s) \/ TooOld(s)
             \/ LookupUnavailable(s) \/ LookupRefused(s) \/ RecordSuccess(s) \/ RollForward(s) \/ RecordFailure(s) \/ Decline(s)
             \/ Retry(s)
      PROVE  ScanBorn'
  <2>1. Done(s) \/ \E pc : Goto(s, pc)
    BY <1>7 DEF Notice, Abandon, NoNotice, NothingDue, WaitInDoubt, Skip, GoOn, InFlight,
                GiveBack, Unpriced, Breaker, NotSent, Send, Answered, Duplicate, NoAnswer, Flag,
                Capture, CaptureUnanswered, AlreadyPaid, Found, ThrowAway, SkipThrown, TooOld,
                LookupUnavailable, CaptureRefused, LookupRefused, RecordSuccess, RollForward,
                RecordFailure, Decline, Retry, Settle, Doubt, Close
  <2> QED
    BY <1>5, <1>6, <2>1
<1>8. ASSUME NEW s \in Scans, Crash(s)
      PROVE  ScanBorn'
  BY <1>5, <1>8 DEF Crash
<1>9. ASSUME NEW s \in Scans, Start(s)
      PROVE  ScanBorn'
  <2>1. [Resting EXCEPT !.pc = "notice", !.mstatus = mandate.status].p = None
    BY DEF Resting
  <2> QED
    BY <1>4, <1>9, <2>1 DEF Start
<1>10. ASSUME NEW s \in Scans, Read(s)
       PROVE  ScanBorn'
  <2>1. PICK a \in Scheduled :
          scan' = [scan EXCEPT ![s] =
                    [pc |-> "charge", a |-> a, p |-> att[a].payment,
                     in_doubt |-> att[a].in_doubt, mstatus |-> mandate.status,
                     mfailures |-> mandate.failures, fresh |-> FALSE]]
    BY <1>10 DEF Read
  <2> QED
    BY <1>3, <1>4, <2>1 DEF Scheduled
<1>11. ASSUME NEW s \in Scans, LetGo(s) \/ Proceed(s) \/ ChargeAgain(s)
       PROVE  ScanBorn'
  <2>1. \E st : scan' = [scan EXCEPT ![s] = st] /\ st.p = scan[s].p
    BY <1>2, <1>11 DEF LetGo, Proceed, ChargeAgain, ScanState
  <2> QED
    BY <1>2, <1>4, <2>1
<1>12. ASSUME NEW s \in Scans, Claim(s)
       PROVE  ScanBorn'
  <2> DEFINE a == scan[s].a
             st == [scan[s] EXCEPT !.pc = "claimed", !.p = att[a].payment,
                                   !.in_doubt = att[a].in_doubt]
  <2>1. scan' = [scan EXCEPT ![s] = st] /\ scan[s].pc = "claim"
    BY <1>12 DEF Claim
  <2>2. a \in Attempts
    BY <2>1 DEF IndInv, ScanInv, ScanType, ScanState, CopiesOK
  <2>3. st.p = att[a].payment
    BY <1>2 DEF ScanState
  <2> QED
    BY <1>3, <1>4, <2>1, <2>2, <2>3
<1>13. ASSUME NEW s \in Scans, Create(s)
       PROVE  ScanBorn'
  <2>1. PICK p \in Payments :
          /\ pay' = [pay EXCEPT ![p].status = "pending", ![p].owner = scan[s].a]
          /\ scan' = [scan EXCEPT ![s].pc = "take", ![s].p = p, ![s].fresh = TRUE]
    BY <1>13 DEF Create
  <2>2. pay'[p].status # "none"
    BY <2>1 DEF IndInv, TypeOK, PaymentRow
  <2> DEFINE st == [scan[s] EXCEPT !.pc = "take", !.p = p, !.fresh = TRUE]
  <2>3. st.p = p
    BY <1>2 DEF ScanState
  <2>4. scan' = [scan EXCEPT ![s] = st]
    BY <2>1
  <2> QED
    BY <1>4, <2>2, <2>3, <2>4
<1>14. ASSUME \/ \E p \in Payments : ProviderStep(p)
              \/ \E a \in Attempts : TreasurerStep(a) \/ ClaimGoesStale(a)
              \/ MemberStep
       PROVE  ScanBorn'
  <2>1. scan' = scan
    BY <1>14 DEF ProviderStep, TreasurerStep, MemberStep, Process, Lose, PendingSettles,
       Elapse,
                 Forget, Webhook, SettlePaid, SettleReleased, SettleFailed, ClaimGoesStale,
                 CancelMandate, BeginMandate, SaveMethod, RenewByHand
  <2> QED
    BY <1>2, <2>1 DEF ScanBorn
<1> QED
  BY <1>7, <1>8, <1>9, <1>10, <1>11, <1>12, <1>13, <1>14 DEF Next, ScanStep, AfterClaim
\* Steps that leave the provider alone.
LEMMA QuietProvider ==
    ASSUME Next,
           ~ \E s \in Scans : \/ Send(s) \/ Answered(s) \/ Duplicate(s) \/ NoAnswer(s)
                              \/ Capture(s) \/ CaptureUnanswered(s),
           ~ \E p \in Payments : \/ Process(p) \/ Lose(p) \/ PendingSettles(p) \/ Elapse(p)
                                 \/ Forget(p)
    PROVE  prov' = prov /\ net' = net
BY ZenonT(60) DEF Next, ScanStep, AfterClaim, ProviderStep, TreasurerStep, MemberStep,
   Start, Notice,
       Abandon, NoNotice,
       Read, NothingDue, WaitInDoubt, LetGo, Skip, GoOn, Claim, InFlight, GiveBack, Proceed,
       Create, Unpriced, Breaker, NotSent, Flag, AlreadyPaid, Found, ChargeAgain, ThrowAway,
       SkipThrown, TooOld, LookupUnavailable, CaptureRefused, LookupRefused, RecordSuccess,
       RollForward, RecordFailure, Decline, Retry, Crash, Webhook, SettlePaid, SettleReleased, SettleFailed, ClaimGoesStale,
       CancelMandate, BeginMandate, SaveMethod, RenewByHand, provider

\* The provider's record of one payment: sound in itself, and never back to an unused key.
RecordOK(r) ==
    /\ r.key = "unused" <=> r.charge = "none"
    /\ r.taken = IF r.charge \in Money THEN 1 ELSE 0

\* What a step may do to the record of payment p: keep it, or use, age or forget its key.
RecordStep(p) ==
    /\ prov'[p] \in ProviderRecord
    /\ RecordOK(prov'[p])
    /\ prov'[p].key = prov[p].key \/ net[p] = "sent" \/ prov[p].key # "unused"
    /\ Provider = "stripe" /\ prov'[p].key = "forgotten" /\ prov[p].key # "forgotten" =>
          /\ net'[p] = "idle"
          /\ scan' = scan /\ \A s \in Scans : ~InTheHandsOf(s, p)

\* Every step keeps every provider record sound: the money of a payment is taken when
\* its charge is, and a charge already taken is never made anew.
LEMMA RecordsStep ==
    ASSUME IndInv, Next
    PROVE  prov' \in [Payments -> ProviderRecord] /\ \A p \in Payments : RecordStep(p)
<1>1. prov \in [Payments -> ProviderRecord] /\ \A p \in Payments : RecordOK(prov[p])
  BY DEF IndInv, TypeOK, MoneyInv, RecordOK
<1>2. ASSUME prov' = prov
      PROVE  prov' \in [Payments -> ProviderRecord] /\ \A p \in Payments : RecordStep(p)
  BY <1>1, <1>2 DEF RecordStep
<1>3. ASSUME NEW p \in Payments, NEW r \in ProviderRecord, RecordOK(r),
             prov' = [prov EXCEPT ![p] = r],
             r.key = prov[p].key \/ net[p] = "sent" \/ prov[p].key # "unused",
             \/ r.key # "forgotten" \/ prov[p].key = "forgotten"
             \/ /\ net'[p] = "idle" /\ scan' = scan
                /\ \A s \in Scans : ~InTheHandsOf(s, p)
      PROVE  prov' \in [Payments -> ProviderRecord] /\ \A q \in Payments : RecordStep(q)
  <2>1. \A q \in Payments : prov'[q] = IF q = p THEN r ELSE prov[q]
    BY <1>1, <1>3
  <2>2. prov' \in [Payments -> ProviderRecord]
    BY <1>1, <1>3
  <2> QED
    BY <1>1, <1>3, <2>1, <2>2 DEF RecordStep
<1>4. ASSUME NEW p \in Payments,
             NEW charge \in {"taken", "mismatched", "pending", "declined"},
             prov[p].charge \in {"created", "pending"}, prov' = Charged(p, charge)
      PROVE  prov' \in [Payments -> ProviderRecord] /\ \A q \in Payments : RecordStep(q)
  <2> DEFINE n == IF charge \in Money THEN prov[p].taken + 1 ELSE prov[p].taken
             r == [prov[p] EXCEPT !.charge = charge, !.taken = n]
  <2>1. prov[p] \in ProviderRecord /\ RecordOK(prov[p])
    BY <1>1
  <2>2. prov[p].taken = 0 /\ prov[p].key # "unused"
    BY <1>4, <2>1 DEF RecordOK, Money
  <2>3. n \in Nat /\ n = IF charge \in Money THEN 1 ELSE 0
    BY <2>2
  <2>4. prov' = [prov EXCEPT ![p] = r]
    BY <1>4 DEF Charged
  <2> HIDE DEF n
  <2>5. r.charge = charge /\ r.key = prov[p].key /\ r.taken = n
    BY <2>1 DEF ProviderRecord
  <2>6. r \in ProviderRecord
    BY <1>4, <2>1, <2>3 DEF ProviderRecord
  <2> HIDE DEF r
  <2>7. RecordOK(r)
    BY <1>4, <2>2, <2>3, <2>5 DEF RecordOK
  <2> QED
    BY <1>3, <2>4, <2>5, <2>6, <2>7
<1>5. ASSUME NEW s \in Scans, Capture(s)
      PROVE  prov' \in [Payments -> ProviderRecord] /\ \A p \in Payments : RecordStep(p)
  <2> DEFINE p == scan[s].p
  <2>1. PICK charge \in {"taken", "mismatched", "pending", "declined"} :
          prov' = IF prov[p].charge = "created" THEN Charged(p, charge) ELSE prov
    BY <1>5 DEF Capture
  <2>2. p \in Payments
    BY <1>5 DEF IndInv, ScanInv, ScanType, ScanState, CopiesOK, Capture
  <2> QED
    BY <1>2, <1>4, <2>1, <2>2
<1>6. ASSUME NEW s \in Scans, CaptureUnanswered(s)
      PROVE  prov' \in [Payments -> ProviderRecord] /\ \A p \in Payments : RecordStep(p)
  <2> DEFINE p == scan[s].p
  <2>1. prov' = prov \/ (prov[p].charge = "created" /\ prov' = Charged(p, "taken"))
    BY <1>6 DEF CaptureUnanswered
  <2>2. p \in Payments
    BY <1>6 DEF IndInv, ScanInv, ScanType, ScanState, CopiesOK, CaptureUnanswered
  <2> QED
    BY <1>2, <1>4, <2>1, <2>2
<1>7. ASSUME NEW p \in Payments, Process(p)
      PROVE  prov' \in [Payments -> ProviderRecord] /\ \A q \in Payments : RecordStep(q)
  <2>1. CASE prov' = prov
    BY <1>2, <2>1
  <2>2. CASE prov' # prov
    <3>1. PICK charge \in {"taken", "mismatched", "pending", "declined", "created"} :
            prov' = [prov EXCEPT ![p] =
                       [charge |-> charge, key |-> "kept",
                        taken |-> IF charge \in Money THEN @.taken + 1 ELSE @.taken]]
      BY <1>7, <2>2 DEF Process
    <3>2. net[p] = "sent" /\ ~KeyKnown(p) /\ ~InvoiceRefused(p)
      BY <1>7, <2>2 DEF Process
    <3>3. prov[p] \in ProviderRecord /\ RecordOK(prov[p])
      BY <1>1
    <3>4. prov[p].charge \notin Money
      <4>1. CASE Provider = "paypal"
        BY <3>2, <4>1 DEF InvoiceRefused
      <4>2. CASE Provider = "stripe"
        <5>1. prov[p].key = "unused"
          BY <3>2, <3>3, <4>2 DEF KeyKnown, IndInv, KeySent, ProviderRecord
        <5> QED
          BY <3>3, <5>1 DEF RecordOK, Money
      <4> QED
        BY <4>1, <4>2, ProviderAssumption
    <3> DEFINE r == [charge |-> charge, key |-> "kept",
                     taken |-> IF charge \in Money THEN prov[p].taken + 1 ELSE prov[p].taken]
    <3>5. r \in ProviderRecord /\ RecordOK(r) /\ r.key # "forgotten"
      BY <3>3, <3>4 DEF ProviderRecord, RecordOK, Money
    <3>6. prov' = [prov EXCEPT ![p] = r]
      BY <3>1
    <3> QED
      BY <1>3, <3>2, <3>5, <3>6
  <2> QED
    BY <2>1, <2>2
<1>8. ASSUME NEW p \in Payments, PendingSettles(p)
      PROVE  prov' \in [Payments -> ProviderRecord] /\ \A q \in Payments : RecordStep(q)
  BY <1>4, <1>8 DEF PendingSettles
<1>9. ASSUME NEW p \in Payments, Elapse(p)
      PROVE  prov' \in [Payments -> ProviderRecord] /\ \A q \in Payments : RecordStep(q)
  <2> DEFINE r == [prov[p] EXCEPT !.key = IF @ = "kept" THEN "aged" ELSE @]
  <2>1. prov[p] \in ProviderRecord /\ RecordOK(prov[p])
    BY <1>1
  <2>2. /\ r \in ProviderRecord /\ RecordOK(r)
        /\ r.key = prov[p].key \/ (prov[p].key = "kept" /\ r.key = "aged")
    BY <2>1 DEF ProviderRecord, RecordOK
  <2>3. prov' = [prov EXCEPT ![p] = r]
    BY <1>9 DEF Elapse
  <2> QED
    BY <1>3, <2>2, <2>3
<1>10. ASSUME NEW p \in Payments, Forget(p)
       PROVE  prov' \in [Payments -> ProviderRecord] /\ \A q \in Payments : RecordStep(q)
  <2> DEFINE r == [prov[p] EXCEPT !.key = "forgotten"]
  <2>1. prov[p] \in ProviderRecord /\ RecordOK(prov[p]) /\ prov[p].key = "aged"
    BY <1>1, <1>10 DEF Forget
  <2>2. r \in ProviderRecord /\ RecordOK(r)
    BY <2>1 DEF ProviderRecord, RecordOK
  <2>3. /\ prov' = [prov EXCEPT ![p] = r]
        /\ net'[p] = "idle" /\ scan' = scan /\ \A s \in Scans : ~InTheHandsOf(s, p)
    BY <1>10 DEF Forget
  <2> QED
    BY <1>3, <2>1, <2>2, <2>3
<1>11. ASSUME NEW s \in Scans, Send(s) \/ Answered(s) \/ Duplicate(s) \/ NoAnswer(s)
       PROVE  prov' = prov
  BY <1>11 DEF Send, Answered, Duplicate, NoAnswer
<1>12. ASSUME NEW p \in Payments, Lose(p)
       PROVE  prov' = prov
  BY <1>12 DEF Lose
<1> QED
  BY <1>2, <1>5, <1>6, <1>7, <1>8, <1>9, <1>10, <1>11, <1>12, QuietProvider
\* The wire: its type, and what a request may be sent for.  A request is only put on the
\* wire by Send, for the payment of a scan about to take it.
LEMMA NetStep ==
    ASSUME IndInv, Next
    PROVE  /\ NetType'
           /\ \A p \in Payments :
                 net'[p] # "idle" /\ net[p] = "idle" =>
                    \E s \in Scans : Send(s) /\ scan[s].pc = "take" /\ scan[s].p = p
           /\ \A p \in Payments :
                 net'[p] = "sent" /\ net[p] # "sent" =>
                    \E s \in Scans : Send(s) /\ scan[s].pc = "take" /\ scan[s].p = p
<1>1. NetType
  BY DEF IndInv, TypeOK, NetType
<1>2. ASSUME NEW s \in Scans, Send(s)
      PROVE  /\ scan[s].pc = "take" /\ scan[s].p \in Payments
             /\ net' = [net EXCEPT ![scan[s].p] = "sent"]
  BY <1>2 DEF IndInv, ScanInv, ScanType, ScanState, CopiesOK, Send
<1>3. CASE \E s \in Scans : Send(s)
  BY <1>1, <1>2, <1>3 DEF NetType
<1>4. ASSUME NEW s \in Scans, Answered(s) \/ Duplicate(s) \/ NoAnswer(s)
      PROVE  net' = [net EXCEPT ![scan[s].p] = "idle"] \/ net' = net
  BY <1>1, <1>4 DEF Answered, Duplicate, NoAnswer, NetType
<1>5. ASSUME NEW p \in Payments, Process(p) \/ Lose(p)
      PROVE  \/ net[p] = "sent" /\ net' = [net EXCEPT ![p] = "ok"]
             \/ net[p] = "sent" /\ net' = [net EXCEPT ![p] = "dup"]
             \/ net' = [net EXCEPT ![p] = "idle"]
  BY <1>5 DEF Process, Lose
<1>6. ASSUME ~ \E s \in Scans : Send(s) \/ Answered(s) \/ Duplicate(s) \/ NoAnswer(s),
             ~ \E p \in Payments : Process(p) \/ Lose(p)
      PROVE  net' = net
  <2>1. CASE \E s \in Scans : Capture(s) \/ CaptureUnanswered(s)
    BY <2>1 DEF Capture, CaptureUnanswered
  <2>2. CASE \E p \in Payments : PendingSettles(p) \/ Elapse(p) \/ Forget(p)
    BY <2>2 DEF PendingSettles, Elapse, Forget
  <2> QED
    BY <1>6, <2>1, <2>2, QuietProvider
<1>7. CASE net' = net
  BY <1>1, <1>7 DEF NetType
<1>8. ASSUME NEW p, net' = [net EXCEPT ![p] = "idle"]
      PROVE  NetType' /\ \A q \in Payments : net'[q] = net[q] \/ net'[q] = "idle"
  BY <1>1, <1>8 DEF NetType
<1>9. ASSUME NEW p \in Payments, NEW answer \in {"ok", "dup"}, net[p] = "sent",
             net' = [net EXCEPT ![p] = answer]
      PROVE  NetType' /\ \A q \in Payments : net'[q] = net[q] \/ (net[q] = "sent" /\ net'[q] # "sent")
  BY <1>1, <1>9 DEF NetType
<1> QED
  BY <1>3, <1>4, <1>5, <1>6, <1>7, <1>8, <1>9

\* What the provider never heard of stays unheard of.
LEMMA UnheardStep ==
    ASSUME IndInv, Next
    PROVE  Unheard'
<1> SUFFICES ASSUME NEW p \in Payments, pay'[p].status = "none"
             PROVE  net'[p] = "idle" /\ prov'[p].key = "unused"
  BY DEF Unheard
<1>1. pay[p].status = "none"
  BY PayStep DEF PayGrown
<1>2. net[p] = "idle" /\ prov[p].key = "unused"
  BY <1>1 DEF IndInv, Unheard
<1>3. net'[p] = "idle"
  BY <1>1, <1>2, NetStep DEF IndInv, ScanBorn, ScanInv, CopiesOK
<1>4. prov'[p].key = "unused"
  BY <1>2, RecordsStep DEF RecordStep
<1> QED
  BY <1>3, <1>4

\* A scan comes to the point of taking a payment only from writing it, or from asking
\* the provider about it and finding nothing.
LEMMA TakeFrom ==
    ASSUME IndInv, Next, NEW s \in Scans, scan'[s].pc = "take"
    PROVE  \/ scan[s].pc = "take" /\ scan'[s].p = scan[s].p
           \/ scan'[s].p \in Payments /\ pay[scan'[s].p].status = "none" /\ prov' = prov
           \/ ChargeAgain(s) /\ scan'[s].p = scan[s].p /\ prov' = prov
<1>1. scan \in [Scans -> ScanState]
  BY DEF IndInv, ScanInv, ScanType
<1>2. ASSUME NEW r \in Scans, NEW st, scan' = [scan EXCEPT ![r] = st], st.pc # "take"
      PROVE  scan[s].pc = "take" /\ scan'[s].p = scan[s].p
  BY <1>1, <1>2
<1>3. ASSUME NEW r \in Scans, Done(r) \/ scan' = [scan EXCEPT ![r] = Resting]
      PROVE  scan[s].pc = "take" /\ scan'[s].p = scan[s].p
  <2>1. Resting.pc # "take"
    BY DEF Resting
  <2>2. scan' = [scan EXCEPT ![r] = Resting]
    BY <1>3 DEF Done
  <2> QED
    BY <1>2, <2>1, <2>2
<1>4. ASSUME NEW r \in Scans, NEW pc, pc # "take", Goto(r, pc)
      PROVE  scan[s].pc = "take" /\ scan'[s].p = scan[s].p
  <2>1. scan' = [scan EXCEPT ![r] = [scan[r] EXCEPT !.pc = pc]]
    BY <1>4 DEF Goto
  <2>2. [scan[r] EXCEPT !.pc = pc].pc = pc
    BY <1>1 DEF ScanState
  <2> QED
    BY <1>2, <1>4, <2>1, <2>2
<1>5. ASSUME NEW r \in Scans,
             \/ Notice(r) \/ Abandon(r) \/ NoNotice(r) \/ NothingDue(r) \/ WaitInDoubt(r)
             \/ Skip(r) \/ GoOn(r) \/ InFlight(r) \/ GiveBack(r) \/ Unpriced(r) \/ Breaker(r)
             \/ NotSent(r) \/ Send(r) \/ Answered(r) \/ Duplicate(r) \/ NoAnswer(r) \/ Flag(r)
             \/ Capture(r) \/ CaptureUnanswered(r) \/ CaptureRefused(r) \/ AlreadyPaid(r)
             \/ Found(r) \/ ThrowAway(r) \/ SkipThrown(r) \/ TooOld(r)
             \/ LookupUnavailable(r) \/ LookupRefused(r) \/ RecordSuccess(r) \/ RollForward(r) \/ RecordFailure(r) \/ Decline(r)
             \/ Retry(r)
      PROVE  scan[s].pc = "take" /\ scan'[s].p = scan[s].p
  <2>1. Done(r) \/ \E pc : pc # "take" /\ Goto(r, pc)
    BY <1>5 DEF Notice, Abandon, NoNotice, NothingDue, WaitInDoubt, Skip, GoOn, InFlight,
                GiveBack, Unpriced, Breaker, NotSent, Send, Answered, Duplicate, NoAnswer, Flag,
                Capture, CaptureUnanswered, AlreadyPaid, Found, ThrowAway, SkipThrown, TooOld,
                LookupUnavailable, CaptureRefused, LookupRefused, RecordSuccess, RollForward,
                RecordFailure, Decline, Retry, Settle, Doubt, Close
  <2> QED
    BY <1>3, <1>4, <2>1
<1>6. ASSUME NEW r \in Scans, Crash(r)
      PROVE  scan[s].pc = "take" /\ scan'[s].p = scan[s].p
  BY <1>3, <1>6 DEF Crash
<1>7. ASSUME NEW r \in Scans, Start(r)
      PROVE  scan[s].pc = "take" /\ scan'[s].p = scan[s].p
  <2>1. [Resting EXCEPT !.pc = "notice", !.mstatus = mandate.status].pc = "notice"
    BY DEF Resting
  <2> QED
    BY <1>2, <1>7, <2>1 DEF Start
<1>8. ASSUME NEW r \in Scans, Read(r)
      PROVE  scan[s].pc = "take" /\ scan'[s].p = scan[s].p
  <2>1. PICK a \in Scheduled :
          scan' = [scan EXCEPT ![r] =
                    [pc |-> "charge", a |-> a, p |-> att[a].payment,
                     in_doubt |-> att[a].in_doubt, mstatus |-> mandate.status,
                     mfailures |-> mandate.failures, fresh |-> FALSE]]
    BY <1>8 DEF Read
  <2> QED
    BY <1>2, <2>1
<1>9. ASSUME NEW r \in Scans, LetGo(r) \/ Claim(r) \/ Proceed(r)
      PROVE  scan[s].pc = "take" /\ scan'[s].p = scan[s].p
  <2>1. \E st : scan' = [scan EXCEPT ![r] = st] /\ st.pc # "take"
    BY <1>1, <1>9 DEF LetGo, Claim, Proceed, ScanState
  <2> QED
    BY <1>2, <2>1
<1>10. ASSUME NEW r \in Scans, Create(r)
       PROVE  \/ scan[s].pc = "take" /\ scan'[s].p = scan[s].p
              \/ scan'[s].p \in Payments /\ pay[scan'[s].p].status = "none" /\ prov' = prov
  <2>1. PICK p \in Payments :
          /\ pay[p].status = "none"
          /\ scan' = [scan EXCEPT ![r].pc = "take", ![r].p = p, ![r].fresh = TRUE]
    BY <1>10 DEF Create
  <2>2. scan'[s].p = IF s = r THEN p ELSE scan[s].p
    BY <1>1, <2>1 DEF ScanState
  <2>3. s # r => scan'[s] = scan[s]
    BY <1>1, <2>1
  <2>4. prov' = prov
    BY <1>10 DEF Create, provider
  <2> QED
    BY <2>1, <2>2, <2>3, <2>4
<1>11. ASSUME NEW r \in Scans, ChargeAgain(r)
       PROVE  \/ scan[s].pc = "take" /\ scan'[s].p = scan[s].p
              \/ ChargeAgain(s) /\ scan'[s].p = scan[s].p /\ prov' = prov
  <2>1. scan' = [scan EXCEPT ![r].pc = "take", ![r].fresh = FALSE] /\ prov' = prov
    BY <1>11 DEF ChargeAgain, provider
  <2>2. scan'[s].p = scan[s].p /\ (s # r => scan'[s] = scan[s])
    BY <1>1, <2>1 DEF ScanState
  <2> QED
    BY <1>11, <2>1, <2>2
<1>12. ASSUME \/ \E p \in Payments : ProviderStep(p)
              \/ \E a \in Attempts : TreasurerStep(a) \/ ClaimGoesStale(a)
              \/ MemberStep
       PROVE  scan' = scan
  BY <1>12 DEF ProviderStep, TreasurerStep, MemberStep, Process, Lose, PendingSettles, Elapse,
               Forget, Webhook, SettlePaid, SettleReleased, SettleFailed, ClaimGoesStale,
               CancelMandate, BeginMandate, SaveMethod, RenewByHand
<1> QED
  BY <1>5, <1>6, <1>7, <1>8, <1>9, <1>10, <1>11, <1>12 DEF Next, ScanStep, AfterClaim

\* Stripe is never asked under a key it has forgotten.
LEMMA KeyStep ==
    ASSUME IndInv, Next, Provider = "stripe"
    PROVE  /\ \A p \in Payments : net'[p] = "sent" => prov'[p].key # "forgotten"
           /\ \A s \in Scans : scan'[s].pc = "take" => prov'[scan'[s].p].key # "forgotten"
<1>1. ASSUME NEW p \in Payments, net'[p] = "sent"
      PROVE  prov'[p].key # "forgotten"
  <2>1. prov[p].key # "forgotten"
    BY <1>1, NetStep DEF IndInv, KeySent, KeyTake
  <2> QED
    BY <1>1, <2>1, RecordsStep DEF RecordStep
<1>2. ASSUME NEW s \in Scans, scan'[s].pc = "take"
      PROVE  prov'[scan'[s].p].key # "forgotten"
  <2>1. CASE scan[s].pc = "take" /\ scan'[s].p = scan[s].p
    <3>1. scan[s].p \in Payments
      BY <2>1 DEF IndInv, ScanInv, ScanType, ScanState, CopiesOK
    <3>2. prov[scan[s].p].key # "forgotten"
      BY <2>1 DEF IndInv, KeyTake
    <3> QED
      BY <2>1, <3>1, <3>2, RecordsStep DEF RecordStep, InTheHandsOf
  <2>2. CASE scan'[s].p \in Payments /\ pay[scan'[s].p].status = "none" /\ prov' = prov
    BY <2>2 DEF IndInv, Unheard
  <2>3. CASE ChargeAgain(s) /\ scan'[s].p = scan[s].p /\ prov' = prov
    <3>1. scan[s].p \in Payments
      BY <2>3 DEF IndInv, ScanInv, ScanType, ScanState, CopiesOK, ChargeAgain
    <3>2. prov[scan[s].p].charge = "none"
      BY <2>3 DEF ChargeAgain, FindsNothing, CanLookUp
    <3> QED
      BY <2>3, <3>1, <3>2 DEF IndInv, MoneyInv
  <2> QED
    BY <1>2, <2>1, <2>2, <2>3, TakeFrom
<1> QED
  BY <1>1, <1>2
-----------------------------------------------------------------------------
(* The mandate, the lock and the counters. *)

\* The mandate row keeps its type, and an active one has a rung left.
LEMMA MandateStep ==
    ASSUME IndInv, Next
    PROVE  MandateType' /\ ActiveHasRetries'
<1>1. MandateType /\ ActiveHasRetries
  BY DEF IndInv, TypeOK, MandateType
<1>2. ASSUME NEW s \in Scans, Decline(s)
      PROVE  MandateType' /\ ActiveHasRetries'
  <2>1. scan[s] \in ScanState /\ CopiesOK(scan[s])
    BY DEF IndInv, ScanInv, ScanType
  <2> DEFINE failures == scan[s].mfailures + 1
  <2>2. CASE mandate' = mandate
    BY <1>1, <2>2 DEF MandateType, ActiveHasRetries
  <2>3. CASE /\ scan[s].mstatus = "active"
             /\ mandate' = [status |-> IF failures > Retries THEN "paused" ELSE "active",
                            failures |-> failures]
    <3>1. failures \in 0..(Retries + 1)
      BY <2>1, <2>3, BoundAssumption DEF ScanState, CopiesOK
    <3>2. mandate' \in [status: MandateStatus, failures: 0..(Retries + 1)]
      <4> HIDE DEF failures
      <4> QED
        BY <2>3, <3>1 DEF MandateStatus
    <3>3. mandate'.status = "active" => ~(failures > Retries)
      BY <2>3
    <3>4. mandate'.failures = failures
      BY <2>3
    <3>5. ActiveHasRetries'
      BY <3>1, <3>3, <3>4, BoundAssumption DEF ActiveHasRetries
    <3> QED
      BY <3>2, <3>5 DEF MandateType
  <2> QED
    BY <1>2, <2>2, <2>3 DEF Decline
<1>3. ASSUME \/ \E s \in Scans : Abandon(s) \/ RollForward(s)
             \/ \E a \in Attempts : SettlePaid(a) \/ SettleFailed(a)
             \/ CancelMandate \/ BeginMandate \/ SaveMethod
             \/ \E s \in Scans : Answered(s) \/ Capture(s) \/ Found(s)
             \/ \E p \in Payments : Webhook(p)
      PROVE  \/ mandate' = [mandate EXCEPT !.status = "paused"]
             \/ mandate' = [mandate EXCEPT !.status = "canceled"]
             \/ mandate' = [mandate EXCEPT !.failures = 0]
             \/ mandate' = [status |-> "pending", failures |-> 0]
             \/ mandate' = [status |-> "active", failures |-> 0]
             \/ mandate' = mandate
  <2>1. CASE \/ \E s \in Scans : Abandon(s) \/ RollForward(s)
             \/ \E a \in Attempts : SettleFailed(a)
             \/ CancelMandate \/ BeginMandate \/ SaveMethod
    BY <1>1, <2>1 DEF Abandon, RollForward, SettleFailed, CancelMandate, BeginMandate,
                      SaveMethod, MandateType
  <2>2. CASE \E a \in Attempts : SettlePaid(a)
    <3>1. PICK a \in Attempts : SettlePaid(a)
      BY <2>2
    <3>2. PICK m \in ActivatedBy(att[a].payment) : mandate' = [m EXCEPT !.failures = 0]
      BY <3>1 DEF SettlePaid
    <3>3. m = mandate \/ m = [status |-> "active", failures |-> 0]
      BY DEF ActivatedBy
    <3> QED
      BY <3>2, <3>3
  <2>3. CASE \E s \in Scans : Answered(s) \/ Capture(s) \/ Found(s)
    BY <2>3 DEF Answered, Capture, Found, Settle, ActivatedBy
  <2>4. CASE \E p \in Payments : Webhook(p)
    BY <2>4 DEF Webhook, ActivatedBy
  <2> QED
    BY <1>3, <2>1, <2>2, <2>3, <2>4
<1>4. ASSUME \/ mandate' = [mandate EXCEPT !.status = "paused"]
             \/ mandate' = [mandate EXCEPT !.status = "canceled"]
             \/ mandate' = [mandate EXCEPT !.failures = 0]
             \/ mandate' = [status |-> "pending", failures |-> 0]
             \/ mandate' = [status |-> "active", failures |-> 0]
             \/ mandate' = mandate
      PROVE  MandateType' /\ ActiveHasRetries'
  BY <1>1, <1>4, BoundAssumption DEF MandateType, ActiveHasRetries, MandateStatus
<1>5. ASSUME ~ \E s \in Scans : Decline(s) \/ Abandon(s) \/ RollForward(s),
             ~ \E a \in Attempts : SettlePaid(a) \/ SettleFailed(a),
             ~(CancelMandate \/ BeginMandate \/ SaveMethod),
             ~ \E s \in Scans : Answered(s) \/ Capture(s) \/ Found(s),
             ~ \E p \in Payments : Webhook(p)
      PROVE  mandate' = mandate
  <2>1. ASSUME NEW s \in Scans,
               \/ Start(s) \/ Notice(s) \/ NoNotice(s) \/ Read(s) \/ NothingDue(s)
               \/ WaitInDoubt(s) \/ LetGo(s) \/ Skip(s) \/ GoOn(s) \/ Claim(s) \/ InFlight(s)
               \/ GiveBack(s) \/ Proceed(s)
        PROVE  mandate' = mandate
    BY <2>1 DEF Start, Notice, NoNotice, Read, NothingDue, WaitInDoubt, LetGo, Skip, GoOn,
            Claim, InFlight, GiveBack, Proceed, rows
  <2>2. ASSUME NEW s \in Scans,
               \/ Create(s) \/ Unpriced(s) \/ Breaker(s) \/ NotSent(s) \/ Send(s)
               \/ Duplicate(s) \/ NoAnswer(s) \/ Flag(s) \/ CaptureUnanswered(s)
               \/ CaptureRefused(s) \/ AlreadyPaid(s) \/ ChargeAgain(s)
        PROVE  mandate' = mandate
    BY <2>2 DEF Create, Unpriced, Breaker, NotSent, Send, Duplicate, NoAnswer, Flag,
            CaptureUnanswered, CaptureRefused, AlreadyPaid, ChargeAgain, rows
  <2>3. ASSUME NEW s \in Scans,
               \/ ThrowAway(s) \/ SkipThrown(s) \/ TooOld(s) \/ LookupUnavailable(s)
               \/ LookupRefused(s) \/ RecordSuccess(s) \/ RecordFailure(s) \/ Retry(s)
               \/ Crash(s)
        PROVE  mandate' = mandate
    BY <2>3 DEF ThrowAway, SkipThrown, TooOld, LookupUnavailable, LookupRefused, RecordSuccess,
            RecordFailure, Retry, Crash, rows
  <2>4. ASSUME \/ \E p \in Payments :
                     Process(p) \/ Lose(p) \/ PendingSettles(p) \/ Elapse(p) \/ Forget(p)
               \/ \E a \in Attempts : SettleReleased(a) \/ ClaimGoesStale(a)
               \/ RenewByHand
        PROVE  mandate' = mandate
    BY <2>4 DEF Process, Lose, PendingSettles, Elapse, Forget, rows,
                SettleReleased, ClaimGoesStale, RenewByHand
  <2> QED
    BY <1>5, <2>1, <2>2, <2>3, <2>4
       DEF Next, ScanStep, AfterClaim, ProviderStep, TreasurerStep, MemberStep
<1> QED
  BY <1>2, <1>3, <1>4, <1>5

\* The lock, the coverage counter and the crash counter keep their types.
LEMMA RestStep ==
    ASSUME IndInv, Next
    PROVE  /\ lock' \in Scans \cup {None}
           /\ covered' \in Nat
           /\ crashes' \in 0..MaxCrashes
<1>1. lock \in Scans \cup {None} /\ covered \in Nat /\ crashes \in 0..MaxCrashes
  BY DEF IndInv, TypeOK
<1> DEFINE Rest == /\ covered' = covered \/ covered' = covered + 1
                   /\ lock' \in Scans \cup {None}
                   /\ crashes' = crashes \/ (crashes < MaxCrashes /\ crashes' = crashes + 1)
<1>2. ASSUME NEW s \in Scans,
             \/ Start(s) \/ Notice(s) \/ NoNotice(s) \/ Read(s) \/ NothingDue(s)
             \/ WaitInDoubt(s) \/ LetGo(s) \/ Skip(s) \/ GoOn(s) \/ Claim(s) \/ InFlight(s)
             \/ GiveBack(s) \/ Proceed(s) \/ Abandon(s)
      PROVE  Rest
  BY <1>1, <1>2 DEF Start, Notice, NoNotice, Read, NothingDue, WaitInDoubt, LetGo, Skip, GoOn,
          Claim, InFlight, GiveBack, Proceed, Abandon, rows, Done, Goto
<1>3. ASSUME NEW s \in Scans,
             \/ Create(s) \/ Unpriced(s) \/ Breaker(s) \/ NotSent(s) \/ Send(s)
             \/ Duplicate(s) \/ NoAnswer(s) \/ Flag(s) \/ CaptureUnanswered(s)
             \/ CaptureRefused(s) \/ AlreadyPaid(s) \/ ChargeAgain(s)
      PROVE  Rest
  BY <1>1, <1>3 DEF Create, Unpriced, Breaker, NotSent, Send, Duplicate, NoAnswer, Flag,
          CaptureUnanswered, CaptureRefused, AlreadyPaid, ChargeAgain, rows, Done, Goto, Doubt
<1>4. ASSUME NEW s \in Scans,
             \/ ThrowAway(s) \/ SkipThrown(s) \/ TooOld(s) \/ LookupUnavailable(s)
             \/ LookupRefused(s) \/ RecordSuccess(s) \/ RecordFailure(s) \/ Retry(s)
             \/ RollForward(s) \/ Decline(s)
      PROVE  Rest
  BY <1>1, <1>4 DEF ThrowAway, SkipThrown, TooOld, LookupUnavailable, LookupRefused,
          RecordSuccess, RecordFailure, Retry, RollForward, Decline, rows, Done, Goto, Doubt, Close
<1>5. ASSUME NEW s \in Scans,
             \/ Answered(s) \/ Capture(s) \/ Found(s)
      PROVE  Rest
  BY <1>1, <1>5 DEF Answered, Capture, Found, rows, Done, Goto, Settle, Doubt, Succeeds
<1>6. ASSUME NEW s \in Scans, Crash(s)
      PROVE  Rest
  BY <1>1, <1>6 DEF Crash
<1>7. ASSUME NEW p \in Payments, ProviderStep(p)
      PROVE  Rest
  BY <1>1, <1>7 DEF ProviderStep, Process, Lose, PendingSettles, Elapse, Forget, Webhook,
                    Succeeds, rows
<1>8. ASSUME \/ \E a \in Attempts : TreasurerStep(a) \/ ClaimGoesStale(a)
             \/ MemberStep
      PROVE  Rest
  BY <1>1, <1>8 DEF TreasurerStep, MemberStep, SettlePaid, SettleReleased, SettleFailed,
                    ClaimGoesStale, CancelMandate, BeginMandate, SaveMethod, RenewByHand, Succeeds
<1>9. Rest
  BY <1>2, <1>3, <1>4, <1>5, <1>6, <1>7, <1>8 DEF Next, ScanStep, AfterClaim
<1>10. covered' \in Nat
  BY <1>1, <1>9
<1>11. crashes' \in 0..MaxCrashes
  BY <1>1, <1>9, BoundAssumption
<1> QED
  BY <1>9, <1>10, <1>11

-----------------------------------------------------------------------------
(* The theorems. *)

\* The state a freshly activated mandate starts in satisfies the inductive invariant.
LEMMA InitInv == Init => IndInv
<1> SUFFICES ASSUME Init PROVE IndInv
  OBVIOUS
<1>1. Unwritten \in AttemptRow /\ Unwritten.payment = None
  BY DEF Unwritten, AttemptRow, Outcome
<1>2. Resting \in ScanState /\ CopiesOK(Resting) /\ Resting.p = None /\ Resting.pc = "idle"
  BY BoundAssumption DEF Resting, ScanState, PC, MandateStatus, CopiesOK
<1>3. att = [a \in Attempts |-> Unwritten] /\ scan = [s \in Scans |-> Resting]
  BY DEF Init
<1>4. att \in [Attempts -> AttemptRow] /\ AttBorn
  BY <1>1, <1>3 DEF AttBorn
<1>5. ScanInv /\ ScanBorn
  BY <1>2, <1>3 DEF ScanInv, ScanType, ScanBorn
<1>6. pay \in [Payments -> PaymentRow]
  BY DEF Init, PaymentRow, PaymentStatus
<1>7. prov \in [Payments -> ProviderRecord] /\ MoneyInv
  BY DEF Init, ProviderRecord, MoneyInv, Money
<1>8. /\ net \in [Payments -> {"idle", "sent", "ok", "dup"}]
      /\ covered \in Nat /\ lock \in Scans \cup {None} /\ crashes \in 0..MaxCrashes
  BY BoundAssumption DEF Init
<1>9. Unheard /\ KeySent /\ KeyTake
  BY <1>2, <1>3 DEF Init, Unheard, KeySent, KeyTake
<1>10. /\ mandate \in [status: MandateStatus, failures: 0..(Retries + 1)]
       /\ ActiveHasRetries
  BY BoundAssumption DEF Init, MandateStatus, ActiveHasRetries
<1>11. TypeOK
  BY <1>4, <1>5, <1>6, <1>7, <1>8, <1>10 DEF TypeOK, ScanInv, ScanType
<1> QED
  BY <1>4, <1>5, <1>7, <1>9, <1>10, <1>11 DEF IndInv

\* Every step of a scan, of the provider, of a treasurer or of the member keeps it.
LEMMA StepInv == IndInv /\ [Next]_vars => IndInv'
<1>1. CASE UNCHANGED vars
  BY <1>1 DEF vars, IndInv, TypeOK, ActiveHasRetries, ScanInv, ScanType, AttBorn, ScanBorn,
              Unheard, MoneyInv, KeySent, KeyTake
<1>2. ASSUME IndInv, Next
      PROVE  IndInv'
  <2>1. ScanInv'
    BY <1>2, ScanStepInv
  <2>2. att' \in [Attempts -> AttemptRow] /\ AttBorn'
    BY <1>2, AttStep DEF AttGood, AttBorn
  <2>3. pay' \in [Payments -> PaymentRow]
    BY <1>2, PayStep DEF PayGrown
  <2>4. ScanBorn' /\ Unheard'
    BY <1>2, ScanBornStep, UnheardStep
  <2>5. prov' \in [Payments -> ProviderRecord] /\ MoneyInv'
    BY <1>2, RecordsStep DEF RecordStep, RecordOK, MoneyInv
  <2>6. KeySent' /\ KeyTake'
    BY <1>2, KeyStep DEF KeySent, KeyTake
  <2>7. MandateType' /\ ActiveHasRetries'
    BY <1>2, MandateStep
  <2>8. NetType'
    BY <1>2, NetStep
  <2>9. /\ lock' \in Scans \cup {None} /\ covered' \in Nat
        /\ crashes' \in 0..MaxCrashes
    BY <1>2, RestStep
  <2>10. TypeOK'
    BY <2>1, <2>2, <2>3, <2>5, <2>7, <2>8, <2>9
    DEF TypeOK, ScanInv, ScanType, MandateType, NetType
  <2> QED
    BY <2>1, <2>2, <2>4, <2>5, <2>6, <2>7, <2>10 DEF IndInv
<1> QED
  BY <1>1, <1>2

\* The inductive invariant holds throughout every behaviour.
THEOREM Invariance == Spec => []IndInv
BY InitInv, StepInv, PTL DEF Spec

\* Every row, every scan's memory and everything the provider holds keeps its type,
\* whatever crashes, losses and late answers happen.
THEOREM TypeCorrect == Spec => []TypeOK
<1>1. IndInv => TypeOK
  BY DEF IndInv
<1> QED
  BY <1>1, Invariance, PTL

\* An active mandate always has a rung of the retry ladder left, for any number of
\* attempts and any length of RETRY_OFFSETS (_record_failure).
THEOREM LadderNeverOverspent == Spec => []ActiveHasRetries
<1>1. IndInv => ActiveHasRetries
  BY DEF IndInv
<1> QED
  BY <1>1, Invariance, PTL

\* No payment is taken twice, for any number of scans, payments, crashes and repeated
\* requests, with either provider (charge_mandate, find_mandate_charge, _resume).
THEOREM NeverChargedTwice == Spec => []ChargedOnce
<1>1. IndInv => ChargedOnce
  BY DEF IndInv, MoneyInv, ChargedOnce
<1> QED
  BY <1>1, Invariance, PTL

-----------------------------------------------------------------------------
(* What the recorded outcomes rest on. *)

\* Stripe, whose requests are answered or given up before the next scan starts.
Reliable == Provider = "stripe" /\ ~LateRequests

\* The advisory lock: a scan at work is the one that holds it.
Alone == \A s \in Scans : scan[s].pc # "idle" => lock = s

\* An attempt not written yet is blank; one in doubt carries the payment in doubt; a
\* succeeded one carries a paid one.  Where the provider is reliable nothing is in doubt,
\* and a failed attempt's charge was declined.
AttFine(a) ==
    /\ att[a].outcome = "none" => att[a] = Unwritten
    /\ att[a].in_doubt => att[a].payment # None
    /\ att[a].outcome = "succeeded" =>
          att[a].payment # None /\ pay[att[a].payment].status = "succeeded"
    /\ Reliable => ~att[a].in_doubt
    /\ Reliable /\ att[a].outcome = "failed" =>
          att[a].payment # None /\ prov[att[a].payment].charge = "declined"

\* A payment is marked paid only on money the provider took.  Where the provider is
\* reliable, one is thrown away only while it holds nothing and nothing is on its way.
PayFine(p) ==
    /\ pay[p].status = "succeeded" => prov[p].charge = "taken"
    /\ Reliable => net[p] # "dup"
    /\ Reliable /\ pay[p].status = "deleted" => net[p] # "sent" /\ prov[p].charge = "none"

\* An attempt carries its own live payment, and a live payment is carried by its attempt:
\* a second one is written only once the first was thrown away.
Live(p) == pay[p].status \notin {"none", "deleted"}
Own ==
    \A a \in Attempts, p \in Payments : att[a].payment = p <=> pay[p].owner = a /\ Live(p)

\* What a scan knows of its attempt.  Until it claims the attempt, a treasurer may close
\* it; from then on only a cancellation may, and only while it carries no payment.
Reading(s) ==
    LET st == scan[s]  row == att[st.a] IN
    /\ row.outcome # "none" /\ row.payment = st.p
    /\ st.in_doubt => st.p # None
    /\ ~st.in_doubt => ~row.in_doubt
    /\ st.pc = "charge" /\ ~st.in_doubt => row.outcome \in {"scheduled", "skipped"}
    /\ st.pc = "claim" => ~st.in_doubt

Holding(s) ==
    LET st == scan[s]  row == att[st.a] IN
    /\ row.claim = s /\ row.outcome \in {"scheduled", "skipped"}
    /\ ~st.in_doubt /\ ~row.in_doubt
    /\ row.payment = IF st.pc = "thrown" THEN None ELSE st.p
    /\ st.pc = "create" => st.p = None
    /\ st.pc \in {"success", "failure"} => st.p # None
    /\ st.pc = "success" => pay[st.p].status = "succeeded"
    /\ st.pc = "failure" /\ Reliable => prov[st.p].charge = "declined"
    /\ st.pc = "take" /\ st.fresh => net[st.p] = "idle" /\ prov[st.p].charge = "none"

Claimed == {"claimed", "create", "find", "take", "wait", "capture", "thrown", "success",
            "failure"}

Grasp(s) ==
    /\ scan[s].pc \in {"charge", "claim"} => Reading(s)
    /\ scan[s].pc \in Claimed => Holding(s)
    /\ scan[s].pc = "flag" => att[scan[s].a].outcome # "none"
    /\ scan[s].pc = "decline" => scan[s].p # None /\ att[scan[s].a].payment = scan[s].p

\* A scan that has not sent its own request finds none on the wire.
BeforeSending == {"notice", "read", "charge", "claim", "claimed", "create", "find", "take",
                  "thrown"}
Quiet(s) == Reliable /\ scan[s].pc \in BeforeSending => \A p \in Payments : net[p] # "sent"

OutcomeInv ==
    /\ Alone
    /\ \A a \in Attempts : AttFine(a)
    /\ \A p \in Payments : PayFine(p)
    /\ Own
    /\ \A s \in Scans : Grasp(s) /\ Quiet(s)

\* What a step may do to an attempt (the body of ClosedStaysClosed).
Kept(a) ==
    /\ att[a].outcome \in {"succeeded", "failed", "skipped"} =>
           att'[a].outcome = att[a].outcome
    /\ att[a].in_doubt /\ ~att'[a].in_doubt =>
           \/ att'[a].outcome # "scheduled"
           \/ pay'[att[a].payment].status = "succeeded"
           \/ pay'[att[a].payment].sent = "no"

\* What the steps of one scan, of the provider and of people are shown to do.
Sound == OutcomeInv' /\ \A a \in Attempts : Kept(a)

-----------------------------------------------------------------------------
(* Steps of the scan that holds the lock: what it leaves alone. *)

\* While one scan is at work the others rest, and its own moves are all that matter.
LEMMA OneAtWork ==
    ASSUME OutcomeInv, NEW s \in Scans, scan[s].pc # "idle" \/ lock = None,
           \A r \in Scans \ {s} : scan'[r] = scan[r],
           lock' = s \/ scan'[s].pc = "idle",
           Grasp(s)', Quiet(s)'
    PROVE  Alone' /\ \A r \in Scans : Grasp(r)' /\ Quiet(r)'
<1>1. \A r \in Scans \ {s} : scan[r].pc = "idle"
  BY ClaimAssumption DEF OutcomeInv, Alone
<1>2. \A r \in Scans \ {s} : scan'[r].pc = "idle"
  BY <1>1
<1>3. \A r \in Scans \ {s} : Grasp(r)' /\ Quiet(r)'
  BY <1>2 DEF Grasp, Quiet, Claimed, BeforeSending
<1>4. Alone'
  BY <1>2 DEF Alone
<1> QED
  BY <1>3, <1>4

\* A step that only touches one attempt, and not which payment it carries.
LEMMA AttemptOnly ==
    ASSUME OutcomeInv, NEW a \in Attempts,
           \A b \in Attempts \ {a} : att'[b] = att[b],
           pay' = pay, prov' = prov, net' = net,
           att'[a].payment = att[a].payment, AttFine(a)', Kept(a)
    PROVE  /\ \A b \in Attempts : AttFine(b)'
           /\ \A p \in Payments : PayFine(p)'
           /\ Own'
           /\ \A b \in Attempts : Kept(b)
<1>1. \A b \in Attempts : AttFine(b)'
  BY DEF OutcomeInv, AttFine
<1>2. \A p \in Payments : PayFine(p)'
  BY DEF OutcomeInv, PayFine
<1>3. Own'
  BY DEF OutcomeInv, Own, Live
<1>4. \A b \in Attempts : Kept(b)
  BY DEF Kept
<1> QED
  BY <1>1, <1>2, <1>3, <1>4

\* A step that touches no attempt, payment or charge.
LEMMA RowsAlone ==
    ASSUME OutcomeInv, att' = att, pay' = pay, prov' = prov, net' = net
    PROVE  /\ \A b \in Attempts : AttFine(b)'
           /\ \A p \in Payments : PayFine(p)'
           /\ Own'
           /\ \A b \in Attempts : Kept(b)
<1>1. \A b \in Attempts : AttFine(b)'
  BY DEF OutcomeInv, AttFine
<1>2. \A p \in Payments : PayFine(p)'
  BY DEF OutcomeInv, PayFine
<1>3. Own'
  BY DEF OutcomeInv, Own, Live
<1>4. \A b \in Attempts : Kept(b)
  BY DEF Kept
<1> QED
  BY <1>1, <1>2, <1>3, <1>4

\* A step on one attempt and its payment: whoever else carries a payment keeps it as it was.
LEMMA AttemptAndPayment ==
    ASSUME IndInv, OutcomeInv, NEW a \in Attempts, NEW p \in Payments,
           \A b \in Attempts \ {a} : att'[b] = att[b],
           \A q \in Payments \ {p} : pay'[q] = pay[q] /\ prov'[q] = prov[q] /\ net'[q] = net[q],
           att[a].payment \in {None, p}, att'[a].payment \in {None, p},
           pay[p].owner = a \/ pay[p].status = "none", pay'[p].owner = a,
           att'[a].payment = p <=> Live(p)',
           AttFine(a)', PayFine(p)', Kept(a)
    PROVE  /\ \A b \in Attempts : AttFine(b)'
           /\ \A q \in Payments : PayFine(q)'
           /\ Own'
           /\ \A b \in Attempts : Kept(b)
<1>1. None \notin Payments
  BY BoundAssumption DEF Payments
<1>2. \A b \in Attempts \ {a} : att[b].payment # p
  BY DEF OutcomeInv, Own, Live
<1>3. ASSUME NEW b \in Attempts \ {a}
      PROVE  AttFine(b)'
  <2>1. att'[b] = att[b] /\ att[b].payment \in (Payments \ {p}) \cup {None}
    BY <1>2, <1>3 DEF IndInv, TypeOK, AttemptRow
  <2> QED
    BY <1>3, <2>1 DEF OutcomeInv, AttFine
<1>4. \A q \in Payments : PayFine(q)'
  BY DEF OutcomeInv, PayFine
<1>5. ASSUME NEW b \in Attempts, NEW q \in Payments
      PROVE  att'[b].payment = q <=> pay'[q].owner = b /\ Live(q)'
  <2>1. CASE q # p /\ b = a
    BY <1>1, <2>1 DEF OutcomeInv, Own, Live
  <2>2. CASE q # p /\ b # a
    BY <2>2 DEF OutcomeInv, Own, Live
  <2>3. CASE q = p /\ b # a
    BY <1>2, <2>3
  <2> QED
    BY <2>1, <2>2, <2>3
<1>6. \A b \in Attempts : Kept(b)
  BY DEF Kept
<1> QED
  BY <1>3, <1>4, <1>5, <1>6 DEF Own


\* A scan past the due list works on an attempt, and holds the lock.
LEMMA AtWork ==
    ASSUME IndInv, OutcomeInv, NEW s \in Scans, scan[s].pc # "idle"
    PROVE  /\ lock = s /\ scan[s] \in ScanState
           /\ scan[s].pc \notin {"notice", "read"} => scan[s].a \in Attempts
           /\ scan[s].pc \in {"find", "take", "wait", "capture"} => scan[s].p \in Payments
BY DEF IndInv, OutcomeInv, Alone, ScanInv, ScanType, ScanState, CopiesOK

\* A scan that moves on keeps its copies.
LEMMA Moved ==
    ASSUME IndInv, NEW s \in Scans, NEW pc, Goto(s, pc)
    PROVE  /\ scan'[s].pc = pc /\ scan'[s].a = scan[s].a /\ scan'[s].p = scan[s].p
           /\ scan'[s].in_doubt = scan[s].in_doubt /\ scan'[s].fresh = scan[s].fresh
           /\ \A r \in Scans \ {s} : scan'[r] = scan[r]
           /\ lock' = lock
<1>1. scan \in [Scans -> ScanState] /\ scan' = [scan EXCEPT ![s].pc = pc] /\ lock' = lock
  BY DEF IndInv, ScanInv, ScanType, Goto
<1>2. scan[s] \in ScanState /\ scan'[s] = [scan[s] EXCEPT !.pc = pc]
  BY <1>1
<1>3. \A r \in Scans \ {s} : scan'[r] = scan[r]
  BY <1>1
<1> QED
  BY <1>1, <1>2, <1>3 DEF ScanState

\* A scan that is done rests, as all the others do.
LEMMA Rested ==
    ASSUME IndInv, OutcomeInv, NEW s \in Scans, scan[s].pc # "idle",
           scan' = [scan EXCEPT ![s] = Resting]
    PROVE  Alone' /\ \A r \in Scans : Grasp(r)' /\ Quiet(r)'
<1>1. scan \in [Scans -> ScanState]
  BY DEF IndInv, ScanInv, ScanType
<1>2. scan'[s].pc = "idle" /\ \A r \in Scans \ {s} : scan'[r] = scan[r]
  BY <1>1 DEF Resting
<1>3. Grasp(s)' /\ Quiet(s)'
  BY <1>2 DEF Grasp, Quiet, Claimed, BeforeSending
<1> QED
  BY <1>2, <1>3, OneAtWork

-----------------------------------------------------------------------------
(* Steps that change nothing but the scan's own memory, or the mandate. *)

\* A step of one scan that writes no row and asks nobody only has to account for what
\* that scan remembers afterwards.
LEMMA MemorySound ==
    ASSUME IndInv, OutcomeInv, NEW s \in Scans, scan[s].pc # "idle" \/ lock = None,
           att' = att, pay' = pay, prov' = prov, net' = net,
           \A r \in Scans \ {s} : scan'[r] = scan[r],
           lock' = s \/ scan'[s].pc = "idle",
           Grasp(s)', Quiet(s)'
    PROVE  Sound
<1>1. Alone' /\ \A r \in Scans : Grasp(r)' /\ Quiet(r)'
  BY OneAtWork
<1> QED
  BY <1>1, RowsAlone DEF Sound, OutcomeInv

\* A scan that starts takes the lock and remembers nothing.
LEMMA StartSound ==
    ASSUME IndInv, OutcomeInv, NEW s \in Scans, Start(s)
    PROVE  Sound
<1> DEFINE st == [Resting EXCEPT !.pc = "notice", !.mstatus = mandate.status]
<1>1. st.pc = "notice"
  BY DEF Resting
<1>2. scan \in [Scans -> ScanState] /\ scan' = [scan EXCEPT ![s] = st]
  BY DEF IndInv, ScanInv, ScanType, Start
<1> HIDE DEF st
<1>3. scan'[s].pc = "notice" /\ \A r \in Scans \ {s} : scan'[r] = scan[r]
  BY <1>1, <1>2
<1>4. /\ att' = att /\ pay' = pay /\ prov' = prov /\ net' = net
      /\ lock = None /\ lock' = s
      /\ LateRequests \/ \A p \in Payments : net[p] # "sent"
  BY DEF Start, rows, provider
<1>5. Grasp(s)'
  BY <1>3 DEF Grasp, Claimed
<1>6. Quiet(s)'
  BY <1>4 DEF Quiet, Reliable
<1> QED
  BY <1>3, <1>4, <1>5, <1>6, MemorySound

\* Reading a due attempt copies rows as they are.
LEMMA ReadSound ==
    ASSUME IndInv, OutcomeInv, NEW s \in Scans, Read(s)
    PROVE  Sound
<1>1. PICK a \in Scheduled :
         scan' = [scan EXCEPT ![s] =
                    [pc |-> "charge", a |-> a, p |-> att[a].payment,
                     in_doubt |-> att[a].in_doubt, mstatus |-> mandate.status,
                     mfailures |-> mandate.failures, fresh |-> FALSE]]
  BY DEF Read
<1>2. /\ att' = att /\ pay' = pay /\ prov' = prov /\ net' = net /\ lock' = lock
      /\ scan[s].pc = "read"
  BY DEF Read, rows, provider
<1>3. scan \in [Scans -> ScanState] /\ lock = s
  BY <1>2, AtWork DEF IndInv, ScanInv, ScanType
<1>4. /\ scan'[s].pc = "charge" /\ scan'[s].a = a /\ scan'[s].p = att[a].payment
      /\ scan'[s].in_doubt = att[a].in_doubt
      /\ \A r \in Scans \ {s} : scan'[r] = scan[r]
  BY <1>1, <1>3
<1>5. a \in Attempts /\ att[a].outcome = "scheduled" /\ AttFine(a)
  BY DEF Scheduled, OutcomeInv
<1>6. Reading(s)'
  BY <1>2, <1>4, <1>5 DEF Reading, AttFine
<1>7. Grasp(s)'
  BY <1>4, <1>6 DEF Grasp, Claimed
<1>8. Quiet(s)'
  BY <1>2 DEF OutcomeInv, Quiet, BeforeSending
<1> QED
  BY <1>2, <1>3, <1>4, <1>7, <1>8, MemorySound

\* Steps between two reads that change no attempt, payment or charge.
LEMMA MoveSound ==
    ASSUME IndInv, OutcomeInv, NEW s \in Scans,
           Abandon(s) \/ NoNotice(s) \/ GoOn(s) \/ AlreadyPaid(s)
    PROVE  Sound
<1>1. /\ att' = att /\ pay' = pay /\ prov' = prov /\ net' = net
      /\ scan[s].pc \in {"notice", "charge", "find"}
  BY DEF Abandon, NoNotice, GoOn, AlreadyPaid, rows, provider
<1>2. lock = s
  BY <1>1, AtWork
<1>3. CASE Abandon(s) \/ NoNotice(s)
  <2>1. Goto(s, "read") /\ scan[s].pc = "notice"
    BY <1>3 DEF Abandon, NoNotice
  <2>2. Grasp(s)'
    BY <2>1, Moved DEF Grasp, Claimed
  <2>3. Quiet(s)'
    BY <1>1, <2>1 DEF OutcomeInv, Quiet, BeforeSending
  <2> QED
    BY <1>1, <1>2, <2>1, <2>2, <2>3, Moved, MemorySound
<1>4. CASE GoOn(s)
  <2>1. Goto(s, "claim") /\ scan[s].pc = "charge" /\ ~scan[s].in_doubt
    BY <1>4 DEF GoOn
  <2>2. Reading(s)
    BY <2>1 DEF OutcomeInv, Grasp
  <2>3. Reading(s)'
    BY <1>1, <2>1, <2>2, Moved DEF Reading
  <2>4. Grasp(s)'
    BY <2>1, <2>3, Moved DEF Grasp, Claimed
  <2>5. Quiet(s)'
    BY <1>1, <2>1 DEF OutcomeInv, Quiet, BeforeSending
  <2> QED
    BY <1>1, <1>2, <2>1, <2>4, <2>5, Moved, MemorySound
<1>5. CASE AlreadyPaid(s)
  <2>1. Goto(s, "success") /\ scan[s].pc = "find" /\ pay[scan[s].p].status = "succeeded"
    BY <1>5 DEF AlreadyPaid
  <2>2. Holding(s) /\ scan[s].p \in Payments
    BY <2>1, AtWork DEF OutcomeInv, Grasp, Claimed
  <2>3. None \notin Payments
    BY BoundAssumption DEF Payments
  <2>4. Holding(s)'
    BY <1>1, <2>1, <2>2, <2>3, Moved DEF Holding
  <2>5. Grasp(s)' /\ Quiet(s)'
    BY <2>1, <2>4, Moved DEF Grasp, Quiet, BeforeSending
  <2> QED
    BY <1>1, <1>2, <2>1, <2>5, Moved, MemorySound
<1> QED
  BY <1>3, <1>4, <1>5

\* Going on with a payment that exists keeps what is known of it.
LEMMA ChargeAgainSound ==
    ASSUME IndInv, OutcomeInv, NEW s \in Scans, ChargeAgain(s)
    PROVE  Sound
<1>1. /\ att' = att /\ pay' = pay /\ prov' = prov /\ net' = net /\ lock' = lock
      /\ scan[s].pc = "find"
      /\ scan' = [scan EXCEPT ![s].pc = "take", ![s].fresh = FALSE]
  BY DEF ChargeAgain, rows, provider
<1>2. lock = s /\ scan[s] \in ScanState /\ scan \in [Scans -> ScanState]
  BY <1>1, AtWork DEF IndInv, ScanInv, ScanType
<1>3. /\ scan'[s].pc = "take" /\ scan'[s].a = scan[s].a /\ scan'[s].p = scan[s].p
      /\ scan'[s].in_doubt = scan[s].in_doubt /\ scan'[s].fresh = FALSE
      /\ \A r \in Scans \ {s} : scan'[r] = scan[r]
  BY <1>1, <1>2 DEF ScanState
<1>4. Holding(s)
  BY <1>1 DEF OutcomeInv, Grasp, Claimed
<1>5. Holding(s)'
  BY <1>1, <1>3, <1>4 DEF Holding
<1>6. Grasp(s)'
  BY <1>3, <1>5 DEF Grasp
<1>7. Quiet(s)'
  BY <1>1 DEF OutcomeInv, Quiet, BeforeSending
<1> QED
  BY <1>1, <1>2, <1>3, <1>6, <1>7, MemorySound

\* A refusal PayPal gives to the lookup or to the capture is taken for a decline.
LEMMA RefusalSound ==
    ASSUME IndInv, OutcomeInv, NEW s \in Scans,
           LookupRefused(s) \/ (CaptureRefused(s) /\ Goto(s, "failure") /\ att' = att)
    PROVE  Sound
<1>1. /\ att' = att /\ pay' = pay /\ prov' = prov /\ net' = net /\ Goto(s, "failure")
      /\ scan[s].pc \in {"find", "capture"} /\ ~Reliable
  BY ProviderAssumption DEF LookupRefused, CaptureRefused, rows, provider, Reliable
<1>2. lock = s /\ Holding(s) /\ scan[s].p \in Payments
  BY <1>1, AtWork DEF OutcomeInv, Grasp, Claimed
<1>3. scan[s].p # None
  BY <1>2, BoundAssumption DEF Payments
<1>4. Holding(s)'
  BY <1>1, <1>2, <1>3, Moved DEF Holding, Reliable
<1>5. Grasp(s)' /\ Quiet(s)'
  BY <1>1, <1>4, Moved DEF Grasp, Quiet, BeforeSending
<1> QED
  BY <1>1, <1>2, <1>5, Moved, MemorySound

\* Steps after which the scan holds no attempt.
LEMMA EndSound ==
    ASSUME IndInv, OutcomeInv, NEW s \in Scans,
           NothingDue(s) \/ InFlight(s) \/ RollForward(s)
    PROVE  Sound
<1>1. /\ att' = att /\ pay' = pay /\ prov' = prov /\ net' = net
      /\ scan[s].pc \in {"read", "claim", "rolled"} /\ scan' = [scan EXCEPT ![s] = Resting]
  BY DEF NothingDue, InFlight, RollForward, rows, provider, Done
<1>2. Alone' /\ \A r \in Scans : Grasp(r)' /\ Quiet(r)'
  BY <1>1, Rested
<1> QED
  BY <1>1, <1>2, RowsAlone DEF Sound, OutcomeInv


-----------------------------------------------------------------------------
(* Steps that change one attempt. *)

\* A step that rewrites one attempt and no payment has to account for that attempt
\* and for the scans' memories.
LEMMA AttemptSound ==
    ASSUME IndInv, OutcomeInv, NEW a \in Attempts,
           \A b \in Attempts \ {a} : att'[b] = att[b],
           pay' = pay, prov' = prov, net' = net,
           att'[a].payment = att[a].payment, AttFine(a)', Kept(a),
           Alone' /\ \A r \in Scans : Grasp(r)' /\ Quiet(r)'
    PROVE  Sound
BY AttemptOnly DEF Sound, OutcomeInv

\* A new row is blank but for its outcome and its term.
LEMMA NewRow ==
    ASSUME IndInv, OutcomeInv, NEW a \in Attempts, NEW term, NextAttempt(a),
           att' = NewAttempt(a, term)
    PROVE  /\ \A b \in Attempts \ {a} : att'[b] = att[b]
           /\ att'[a].payment = att[a].payment /\ AttFine(a)' /\ Kept(a)
<1> DEFINE row == [Unwritten EXCEPT !.outcome = "scheduled", !.term = term]
<1>1. row.outcome = "scheduled" /\ row.payment = None /\ row.in_doubt = FALSE
  BY DEF Unwritten
<1>2. att \in [Attempts -> AttemptRow] /\ att' = [att EXCEPT ![a] = row]
  BY DEF IndInv, TypeOK, NewAttempt
<1> HIDE DEF row
<1>3. att'[a] = row /\ \A b \in Attempts \ {a} : att'[b] = att[b]
  BY <1>2
<1>4. att[a].outcome = "none" /\ att[a].payment = None /\ att[a].in_doubt = FALSE
  BY DEF OutcomeInv, AttFine, NextAttempt, Unwritten
<1>5. AttFine(a)'
  BY <1>1, <1>3 DEF AttFine
<1>6. Kept(a)
  BY <1>1, <1>3, <1>4 DEF Kept
<1> QED
  BY <1>1, <1>3, <1>4, <1>5, <1>6

\* Notice writes the next attempt, with no payment.
LEMMA NoticeSound ==
    ASSUME IndInv, OutcomeInv, NEW s \in Scans, Notice(s)
    PROVE  Sound
<1>1. PICK a \in Attempts : NextAttempt(a) /\ att' = NewAttempt(a, covered)
  BY DEF Notice
<1>2. /\ pay' = pay /\ prov' = prov /\ net' = net
      /\ scan[s].pc = "notice" /\ Goto(s, "read")
  BY DEF Notice, provider
<1>3. lock = s
  BY <1>2, AtWork
<1>4. Grasp(s)'
  BY <1>2, Moved DEF Grasp, Claimed
<1>5. Quiet(s)'
  BY <1>2 DEF OutcomeInv, Quiet, BeforeSending
<1>6. Alone' /\ \A r \in Scans : Grasp(r)' /\ Quiet(r)'
  BY <1>2, <1>3, <1>4, <1>5, Moved, OneAtWork
<1> QED
  BY <1>1, <1>2, <1>6, NewRow, AttemptSound

\* The retry of a declined attempt is a new attempt, and the declined one stays so.
LEMMA RetrySound ==
    ASSUME IndInv, OutcomeInv, NEW s \in Scans, Retry(s)
    PROVE  Sound
<1>1. /\ pay' = pay /\ prov' = prov /\ net' = net
      /\ scan[s].pc = "retry" /\ scan' = [scan EXCEPT ![s] = Resting]
  BY DEF Retry, provider, Done
<1>2. Alone' /\ \A r \in Scans : Grasp(r)' /\ Quiet(r)'
  BY <1>1, Rested
<1>3. CASE att' = att
  BY <1>1, <1>2, <1>3, RowsAlone DEF Sound, OutcomeInv
<1>4. CASE att' # att
  <2>1. PICK b \in Attempts : NextAttempt(b) /\ att' = NewAttempt(b, att[scan[s].a].term)
    BY <1>4 DEF Retry
  <2> QED
    BY <1>1, <1>2, <2>1, NewRow, AttemptSound
<1> QED
  BY <1>3, <1>4

\* Telling the treasurer changes nothing but the flag.
LEMMA FlagSound ==
    ASSUME IndInv, OutcomeInv, NEW s \in Scans, WaitInDoubt(s) \/ Flag(s)
    PROVE  Sound
<1>0. PICK a : a = scan[s].a
  OBVIOUS
<1> USE <1>0
<1>1. /\ pay' = pay /\ prov' = prov /\ net' = net
      /\ scan[s].pc \in {"charge", "flag"} /\ scan' = [scan EXCEPT ![s] = Resting]
  BY DEF WaitInDoubt, Flag, provider, Done
<1>2. Alone' /\ \A r \in Scans : Grasp(r)' /\ Quiet(r)'
  BY <1>1, Rested
<1>3. a \in Attempts
  BY <1>1, AtWork
<1>4. \E told : att' = [att EXCEPT ![a].flagged = told]
  BY DEF WaitInDoubt, Flag
<1>5. att \in [Attempts -> AttemptRow]
  BY DEF IndInv, TypeOK
<1>6. PICK told : att' = [att EXCEPT ![a].flagged = told]
  BY <1>4
<1>7. /\ \A b \in Attempts \ {a} : att'[b] = att[b]
      /\ att'[a].payment = att[a].payment /\ att'[a].outcome = att[a].outcome
      /\ att'[a].in_doubt = att[a].in_doubt
  BY <1>3, <1>5, <1>6 DEF AttemptRow
<1>8. AttFine(a)
  BY <1>3 DEF OutcomeInv
<1>9. att[a].outcome # "none"
  <2>1. CASE scan[s].pc = "charge"
    BY <2>1 DEF OutcomeInv, Grasp, Reading
  <2>2. CASE scan[s].pc = "flag"
    BY <2>2 DEF OutcomeInv, Grasp
  <2> QED
    BY <1>1, <2>1, <2>2
<1>10. AttFine(a)'
  BY <1>1, <1>7, <1>8, <1>9 DEF AttFine
<1>11. Kept(a)
  BY <1>7 DEF Kept
<1> QED
  BY <1>1, <1>2, <1>3, <1>7, <1>10, <1>11, AttemptSound

\* An attempt in doubt whose payment has succeeded is in doubt no more.
LEMMA LetGoSound ==
    ASSUME IndInv, OutcomeInv, NEW s \in Scans, LetGo(s)
    PROVE  Sound
<1>0. PICK a : a = scan[s].a
  OBVIOUS
<1> USE <1>0
<1>1. /\ pay' = pay /\ prov' = prov /\ net' = net /\ lock' = lock
      /\ scan[s].pc = "charge" /\ scan[s].in_doubt /\ PaidMeanwhile(s)
      /\ att' = [att EXCEPT ![a].in_doubt = FALSE]
      /\ scan' = [scan EXCEPT ![s].pc = "claim", ![s].in_doubt = FALSE]
  BY DEF LetGo, provider
<1>2. /\ a \in Attempts /\ lock = s /\ scan[s] \in ScanState /\ scan \in [Scans -> ScanState]
      /\ att \in [Attempts -> AttemptRow]
  BY <1>1, AtWork DEF IndInv, ScanInv, ScanType, TypeOK
<1>3. /\ scan'[s].pc = "claim" /\ scan'[s].a = a /\ scan'[s].p = scan[s].p
      /\ scan'[s].in_doubt = FALSE
      /\ \A r \in Scans \ {s} : scan'[r] = scan[r]
  BY <1>1, <1>2 DEF ScanState
<1>4. Reading(s) /\ AttFine(a)
  BY <1>1, <1>2 DEF OutcomeInv, Grasp
<1>5. att[a].payment = scan[s].p /\ att[a].outcome # "none"
  BY <1>4 DEF Reading
<1>6. /\ \A b \in Attempts \ {a} : att'[b] = att[b]
      /\ att'[a].payment = att[a].payment /\ att'[a].outcome = att[a].outcome
      /\ att'[a].in_doubt = FALSE
  BY <1>1, <1>2 DEF AttemptRow
<1>7. Reading(s)'
  BY <1>3, <1>5, <1>6 DEF Reading
<1>8. Grasp(s)'
  BY <1>3, <1>7 DEF Grasp, Claimed
<1>9. Quiet(s)'
  BY <1>1 DEF OutcomeInv, Quiet, BeforeSending
<1>10. Alone' /\ \A r \in Scans : Grasp(r)' /\ Quiet(r)'
  BY <1>1, <1>2, <1>3, <1>8, <1>9, OneAtWork
<1>11. AttFine(a)'
  BY <1>1, <1>4, <1>5, <1>6 DEF AttFine
<1>12. Kept(a)
  BY <1>1, <1>5, <1>6 DEF Kept, PaidMeanwhile
<1> QED
  BY <1>1, <1>2, <1>6, <1>10, <1>11, <1>12, AttemptSound

\* _finish skips an attempt unconditionally, but only one that is waiting or skipped.
LEMMA SkipSound ==
    ASSUME IndInv, OutcomeInv, NEW s \in Scans, Skip(s) \/ Unpriced(s) \/ SkipThrown(s)
    PROVE  Sound
<1>0. PICK a : a = scan[s].a
  OBVIOUS
<1> USE <1>0
<1>1. /\ pay' = pay /\ prov' = prov /\ net' = net
      /\ scan[s].pc \in {"charge", "create", "thrown"} /\ scan' = [scan EXCEPT ![s] = Resting]
      /\ scan[s].pc = "charge" => ~scan[s].in_doubt
      /\ att' = [att EXCEPT ![a].outcome = "skipped"]
  BY DEF Skip, Unpriced, SkipThrown, provider, Done
<1>2. Alone' /\ \A r \in Scans : Grasp(r)' /\ Quiet(r)'
  BY <1>1, Rested
<1>3. a \in Attempts /\ att \in [Attempts -> AttemptRow]
  BY <1>1, AtWork DEF IndInv, TypeOK
<1>4. att[a].outcome \in {"scheduled", "skipped"} /\ ~att[a].in_doubt
  <2>1. Grasp(s)
    BY DEF OutcomeInv
  <2>2. CASE scan[s].pc = "charge"
    BY <1>1, <2>1, <2>2 DEF Grasp, Reading
  <2>3. CASE scan[s].pc \in {"create", "thrown"}
    BY <2>1, <2>3 DEF Grasp, Holding, Claimed
  <2> QED
    BY <1>1, <2>2, <2>3
<1>5. /\ \A b \in Attempts \ {a} : att'[b] = att[b]
      /\ att'[a].payment = att[a].payment /\ att'[a].outcome = "skipped"
      /\ att'[a].in_doubt = att[a].in_doubt
  BY <1>1, <1>3 DEF AttemptRow
<1>6. AttFine(a)'
  BY <1>4, <1>5 DEF AttFine
<1>7. Kept(a)
  BY <1>4, <1>5 DEF Kept
<1> QED
  BY <1>1, <1>2, <1>3, <1>5, <1>6, <1>7, AttemptSound

\* A claim is taken on an open attempt, and payment and doubt are read again.
LEMMA ClaimSound ==
    ASSUME IndInv, OutcomeInv, NEW s \in Scans, Claim(s)
    PROVE  Sound
<1>0. PICK a : a = scan[s].a
  OBVIOUS
<1> USE <1>0
<1>1. /\ pay' = pay /\ prov' = prov /\ net' = net /\ lock' = lock
      /\ scan[s].pc = "claim" /\ att[a].outcome = "scheduled"
      /\ att' = [att EXCEPT ![a].claim = s]
      /\ scan' = [scan EXCEPT ![s].pc = "claimed", ![s].p = att[a].payment,
                              ![s].in_doubt = att[a].in_doubt]
  BY DEF Claim, provider
<1>2. /\ a \in Attempts /\ lock = s /\ scan[s] \in ScanState /\ scan \in [Scans -> ScanState]
      /\ att \in [Attempts -> AttemptRow]
  BY <1>1, AtWork DEF IndInv, ScanInv, ScanType, TypeOK
<1>3. /\ scan'[s].pc = "claimed" /\ scan'[s].a = a /\ scan'[s].p = att[a].payment
      /\ scan'[s].in_doubt = att[a].in_doubt
      /\ \A r \in Scans \ {s} : scan'[r] = scan[r]
  BY <1>1, <1>2 DEF ScanState
<1>4. Reading(s) /\ AttFine(a)
  BY <1>1, <1>2 DEF OutcomeInv, Grasp
<1>5. ~att[a].in_doubt
  BY <1>1, <1>4 DEF Reading
<1>6. /\ \A b \in Attempts \ {a} : att'[b] = att[b]
      /\ att'[a].payment = att[a].payment /\ att'[a].outcome = att[a].outcome
      /\ att'[a].in_doubt = att[a].in_doubt /\ att'[a].claim = s
  BY <1>1, <1>2 DEF AttemptRow
<1>7. Holding(s)'
  BY <1>1, <1>3, <1>5, <1>6 DEF Holding
<1>8. Grasp(s)'
  BY <1>3, <1>7 DEF Grasp
<1>9. Quiet(s)'
  BY <1>1 DEF OutcomeInv, Quiet, BeforeSending
<1>10. Alone' /\ \A r \in Scans : Grasp(r)' /\ Quiet(r)'
  BY <1>1, <1>2, <1>3, <1>8, <1>9, OneAtWork
<1>11. AttFine(a)'
  BY <1>1, <1>4, <1>5, <1>6 DEF AttFine
<1>12. Kept(a)
  BY <1>5, <1>6 DEF Kept
<1> QED
  BY <1>1, <1>2, <1>6, <1>10, <1>11, <1>12, AttemptSound

\* An attempt that was claimed is never in doubt: the lock kept the others out.
LEMMA AfterClaimSound ==
    ASSUME IndInv, OutcomeInv, NEW s \in Scans, AfterClaim(s)
    PROVE  Sound
<1>1. scan[s].pc = "claimed"
  BY DEF AfterClaim, GiveBack, Proceed
<1>2. Holding(s) /\ lock = s /\ scan[s] \in ScanState /\ scan \in [Scans -> ScanState]
  BY <1>1, AtWork DEF OutcomeInv, Grasp, Claimed, IndInv, ScanInv, ScanType
<1>3. ~scan[s].in_doubt
  BY <1>2 DEF Holding
<1>4. /\ att' = att /\ pay' = pay /\ prov' = prov /\ net' = net /\ lock' = lock
      /\ scan' = [scan EXCEPT ![s].pc = IF scan[s].p = None THEN "create" ELSE "find",
                              ![s].in_doubt = FALSE]
  BY <1>3 DEF AfterClaim, Proceed, provider
<1>5. /\ scan'[s].pc = IF scan[s].p = None THEN "create" ELSE "find"
      /\ scan'[s].a = scan[s].a /\ scan'[s].p = scan[s].p /\ scan'[s].in_doubt = FALSE
      /\ \A r \in Scans \ {s} : scan'[r] = scan[r]
  BY <1>2, <1>4 DEF ScanState
<1>6. Holding(s)'
  BY <1>1, <1>2, <1>4, <1>5 DEF Holding
<1>7. Grasp(s)'
  BY <1>5, <1>6 DEF Grasp
<1>8. Quiet(s)'
  BY <1>1, <1>4 DEF OutcomeInv, Quiet, BeforeSending
<1> QED
  BY <1>1, <1>2, <1>4, <1>5, <1>7, <1>8, MemorySound

\* _record_success and _record_failure close the attempt the scan still holds.
LEMMA RecordSound ==
    ASSUME IndInv, OutcomeInv, NEW s \in Scans, RecordSuccess(s) \/ RecordFailure(s)
    PROVE  Sound
<1>0. PICK a : a = scan[s].a
  OBVIOUS
<1> USE <1>0
<1> DEFINE o == IF RecordSuccess(s) THEN "succeeded" ELSE "failed"
           n == IF RecordSuccess(s) THEN "rolled" ELSE "decline"
<1>1. /\ pay' = pay /\ prov' = prov /\ net' = net
      /\ scan[s].pc = (IF RecordSuccess(s) THEN "success" ELSE "failure")
      /\ Close(s, o, n)
  BY DEF RecordSuccess, RecordFailure, provider
<1>2. /\ a \in Attempts /\ lock = s /\ att \in [Attempts -> AttemptRow]
  BY <1>1, AtWork DEF IndInv, TypeOK
<1>3. Holding(s) /\ AttFine(a)
  BY <1>1, <1>2 DEF OutcomeInv, Grasp, Claimed
<1>4. CASE ~Holds(s)
  <2>1. att' = att /\ scan' = [scan EXCEPT ![s] = Resting]
    BY <1>1, <1>4 DEF Close, Done
  <2>2. Alone' /\ \A r \in Scans : Grasp(r)' /\ Quiet(r)'
    BY <1>1, <2>1, Rested
  <2> QED
    BY <1>1, <2>1, <2>2, RowsAlone DEF Sound, OutcomeInv
<1>5. CASE Holds(s)
  <2>1. /\ att' = [att EXCEPT ![a].outcome = o, ![a].claim = None]
        /\ Goto(s, n) /\ att[a].outcome = "scheduled"
    BY <1>1, <1>5 DEF Close, Holds
  <2>2. o \in {"succeeded", "failed"} /\ n \in {"rolled", "decline"}
    OBVIOUS
  <2>3. /\ att[a].payment = scan[s].p /\ scan[s].p # None /\ ~att[a].in_doubt
        /\ o = "succeeded" => pay[scan[s].p].status = "succeeded"
        /\ o = "failed" /\ Reliable => prov[scan[s].p].charge = "declined"
    BY <1>1, <1>3 DEF Holding
  <2> HIDE DEF o, n
  <2>4. /\ \A b \in Attempts \ {a} : att'[b] = att[b]
        /\ att'[a].payment = att[a].payment /\ att'[a].outcome = o
        /\ att'[a].in_doubt = att[a].in_doubt
    BY <1>2, <2>1 DEF AttemptRow
  <2>5. AttFine(a)'
    BY <1>1, <2>2, <2>3, <2>4 DEF AttFine
  <2>6. Kept(a)
    BY <2>1, <2>3, <2>4 DEF Kept
  <2>7. Grasp(s)' /\ Quiet(s)'
    BY <2>1, <2>2, <2>3, <2>4, Moved, ZenonT(60) DEF Grasp, Quiet, Claimed, BeforeSending
  <2>8. Alone' /\ \A r \in Scans : Grasp(r)' /\ Quiet(r)'
    BY <1>1, <1>2, <2>1, <2>7, Moved, OneAtWork
  <2> QED
    BY <1>1, <1>2, <2>4, <2>5, <2>6, <2>8, AttemptSound
<1> QED
  BY <1>4, <1>5


-----------------------------------------------------------------------------
(* Steps on an attempt and its payment. *)

\* A step that rewrites one attempt and its payment has to account for these two, for
\* what the provider holds under the payment, and for the scans' memories.
LEMMA PaymentSound ==
    ASSUME IndInv, OutcomeInv, NEW a \in Attempts, NEW p \in Payments,
           \A b \in Attempts \ {a} : att'[b] = att[b],
           \A q \in Payments \ {p} : pay'[q] = pay[q] /\ prov'[q] = prov[q] /\ net'[q] = net[q],
           att[a].payment \in {None, p}, att'[a].payment \in {None, p},
           pay[p].owner = a \/ pay[p].status = "none", pay'[p].owner = a,
           att'[a].payment = p <=> Live(p)',
           AttFine(a)', PayFine(p)', Kept(a),
           Alone' /\ \A r \in Scans : Grasp(r)' /\ Quiet(r)'
    PROVE  Sound
BY AttemptAndPayment DEF Sound, OutcomeInv

\* A scan dealing with the provider holds its attempt, and the attempt its payment.
LEMMA Dealing ==
    ASSUME IndInv, OutcomeInv, NEW s \in Scans, NEW a, NEW p, a = scan[s].a, p = scan[s].p,
           scan[s].pc \in {"find", "take", "wait", "capture"}
    PROVE  /\ a \in Attempts /\ p \in Payments /\ p # None /\ lock = s
           /\ att \in [Attempts -> AttemptRow] /\ pay \in [Payments -> PaymentRow]
           /\ prov \in [Payments -> ProviderRecord]
           /\ net \in [Payments -> {"idle", "sent", "ok", "dup"}]
           /\ att[a].payment = p /\ pay[p].owner = a /\ Live(p)
           /\ Holding(s) /\ ~att[a].in_doubt /\ att[a].outcome \in {"scheduled", "skipped"}
           /\ att[a].claim = s /\ ~scan[s].in_doubt
           /\ AttFine(a) /\ PayFine(p)
<1>1. a \in Attempts /\ p \in Payments /\ lock = s
  BY AtWork
<1>2. p # None
  BY <1>1, BoundAssumption DEF Payments
<1>3. Holding(s)
  BY DEF OutcomeInv, Grasp, Claimed
<1>4. /\ att[a].payment = p /\ ~att[a].in_doubt /\ att[a].outcome \in {"scheduled", "skipped"}
      /\ att[a].claim = s /\ ~scan[s].in_doubt
  BY <1>3 DEF Holding
<1>5. pay[p].owner = a /\ Live(p)
  BY <1>1, <1>4 DEF OutcomeInv, Own
<1> QED
  BY <1>1, <1>2, <1>3, <1>4, <1>5 DEF OutcomeInv, IndInv, TypeOK

\* create_checkout writes a payment for an attempt that carries none.
LEMMA CreateSound ==
    ASSUME IndInv, OutcomeInv, NEW s \in Scans, Create(s)
    PROVE  Sound
<1>0. PICK a : a = scan[s].a
  OBVIOUS
<1> USE <1>0
<1>1. PICK p \in Payments :
         /\ pay[p].status = "none"
         /\ pay' = [pay EXCEPT ![p].status = "pending", ![p].owner = a]
         /\ att' = [att EXCEPT ![a].payment = p]
         /\ scan' = [scan EXCEPT ![s].pc = "take", ![s].p = p, ![s].fresh = TRUE]
  BY DEF Create
<1>2. scan[s].pc = "create" /\ lock' = lock /\ prov' = prov /\ net' = net
  BY DEF Create, provider
<1>3. /\ a \in Attempts /\ lock = s /\ scan[s] \in ScanState /\ scan \in [Scans -> ScanState]
      /\ att \in [Attempts -> AttemptRow] /\ pay \in [Payments -> PaymentRow]
  BY <1>2, AtWork DEF IndInv, ScanInv, ScanType, TypeOK
<1>4. Holding(s) /\ AttFine(a)
  BY <1>2, <1>3 DEF OutcomeInv, Grasp, Claimed
<1>5. /\ att[a].payment = None /\ att[a].claim = s /\ ~att[a].in_doubt /\ ~scan[s].in_doubt
      /\ att[a].outcome \in {"scheduled", "skipped"}
  BY <1>2, <1>4 DEF Holding
<1>6. net[p] = "idle" /\ prov[p].charge = "none" /\ p # None
  BY BoundAssumption, <1>1 DEF IndInv, Unheard, MoneyInv, Payments
<1>7. /\ \A b \in Attempts \ {a} : att'[b] = att[b]
      /\ att'[a].payment = p /\ att'[a].outcome = att[a].outcome /\ att'[a].claim = s
      /\ att'[a].in_doubt = att[a].in_doubt
  BY <1>1, <1>3, <1>5 DEF AttemptRow
<1>8. /\ \A q \in Payments \ {p} : pay'[q] = pay[q]
      /\ pay'[p].status = "pending" /\ pay'[p].owner = a
  BY <1>1, <1>3 DEF PaymentRow
<1>9. /\ scan'[s].pc = "take" /\ scan'[s].a = a /\ scan'[s].p = p
      /\ scan'[s].in_doubt = scan[s].in_doubt
      /\ \A r \in Scans \ {s} : scan'[r] = scan[r]
  BY <1>1, <1>3 DEF ScanState
<1>10. Holding(s)'
  BY <1>2, <1>5, <1>6, <1>7, <1>9 DEF Holding
<1>11. Grasp(s)'
  BY <1>9, <1>10 DEF Grasp
<1>12. Quiet(s)'
  BY <1>2 DEF OutcomeInv, Quiet, BeforeSending
<1>13. Alone' /\ \A r \in Scans : Grasp(r)' /\ Quiet(r)'
  BY <1>2, <1>3, <1>9, <1>11, <1>12, OneAtWork
<1>14. AttFine(a)'
  BY <1>5, <1>7 DEF AttFine
<1>15. PayFine(p)' /\ Live(p)'
  BY <1>2, <1>6, <1>8 DEF PayFine, Live
<1>16. Kept(a)
  BY <1>5, <1>7 DEF Kept
<1> QED
  BY <1>1, <1>2, <1>3, <1>5, <1>7, <1>8, <1>13, <1>14, <1>15, <1>16, PaymentSound

\* A charge put off: the attempt is released, and a payment never sent is thrown away.
LEMMA PostponeSound ==
    ASSUME IndInv, OutcomeInv, NEW s \in Scans, NEW a, NEW p, a = scan[s].a, p = scan[s].p,
           scan[s].pc \in {"find", "take", "wait", "capture"},
           NEW payNow \in [Payments -> PaymentRow], NEW discard,
           payNow[p].status = pay[p].status, payNow[p].owner = pay[p].owner,
           \A q \in Payments \ {p} : payNow[q] = pay[q],
           discard => scan[s].pc = "take" /\ scan[s].fresh,
           Postpone(s, payNow, discard), Done(s),
           \A q \in Payments \ {p} : prov'[q] = prov[q] /\ net'[q] = net[q],
           net'[p] = net[p] \/ net'[p] = "idle",
           prov'[p].charge = prov[p].charge \/ (scan[s].pc # "take" /\ prov[p].charge = "created")
    PROVE  Sound
<1>1. /\ a \in Attempts /\ p \in Payments /\ p # None
      /\ att \in [Attempts -> AttemptRow] /\ att[a].payment = p /\ pay[p].owner = a /\ Live(p)
      /\ Holding(s) /\ ~att[a].in_doubt /\ att[a].outcome \in {"scheduled", "skipped"}
      /\ AttFine(a) /\ PayFine(p)
  BY Dealing
<1>2. Alone' /\ \A r \in Scans : Grasp(r)' /\ Quiet(r)'
  BY Rested DEF Done
<1>3. CASE discard /\ Holds(s)
  <2>1. /\ att' = [att EXCEPT ![a].claim = None, ![a].payment = None]
        /\ pay' = [payNow EXCEPT ![p].status = "deleted"]
    BY <1>3 DEF Postpone
  <2>2. /\ \A b \in Attempts \ {a} : att'[b] = att[b]
        /\ att'[a].payment = None /\ att'[a].outcome = att[a].outcome
        /\ att'[a].in_doubt = att[a].in_doubt
    BY <1>1, <2>1 DEF AttemptRow
  <2>3. /\ \A q \in Payments \ {p} : pay'[q] = pay[q]
        /\ pay'[p].status = "deleted" /\ pay'[p].owner = a
    BY <1>1, <2>1 DEF PaymentRow
  <2>4. net[p] = "idle" /\ prov[p].charge = "none"
    BY <1>1, <1>3 DEF Holding
  <2>5. PayFine(p)' /\ ~Live(p)'
    BY <1>3, <2>3, <2>4 DEF PayFine, Live
  <2>6. AttFine(a)' /\ Kept(a)
    BY <1>1, <2>2 DEF AttFine, Kept
  <2> QED
    BY <1>1, <1>2, <2>2, <2>3, <2>5, <2>6, PaymentSound
<1>4. CASE ~(discard /\ Holds(s))
  <2>1. pay' = payNow /\ Release(s)
    BY <1>4 DEF Postpone
  <2>2. /\ \A b \in Attempts \ {a} : att'[b] = att[b]
        /\ att'[a].payment = p /\ att'[a].outcome = att[a].outcome
        /\ att'[a].in_doubt = att[a].in_doubt
    BY <1>1, <2>1 DEF AttemptRow, Release
  <2>3. PayFine(p)' /\ Live(p)'
    BY <1>1, <2>1 DEF PayFine, Live
  <2>4. AttFine(a)' /\ Kept(a)
    BY <1>1, <2>2 DEF AttFine, Kept
  <2> QED
    BY <1>1, <1>2, <2>1, <2>2, <2>3, <2>4, PaymentSound
<1> QED
  BY <1>3, <1>4

\* Before anything is sent, and when a lookup or a capture goes unanswered.
LEMMA PutOffSound ==
    ASSUME IndInv, OutcomeInv, NEW s \in Scans,
           \/ Breaker(s) \/ NotSent(s) \/ CaptureUnanswered(s) \/ LookupUnavailable(s)
    PROVE  Sound
<1>0. PICK a, p : a = scan[s].a /\ p = scan[s].p
  OBVIOUS
<1>1. scan[s].pc \in {"find", "take", "capture"} /\ Done(s) /\ net' = net
  BY DEF Breaker, NotSent, CaptureUnanswered, LookupUnavailable, provider
<1>2. /\ p \in Payments /\ pay \in [Payments -> PaymentRow]
      /\ prov \in [Payments -> ProviderRecord]
  BY <1>0, <1>1, Dealing
<1>3. CASE Breaker(s)
  <2>1. Postpone(s, pay, scan[s].fresh) /\ prov' = prov /\ scan[s].pc = "take"
    BY <1>3 DEF Breaker, provider
  <2> QED
    BY <1>0, <1>1, <1>2, <2>1, PostponeSound
<1>4. CASE NotSent(s)
  <2> DEFINE stamp == IF pay[p].sent = "no" /\ scan[s].fresh THEN "recent" ELSE pay[p].sent
             now == [pay EXCEPT ![p].sent = stamp]
  <2>1. Postpone(s, now, scan[s].fresh) /\ prov' = prov /\ scan[s].pc = "take"
    BY <1>0, <1>4 DEF NotSent, provider
  <2>2. stamp \in {"no", "recent", "old"}
    BY <1>2 DEF PaymentRow
  <2> HIDE DEF stamp
  <2>3. /\ now \in [Payments -> PaymentRow]
        /\ now[p].status = pay[p].status /\ now[p].owner = pay[p].owner
        /\ \A q \in Payments \ {p} : now[q] = pay[q]
    BY <1>2, <2>2 DEF PaymentRow
  <2> HIDE DEF now
  <2> QED
    BY <1>0, <1>1, <1>2, <2>1, <2>3, PostponeSound
<1>5. CASE CaptureUnanswered(s)
  <2>1. Postpone(s, pay, FALSE) /\ scan[s].pc = "capture"
    BY <1>5 DEF CaptureUnanswered
  <2>2. /\ \A q \in Payments \ {p} : prov'[q] = prov[q]
        /\ prov'[p].charge = prov[p].charge \/ prov[p].charge = "created"
    <3>1. CASE prov' = prov
      BY <3>1
    <3>2. CASE /\ prov[p].charge = "created"
               /\ prov' = Charged(p, "taken")
      BY <1>2, <3>2 DEF Charged
    <3> QED
      BY <1>0, <1>5, <3>1, <3>2 DEF CaptureUnanswered
  <2> QED
    BY <1>0, <1>1, <1>2, <2>1, <2>2, PostponeSound
<1>6. CASE LookupUnavailable(s)
  <2>1. Postpone(s, pay, FALSE) /\ prov' = prov
    BY <1>6 DEF LookupUnavailable, provider
  <2> QED
    BY <1>0, <1>1, <1>2, <2>1, PostponeSound
<1> QED
  BY <1>3, <1>4, <1>5, <1>6


\* _doubt: only where the provider may hold a charge that cannot be looked up, or one that
\* is not what was asked for.
LEMMA DoubtSound ==
    ASSUME IndInv, OutcomeInv, NEW s \in Scans, NEW a, NEW p, a = scan[s].a, p = scan[s].p,
           scan[s].pc \in {"find", "wait", "capture"}, ~Reliable, Doubt(s),
           \A q \in Payments \ {p} : pay'[q] = pay[q] /\ prov'[q] = prov[q] /\ net'[q] = net[q],
           pay'[p].status = pay[p].status, pay'[p].owner = pay[p].owner,
           prov[p].charge = "taken" => prov'[p].charge = "taken"
    PROVE  Sound
<1>1. /\ a \in Attempts /\ p \in Payments /\ p # None /\ lock = s
      /\ att \in [Attempts -> AttemptRow] /\ att[a].payment = p /\ pay[p].owner = a /\ Live(p)
      /\ ~att[a].in_doubt /\ att[a].outcome \in {"scheduled", "skipped"}
      /\ AttFine(a) /\ PayFine(p)
  BY Dealing
<1>2. PayFine(p)' /\ Live(p)'
  BY <1>1 DEF PayFine, Live
<1>3. CASE Holds(s)
  <2>1. att' = [att EXCEPT ![a].claim = None, ![a].in_doubt = TRUE] /\ Goto(s, "flag")
    BY <1>3 DEF Doubt
  <2>2. /\ \A b \in Attempts \ {a} : att'[b] = att[b]
        /\ att'[a].payment = p /\ att'[a].outcome = att[a].outcome /\ att'[a].in_doubt = TRUE
    BY <1>1, <2>1 DEF AttemptRow
  <2>3. AttFine(a)' /\ Kept(a)
    BY <1>1, <2>2 DEF AttFine, Kept
  <2>4. Grasp(s)' /\ Quiet(s)'
    BY <1>1, <2>1, <2>2, Moved DEF Grasp, Quiet, Claimed
  <2>5. Alone' /\ \A r \in Scans : Grasp(r)' /\ Quiet(r)'
    BY <1>1, <2>1, <2>4, Moved, OneAtWork
  <2> QED
    BY <1>1, <1>2, <2>2, <2>3, <2>5, PaymentSound
<1>4. CASE ~Holds(s)
  <2>1. att' = att /\ scan' = [scan EXCEPT ![s] = Resting]
    BY <1>4 DEF Doubt, Done
  <2>2. Alone' /\ \A r \in Scans : Grasp(r)' /\ Quiet(r)'
    BY <2>1, Rested
  <2>3. AttFine(a)' /\ Kept(a)
    BY <1>1, <2>1 DEF AttFine, Kept
  <2> QED
    BY <1>1, <1>2, <2>1, <2>2, <2>3, PaymentSound
<1> QED
  BY <1>3, <1>4

\* A charge nobody can tell the end of leaves its attempt in doubt, with its payment.
LEMMA UnansweredSound ==
    ASSUME IndInv, OutcomeInv, NEW s \in Scans,
           Duplicate(s) \/ NoAnswer(s) \/ TooOld(s) \/ CaptureRefused(s)
    PROVE  Sound
<1>0. PICK a, p : a = scan[s].a /\ p = scan[s].p
  OBVIOUS
<1>1. scan[s].pc \in {"find", "wait", "capture"} /\ prov' = prov
  BY DEF Duplicate, NoAnswer, TooOld, CaptureRefused, provider
<1>2. /\ p \in Payments /\ pay \in [Payments -> PaymentRow] /\ PayFine(p)
      /\ net \in [Payments -> {"idle", "sent", "ok", "dup"}]
  BY <1>0, <1>1, Dealing
<1>3. CASE Duplicate(s)
  <2>1. /\ net[p] = "dup" /\ net' = [net EXCEPT ![p] = "idle"]
        /\ Doubt(s) /\ pay' = pay
    BY <1>0, <1>3 DEF Duplicate
  <2>2. ~Reliable
    BY <1>2, <2>1 DEF PayFine
  <2>3. \A q \in Payments \ {p} : net'[q] = net[q]
    BY <1>2, <2>1
  <2> QED
    BY <1>0, <1>1, <2>1, <2>2, <2>3, DoubtSound
<1>4. CASE TooOld(s)
  <2>1. net' = net /\ Doubt(s) /\ pay' = pay /\ Provider # "stripe"
    BY <1>4 DEF TooOld, CanLookUp, provider
  <2> QED
    BY <1>0, <1>1, <2>1, DoubtSound DEF Reliable
<1>5. CASE NoAnswer(s)
  <2>1. net' = [net EXCEPT ![p] = IF @ = "sent" THEN "sent" ELSE "idle"]
    BY <1>0, <1>5 DEF NoAnswer
  <2>2. (\A q \in Payments \ {p} : net'[q] = net[q]) /\ (net'[p] = net[p] \/ net'[p] = "idle")
    BY <1>2, <2>1
  <2>3. CASE Provider = "stripe"
    <3>1. Postpone(s, pay, FALSE) /\ Done(s)
      BY <1>5, <2>3 DEF NoAnswer
    <3> QED
      BY <1>0, <1>1, <1>2, <2>2, <3>1, PostponeSound
  <2>4. CASE Provider # "stripe"
    <3>1. Doubt(s) /\ pay' = pay
      BY <1>5, <2>4 DEF NoAnswer
    <3> QED
      BY <1>0, <1>1, <2>2, <2>4, <3>1, DoubtSound DEF Reliable
  <2> QED
    BY <2>3, <2>4
<1>6. CASE CaptureRefused(s)
  <2>1. net' = net /\ pay' = pay /\ ~Reliable
    BY <1>6, ProviderAssumption DEF CaptureRefused, provider, Reliable
  <2>2. Doubt(s) \/ (Goto(s, "failure") /\ att' = att)
    BY <1>6 DEF CaptureRefused
  <2> QED
    BY <1>0, <1>1, <1>6, <2>1, <2>2, DoubtSound, RefusalSound
<1> QED
  BY <1>3, <1>4, <1>5, <1>6

\* A request goes out for the payment of the attempt in the scan's hands.
LEMMA SendSound ==
    ASSUME IndInv, OutcomeInv, NEW s \in Scans, Send(s)
    PROVE  Sound
<1>0. PICK a, p : a = scan[s].a /\ p = scan[s].p
  OBVIOUS
<1>1. /\ scan[s].pc = "take" /\ att' = att /\ prov' = prov /\ Goto(s, "wait")
      /\ pay' = [pay EXCEPT ![p].sent = IF @ = "no" THEN "recent" ELSE @]
      /\ net' = [net EXCEPT ![p] = "sent"]
  BY <1>0 DEF Send
<1>2. /\ a \in Attempts /\ p \in Payments /\ p # None /\ lock = s
      /\ pay \in [Payments -> PaymentRow] /\ net \in [Payments -> {"idle", "sent", "ok", "dup"}]
      /\ att[a].payment = p /\ pay[p].owner = a /\ Live(p) /\ Holding(s)
      /\ ~att[a].in_doubt /\ att[a].outcome \in {"scheduled", "skipped"}
      /\ AttFine(a) /\ PayFine(p)
  BY <1>0, <1>1, Dealing
<1>3. /\ \A q \in Payments \ {p} : pay'[q] = pay[q] /\ net'[q] = net[q]
      /\ pay'[p].status = pay[p].status /\ pay'[p].owner = pay[p].owner
      /\ net'[p] = "sent"
  BY <1>1, <1>2 DEF PaymentRow
<1>4. PayFine(p)' /\ Live(p)'
  BY <1>1, <1>2, <1>3 DEF PayFine, Live
<1>5. AttFine(a)' /\ Kept(a)
  BY <1>1, <1>2, <1>3 DEF AttFine, Kept
<1>6. Holding(s)'
  BY <1>0, <1>1, <1>2, Moved DEF Holding
<1>7. Grasp(s)' /\ Quiet(s)'
  BY <1>1, <1>6, Moved DEF Grasp, Quiet, BeforeSending
<1>8. Alone' /\ \A r \in Scans : Grasp(r)' /\ Quiet(r)'
  BY <1>1, <1>2, <1>7, Moved, OneAtWork
<1> QED
  BY <1>1, <1>2, <1>3, <1>4, <1>5, <1>8, PaymentSound

\* settle_renewal: what the provider's record says of a charge, written down.
LEMMA SettleSound ==
    ASSUME IndInv, OutcomeInv, NEW s \in Scans, NEW a, NEW p, a = scan[s].a, p = scan[s].p,
           scan[s].pc \in {"find", "wait", "capture"}, Settle(s, prov'[p].charge),
           \A q \in Payments \ {p} : prov'[q] = prov[q] /\ net'[q] = net[q],
           net'[p] = net[p] \/ net'[p] = "idle",
           prov[p].charge = "taken" => prov'[p].charge = "taken"
    PROVE  Sound
<1>1. /\ a \in Attempts /\ p \in Payments /\ p # None /\ lock = s
      /\ att \in [Attempts -> AttemptRow] /\ pay \in [Payments -> PaymentRow]
      /\ att[a].payment = p /\ pay[p].owner = a /\ Live(p) /\ Holding(s)
      /\ ~att[a].in_doubt /\ att[a].outcome \in {"scheduled", "skipped"} /\ att[a].claim = s
      /\ AttFine(a) /\ PayFine(p) /\ ~scan[s].in_doubt
  BY Dealing
<1>2. PICK charge : charge = prov'[p].charge /\ Settle(s, charge)
  OBVIOUS
<1>3. ASSUME pay'[p].status = pay[p].status \/ (pay'[p].status = "succeeded" /\ charge = "taken")
      PROVE  PayFine(p)' /\ Live(p)'
  BY <1>1, <1>2, <1>3 DEF PayFine, Live
<1>4. ASSUME att' = att
      PROVE  AttFine(a)' /\ Kept(a)
  BY <1>1, <1>4 DEF AttFine, Kept
<1>5. CASE charge = "taken"
  <2>1. Succeeds(p) /\ Goto(s, "success") /\ att' = att
    BY <1>2, <1>5 DEF Settle
  <2>2. /\ \A q \in Payments \ {p} : pay'[q] = pay[q]
        /\ pay'[p].status = "succeeded" /\ pay'[p].owner = pay[p].owner
    BY <1>1, <2>1 DEF Succeeds, PaymentRow
  <2>3. Holding(s)'
    BY <1>1, <2>1, <2>2, Moved DEF Holding
  <2>4. Grasp(s)' /\ Quiet(s)'
    BY <2>1, <2>3, Moved DEF Grasp, Quiet, BeforeSending
  <2>5. Alone' /\ \A r \in Scans : Grasp(r)' /\ Quiet(r)'
    BY <1>1, <2>1, <2>4, Moved, OneAtWork
  <2> QED
    BY <1>1, <1>3, <1>4, <1>5, <2>1, <2>2, <2>5, PaymentSound
<1>6. ASSUME NEW ref, pay' = [pay EXCEPT ![p].ref = ref]
      PROVE  /\ \A q \in Payments \ {p} : pay'[q] = pay[q]
             /\ pay'[p].status = pay[p].status /\ pay'[p].owner = pay[p].owner
  <2>1. pay[p] \in PaymentRow
    BY <1>1
  <2>2. pay' = [pay EXCEPT ![p] = [pay[p] EXCEPT !.ref = ref]]
    BY <1>6
  <2>3. pay'[p] = [pay[p] EXCEPT !.ref = ref] /\ \A q \in Payments \ {p} : pay'[q] = pay[q]
    BY <1>1, <2>2
  <2> QED
    BY <2>1, <2>3 DEF PaymentRow
<1>7. CASE charge = "pending"
  <2>1. /\ pay' = [pay EXCEPT ![p].ref = TRUE] /\ Hold(s)
        /\ scan' = [scan EXCEPT ![s] = Resting]
    BY <1>2, <1>7 DEF Settle, Done
  <2>2. PICK days \in BOOLEAN :
           LET told == [att EXCEPT ![a].flagged = @ \/ days]
           IN  att' = IF Holds(s) THEN [told EXCEPT ![a].claim = None] ELSE told
    BY <2>1 DEF Hold
  <2>3. /\ \A b \in Attempts \ {a} : att'[b] = att[b]
        /\ att'[a].payment = p /\ att'[a].outcome = att[a].outcome
        /\ att'[a].in_doubt = att[a].in_doubt
    <3> DEFINE told == [att EXCEPT ![a].flagged = @ \/ days]
    <3>1. /\ \A b \in Attempts \ {a} : told[b] = att[b]
          /\ told[a].payment = p /\ told[a].outcome = att[a].outcome
          /\ told[a].in_doubt = att[a].in_doubt
      BY <1>1 DEF AttemptRow
    <3>2. told \in [Attempts -> AttemptRow]
      <4>1. (att[a].flagged \/ days) \in BOOLEAN
        OBVIOUS
      <4>2. told = [att EXCEPT ![a].flagged = (att[a].flagged \/ days)]
        OBVIOUS
      <4> HIDE DEF told
      <4> QED
        BY <1>1, <4>1, <4>2 DEF AttemptRow
    <3> HIDE DEF told
    <3>3. att' = [told EXCEPT ![a].claim = None] \/ att' = told
      BY <2>2 DEF told
    <3> QED
      BY <1>1, <3>1, <3>2, <3>3 DEF AttemptRow
  <2>4. Alone' /\ \A r \in Scans : Grasp(r)' /\ Quiet(r)'
    BY <2>1, Rested
  <2>5. AttFine(a)' /\ Kept(a)
    BY <1>1, <2>3 DEF AttFine, Kept
  <2> QED
    BY <1>1, <1>3, <1>6, <2>1, <2>3, <2>4, <2>5, PaymentSound
<1>8. CASE charge \in {"declined", "created"}
  <2>1. PICK ref \in BOOLEAN : pay' = [pay EXCEPT ![p].ref = ref]
    <3>1. CASE charge = "declined"
      BY <1>2, <3>1, Zenon DEF Settle
    <3>2. CASE charge = "created"
      BY <1>2, <3>2 DEF Settle
    <3> QED
      BY <1>8, <3>1, <3>2
  <2>2. att' = att /\ Goto(s, IF charge = "declined" THEN "failure" ELSE "capture")
    BY <1>2, <1>8 DEF Settle
  <2>3. Holding(s)'
    BY <1>1, <1>2, <2>2, Moved DEF Holding
  <2>4. Grasp(s)' /\ Quiet(s)'
    BY <2>2, <2>3, Moved DEF Grasp, Quiet, BeforeSending
  <2>5. Alone' /\ \A r \in Scans : Grasp(r)' /\ Quiet(r)'
    BY <1>1, <2>2, <2>4, Moved, OneAtWork
  <2> QED
    BY <1>1, <1>3, <1>4, <1>6, <2>1, <2>2, <2>5, PaymentSound
<1>9. CASE charge = "mismatched"
  <2>1. Provider = "paypal" /\ pay' = [pay EXCEPT ![p].ref = TRUE] /\ Doubt(s)
    BY <1>2, <1>9 DEF Settle
  <2> QED
    BY <1>6, <2>1, DoubtSound DEF Reliable
<1> QED
  BY <1>2, <1>5, <1>7, <1>8, <1>9 DEF Settle

\* An answer, found or brought, is settled as the provider holds it.
LEMMA AnswerSound ==
    ASSUME IndInv, OutcomeInv, NEW s \in Scans, Answered(s) \/ Found(s) \/ Capture(s)
    PROVE  Sound
<1>0. PICK a, p : a = scan[s].a /\ p = scan[s].p
  OBVIOUS
<1>1. scan[s].pc \in {"find", "wait", "capture"}
  BY DEF Answered, Found, Capture
<1>2. /\ p \in Payments /\ prov \in [Payments -> ProviderRecord]
      /\ net \in [Payments -> {"idle", "sent", "ok", "dup"}]
  BY <1>0, <1>1, Dealing
<1>3. CASE Answered(s)
  <2>1. Settle(s, prov'[p].charge) /\ prov' = prov /\ net' = [net EXCEPT ![p] = "idle"]
    BY <1>0, <1>3 DEF Answered
  <2> QED
    BY <1>0, <1>1, <1>2, <2>1, SettleSound
<1>4. CASE Found(s)
  <2>1. Settle(s, prov'[p].charge) /\ prov' = prov /\ net' = net
    <3>1. Settle(s, prov[p].charge) /\ UNCHANGED provider
      BY <1>0, <1>4 DEF Found
    <3>2. prov' = prov /\ net' = net
      BY <3>1 DEF provider
    <3> QED
      BY <3>1, <3>2
  <2> QED
    BY <1>0, <1>1, <1>2, <2>1, SettleSound
<1>5. CASE Capture(s)
  <2>1. PICK charge \in {"taken", "mismatched", "pending", "declined"} :
         /\ prov' = IF prov[p].charge = "created" THEN Charged(p, charge) ELSE prov
         /\ Settle(s, prov'[p].charge)
    BY <1>0, <1>5 DEF Capture
  <2>2. net' = net
    BY <1>5 DEF Capture
  <2>3. /\ \A q \in Payments \ {p} : prov'[q] = prov[q]
        /\ prov[p].charge = "taken" => prov'[p].charge = "taken"
    BY <1>2, <2>1 DEF Charged
  <2> QED
    BY <1>0, <1>1, <2>1, <2>2, <2>3, SettleSound
<1> QED
  BY <1>3, <1>4, <1>5

\* A payment the provider knows nothing of is thrown away with its attempt skipped next.
LEMMA ThrowAwaySound ==
    ASSUME IndInv, OutcomeInv, NEW s \in Scans, ThrowAway(s)
    PROVE  Sound
<1>0. PICK a, p : a = scan[s].a /\ p = scan[s].p
  OBVIOUS
<1>1. /\ scan[s].pc = "find" /\ FindsNothing(s) /\ prov' = prov /\ net' = net
      /\ Goto(s, "thrown")
      /\ pay' = [pay EXCEPT ![p].status = "deleted"]
      /\ att' = [att EXCEPT ![a].payment = None]
  BY <1>0 DEF ThrowAway, provider
<1>2. /\ a \in Attempts /\ p \in Payments /\ p # None /\ lock = s
      /\ att \in [Attempts -> AttemptRow] /\ pay \in [Payments -> PaymentRow]
      /\ att[a].payment = p /\ pay[p].owner = a /\ Live(p) /\ Holding(s)
      /\ ~att[a].in_doubt /\ att[a].outcome \in {"scheduled", "skipped"} /\ att[a].claim = s
      /\ AttFine(a) /\ PayFine(p) /\ ~scan[s].in_doubt
  BY <1>0, <1>1, Dealing
<1>3. /\ \A b \in Attempts \ {a} : att'[b] = att[b]
      /\ att'[a].payment = None /\ att'[a].outcome = att[a].outcome
      /\ att'[a].in_doubt = att[a].in_doubt /\ att'[a].claim = s
  BY <1>1, <1>2 DEF AttemptRow
<1>4. /\ \A q \in Payments \ {p} : pay'[q] = pay[q]
      /\ pay'[p].status = "deleted" /\ pay'[p].owner = a
  BY <1>1, <1>2 DEF PaymentRow
<1>5. Reliable => net[p] # "sent" /\ prov[p].charge = "none"
  BY <1>0, <1>1, <1>2 DEF OutcomeInv, Quiet, BeforeSending, FindsNothing, CanLookUp, Reliable
<1>6. PayFine(p)' /\ ~Live(p)'
  BY <1>1, <1>2, <1>4, <1>5 DEF PayFine, Live
<1>7. AttFine(a)' /\ Kept(a)
  BY <1>2, <1>3 DEF AttFine, Kept
<1>8. Holding(s)'
  BY <1>0, <1>1, <1>2, <1>3, Moved DEF Holding
<1>9. Grasp(s)'
  BY <1>1, <1>8, Moved DEF Grasp
<1>10. Quiet(s)'
  BY <1>1 DEF OutcomeInv, Quiet, BeforeSending
<1>11. Alone' /\ \A r \in Scans : Grasp(r)' /\ Quiet(r)'
  BY <1>1, <1>2, <1>9, <1>10, Moved, OneAtWork
<1> QED
  BY <1>1, <1>2, <1>3, <1>4, <1>6, <1>7, <1>11, PaymentSound

\* The declined payment is marked failed, unless its money has come after all.
LEMMA DeclineSound ==
    ASSUME IndInv, OutcomeInv, NEW s \in Scans, Decline(s)
    PROVE  Sound
<1>0. PICK a, p : a = scan[s].a /\ p = scan[s].p
  OBVIOUS
<1>1. /\ scan[s].pc = "decline" /\ att' = att /\ prov' = prov /\ net' = net
      /\ pay' = [pay EXCEPT ![p] = Failed(@)]
      /\ Done(s) \/ Goto(s, "retry")
  BY <1>0 DEF Decline, provider
<1>2. /\ a \in Attempts /\ p \in Payments /\ lock = s /\ att[a].payment = p
      /\ pay \in [Payments -> PaymentRow]
  BY <1>0, <1>1, AtWork DEF OutcomeInv, Grasp, IndInv, TypeOK, ScanState
<1>3. pay[p].owner = a /\ Live(p) /\ AttFine(a) /\ PayFine(p)
  BY <1>2 DEF OutcomeInv, Own
<1>4. /\ \A q \in Payments \ {p} : pay'[q] = pay[q]
      /\ pay'[p].owner = pay[p].owner
      /\ pay'[p].status = IF pay[p].status = "succeeded" THEN "succeeded" ELSE "failed"
  BY <1>1, <1>2 DEF Failed, PaymentRow
<1>5. PayFine(p)' /\ Live(p)'
  BY <1>1, <1>3, <1>4 DEF PayFine, Live
<1>6. AttFine(a)' /\ Kept(a)
  BY <1>1, <1>2, <1>3, <1>4 DEF AttFine, Kept
<1>7. Alone' /\ \A r \in Scans : Grasp(r)' /\ Quiet(r)'
  <2>1. CASE Done(s)
    BY <1>1, <2>1, Rested DEF Done
  <2>2. CASE Goto(s, "retry")
    <3>1. Grasp(s)' /\ Quiet(s)'
      BY <2>2, Moved DEF Grasp, Quiet, Claimed, BeforeSending
    <3> QED
      BY <1>1, <1>2, <2>2, <3>1, Moved, OneAtWork
  <2> QED
    BY <1>1, <2>1, <2>2
<1> QED
  BY <1>1, <1>2, <1>3, <1>4, <1>5, <1>6, <1>7, PaymentSound


-----------------------------------------------------------------------------
(* A scan that dies, the provider, the treasurer and the member. *)

\* A scan that dies leaves its claim behind, and no memory.
LEMMA CrashSound ==
    ASSUME IndInv, OutcomeInv, NEW s \in Scans, Crash(s)
    PROVE  Sound
<1>1. /\ scan[s].pc # "idle" /\ scan' = [scan EXCEPT ![s] = Resting]
      /\ pay' = pay /\ prov' = prov /\ net' = net
      /\ att' = [a \in Attempts |->
                   IF att[a].claim = s THEN [att[a] EXCEPT !.claim = Dead] ELSE att[a]]
  BY DEF Crash, provider
<1>2. att \in [Attempts -> AttemptRow]
  BY DEF IndInv, TypeOK
<1>3. ASSUME NEW a \in Attempts
      PROVE  /\ att'[a].payment = att[a].payment /\ att'[a].outcome = att[a].outcome
             /\ att'[a].in_doubt = att[a].in_doubt
             /\ att[a].claim # s => att'[a] = att[a]
  BY <1>1, <1>2 DEF AttemptRow
<1>4. ASSUME NEW a \in Attempts
      PROVE  AttFine(a)'
  <2>1. AttFine(a)
    BY DEF OutcomeInv
  <2>2. att[a].outcome = "none" => att[a].claim # s
    BY <2>1, ClaimAssumption DEF AttFine, Unwritten
  <2> QED
    BY <1>1, <1>3, <2>1, <2>2 DEF AttFine
<1>5. \A p \in Payments : PayFine(p)'
  BY <1>1 DEF OutcomeInv, PayFine
<1>6. Own'
  BY <1>1, <1>3 DEF OutcomeInv, Own, Live
<1>7. \A a \in Attempts : Kept(a)
  BY <1>3 DEF Kept
<1>8. Alone' /\ \A r \in Scans : Grasp(r)' /\ Quiet(r)'
  BY <1>1, Rested
<1> QED
  BY <1>4, <1>5, <1>6, <1>7, <1>8 DEF Sound, OutcomeInv

\* What a scan knows stays true when attempts keep what it relies on, and payments and
\* charges only move forward.
LEMMA GraspStays ==
    ASSUME IndInv, OutcomeInv, scan' = scan,
           \A a \in Attempts :
              /\ att'[a].payment = att[a].payment /\ att'[a].claim = att[a].claim
              /\ att'[a].in_doubt = att[a].in_doubt
              /\ att'[a].outcome = att[a].outcome
                    \/ (att[a].outcome = "scheduled" /\ att'[a].outcome = "skipped"),
           \A p \in Payments :
              /\ pay[p].status = "succeeded" => pay'[p].status = "succeeded"
              /\ Reliable /\ prov[p].charge = "declined" => prov'[p].charge = "declined"
              /\ net[p] = "idle" => net'[p] = "idle"
              /\ net[p] = "idle" /\ prov[p].charge = "none" => prov'[p].charge = "none"
    PROVE  \A s \in Scans : Grasp(s)'
<1> SUFFICES ASSUME NEW s \in Scans, scan[s].pc # "idle"
             PROVE  Grasp(s)'
  BY DEF Grasp, Claimed
<1>1. Grasp(s) /\ scan[s] \in ScanState
  BY AtWork DEF OutcomeInv
<1>2. scan[s].pc \notin {"notice", "read"} => scan[s].a \in Attempts
  BY AtWork
<1>3. ASSUME scan[s].pc \in {"charge", "claim"} PROVE Reading(s)'
  BY <1>1, <1>2, <1>3 DEF Grasp, Reading
<1>4. ASSUME scan[s].pc \in Claimed PROVE Holding(s)'
  <2>1. Holding(s) /\ scan[s].a \in Attempts
    BY <1>1, <1>2, <1>4 DEF Grasp, Claimed
  <2>2. scan[s].p \in Payments \cup {None}
    BY <1>1 DEF ScanState
  <2>3. scan[s].pc \in {"success", "failure", "take"} => scan[s].p \in Payments
    BY <1>1, <2>1, <2>2, AtWork DEF Holding
  <2> QED
    BY <2>1, <2>3 DEF Holding
<1>5. scan[s].pc = "flag" => att'[scan[s].a].outcome # "none"
  BY <1>1, <1>2 DEF Grasp
<1>6. scan[s].pc = "decline" => scan[s].p # None /\ att'[scan[s].a].payment = scan[s].p
  BY <1>1, <1>2 DEF Grasp
<1> QED
  BY <1>3, <1>4, <1>5, <1>6 DEF Grasp

\* A step of the provider or of the wire for one payment.
LEMMA ProviderSound ==
    ASSUME IndInv, OutcomeInv, NEW p \in Payments,
           att' = att, scan' = scan, lock' = lock,
           \A q \in Payments : pay'[q].status = pay[q].status /\ pay'[q].owner = pay[q].owner,
           \A q \in Payments \ {p} : prov'[q].charge = prov[q].charge /\ net'[q] = net[q],
           prov[p].charge = "taken" => prov'[p].charge = "taken",
           Reliable /\ prov[p].charge = "declined" => prov'[p].charge = "declined",
           prov[p].charge = "none" /\ net[p] # "sent" => prov'[p].charge = "none",
           net'[p] = "sent" => net[p] = "sent",
           net[p] = "idle" => net'[p] = "idle",
           Reliable => net'[p] # "dup"
    PROVE  Sound
<1>1. att \in [Attempts -> AttemptRow]
  BY DEF IndInv, TypeOK
<1>2. ASSUME NEW a \in Attempts
      PROVE  AttFine(a)'
  <2>1. AttFine(a) /\ att[a].payment \in Payments \cup {None}
    BY <1>1 DEF OutcomeInv, AttemptRow
  <2> QED
    BY <2>1 DEF AttFine
<1>3. \A q \in Payments : PayFine(q)'
  BY DEF OutcomeInv, PayFine
<1>4. Own'
  BY DEF OutcomeInv, Own, Live
<1>5. \A a \in Attempts : Kept(a)
  BY DEF Kept
<1>6. \A s \in Scans : Grasp(s)'
  BY GraspStays
<1>7. Alone' /\ \A s \in Scans : Quiet(s)'
  BY DEF OutcomeInv, Alone, Quiet
<1> QED
  BY <1>2, <1>3, <1>4, <1>5, <1>6, <1>7 DEF Sound, OutcomeInv

\* A charge is made anew only where the provider holds none, or one it may replace.
LEMMA ProcessSound ==
    ASSUME IndInv, OutcomeInv, NEW p \in Payments, Process(p)
    PROVE  Sound
<1>1. /\ net[p] = "sent" /\ att' = att /\ pay' = pay /\ scan' = scan /\ lock' = lock
      /\ prov \in [Payments -> ProviderRecord] /\ net \in [Payments -> {"idle", "sent", "ok", "dup"}]
  BY DEF Process, rows, IndInv, TypeOK
<1>2. CASE prov' = prov
  <2>1. \/ net' = [net EXCEPT ![p] = "ok"]
        \/ net' = [net EXCEPT ![p] = "dup"] /\ Provider = "paypal"
    BY <1>2 DEF Process, InvoiceRefused
  <2>2. (\A q \in Payments \ {p} : net'[q] = net[q]) /\ net'[p] # "sent"
        /\ (Reliable => net'[p] # "dup")
    BY <1>1, <2>1 DEF Reliable
  <2> QED
    BY <1>1, <1>2, <2>2, ProviderSound
<1>3. CASE prov' # prov
  <2>1. ~KeyKnown(p) /\ ~InvoiceRefused(p) /\ net' = [net EXCEPT ![p] = "ok"]
    BY <1>3 DEF Process
  <2>2. PICK r : prov' = [prov EXCEPT ![p] = r]
    BY <1>3 DEF Process
  <2>3. (\A q \in Payments \ {p} : prov'[q] = prov[q] /\ net'[q] = net[q]) /\ net'[p] = "ok"
    BY <1>1, <2>1, <2>2
  <2>4. Provider = "stripe" => prov[p].charge = "none"
    BY <1>1, <2>1 DEF KeyKnown, IndInv, KeySent, MoneyInv, ProviderRecord
  <2>5. prov[p].charge # "taken"
    BY <2>1, <2>4, ProviderAssumption DEF InvoiceRefused, Money
  <2> QED
    BY <1>1, <2>3, <2>4, <2>5, ProviderSound DEF Reliable
<1> QED
  BY <1>2, <1>3

\* What happens at the provider and on the wire between the portal's steps.
LEMMA WireSound ==
    ASSUME IndInv, OutcomeInv, NEW p \in Payments,
           Lose(p) \/ PendingSettles(p) \/ Elapse(p) \/ Forget(p)
    PROVE  Sound
<1>1. /\ att' = att /\ scan' = scan /\ lock' = lock
      /\ prov \in [Payments -> ProviderRecord] /\ net \in [Payments -> {"idle", "sent", "ok", "dup"}]
      /\ pay \in [Payments -> PaymentRow]
  BY DEF Lose, PendingSettles, Elapse, Forget, rows, IndInv, TypeOK
<1>2. Reliable => net[p] # "dup"
  BY DEF OutcomeInv, PayFine
<1>3. CASE Lose(p)
  <2>1. pay' = pay /\ prov' = prov /\ net' = [net EXCEPT ![p] = "idle"]
    BY <1>3 DEF Lose, rows
  <2> QED
    BY <1>1, <2>1, ProviderSound
<1>4. CASE PendingSettles(p)
  <2>1. /\ pay' = pay /\ net' = net /\ prov[p].charge = "pending"
        /\ \E charge : prov' = Charged(p, charge)
    BY <1>4 DEF PendingSettles, rows
  <2>2. \A q \in Payments \ {p} : prov'[q] = prov[q]
    BY <1>1, <2>1 DEF Charged
  <2>3. Reliable => prov[p].charge # "declined"
    BY <2>1
  <2> QED
    BY <1>1, <1>2, <2>1, <2>2, <2>3, ProviderSound
<1>5. CASE Elapse(p)
  <2>1. /\ net' = net
        /\ pay' = [pay EXCEPT ![p].sent = IF @ = "recent" THEN "old" ELSE @]
        /\ prov' = [prov EXCEPT ![p].key = IF @ = "kept" THEN "aged" ELSE @]
    BY <1>5 DEF Elapse
  <2>2. \A q \in Payments : pay'[q].status = pay[q].status /\ pay'[q].owner = pay[q].owner
    BY <1>1, <2>1 DEF PaymentRow
  <2>3. \A q \in Payments : prov'[q].charge = prov[q].charge
    BY <1>1, <2>1 DEF ProviderRecord
  <2> QED
    BY <1>1, <1>2, <2>1, <2>2, <2>3, ProviderSound
<1>6. CASE Forget(p)
  <2>1. pay' = pay /\ net' = net /\ prov' = [prov EXCEPT ![p].key = "forgotten"]
    BY <1>6 DEF Forget, rows
  <2>2. \A q \in Payments : prov'[q].charge = prov[q].charge
    BY <1>1, <2>1 DEF ProviderRecord
  <2> QED
    BY <1>1, <1>2, <2>1, <2>2, ProviderSound
<1> QED
  BY <1>3, <1>4, <1>5, <1>6

\* The webhook settles a payment that is not settled yet.
LEMMA WebhookSound ==
    ASSUME IndInv, OutcomeInv, NEW p \in Payments, Webhook(p)
    PROVE  Sound
<1>1. /\ att' = att /\ scan' = scan /\ lock' = lock /\ prov' = prov /\ net' = net
      /\ pay[p].status \in {"pending", "failed"}
      /\ att \in [Attempts -> AttemptRow] /\ pay \in [Payments -> PaymentRow]
  BY DEF Webhook, provider, IndInv, TypeOK
<1>2. /\ \A q \in Payments \ {p} : pay'[q] = pay[q]
      /\ pay'[p].owner = pay[p].owner
      /\ \/ pay'[p].status = "succeeded" /\ prov[p].charge = "taken"
         \/ pay'[p].status = "failed"
  <2>1. CASE prov[p].charge = "taken" /\ Succeeds(p)
    BY <1>1, <2>1 DEF Succeeds, PaymentRow
  <2>2. CASE pay' = [pay EXCEPT ![p] = Failed(@)]
    BY <1>1, <2>2 DEF Failed, PaymentRow
  <2> QED
    BY <2>1, <2>2 DEF Webhook
<1>3. ASSUME NEW a \in Attempts
      PROVE  AttFine(a)'
  <2>1. AttFine(a) /\ att[a].payment \in Payments \cup {None}
    BY <1>1 DEF OutcomeInv, AttemptRow
  <2> QED
    BY <1>1, <1>2, <2>1 DEF AttFine
<1>4. \A q \in Payments : PayFine(q)'
  BY <1>1, <1>2 DEF OutcomeInv, PayFine
<1>5. Own'
  BY <1>1, <1>2 DEF OutcomeInv, Own, Live
<1>6. \A a \in Attempts : Kept(a)
  BY <1>1 DEF Kept
<1>7. \A s \in Scans : Grasp(s)'
  BY <1>1, <1>2, GraspStays
<1>8. Alone' /\ \A s \in Scans : Quiet(s)'
  BY <1>1 DEF OutcomeInv, Alone, Quiet
<1> QED
  BY <1>3, <1>4, <1>5, <1>6, <1>7, <1>8 DEF Sound, OutcomeInv

\* The treasurer settles an attempt in doubt, which no scan holds: one that has read it
\* goes by its copy, and leaves it alone.
LEMMA TreasurerSound ==
    ASSUME IndInv, OutcomeInv, NEW a \in Attempts, TreasurerStep(a)
    PROVE  Sound
<1>0. PICK p : p = att[a].payment
  OBVIOUS
<1>1. /\ InDoubt(a) /\ prov' = prov /\ net' = net /\ scan' = scan /\ lock' = lock
      /\ att \in [Attempts -> AttemptRow] /\ pay \in [Payments -> PaymentRow]
  BY DEF TreasurerStep, SettlePaid, SettleReleased, SettleFailed, provider, IndInv, TypeOK
<1>2. /\ att[a].in_doubt /\ att[a].outcome = "scheduled" /\ p \in Payments /\ ~Reliable
      /\ AttFine(a)
  BY <1>0, <1>1 DEF InDoubt, OutcomeInv, AttFine, AttemptRow
<1>3. pay[p].owner = a /\ Live(p) /\ PayFine(p)
  BY <1>0, <1>2 DEF OutcomeInv, Own
<1>4. PICK o \in {"scheduled", "succeeded", "failed"} :
        att' = [att EXCEPT ![a] = [Settled(@) EXCEPT !.outcome = o]]
  <2>1. Settled(att[a]) = [Settled(att[a]) EXCEPT !.outcome = "scheduled"]
    BY <1>1, <1>2 DEF Settled, AttemptRow
  <2> QED
    BY <2>1 DEF TreasurerStep, SettlePaid, SettleReleased, SettleFailed
<1>5. /\ \A b \in Attempts \ {a} : att'[b] = att[b]
      /\ att'[a].payment = p /\ att'[a].outcome = o /\ att'[a].in_doubt = FALSE
  BY <1>0, <1>1, <1>4 DEF Settled, AttemptRow
<1>6. /\ \A q \in Payments \ {p} : pay'[q] = pay[q]
      /\ pay'[p].owner = a
      /\ \/ SettlePaid(a) /\ pay'[p].status = "succeeded" /\ prov[p].charge = "taken"
         \/ /\ SettleReleased(a) /\ pay'[p].status = pay[p].status /\ pay'[p].sent = "no"
            /\ pay[p].status # "succeeded"
         \/ SettleFailed(a) /\ pay'[p].status = "failed" /\ pay[p].status # "succeeded"
  <2>1. CASE SettlePaid(a)
    BY <1>0, <1>1, <1>2, <1>3, <2>1, ZenonT(60) DEF SettlePaid, Succeeds, PaymentRow
  <2>2. CASE SettleReleased(a)
    BY <1>0, <1>1, <1>2, <1>3, <2>2 DEF SettleReleased, PaymentRow
  <2>3. CASE SettleFailed(a)
    BY <1>0, <1>1, <1>2, <1>3, <2>3 DEF SettleFailed, Failed, PaymentRow
  <2> QED
    BY <2>1, <2>2, <2>3 DEF TreasurerStep
<1>7. /\ SettlePaid(a) => att'[a].outcome = "succeeded"
      /\ SettleReleased(a) => att'[a].outcome = "scheduled"
      /\ SettleFailed(a) => att'[a].outcome = "failed"
  <2>1. /\ Settled(att[a]).outcome = "scheduled"
        /\ [Settled(att[a]) EXCEPT !.outcome = "succeeded"].outcome = "succeeded"
        /\ [Settled(att[a]) EXCEPT !.outcome = "failed"].outcome = "failed"
    BY <1>1, <1>2 DEF Settled, AttemptRow
  <2>2. SettlePaid(a) => att'[a] = [Settled(att[a]) EXCEPT !.outcome = "succeeded"]
    BY <1>1 DEF SettlePaid
  <2>3. SettleReleased(a) => att'[a] = Settled(att[a])
    BY <1>1 DEF SettleReleased
  <2>4. SettleFailed(a) => att'[a] = [Settled(att[a]) EXCEPT !.outcome = "failed"]
    BY <1>1 DEF SettleFailed
  <2> QED
    BY <2>1, <2>2, <2>3, <2>4
<1>8. AttFine(a)' /\ Kept(a)
  BY <1>0, <1>2, <1>5, <1>6, <1>7 DEF AttFine, Kept
<1>9. PayFine(p)' /\ Live(p)'
  BY <1>1, <1>3, <1>6 DEF PayFine, Live
<1>10. \A s \in Scans : Grasp(s)'
  <2> SUFFICES ASSUME NEW s \in Scans, scan[s].pc # "idle"
               PROVE  Grasp(s)'
    BY <1>1 DEF Grasp, Claimed
  <2>1. Grasp(s) /\ scan[s] \in ScanState
    BY AtWork DEF OutcomeInv
  <2>2. scan[s].pc \notin {"notice", "read"} => scan[s].a \in Attempts
    BY AtWork
  <2>3. ASSUME scan[s].pc \in {"charge", "claim"} PROVE Reading(s)'
    <3>1. Reading(s)
      BY <2>1, <2>3 DEF Grasp
    <3>2. CASE scan[s].a # a
      BY <1>1, <1>5, <2>2, <2>3, <3>1, <3>2 DEF Reading
    <3>3. CASE scan[s].a = a
      <4>1. scan[s].in_doubt /\ scan[s].pc = "charge" /\ scan[s].p = p
        BY <1>0, <1>2, <2>3, <3>1, <3>3 DEF Reading
      <4> QED
        BY <1>1, <1>5, <3>1, <3>3, <4>1 DEF Reading
    <3> QED
      BY <3>2, <3>3
  <2>4. ASSUME scan[s].pc \in Claimed PROVE Holding(s)'
    <3>1. Holding(s) /\ scan[s].a \in Attempts
      BY <2>1, <2>2, <2>4 DEF Grasp, Claimed
    <3>2. scan[s].a # a
      BY <1>2, <3>1 DEF Holding
    <3>3. scan[s].pc = "success" => scan[s].p \in Payments
      BY <2>1, <3>1 DEF Holding, ScanState
    <3> QED
      BY <1>1, <1>5, <1>6, <3>1, <3>2, <3>3 DEF Holding
  <2>5. scan[s].pc = "flag" => att'[scan[s].a].outcome # "none"
    BY <1>5, <2>1, <2>2 DEF Grasp
  <2>6. scan[s].pc = "decline" => scan[s].p # None /\ att'[scan[s].a].payment = scan[s].p
    BY <1>0, <1>5, <2>1, <2>2 DEF Grasp
  <2> QED
    BY <1>1, <2>3, <2>4, <2>5, <2>6 DEF Grasp
<1>11. Alone' /\ \A s \in Scans : Quiet(s)'
  BY <1>1 DEF OutcomeInv, Alone, Quiet
<1> QED
  BY <1>0, <1>1, <1>2, <1>3, <1>5, <1>6, <1>8, <1>9, <1>10, <1>11, PaymentSound

\* A dead scan's claim ages: it is no live scan's.
LEMMA StaleSound ==
    ASSUME IndInv, OutcomeInv, NEW a \in Attempts, ClaimGoesStale(a)
    PROVE  Sound
<1>1. /\ att' = [att EXCEPT ![a].claim = Stale] /\ scan' = scan /\ lock' = lock
      /\ pay' = pay /\ prov' = prov /\ net' = net
      /\ att[a].claim = Dead /\ att[a].outcome = "scheduled"
      /\ att \in [Attempts -> AttemptRow]
  BY DEF ClaimGoesStale, provider, IndInv, TypeOK
<1>2. /\ \A b \in Attempts \ {a} : att'[b] = att[b]
      /\ att'[a].payment = att[a].payment /\ att'[a].outcome = att[a].outcome
      /\ att'[a].in_doubt = att[a].in_doubt
  BY <1>1 DEF AttemptRow
<1>3. AttFine(a)' /\ Kept(a)
  BY <1>1, <1>2 DEF OutcomeInv, AttFine, Kept
<1>4. ASSUME NEW s \in Scans
      PROVE  Grasp(s)'
  <2>1. Grasp(s)
    BY DEF OutcomeInv
  <2>2. scan[s].pc \in {"charge", "claim", "flag", "decline"} \cup Claimed => scan[s].a \in Attempts
    BY AtWork DEF Claimed
  <2>3. scan[s].pc \in {"charge", "claim"} => Reading(s)'
    BY <1>1, <1>2, <2>1, <2>2 DEF Grasp, Reading
  <2>4. ASSUME scan[s].pc \in Claimed PROVE Holding(s)'
    <3>1. Holding(s) /\ scan[s].a # a /\ scan[s].a \in Attempts
      BY <1>1, <2>1, <2>2, <2>4, ClaimAssumption DEF Grasp, Holding
    <3> QED
      BY <1>1, <1>2, <3>1 DEF Holding
  <2> QED
    BY <1>1, <1>2, <2>1, <2>2, <2>3, <2>4 DEF Grasp
<1>5. Alone' /\ \A s \in Scans : Quiet(s)'
  BY <1>1 DEF OutcomeInv, Alone, Quiet
<1> QED
  BY <1>1, <1>2, <1>3, <1>4, <1>5, AttemptSound

\* A cancellation skips what carries no payment; the rest of what the member does
\* touches the mandate and the coverage only.
LEMMA MemberSound ==
    ASSUME IndInv, OutcomeInv, MemberStep
    PROVE  Sound
<1>1. scan' = scan /\ lock' = lock /\ pay' = pay /\ prov' = prov /\ net' = net
  BY DEF MemberStep, CancelMandate, BeginMandate, SaveMethod, RenewByHand, provider
<1>2. att \in [Attempts -> AttemptRow]
  BY DEF IndInv, TypeOK
<1>3. ASSUME NEW a \in Attempts
      PROVE  /\ att'[a].payment = att[a].payment /\ att'[a].claim = att[a].claim
             /\ att'[a].in_doubt = att[a].in_doubt
             /\ att'[a] = att[a] \/ (att[a].outcome = "scheduled" /\ att'[a].outcome = "skipped")
  BY <1>2 DEF MemberStep, CancelMandate, BeginMandate, SaveMethod, RenewByHand, AttemptRow
<1>4. \A a \in Attempts : AttFine(a)'
  BY <1>1, <1>3 DEF OutcomeInv, AttFine
<1>5. \A p \in Payments : PayFine(p)'
  BY <1>1 DEF OutcomeInv, PayFine
<1>6. Own'
  BY <1>1, <1>3 DEF OutcomeInv, Own, Live
<1>7. \A a \in Attempts : Kept(a)
  BY <1>3 DEF Kept
<1>8. \A s \in Scans : Grasp(s)'
  BY <1>1, <1>3, GraspStays
<1>9. Alone' /\ \A s \in Scans : Quiet(s)'
  BY <1>1 DEF OutcomeInv, Alone, Quiet
<1> QED
  BY <1>4, <1>5, <1>6, <1>7, <1>8, <1>9 DEF Sound, OutcomeInv


-----------------------------------------------------------------------------
(* The theorems about outcomes. *)

\* There are no closed attempts and no charges at the start.
LEMMA OutcomeInit == Init => OutcomeInv
<1> SUFFICES ASSUME Init PROVE OutcomeInv
  OBVIOUS
<1>1. Resting.pc = "idle"
  BY DEF Resting
<1>2. \A s \in Scans : scan[s].pc = "idle"
  BY <1>1 DEF Init
<1>3. Alone /\ \A s \in Scans : Grasp(s) /\ Quiet(s)
  BY <1>2 DEF Alone, Grasp, Quiet, Claimed, BeforeSending
<1>4. \A a \in Attempts : att[a] = Unwritten
  BY DEF Init
<1>5. Unwritten.outcome = "none" /\ Unwritten.payment = None /\ Unwritten.in_doubt = FALSE
  BY DEF Unwritten
<1>6. \A a \in Attempts : AttFine(a)
  BY <1>4, <1>5 DEF AttFine
<1>7. \A p \in Payments : /\ pay[p].status = "none" /\ net[p] = "idle"
  BY DEF Init
<1>8. \A p \in Payments : PayFine(p)
  BY <1>7 DEF PayFine
<1>9. Own
  BY <1>4, <1>5, <1>7, BoundAssumption DEF Own, Live, Payments
<1> QED
  BY <1>3, <1>6, <1>8, <1>9 DEF OutcomeInv

\* Every step keeps it, and no step rewrites what is closed.
LEMMA OutcomeStep ==
    ASSUME IndInv, OutcomeInv, Next
    PROVE  Sound
<1>1. ASSUME NEW s \in Scans, ScanStep(s)
      PROVE  Sound
  BY <1>1, StartSound, NoticeSound, MoveSound, ReadSound, EndSound, FlagSound, LetGoSound,
     SkipSound, ClaimSound, AfterClaimSound, CreateSound, PutOffSound, SendSound, AnswerSound,
     UnansweredSound, RefusalSound, ChargeAgainSound, ThrowAwaySound, RecordSound, DeclineSound, RetrySound
     DEF ScanStep
<1>2. ASSUME NEW p \in Payments, ProviderStep(p)
      PROVE  Sound
  BY <1>2, ProcessSound, WireSound, WebhookSound DEF ProviderStep
<1> QED
  BY <1>1, <1>2, CrashSound, TreasurerSound, StaleSound, MemberSound DEF Next

\* Every step keeps the outcome invariant.
LEMMA OutcomeStays == IndInv /\ OutcomeInv /\ [Next]_vars => OutcomeInv'
<1>1. CASE UNCHANGED vars
  BY <1>1 DEF vars, OutcomeInv, Alone, AttFine, PayFine, Own, Live, Grasp, Reading, Holding,
     Quiet
<1>2. ASSUME IndInv, OutcomeInv, Next
      PROVE  OutcomeInv'
  BY <1>2, OutcomeStep DEF Sound
<1> QED
  BY <1>1, <1>2

\* What the recorded outcomes rest on holds throughout every behaviour.
THEOREM OutcomeInvariance == Spec => [](IndInv /\ OutcomeInv)
BY Invariance, OutcomeInit, OutcomeStays, PTL DEF Spec

\* An attempt recorded as succeeded carries a payment that is marked paid and whose money
\* the provider took once, with either provider (_record_success, settle_in_doubt).
THEOREM SuccessIsPaid == Spec => []SucceededMeansTaken
<1>1. IndInv /\ OutcomeInv => SucceededMeansTaken
  <2> SUFFICES ASSUME IndInv, OutcomeInv, NEW a \in Attempts, att[a].outcome = "succeeded"
               PROVE  /\ att[a].payment # None
                      /\ pay[att[a].payment].status = "succeeded"
                      /\ prov[att[a].payment].taken = 1
    BY DEF SucceededMeansTaken
  <2>1. att[a].payment # None /\ pay[att[a].payment].status = "succeeded"
    BY DEF OutcomeInv, AttFine
  <2>2. att[a].payment \in Payments
    BY <2>1 DEF IndInv, TypeOK, AttemptRow
  <2>3. prov[att[a].payment].charge = "taken"
    BY <2>1, <2>2 DEF OutcomeInv, PayFine
  <2> QED
    BY <2>1, <2>2, <2>3 DEF IndInv, MoneyInv, Money
<1> QED
  BY <1>1, OutcomeInvariance, PTL

\* No late answer, stale copy or second settlement rewrites a closed attempt, and no scan
\* lifts the hold of a charge in doubt by itself (_close, _finish, settle_in_doubt).
THEOREM ClosedAttemptsStayClosed == Spec => ClosedStaysClosed
<1>1. IndInv /\ OutcomeInv /\ [Next]_vars => [\A a \in Attempts : Kept(a)]_vars
  BY OutcomeStep DEF Sound
<1>2. [\A a \in Attempts : Kept(a)]_vars =>
         [\A a \in Attempts :
            /\ att[a].outcome \in {"succeeded", "failed", "skipped"} =>
                   att'[a].outcome = att[a].outcome
            /\ att[a].in_doubt /\ ~att'[a].in_doubt =>
                   \/ att'[a].outcome # "scheduled"
                   \/ pay'[att[a].payment].status = "succeeded"
                   \/ pay'[att[a].payment].sent = "no"]_vars
  BY DEF Kept
<1> QED
  BY <1>1, <1>2, OutcomeInvariance, PTL DEF Spec, ClosedStaysClosed

\* The payments an attempt was charged for: only the one it carries, where a payment
\* thrown away was never sent.
LEMMA OnlyItsOwn ==
    ASSUME IndInv, OutcomeInv, Reliable, NEW a \in Attempts
    PROVE  TakenFor(a) \subseteq {att[a].payment}
<1> SUFFICES ASSUME NEW p \in Payments, pay[p].owner = a, prov[p].taken > 0
             PROVE  p = att[a].payment
  BY DEF TakenFor
<1>1. prov[p].charge \in Money
  BY DEF IndInv, MoneyInv
<1>2. pay[p].status # "deleted"
  BY <1>1 DEF OutcomeInv, PayFine, Money
<1>3. pay[p].status # "none"
  BY <1>1 DEF IndInv, Unheard, MoneyInv, Money
<1> QED
  BY <1>2, <1>3 DEF OutcomeInv, Own, Live

\* With Stripe, whose requests end before the next scan starts, an attempt never costs the
\* member two charges, however often its payment is thrown away and written afresh.
THEOREM AttemptsChargedOnce ==
    ASSUME Provider = "stripe", ~LateRequests
    PROVE  Spec => []OneChargePerAttempt
<1>1. IndInv /\ OutcomeInv => OneChargePerAttempt
  <2> SUFFICES ASSUME IndInv, OutcomeInv, NEW a \in Attempts
               PROVE  Cardinality(TakenFor(a)) <= 1
    BY DEF OneChargePerAttempt
  <2>1. TakenFor(a) \subseteq {att[a].payment}
    BY OnlyItsOwn DEF Reliable
  <2>2. IsFiniteSet({att[a].payment}) /\ Cardinality({att[a].payment}) = 1
    BY FS_Singleton
  <2>3. IsFiniteSet(TakenFor(a)) /\ Cardinality(TakenFor(a)) <= Cardinality({att[a].payment})
    BY <2>1, <2>2, FS_Subset
  <2> QED
    BY <2>2, <2>3
<1> QED
  BY <1>1, OutcomeInvariance, PTL

\* With Stripe, whose requests end before the next scan starts, money that was taken always
\* has its payment row: what _postpone(discard) and charge() delete was never sent.
THEOREM TakenMoneyHasPayment ==
    ASSUME Provider = "stripe", ~LateRequests
    PROVE  Spec => []MoneyHasPayment
<1>1. IndInv /\ OutcomeInv => MoneyHasPayment
  BY DEF IndInv, MoneyInv, OutcomeInv, PayFine, MoneyHasPayment, Reliable, Money
<1> QED
  BY <1>1, OutcomeInvariance, PTL

\* With Stripe, whose requests end before the next scan starts, an attempt recorded as
\* failed never had its money taken (create_renewal_order, renewal_refusal).
THEOREM DeclinedMoneyUntaken ==
    ASSUME ~LateRequests
    PROVE  Spec => []DeclinedMeansUntaken
<1>1. IndInv /\ OutcomeInv => DeclinedMeansUntaken
  <2> SUFFICES ASSUME IndInv, OutcomeInv, Provider = "stripe", NEW a \in Attempts,
                      att[a].outcome = "failed"
               PROVE  TakenFor(a) = {}
    BY DEF DeclinedMeansUntaken
  <2>1. TakenFor(a) \subseteq {att[a].payment}
    BY OnlyItsOwn DEF Reliable
  <2>2. att[a].payment # None /\ prov[att[a].payment].charge = "declined"
    BY DEF OutcomeInv, AttFine, Reliable
  <2>3. att[a].payment \in Payments
    BY <2>2 DEF IndInv, TypeOK, AttemptRow
  <2>4. prov[att[a].payment].taken = 0
    BY <2>2, <2>3 DEF IndInv, MoneyInv, Money
  <2>5. att[a].payment \notin TakenFor(a)
    BY <2>4 DEF TakenFor
  <2> QED
    BY <2>1, <2>5
<1> QED
  BY <1>1, OutcomeInvariance, PTL
=============================================================================
