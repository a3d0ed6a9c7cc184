--------------------------- MODULE BulkEmailProofs ---------------------------
(***************************************************************************)
(* Proofs about BulkEmail for any number of people, processes, rounds of   *)
(* reminders and incidents.                                                *)
(*                                                                         *)
(* BulkInv is the inductive invariant.  The properties say what the rows,  *)
(* the log and the counts show to the portal; a step of the sender keeps   *)
(* them only because of what it knows between two of its writes, and that  *)
(* is what the invariant adds:                                             *)
(*   - a log entry that shows a copy gone is the one its row names, and    *)
(*     the row went or is still pending (LogInv); two rows of one round    *)
(*     that went or will go have different addresses (Apart);              *)
(*   - a pending row whose copy went (Left) exists only while the email is *)
(*     being sent, and the run that sends has it in its recovery list or   *)
(*     is about to record it (NothingLeft, Holding);                       *)
(*   - the counts agree with the rows but for bounces since (Agree), when  *)
(*     the email rests and in the tally a run is about to commit;          *)
(*   - one process at a time is inside run_sender (Working).               *)
(*                                                                         *)
(* What recheck_rows queues again depends on the order it takes the rows   *)
(* in; that this order defines a set at all (TurnsExist) is an induction   *)
(* over the rows, done by taking a least number of rows with no answer.    *)
(***************************************************************************)
EXTENDS BulkEmail, FiniteSetTheorems, SequenceTheorems, WellFoundedInduction, TLAPS

-----------------------------------------------------------------------------
(* The invariant. *)

\* The values a row, an entry and a worker's record take.
Statuses == {"none", "batched", "pending", "sent", "failed", "skipped", "bounced", "stopped"}
WentOut == {"sent", "bounced"}
Counts == [sent: Nat, failed: Nat, skipped: Nat, bounced: Nat]
\* Where a run can be: recovering, with a copy in hand, or anywhere between its claim
\* and its last commit.
Recover == {"recover", "bounce"}
InHand == {"paced", "handover", "taken", "record"}
SendingPC == {"send", "loop", "count", "stop", "finish"} \cup Recover \cup InHand
Job == [pc: {"idle", "claim"} \cup SendingPC, todo: SUBSET Keys,
        went: SUBSET (Keys \X WentOut), key: Keys \cup {<<0, 0>>},
        out: {"none", "sent", "failed", "skipped"},
        next: {"none", "recover", "bounce", "loop", "claim"}, tries: Nat, tally: Counts]

\* The types of the variables that the properties depend on.
EmailType == email \in [status: {"draft", "queued", "sending", "sent", "stopped", "deleted"},
                        started: BOOLEAN, due: BOOLEAN, stop: BOOLEAN, typed: SUBSET People]
RowType == row \in [Keys -> [st: Statuses, mid: Nat]]
EntryStatuses == {"saved", "taken", "sent", "failed", "bounced"}
Entry == [key: Keys, st: EntryStatuses]
LogType == log \in Seq(Entry)
JobType == job \in [Workers -> Job]
CountType == count \in Counts
BulkTypes == EmailType /\ RowType /\ LogType /\ JobType /\ CountType /\ late \in Nat

\* Which statuses a row may have while the email has not started and after.
Allowed(k) ==
    /\ ~email.started => row[k].st \in {"none", "batched"} /\ (Round(k) > 0 => row[k].st = "none")
    /\ email.started => row[k].st # "batched"
    /\ email.started /\ email.status # "stopped" => row[k].st # "stopped"
    /\ email.status \in {"sent", "stopped"} => row[k].st # "pending"

\* The email's status and whether it has started.
Standing ==
    /\ email.status \in {"sending", "sent", "stopped"} => email.started
    /\ email.started => email.status \in {"queued", "sending", "sent", "stopped"}
    /\ ~email.started => log = <<>>
    /\ \A k \in Keys : Allowed(k)

\* Counts c are the rows', but for bounces reported since they were taken.
Agree(c) ==
    /\ c.sent + c.bounced = CountOf(row, "sent") + CountOf(row, "bounced")
    /\ c.sent >= CountOf(row, "sent")
    /\ c.failed = CountOf(row, "failed")
    /\ c.skipped = CountOf(row, "skipped")

\* A started email that is not being sent has its counts right.
CountsKept == email.started /\ email.status # "sending" => Agree(count)

\* The Message-ID of a row is one of its own; an entry that shows a copy gone is its
\* row's last, and the row went or is still pending.
Named(k) == row[k].mid # 0 => row[k].mid \in 1 .. Len(log) /\ log[row[k].mid].key = k
Logged(m) == log[m].st \in WentOut => /\ row[log[m].key].mid = m
                                      /\ row[log[m].key].st \in WentOut \cup {"pending"}
\* The rows that went or will go, which is at most one for each address and round.
Live(k) == row[k].st \in {"sent", "bounced", "pending"}
Apart == \A j, k \in Keys : j # k /\ Round(j) = Round(k) /\ Live(j) /\ Live(k)
                              => addr[Person(j)] # addr[Person(k)]
LogInv == (\A k \in Keys : Named(k)) /\ \A m \in 1 .. Len(log) : Logged(m)

\* A pending row whose copy the log shows gone: what a dead run leaves behind.
Left(k) == row[k].st = "pending" /\ row[k].mid # 0 /\ log[row[k].mid].st \in WentOut

\* Only an email being sent has such rows.
NothingLeft == email.status # "sending" => \A k \in Keys : ~Left(k)

\* A run goes through the copies it recovers, then through the rows it sends.
Recovering(j) == j.pc \in Recover \/ (j.pc = "count" /\ j.next \in Recover)
Looping(j) == j.pc \in {"loop"} \cup InHand \/ (j.pc = "count" /\ j.next \in {"loop", "claim"})

\* Where a worker is, what of it is meaningful, and that it holds the advisory lock.
Working(w) ==
    LET j == job[w] IN
    /\ j.pc # "idle" => lock = w
    /\ j.pc \in SendingPC => email.status = "sending"
    /\ j.pc = "count" => j.next # "none" /\ j.out # "none"
    /\ j.pc = "record" => j.next \in {"loop", "claim"} /\ j.out \in {"sent", "failed"}
    /\ j.pc \in {"claim", "send"} \/ Recovering(j) => j.todo = {}
    /\ j.pc \in {"claim", "send"} \/ Looping(j) => j.went = {}
    /\ j.pc \in InHand => j.key \in j.todo

\* What a worker has in its hands is still true of the rows.
Holding(w) ==
    LET j == job[w] IN
    /\ Recovering(j) => /\ \A e \in j.went : /\ row[e[1]].st = "pending"
                                             /\ \A f \in j.went : f[1] = e[1] => f = e
                        /\ \A k \in Keys : Left(k) => \E e \in j.went : e[1] = k
    /\ Looping(j) => /\ \A k \in j.todo : row[k].st = "pending"
                     /\ \A k \in Keys : Left(k) => j.pc = "record" /\ j.out = "sent" /\ k = j.key
    /\ j.pc \in {"handover", "taken"} => row[j.key].mid # 0
    /\ j.pc \in {"stop", "finish"} => Agree(j.tally) /\ \A k \in Keys : ~Left(k)
    /\ j.pc = "finish" => \A k \in Keys : row[k].st # "pending"

\* The one late copy was in the sender's hands when the callout closed.
OnTime ==
    /\ late <= 1
    /\ callout # "closed" \/ ~email.started => late = 0
    /\ late = 1 => \A w \in Workers : job[w].pc # "handover"

BulkInv == /\ BulkTypes /\ Standing /\ CountsKept /\ LogInv /\ Apart /\ NothingLeft
           /\ (\A w \in Workers : Working(w)) /\ (\A w \in Workers : Holding(w)) /\ OnTime /\ ConfirmedBatch

-----------------------------------------------------------------------------
(* Least and last elements. *)

\* A set of numbers that is not empty has a least member.
LEMMA LeastExists ==
    ASSUME NEW T \in SUBSET Nat, T # {}
    PROVE  \E x \in T : \A y \in T : x <= y
<1>0. T \subseteq Nat
  OBVIOUS
<1>1. PICK x \in T : \A y \in T : ~(<<y, x>> \in OpToRel(<, Nat))
  BY <1>0, NatLessThanWellFounded, WFMin
<1>2. \A y \in T : <<y, x>> \in OpToRel(<, Nat) <=> y < x
  BY DEF OpToRel
<1>3. \A y \in T : x \in Nat /\ y \in Nat
  OBVIOUS
<1>4. \A y \in T : ~(y < x)
  BY <1>1, <1>2
<1>5. \A y \in T : x <= y
  BY <1>3, <1>4
<1> QED
  BY <1>5

\* A finite set of numbers that is not empty has a greatest member.
LEMMA GreatestExists ==
    ASSUME NEW n \in Nat, NEW T \in SUBSET (0 .. n), T # {}
    PROVE  \E x \in T : \A y \in T : y <= x
<1> DEFINE U == {n - y : y \in T}
<1>0. \A y \in T : y \in Nat /\ y <= n
  <2> TAKE y \in T
  <2>1. y \in 0 .. n
    OBVIOUS
  <2> QED
    BY <2>1
<1>1. U \in SUBSET Nat /\ U # {}
  <2>1. \A y \in T : n - y \in Nat
    BY <1>0
  <2>2. \A u \in U : u \in Nat
    BY <2>1
  <2>3. PICK y \in T : TRUE
    OBVIOUS
  <2>4. n - y \in U
    BY <2>3
  <2> QED
    BY <2>2, <2>4
<1>2. PICK u \in U : \A z \in U : u <= z
  <2> HIDE DEF U
  <2> QED BY <1>1, LeastExists
<1>3. PICK x \in T : u = n - x
  BY <1>2
<1>4. \A y \in T : n - x <= n - y
  BY <1>2, <1>3
<1>5. \A y \in T : y <= x
  BY <1>0, <1>4
<1> QED
  BY <1>5

\* A key is its round and its person.
LEMMA RoundPerson ==
    \A k \in Keys : Round(k) \in Rounds /\ Round(k) \in Nat /\ Person(k) \in People
                    /\ Person(k) \in Nat /\ k = <<Round(k), Person(k)>>
<1> SUFFICES ASSUME NEW k \in Keys
             PROVE  Round(k) \in Rounds /\ Round(k) \in Nat /\ Person(k) \in People
                    /\ Person(k) \in Nat /\ k = <<Round(k), Person(k)>>
  OBVIOUS
<1>1. Round(k) \in Rounds /\ Person(k) \in People /\ k = <<Round(k), Person(k)>>
  BY DEF Keys, Round, Person
<1>2. Rounds \subseteq Nat /\ People \subseteq Nat
  BY BulkAssumption DEF Rounds
<1> QED
  BY <1>1, <1>2

\* An email has finitely many rows.
LEMMA KeysFinite == IsFiniteSet(Keys)
<1>1. IsFiniteSet(Rounds)
  BY BulkAssumption, FS_Interval DEF Rounds
<1> QED
  BY <1>1, BulkAssumption, FS_Product DEF Keys

\* Every pending copy that is listed can be the next one taken in hand.
LEMMA FirstOfIn ==
    ASSUME NEW S \in SUBSET Keys, S # {}
    PROVE  FirstOf(S) \in S
<1> DEFINE T == {Person(j) : j \in S}
           U(p) == {Round(j) : j \in {i \in S : Person(i) = p}}
<1>1. T \subseteq Nat /\ T # {}
  BY RoundPerson
<1>2. PICK p \in T : \A q \in T : p <= q
  <2> HIDE DEF T
  <2> QED BY <1>1, LeastExists
<1>3. U(p) \subseteq Nat /\ U(p) # {}
  BY RoundPerson, <1>2
<1>4. PICK r \in U(p) : \A t \in U(p) : r <= t
  <2> HIDE DEF U
  <2> QED BY <1>3, LeastExists
<1>5. PICK k \in S : Person(k) = p /\ Round(k) = r
  BY <1>4
<1>6. ASSUME NEW j \in S \ {k}
      PROVE  Person(k) < Person(j) \/ (Person(k) = Person(j) /\ Round(k) < Round(j))
  <2>1. Person(k) <= Person(j)
    BY <1>2, <1>5
  <2>2. Person(k) = Person(j) => Round(k) <= Round(j)
    BY <1>4, <1>5
  <2>3. Person(k) = Person(j) => Round(k) # Round(j)
    <3>1. j \in Keys /\ k \in Keys /\ j # k
      OBVIOUS
    <3> QED BY <3>1, RoundPerson
  <2>4. j \in Keys /\ k \in Keys
    OBVIOUS
  <2>5. Person(k) \in Nat /\ Person(j) \in Nat /\ Round(k) \in Nat /\ Round(j) \in Nat
    BY <2>4, RoundPerson
  <2> QED
    BY <2>1, <2>2, <2>3, <2>5
<1>7. \E i \in S : \A j \in S \ {i} :
         Person(i) < Person(j) \/ (Person(i) = Person(j) /\ Round(i) < Round(j))
  BY <1>6
<1> QED
  BY <1>7 DEF FirstOf

\* The rounds of an email end: no row lies past the last of them.
LEMMA LastRoundIsLast ==
    ASSUME \A k \in Keys : row[k].st \in Statuses
    PROVE  LastRound \in Rounds /\ \A k \in Keys : Round(k) > LastRound => row[k].st = "none"
<1>1. CASE \E k \in Keys : Round(k) > 0 /\ row[k].st # "none"
  <2> DEFINE T == {r \in Rounds : \E p \in People : row[<<r, p>>].st # "none"}
  <2>1. PICK i \in Keys : Round(i) > 0 /\ row[i].st # "none"
    BY <1>1
  <2>2. Round(i) \in T
    BY <2>1, RoundPerson
  <2>3. T \subseteq 0 .. MaxRound /\ T # {} /\ MaxRound \in Nat
    BY <2>2, BulkAssumption DEF Rounds
  <2>4. PICK r \in T : \A y \in T : y <= r
    <3> HIDE DEF T
    <3> QED BY <2>3, GreatestExists
  <2>5. ASSUME NEW k \in Keys, Round(k) > r PROVE row[k].st = "none"
    <3>1. Round(k) \in T => Round(k) <= r
      <4> HIDE DEF T
      <4> QED BY <2>4
    <3>2. Round(k) \in Nat /\ r \in Nat /\ Round(k) \in Rounds
      <4>1. r \in Nat
        <5> HIDE DEF T
        <5> QED BY <2>3
      <4> QED
        BY <4>1, RoundPerson
    <3>3. Round(k) \notin T
      <4> HIDE DEF T
      <4> QED BY <3>1, <3>2, <2>5
    <3>4. Person(k) \in People /\ row[<<Round(k), Person(k)>>] = row[k]
      BY RoundPerson
    <3>5. ~ \E p \in People : row[<<Round(k), p>>].st # "none"
      BY <3>2, <3>3
    <3> QED
      BY <3>4, <3>5
  <2>6. \E q \in Rounds : /\ \E p \in People : row[<<q, p>>].st # "none"
                          /\ \A k \in Keys : Round(k) > q => row[k].st = "none"
    BY <2>4, <2>5
  <2>7. LastRound = CHOOSE q \in Rounds : /\ \E p \in People : row[<<q, p>>].st # "none"
                                          /\ \A k \in Keys : Round(k) > q => row[k].st = "none"
    BY <1>1 DEF LastRound
  <2> QED
    BY <2>6, <2>7
<1>2. CASE ~ \E k \in Keys : Round(k) > 0 /\ row[k].st # "none"
  BY <1>2, BulkAssumption DEF LastRound, Rounds
<1> QED
  BY <1>1, <1>2

-----------------------------------------------------------------------------
(* What is queued again. *)

\* recheck_rows takes the rows one after the other.
LEMMA BeforeIsOrder ==
    \A i, j, k \in Keys : /\ ~Before(i, i)
                          /\ Before(i, j) /\ Before(j, k) => Before(i, k)
                          /\ i = j \/ Before(i, j) \/ Before(j, i)
<1> SUFFICES ASSUME NEW i \in Keys, NEW j \in Keys, NEW k \in Keys
             PROVE  /\ ~Before(i, i)
                    /\ Before(i, j) /\ Before(j, k) => Before(i, k)
                    /\ i = j \/ Before(i, j) \/ Before(j, i)
  OBVIOUS
<1>1. /\ Round(i) \in Nat /\ Round(j) \in Nat /\ Round(k) \in Nat
      /\ Person(i) \in Nat /\ Person(j) \in Nat /\ Person(k) \in Nat
  BY RoundPerson
<1>2. Round(i) = Round(j) /\ Person(i) = Person(j) => i = j
  BY RoundPerson
<1> QED
  BY <1>1, <1>2 DEF Before

\* Some row of a finite set is taken last.
LEMMA LastInTurn ==
    ASSUME NEW T \in SUBSET Keys, T # {}
    PROVE  \E k \in T : \A j \in T : ~Before(k, j)
<1> DEFINE Endless(U) == U # {} /\ \A k \in U : \E j \in U : Before(k, j)
           Sizes == {n \in Nat : \E U \in SUBSET Keys : Endless(U) /\ Cardinality(U) = n}
<1>1. \A U \in SUBSET Keys : IsFiniteSet(U) /\ Cardinality(U) \in Nat
  BY KeysFinite, FS_Subset, FS_CardinalityType
<1>2. SUFFICES ASSUME Endless(T) PROVE FALSE
  OBVIOUS
<1>3. Sizes # {}
  BY <1>1, <1>2
<1>4. PICK n \in Sizes : \A m \in Sizes : n <= m
  <2>1. Sizes \in SUBSET Nat
    OBVIOUS
  <2> HIDE DEF Sizes
  <2> QED BY <1>3, <2>1, LeastExists
<1>5. PICK U \in SUBSET Keys : Endless(U) /\ Cardinality(U) = n
  OBVIOUS
<1>6. PICK x \in U : TRUE
  BY <1>5
<1> DEFINE V == U \ {x}
<1>7. V \in SUBSET Keys /\ Cardinality(V) = n - 1
  BY <1>1, <1>5, <1>6, FS_RemoveElement
<1>8. ~Endless(V)
  <2>1. Cardinality(V) \in Nat
    BY <1>1, <1>7
  <2>2. Endless(V) => Cardinality(V) \in Sizes
    BY <2>1, <1>7
  <2>3. Endless(V) => n <= n - 1
    BY <2>2, <1>4, <1>7
  <2>4. n \in Nat
    BY <1>4
  <2> QED
    BY <2>3, <2>4
<1>9. PICK z \in U : Before(x, z)
  BY <1>5, <1>6
<1>10. z \in V
  BY <1>9, BeforeIsOrder
<1>11. PICK y \in V : \A j \in V : ~Before(y, j)
  BY <1>8, <1>10
<1>12. PICK j \in U : Before(y, j)
  BY <1>5, <1>11
<1>13. j = x
  BY <1>11, <1>12
<1>14. Before(y, z)
  BY <1>9, <1>12, <1>13, BeforeIsOrder
<1> QED
  BY <1>10, <1>11, <1>14

\* Whatever rows are asked, there is exactly one way to answer them in turn; so the rows
\* that Requeued names are the ones the loop of recheck_rows queues.
InTurn(S, again) ==
    /\ again \in SUBSET S
    /\ \A k \in S : k \in again <=> MayGoAgain({j \in again : Before(j, k)}, k)

\* For every set of rows there is the set that recheck_rows queues again.
LEMMA TurnsExist ==
    ASSUME NEW S \in SUBSET Keys
    PROVE  \E again : InTurn(S, again)
<1> DEFINE Stuck(U) == \A again : ~InTurn(U, again)
           Sizes == {n \in Nat : \E U \in SUBSET Keys : Stuck(U) /\ Cardinality(U) = n}
<1>1. \A U \in SUBSET Keys : IsFiniteSet(U) /\ Cardinality(U) \in Nat
  BY KeysFinite, FS_Subset, FS_CardinalityType
<1>2. SUFFICES ASSUME Stuck(S) PROVE FALSE
  OBVIOUS
<1>3. Sizes # {}
  <2> HIDE DEF Stuck
  <2> QED BY <1>1, <1>2
<1>4. PICK n \in Sizes : \A m \in Sizes : n <= m
  <2>1. Sizes \in SUBSET Nat
    OBVIOUS
  <2> HIDE DEF Sizes
  <2> QED BY <1>3, <2>1, LeastExists
<1>5. PICK U \in SUBSET Keys : Stuck(U) /\ Cardinality(U) = n
  <2> HIDE DEF Stuck
  <2> QED BY <1>4
<1>6. U # {}
  <2>1. InTurn({}, {})
    BY DEF InTurn
  <2> QED BY <1>5, <2>1
<1>7. PICK x \in U : \A j \in U : ~Before(x, j)
  BY <1>6, LastInTurn
<1> DEFINE V == U \ {x}
<1>8. V \in SUBSET Keys /\ Cardinality(V) = n - 1
  BY <1>1, <1>5, <1>7, FS_RemoveElement
<1>9. ~Stuck(V)
  <2> HIDE DEF Stuck
  <2>1. Cardinality(V) \in Nat
    BY <1>1, <1>8
  <2>2. Stuck(V) => Cardinality(V) \in Sizes
    BY <2>1, <1>8
  <2>3. Stuck(V) => n <= n - 1
    BY <2>2, <1>4, <1>8
  <2>4. n \in Nat
    BY <1>4
  <2> QED
    BY <2>3, <2>4
<1>10. PICK past : InTurn(V, past)
  BY <1>9
<1> DEFINE again == IF MayGoAgain({j \in past : Before(j, x)}, x) THEN past \cup {x} ELSE past
<1>11. x \notin past /\ past \subseteq V
  BY <1>10 DEF InTurn
<1>12. \A k \in U : {j \in again : Before(j, k)} = {j \in past : Before(j, k)}
  BY <1>7
<1>13. again \in SUBSET U
  BY <1>11
<1>14. ASSUME NEW k \in U
       PROVE  k \in again <=> MayGoAgain({j \in again : Before(j, k)}, k)
  <2>1. {j \in again : Before(j, k)} = {j \in past : Before(j, k)}
    BY <1>12
  <2>2. CASE k = x
    <3>1. x \in again <=> MayGoAgain({j \in past : Before(j, x)}, x)
      BY <1>11
    <3> QED BY <2>1, <2>2, <3>1
  <2>3. CASE k # x
    <3>1. k \in V
      BY <2>3
    <3>2. k \in past <=> MayGoAgain({j \in past : Before(j, k)}, k)
      BY <3>1, <1>10 DEF InTurn
    <3>3. k \in again <=> k \in past
      BY <2>3
    <3> QED BY <2>1, <3>2, <3>3
  <2> QED
    BY <2>2, <2>3
<1>15. InTurn(U, again)
  <2> HIDE DEF again
  <2> QED BY <1>13, <1>14 DEF InTurn
<1> QED
  BY <1>5, <1>15

\* Requeued is such a set, whatever is asked again.
LEMMA RequeuedInTurn ==
    ASSUME NEW S \in SUBSET Keys
    PROVE  InTurn(S, Requeued(S))
<1>1. PICK again : InTurn(S, again)
  BY TurnsExist
<1>2. \E a \in SUBSET S : \A k \in S : k \in a <=> MayGoAgain({j \in a : Before(j, k)}, k)
  BY <1>1 DEF InTurn
<1> QED
  BY <1>2 DEF InTurn, Requeued

-----------------------------------------------------------------------------
(* Counting rows. *)

\* A count is a number.
LEMMA CountsAreNumbers ==
    ASSUME NEW r, NEW st
    PROVE  CountOf(r, st) \in Nat /\ IsFiniteSet(InStatus(r, {st}))
<1>1. InStatus(r, {st}) \in SUBSET Keys
  BY DEF InStatus
<1>2. IsFiniteSet(InStatus(r, {st}))
  BY <1>1, KeysFinite, FS_Subset
<1> QED
  BY <1>2, FS_CardinalityType DEF CountOf

\* Rows with the same status as before are counted as before.
LEMMA CountUnchanged ==
    ASSUME NEW r, NEW q, NEW st, \A k \in Keys : q[k].st = st <=> r[k].st = st
    PROVE  CountOf(q, st) = CountOf(r, st)
<1>1. InStatus(q, {st}) = InStatus(r, {st})
  BY DEF InStatus
<1> QED
  BY <1>1 DEF CountOf

\* Rows that come to a status add to its count.
LEMMA CountGrows ==
    ASSUME NEW r, NEW q, NEW st, NEW M \in SUBSET Keys,
           \A k \in Keys : q[k].st = st <=> r[k].st = st \/ k \in M,
           \A k \in M : r[k].st # st
    PROVE  CountOf(q, st) = CountOf(r, st) + Cardinality(M)
<1>1. InStatus(q, {st}) = InStatus(r, {st}) \cup M
  BY DEF InStatus
<1>2. InStatus(r, {st}) \cap M = {}
  BY DEF InStatus
<1>3. IsFiniteSet(InStatus(r, {st})) /\ CountOf(r, st) \in Nat
  BY CountsAreNumbers
<1>4. IsFiniteSet(M)
  BY KeysFinite, FS_Subset
<1>5. Cardinality(M) \in Nat
  BY <1>4, FS_CardinalityType
<1>6. Cardinality(InStatus(r, {st}) \cap M) = 0
  BY <1>2, FS_EmptySet
<1>7. Cardinality(InStatus(r, {st}) \cup M)
        = Cardinality(InStatus(r, {st})) + Cardinality(M) - Cardinality(InStatus(r, {st}) \cap M)
  BY <1>3, <1>4, FS_Union
<1>8. Cardinality(InStatus(r, {st})) \in Nat
  BY <1>3, FS_CardinalityType
<1>9. Cardinality(InStatus(r, {st}) \cup M) = Cardinality(InStatus(r, {st})) + Cardinality(M)
  BY <1>5, <1>6, <1>7, <1>8
<1> QED
  BY <1>1, <1>9 DEF CountOf

\* Counts that agree still do when no row comes to or leaves a counted status.
LEMMA KeptAgreement ==
    ASSUME NEW c, Agree(c),
           \A k \in Keys : \A st \in {"sent", "bounced", "failed", "skipped"} :
               row'[k].st = st <=> row[k].st = st
    PROVE  /\ c.sent + c.bounced = CountOf(row', "sent") + CountOf(row', "bounced")
           /\ c.sent >= CountOf(row', "sent")
           /\ c.failed = CountOf(row', "failed")
           /\ c.skipped = CountOf(row', "skipped")
<1>1. /\ CountOf(row', "sent") = CountOf(row, "sent")
      /\ CountOf(row', "bounced") = CountOf(row, "bounced")
      /\ CountOf(row', "failed") = CountOf(row, "failed")
      /\ CountOf(row', "skipped") = CountOf(row, "skipped")
  BY CountUnchanged
<1> QED
  BY <1>1 DEF Agree

-----------------------------------------------------------------------------
(* Steps that leave the sender alone. *)

\* A new draft.
LEMMA InitSound == Init => BulkInv
<1> SUFFICES ASSUME Init PROVE BulkInv
  OBVIOUS
<1> USE DEF Init
<1>1. BulkTypes
  <2>1. EmailType
    BY DEF EmailType
  <2>2. RowType
    BY DEF RowType, NoRow, Statuses
  <2>3. LogType
    BY DEF LogType
  <2>4. IdleJob \in Job
    BY DEF IdleJob, Job, ZeroCount, Counts
  <2>5. JobType
    BY <2>4 DEF JobType
  <2>6. CountType
    BY DEF CountType, Counts, ZeroCount
  <2> QED
    BY <2>1, <2>2, <2>3, <2>5, <2>6 DEF BulkTypes
<1>2. Standing
  BY DEF Standing, Allowed, NoRow
<1>3. CountsKept
  BY DEF CountsKept
<1>4. LogInv
  BY DEF LogInv, Named, Logged, NoRow
<1>5. Apart /\ NothingLeft
  BY DEF Apart, Live, NothingLeft, Left, NoRow
<1>6. \A w \in Workers : job[w].pc = "idle"
  BY DEF IdleJob
<1>7. \A w \in Workers : Working(w) /\ Holding(w)
  BY <1>6 DEF Working, Holding, SendingPC, Recover, InHand, Recovering, Looping
<1>8. OnTime /\ ConfirmedBatch
  BY DEF OnTime, ConfirmedBatch
<1> QED
  BY <1>1, <1>2, <1>3, <1>4, <1>5, <1>7, <1>8 DEF BulkInv

\* Outside a send no worker holds anything of the email.
LEMMA Unheld ==
    ASSUME BulkInv, email.status # "sending", UNCHANGED <<job, lock>>
    PROVE  \A w \in Workers : Working(w)' /\ Holding(w)'
<1> SUFFICES ASSUME NEW w \in Workers PROVE Working(w)' /\ Holding(w)'
  OBVIOUS
<1>1. job[w].pc \in {"idle", "claim"}
  BY DEF BulkInv, BulkTypes, JobType, Job, Working
<1>2. Working(w)'
  BY <1>1 DEF BulkInv, Working, SendingPC, Recover, InHand, Recovering, Looping
<1>3. Holding(w)'
  BY <1>1 DEF Holding, SendingPC, Recover, InHand, Recovering, Looping
<1> QED
  BY <1>2, <1>3

\* While an email is composed nothing was sent, counted or logged.
LEMMA Composing ==
    ASSUME BulkInv, ~email.started,
           EmailType', ~email'.started, email'.status \in {"draft", "queued", "deleted"},
           row' \in [Keys -> {NoRow, [st |-> "batched", mid |-> 0]}],
           \A k \in Keys : Round(k) > 0 => row'[k] = NoRow,
           ConfirmedBatch',
           UNCHANGED <<count, log, job, lock, late>>
    PROVE  BulkInv'
<1>1. BulkTypes'
  <2>1. RowType'
    BY DEF RowType, NoRow, Statuses
  <2> QED
    BY <2>1 DEF BulkInv, BulkTypes, LogType, JobType, CountType
<1>2. log' = <<>>
  BY DEF BulkInv, Standing
<1>3. \A k \in Keys : row'[k].st \in {"none", "batched"} /\ row'[k].mid = 0
                      /\ (Round(k) > 0 => row'[k].st = "none")
  BY DEF NoRow
<1>4. Standing'
  BY <1>2, <1>3 DEF Standing, Allowed
<1>5. CountsKept'
  BY DEF CountsKept
<1>6. LogInv'
  BY <1>2, <1>3 DEF LogInv, Named, Logged
<1>7. Apart' /\ NothingLeft'
  BY <1>3 DEF Apart, Live, NothingLeft, Left
<1>8. \A w \in Workers : Working(w)' /\ Holding(w)'
  <2>1. email.status # "sending"
    BY DEF BulkInv, Standing
  <2> QED
    BY <2>1, Unheld
<1>9. OnTime'
  <2>1. late = 0
    BY DEF BulkInv, OnTime
  <2> QED
    BY <2>1 DEF OnTime
<1> QED
  BY <1>1, <1>4, <1>5, <1>6, <1>7, <1>8, <1>9 DEF BulkInv

\* The rows of an email that has not started.
LEMMA ComposedRows ==
    ASSUME BulkInv, ~email.started
    PROVE  /\ row \in [Keys -> {NoRow, [st |-> "batched", mid |-> 0]}]
           /\ \A k \in Keys : Round(k) > 0 => row[k] = NoRow
<1>1. \A k \in Keys : row[k].mid = 0
  <2> TAKE k \in Keys
  <2>1. log = <<>>
    BY DEF BulkInv, Standing
  <2>2. Len(log) = 0
    BY <2>1
  <2>3. row[k].mid # 0 => row[k].mid \in 1 .. 0
    BY <2>2 DEF BulkInv, LogInv, Named
  <2> QED
    BY <2>3
<1>2. \A k \in Keys : row[k].st \in {"none", "batched"} /\ (Round(k) > 0 => row[k].st = "none")
  BY DEF BulkInv, Standing, Allowed
<1>3. \A k \in Keys : row[k] = [st |-> row[k].st, mid |-> row[k].mid]
  BY DEF BulkInv, BulkTypes, RowType
<1>4. \A k \in Keys : row[k] = NoRow \/ row[k] = [st |-> "batched", mid |-> 0]
  BY <1>1, <1>2, <1>3 DEF NoRow
<1>5. \A k \in Keys : Round(k) > 0 => row[k] = NoRow
  BY <1>1, <1>2, <1>3 DEF NoRow
<1> QED
  BY <1>4, <1>5 DEF BulkInv, BulkTypes, RowType

\* The email as back_to_draft leaves it.
LEMMA DraftAgain ==
    ASSUME EmailType, BackToDraft
    PROVE  EmailType' /\ email'.started = email.started /\ email'.status = "draft"
           /\ ConfirmedBatch'
BY DEF EmailType, BackToDraft, ConfirmedBatch

\* add_accounts, on an email that has not started.
LEMMA AddSound ==
    ASSUME BulkInv, NEW p \in People, AddAccounts(p) PROVE BulkInv'
<1> USE DEF AddAccounts, CanEdit
<1>1. EmailType' /\ ~email'.started /\ email'.status = "draft" /\ ConfirmedBatch'
  BY DraftAgain DEF BulkInv, BulkTypes
<1>2. <<0, p>> \in Keys /\ Round(<<0, p>>) = 0
  BY BulkAssumption DEF Keys, Rounds, Round
<1>3. row' \in [Keys -> {NoRow, [st |-> "batched", mid |-> 0]}]
  BY ComposedRows, <1>2
<1>4. \A k \in Keys : Round(k) > 0 => row'[k] = NoRow
  BY ComposedRows, <1>2
<1> QED
  BY <1>1, <1>3, <1>4, Composing

\* remove and clear, on an email that has not started.
LEMMA RemoveSound ==
    ASSUME BulkInv, NEW S \in SUBSET People, RemoveAccounts(S) PROVE BulkInv'
<1> USE DEF RemoveAccounts, CanEdit
<1>1. EmailType' /\ ~email'.started /\ email'.status = "draft" /\ ConfirmedBatch'
  BY DraftAgain DEF BulkInv, BulkTypes
<1>3. row' \in [Keys -> {NoRow, [st |-> "batched", mid |-> 0]}]
  BY ComposedRows
<1>4. \A k \in Keys : Round(k) > 0 => row'[k] = NoRow
  BY ComposedRows
<1> QED
  BY <1>1, <1>3, <1>4, Composing

\* drafts.update, its callout settings included.
LEMMA UpdateSound ==
    ASSUME BulkInv, Update PROVE BulkInv'
<1> USE DEF Update, CanEdit
<1>1. EmailType' /\ ~email'.started /\ email'.status \in {"draft", "queued"}
  BY DraftAgain DEF BulkInv, BulkTypes, EmailType
<1>2. ConfirmedBatch'
  BY DraftAgain DEF BulkInv, BulkTypes, ConfirmedBatch, Batch
<1> QED
  BY <1>1, <1>2, ComposedRows, Composing

\* queue writes down the people the sender confirms.
LEMMA QueueSound ==
    ASSUME BulkInv, Queue PROVE BulkInv'
<1> USE DEF Queue, CanEdit
<1>1. EmailType' /\ ~email'.started /\ email'.status = "queued"
  BY DEF BulkInv, BulkTypes, EmailType, Batch
<1>2. ConfirmedBatch'
  BY DEF BulkInv, BulkTypes, EmailType, ConfirmedBatch, Batch
<1> QED
  BY <1>1, <1>2, ComposedRows, Composing

\* cancel sends a queued email back to a draft.
LEMMA CancelSound ==
    ASSUME BulkInv, Cancel PROVE BulkInv'
<1> USE DEF Cancel
<1>1. EmailType' /\ ~email'.started /\ email'.status = "draft" /\ ConfirmedBatch'
  BY DraftAgain DEF BulkInv, BulkTypes
<1> QED
  BY <1>1, ComposedRows, Composing

\* delete_draft, of an empty draft.
LEMMA DeleteDraftSound ==
    ASSUME BulkInv, DeleteDraft PROVE BulkInv'
<1> USE DEF DeleteDraft, CanEdit
<1>1. EmailType' /\ ~email'.started /\ email'.status = "deleted" /\ ConfirmedBatch'
  BY DEF BulkInv, BulkTypes, EmailType, ConfirmedBatch
<1> QED
  BY <1>1, ComposedRows, Composing

\* What happens beside the rows, the counts and the log.
LEMMA Aside ==
    ASSUME BulkInv, UNCHANGED <<count, row, log, addr, job, lock, late>>, EmailType',
           email'.status = email.status, email'.started = email.started,
           email'.typed = email.typed,
           (callout' # "closed" \/ ~email.started) => late = 0
    PROVE  BulkInv'
<1>1. BulkTypes' /\ Standing' /\ CountsKept' /\ LogInv' /\ Apart' /\ NothingLeft'
  BY DEF BulkInv, BulkTypes, RowType, LogType, JobType, CountType, Standing, Allowed,
         CountsKept, Agree, LogInv, Named, Logged, Apart, Live, NothingLeft, Left
<1>2. \A w \in Workers : Working(w)' /\ Holding(w)'
  BY DEF BulkInv, Working, Holding, Agree, Left
<1>3. OnTime' /\ ConfirmedBatch'
  BY DEF BulkInv, OnTime, ConfirmedBatch, Batch
<1> QED
  BY <1>1, <1>2, <1>3 DEF BulkInv

\* The start time arrives.
LEMMA StartArrivesSound ==
    ASSUME BulkInv, StartArrives PROVE BulkInv'
<1>1. EmailType' /\ email'.status = email.status /\ email'.started = email.started
      /\ email'.typed = email.typed
  BY DEF StartArrives, BulkInv, BulkTypes, EmailType
<1> QED
  BY <1>1, Aside DEF StartArrives, outside, BulkInv, OnTime

\* record_answer touches no row.
LEMMA RecordAnswerSound ==
    ASSUME BulkInv, NEW p \in People, RecordAnswer(p) PROVE BulkInv'
BY Aside DEF RecordAnswer, BulkInv, BulkTypes, EmailType, OnTime

\* A callout closes by the clock.
LEMMA ExpireSound ==
    ASSUME BulkInv, Expire PROVE BulkInv'
BY Aside DEF Expire, BulkInv, BulkTypes, EmailType, OnTime

\* Accounts and the sender's role change.
LEMMA PeopleChangeSound ==
    ASSUME BulkInv, PeopleChange PROVE BulkInv'
BY Aside DEF PeopleChange, BulkInv, BulkTypes, EmailType, OnTime

-----------------------------------------------------------------------------
(* A started email that is not being sent. *)

Rows == [Keys -> [st: Statuses, mid: Nat]]

\* apply_stop changes pending rows and their status only.
LEMMA StoppedRows ==
    ASSUME NEW r \in Rows
    PROVE  /\ Stopped(r) \in Rows
           /\ \A k \in Keys : /\ Stopped(r)[k].mid = r[k].mid
                              /\ r[k].st # "pending" => Stopped(r)[k] = r[k]
                              /\ r[k].st = "pending" => Stopped(r)[k].st = "stopped"
BY DEF Stopped, Rows, Statuses

\* The closing of a callout changes pending rows and their status only.
LEMMA SkippedRows ==
    ASSUME NEW r \in Rows
    PROVE  /\ SkippedPending(r) \in Rows
           /\ \A k \in Keys : /\ SkippedPending(r)[k].mid = r[k].mid
                              /\ r[k].st # "pending" => SkippedPending(r)[k] = r[k]
                              /\ r[k].st = "pending" => SkippedPending(r)[k].st = "skipped"
BY DEF SkippedPending, Rows, Statuses

\* recheck_rows changes the status of the rows it is asked about.
LEMMA RecheckedRows ==
    ASSUME row \in Rows, NEW S \in SUBSET Keys
    PROVE  /\ Rechecked(S) \in Rows
           /\ \A k \in Keys : /\ Rechecked(S)[k].mid = row[k].mid
                              /\ k \notin S => Rechecked(S)[k] = row[k]
                              /\ k \in S /\ k \in Requeued(S) => Rechecked(S)[k].st = "pending"
                              /\ k \in S /\ k \notin Requeued(S) => Rechecked(S)[k].st = "skipped"
BY DEF Rechecked, Rows, Statuses

\* Every entry of the log is a row's Message-ID with a status.
LEMMA LogEntries ==
    ASSUME LogType
    PROVE  \A m \in 1 .. Len(log) :
             log[m] \in [key: Keys, st: EntryStatuses]
BY ElementOfSeq DEF LogType, Entry

\* Where no pending copy went already, the log still tells the truth after a step that
\* leaves the copies that went alone.
LEMMA LogQuiet ==
    ASSUME BulkInv, \A k \in Keys : ~Left(k), log' = log,
           \A k \in Keys : row[k].st \in WentOut => row'[k] = row[k],
           \A k \in Keys : row'[k].mid \in {0, row[k].mid}
    PROVE  LogInv' /\ \A k \in Keys : ~Left(k)'
<1> USE DEF WentOut
<1>4. ASSUME NEW m \in 1 .. Len(log), log[m].st \in WentOut
      PROVE  row'[log[m].key] = row[log[m].key] /\ row[log[m].key].mid = m
             /\ row[log[m].key].st \in WentOut
  <2>1. log[m].key \in Keys
    BY LogEntries DEF BulkInv, BulkTypes
  <2>2. row[log[m].key].mid = m /\ row[log[m].key].st \in WentOut \cup {"pending"}
    BY <1>4 DEF BulkInv, LogInv, Logged
  <2>3. ~Left(log[m].key)
    BY <2>1
  <2>4. row[log[m].key].st \in WentOut
    BY <1>4, <2>2, <2>3 DEF Left
  <2> QED
    BY <2>1, <2>2, <2>4
<1>5. \A k \in Keys : Named(k)'
  BY DEF BulkInv, LogInv, Named
<1>6. LogInv'
  BY <1>4, <1>5 DEF LogInv, Logged
<1>7. ASSUME NEW k \in Keys PROVE ~Left(k)'
  <2> SUFFICES ASSUME Left(k)' PROVE FALSE
    OBVIOUS
  <2>1. row'[k].st = "pending" /\ row'[k].mid # 0 /\ log[row'[k].mid].st \in WentOut
    BY DEF Left
  <2>2. row'[k].mid \in 1 .. Len(log) /\ log[row'[k].mid].key = k
    BY <1>5, <2>1 DEF Named
  <2>3. row'[k] = row[k] /\ row[k].st \in WentOut
    BY <1>4, <2>1, <2>2
  <2> QED
    BY <2>1, <2>3
<1> QED
  BY <1>6, <1>7

\* A step between two moments at which the email has started and is not being sent, that
\* leaves the copies that went alone and takes no Message-ID from one row to another.
LEMMA Resting ==
    ASSUME BulkInv, email.started, email.status # "sending",
           EmailType', email'.started, email'.status \in {"queued", "sent", "stopped"},
           CountType', row' \in Rows,
           \A k \in Keys : row[k].st \in WentOut => row'[k] = row[k],
           \A k \in Keys : row'[k].mid \in {0, row[k].mid},
           \A k \in Keys : Allowed(k)',
           Agree(count)', Apart',
           callout' # "closed" => callout # "closed",
           UNCHANGED <<log, job, lock, late>>
    PROVE  BulkInv'
<1> USE DEF WentOut
<1>1. BulkTypes'
  BY DEF BulkInv, BulkTypes, LogType, JobType, RowType, Rows
<1>2. Standing'
  BY DEF Standing
<1>3. CountsKept'
  BY DEF CountsKept
<1>6. LogInv' /\ \A k \in Keys : ~Left(k)'
  <2>1. \A k \in Keys : ~Left(k)
    BY DEF BulkInv, NothingLeft
  <2> QED
    BY <2>1, LogQuiet
<1>8. NothingLeft'
  BY <1>6 DEF NothingLeft
<1>9. \A w \in Workers : Working(w)' /\ Holding(w)'
  BY Unheld
<1>10. OnTime'
  BY DEF BulkInv, OnTime
<1>11. ConfirmedBatch'
  BY DEF ConfirmedBatch
<1> QED
  BY <1>1, <1>2, <1>3, <1>6, <1>8, <1>9, <1>10, <1>11 DEF BulkInv

\* Fewer copies at an address are no more than before.
LEMMA FewerApart ==
    ASSUME BulkInv, addr' = addr, \A k \in Keys : Live(k)' => Live(k)
    PROVE  Apart'
BY DEF BulkInv, Apart

\* recheck_rows queues no copy to an address that has one of the same round.
LEMMA RequeuedApart ==
    ASSUME BulkInv, NEW S \in SUBSET Keys, \A k \in S : ~Live(k),
           row' = Rechecked(S), addr' = addr
    PROVE  Apart'
<1> DEFINE A == Requeued(S)
<1>1. InTurn(S, A)
  BY RequeuedInTurn
<1> HIDE DEF A
<1>2. A \in SUBSET S
  BY <1>1 DEF InTurn
<1>3. ASSUME NEW k \in A, NEW j \in Went \cup {i \in A : Before(i, k)}, Round(j) = Round(k)
      PROVE  addr[Person(j)] # addr[Person(k)]
  <2>1. MayGoAgain({i \in A : Before(i, k)}, k)
    BY <1>1, <1>2 DEF InTurn
  <2>2. Sendable(Person(k), {addr[Person(i)] : i \in {h \in Went \cup {i \in A : Before(i, k)} :
                                                        Round(h) = Round(k)}})
    BY <2>1 DEF MayGoAgain
  <2> QED
    BY <1>3, <2>2 DEF Sendable
<1>4. \A k \in Keys : Live(k)' => (k \in A \/ (k \notin S /\ Live(k)))
  <2>1. row \in Rows
    BY DEF BulkInv, BulkTypes, RowType, Rows
  <2> QED
    BY <2>1, RecheckedRows DEF Live, A
<1>5. \A k \in Keys : Live(k) => k \in Went
  BY DEF Live, Went, InStatus
<1> SUFFICES ASSUME NEW j \in Keys, NEW k \in Keys, j # k, Round(j) = Round(k), Live(j)', Live(k)'
             PROVE  addr[Person(j)] # addr[Person(k)]
  BY DEF Apart
<1>6. CASE j \in A /\ k \in A
  <2>1. Before(j, k) \/ Before(k, j)
    BY BeforeIsOrder
  <2> QED
    BY <1>3, <1>6, <2>1
<1>7. CASE j \in A /\ k \notin A
  BY <1>3, <1>4, <1>5, <1>7
<1>8. CASE j \notin A /\ k \in A
  BY <1>3, <1>4, <1>5, <1>8
<1>9. CASE j \notin A /\ k \notin A
  BY <1>4, <1>9 DEF BulkInv, Apart
<1> QED
  BY <1>6, <1>7, <1>8, <1>9

\* The counts never go below zero: taking all of a count leaves none.
LEMMA MinusAll == \A n \in Nat : Minus(n, n) = 0
BY DEF Minus

\* retry_failed, on a finished email: every failed copy is queued again or skipped.
LEMMA RetryFailedSound ==
    ASSUME BulkInv, RetryFailed PROVE BulkInv'
<1> DEFINE S == InStatus(row, {"failed"})
           A == Requeued(S)
<1>0. /\ email.started /\ email.status = "sent"
      /\ row' = Rechecked(S)
      /\ count' = [count EXCEPT !.failed = Minus(@, Cardinality(S)),
                                !.skipped = @ + Cardinality(S \ A)]
      /\ email' = IF A = {} THEN email ELSE [email EXCEPT !.status = "queued", !.due = TRUE]
      /\ UNCHANGED <<log, addr, callout, lock, job, late>>
  BY DEF RetryFailed, outside
<1>1. S \in SUBSET Keys /\ \A k \in Keys : k \in S <=> row[k].st = "failed"
  BY DEF InStatus
<1>2. IsFiniteSet(S) /\ Cardinality(S) = CountOf(row, "failed") /\ Cardinality(S) \in Nat
  BY CountsAreNumbers DEF CountOf
<1>3. IsFiniteSet(S \ A) /\ Cardinality(S \ A) \in Nat
  <2>1. S \ A \in SUBSET Keys
    BY <1>1
  <2> QED
    BY <2>1, KeysFinite, FS_Subset, FS_CardinalityType
<1> HIDE DEF S
<1>4. row \in Rows
  BY DEF BulkInv, BulkTypes, RowType, Rows
<1>5. /\ row' \in Rows
      /\ \A k \in Keys : /\ row'[k].mid = row[k].mid
                         /\ k \notin S => row'[k] = row[k]
                         /\ k \in S /\ k \in A => row'[k].st = "pending"
                         /\ k \in S /\ k \notin A => row'[k].st = "skipped"
  BY <1>0, <1>1, <1>4, RecheckedRows
<1>6. Apart'
  BY <1>0, <1>1, RequeuedApart DEF Live
<1> HIDE DEF A
<1>7. EmailType' /\ email'.started /\ email'.status \in {"queued", "sent"}
      /\ (email'.status = "sent" => A = {})
  BY <1>0 DEF BulkInv, BulkTypes, EmailType
<1>8. /\ count \in Counts /\ count' \in Counts
      /\ count'.sent = count.sent /\ count'.bounced = count.bounced
      /\ count'.failed = Minus(count.failed, Cardinality(S))
      /\ count'.skipped = count.skipped + Cardinality(S \ A)
  <2>1. count \in Counts
    BY DEF BulkInv, BulkTypes, CountType
  <2>2. Minus(count.failed, Cardinality(S)) \in Nat
    BY <1>2, <2>1 DEF Counts, Minus
  <2>3. count.skipped + Cardinality(S \ A) \in Nat
    BY <1>3, <2>1 DEF Counts
  <2> QED
    BY <1>0, <2>1, <2>2, <2>3 DEF Counts
<1>9. Agree(count)
  BY <1>0 DEF BulkInv, CountsKept
<1>10. CountOf(row', "failed") = 0
  <2>1. InStatus(row', {"failed"}) = {}
    BY <1>1, <1>5 DEF InStatus
  <2> QED
    BY <2>1, FS_EmptySet DEF CountOf
<1>11. count'.failed = 0
  <2>1. count.failed = Cardinality(S)
    BY <1>2, <1>9 DEF Agree
  <2> QED
    BY <1>2, <1>8, <2>1, MinusAll
<1>12. CountOf(row', "skipped") = CountOf(row, "skipped") + Cardinality(S \ A)
  <2>1. S \ A \in SUBSET Keys
    BY <1>1
  <2>2. \A k \in Keys : row'[k].st = "skipped" <=> row[k].st = "skipped" \/ k \in S \ A
    BY <1>1, <1>5
  <2>3. \A k \in S \ A : row[k].st # "skipped"
    BY <1>1
  <2> QED
    BY <2>1, <2>2, <2>3, CountGrows
<1>13. /\ CountOf(row', "sent") = CountOf(row, "sent")
       /\ CountOf(row', "bounced") = CountOf(row, "bounced")
  <2>1. \A k \in Keys : row'[k].st = "sent" <=> row[k].st = "sent"
    BY <1>1, <1>5
  <2>2. \A k \in Keys : row'[k].st = "bounced" <=> row[k].st = "bounced"
    BY <1>1, <1>5
  <2> QED
    BY <2>1, <2>2, CountUnchanged
<1>14. Agree(count)'
  <2>1. /\ count'.sent + count'.bounced = CountOf(row', "sent") + CountOf(row', "bounced")
        /\ count'.sent >= CountOf(row', "sent")
    BY <1>8, <1>9, <1>13 DEF Agree
  <2>2. count'.failed = CountOf(row', "failed")
    BY <1>10, <1>11
  <2>3. count'.skipped = CountOf(row', "skipped")
    BY <1>8, <1>9, <1>12 DEF Agree
  <2> QED
    BY <2>1, <2>2, <2>3 DEF Agree
<1>15. \A k \in Keys : Allowed(k)'
  <2> TAKE k \in Keys
  <2>1. row[k].st \notin {"batched", "stopped", "pending"}
    BY <1>0 DEF BulkInv, Standing, Allowed
  <2>2. row'[k].st \notin {"batched", "stopped"} /\ (row'[k].st = "pending" => k \in A)
    BY <1>5, <2>1
  <2> QED
    BY <1>7, <2>2 DEF Allowed
<1>16. CountType'
  BY <1>8 DEF CountType
<1>17. \A k \in Keys : row[k].st \in WentOut => row'[k] = row[k]
  BY <1>1, <1>5 DEF WentOut
<1> QED
  BY <1>0, <1>5, <1>6, <1>7, <1>14, <1>15, <1>16, <1>17, Resting

\* resume, on a stopped email: every stopped copy is queued again or skipped.
LEMMA ResumeSound ==
    ASSUME BulkInv, Resume PROVE BulkInv'
<1> DEFINE S == InStatus(row, {"stopped"})
           A == Requeued(S)
<1>0. /\ email.started /\ email.status = "stopped"
      /\ row' = Rechecked(S)
      /\ count' = [count EXCEPT !.skipped = @ + Cardinality(S \ A)]
      /\ email' = [email EXCEPT !.status = "queued", !.due = TRUE, !.stop = FALSE]
      /\ UNCHANGED <<log, addr, callout, lock, job, late>>
  BY DEF Resume, outside, BulkInv, Standing
<1>1. S \in SUBSET Keys /\ \A k \in Keys : k \in S <=> row[k].st = "stopped"
  BY DEF InStatus
<1>3. IsFiniteSet(S \ A) /\ Cardinality(S \ A) \in Nat
  <2>1. S \ A \in SUBSET Keys
    BY <1>1
  <2> QED
    BY <2>1, KeysFinite, FS_Subset, FS_CardinalityType
<1> HIDE DEF S
<1>4. row \in Rows
  BY DEF BulkInv, BulkTypes, RowType, Rows
<1>5. /\ row' \in Rows
      /\ \A k \in Keys : /\ row'[k].mid = row[k].mid
                         /\ k \notin S => row'[k] = row[k]
                         /\ k \in S /\ k \in A => row'[k].st = "pending"
                         /\ k \in S /\ k \notin A => row'[k].st = "skipped"
  BY <1>0, <1>1, <1>4, RecheckedRows
<1>6. Apart'
  BY <1>0, <1>1, RequeuedApart DEF Live
<1> HIDE DEF A
<1>7. EmailType' /\ email'.started /\ email'.status = "queued"
  BY <1>0 DEF BulkInv, BulkTypes, EmailType
<1>8. /\ count \in Counts /\ count' \in Counts
      /\ count'.sent = count.sent /\ count'.bounced = count.bounced
      /\ count'.failed = count.failed
      /\ count'.skipped = count.skipped + Cardinality(S \ A)
  <2>1. count \in Counts
    BY DEF BulkInv, BulkTypes, CountType
  <2>3. count.skipped + Cardinality(S \ A) \in Nat
    BY <1>3, <2>1 DEF Counts
  <2> QED
    BY <1>0, <2>1, <2>3 DEF Counts
<1>9. Agree(count)
  BY <1>0 DEF BulkInv, CountsKept
<1>12. CountOf(row', "skipped") = CountOf(row, "skipped") + Cardinality(S \ A)
  <2>1. S \ A \in SUBSET Keys
    BY <1>1
  <2>2. \A k \in Keys : row'[k].st = "skipped" <=> row[k].st = "skipped" \/ k \in S \ A
    BY <1>1, <1>5
  <2>3. \A k \in S \ A : row[k].st # "skipped"
    BY <1>1
  <2> QED
    BY <2>1, <2>2, <2>3, CountGrows
<1>13. /\ CountOf(row', "sent") = CountOf(row, "sent")
       /\ CountOf(row', "bounced") = CountOf(row, "bounced")
       /\ CountOf(row', "failed") = CountOf(row, "failed")
  <2>1. \A k \in Keys : row'[k].st = "sent" <=> row[k].st = "sent"
    BY <1>1, <1>5
  <2>2. \A k \in Keys : row'[k].st = "bounced" <=> row[k].st = "bounced"
    BY <1>1, <1>5
  <2>3. \A k \in Keys : row'[k].st = "failed" <=> row[k].st = "failed"
    BY <1>1, <1>5
  <2> QED
    BY <2>1, <2>2, <2>3, CountUnchanged
<1>14. Agree(count)'
  BY <1>8, <1>9, <1>12, <1>13 DEF Agree
<1>15. \A k \in Keys : Allowed(k)'
  <2> TAKE k \in Keys
  <2>1. row[k].st \notin {"batched", "pending"}
    BY <1>0 DEF BulkInv, Standing, Allowed
  <2>2. row'[k].st \notin {"batched", "stopped"}
    BY <1>1, <1>5, <2>1
  <2> QED
    BY <1>7, <2>2 DEF Allowed
<1>16. CountType'
  BY <1>8 DEF CountType
<1>17. \A k \in Keys : row[k].st \in WentOut => row'[k] = row[k]
  BY <1>1, <1>5 DEF WentOut
<1> QED
  BY <1>0, <1>5, <1>6, <1>7, <1>14, <1>15, <1>16, <1>17, Resting

\* recount takes the counts from the rows.
LEMMA RecountAgrees ==
    ASSUME NEW r
    PROVE  /\ Recount(r) \in Counts
           /\ Recount(r).sent = CountOf(r, "sent") /\ Recount(r).bounced = CountOf(r, "bounced")
           /\ Recount(r).failed = CountOf(r, "failed")
           /\ Recount(r).skipped = CountOf(r, "skipped")
           /\ CountOf(r, "sent") \in Nat /\ CountOf(r, "bounced") \in Nat
BY CountsAreNumbers DEF Recount, Counts

\* stop asks a send to stop, and stops an email queued again at once.
LEMMA StopSound ==
    ASSUME BulkInv, Stop PROVE BulkInv'
<1>0. UNCHANGED <<log, addr, callout, lock, job, late>>
  BY DEF Stop, outside
<1>1. CASE /\ email.status = "sending"
           /\ email' = [email EXCEPT !.stop = TRUE]
           /\ UNCHANGED <<row, count>>
  <2>1. EmailType' /\ email'.status = email.status /\ email'.started = email.started
        /\ email'.typed = email.typed
    BY <1>1 DEF BulkInv, BulkTypes, EmailType
  <2> QED
    BY <1>0, <1>1, <2>1, Aside DEF BulkInv, OnTime
<1>2. CASE /\ email.status = "queued" /\ email.started
           /\ row' = Stopped(row)
           /\ count' = Recount(row')
           /\ email' = [email EXCEPT !.status = "stopped", !.stop = FALSE]
  <2>1. EmailType' /\ email'.started /\ email'.status = "stopped"
    BY <1>2 DEF BulkInv, BulkTypes, EmailType
  <2>2. row \in Rows
    BY DEF BulkInv, BulkTypes, RowType, Rows
  <2>3. /\ row' \in Rows
        /\ \A k \in Keys : /\ row'[k].mid = row[k].mid
                           /\ row[k].st # "pending" => row'[k] = row[k]
                           /\ row[k].st = "pending" => row'[k].st = "stopped"
    BY <1>2, <2>2, StoppedRows
  <2>4. Agree(count)' /\ CountType'
    BY <1>2, RecountAgrees DEF Agree, CountType
  <2>5. Apart'
    BY <1>0, <2>3, FewerApart DEF Live
  <2>6. \A k \in Keys : Allowed(k)'
    BY <1>2, <2>1, <2>3 DEF BulkInv, Standing, Allowed
  <2>7. \A k \in Keys : row[k].st \in WentOut => row'[k] = row[k]
    BY <2>3 DEF WentOut
  <2> QED
    BY <1>0, <1>2, <2>1, <2>3, <2>4, <2>5, <2>6, <2>7, Resting
<1> QED
  BY <1>1, <1>2 DEF Stop

\* close skips what a queued round has not sent.
LEMMA CloseSound ==
    ASSUME BulkInv, Close PROVE BulkInv'
<1>0. /\ email.started /\ callout = "open" /\ callout' = "closed"
      /\ UNCHANGED <<log, addr, lock, job, late>>
  BY DEF Close
<1>1. CASE email.status # "queued"
  <2>1. UNCHANGED <<row, count, email>>
    BY <1>1 DEF Close
  <2> QED
    BY <1>0, <2>1, Aside DEF BulkInv, BulkTypes, EmailType, OnTime
<1>2. CASE email.status = "queued"
  <2>0. /\ row' = SkippedPending(row)
        /\ count' = [count EXCEPT !.skipped = @ + PendingCount]
        /\ email' = [email EXCEPT !.status = "sent"]
    BY <1>2 DEF Close
  <2>1. EmailType' /\ email'.started /\ email'.status = "sent"
    BY <1>0, <2>0 DEF BulkInv, BulkTypes, EmailType
  <2>2. row \in Rows
    BY DEF BulkInv, BulkTypes, RowType, Rows
  <2>3. /\ row' \in Rows
        /\ \A k \in Keys : /\ row'[k].mid = row[k].mid
                           /\ row[k].st # "pending" => row'[k] = row[k]
                           /\ row[k].st = "pending" => row'[k].st = "skipped"
    BY <2>0, <2>2, SkippedRows
  <2>4. PendingCount \in Nat /\ count \in Counts
    BY CountsAreNumbers DEF PendingCount, BulkInv, BulkTypes, CountType
  <2>5. /\ count' \in Counts
        /\ count'.sent = count.sent /\ count'.bounced = count.bounced
        /\ count'.failed = count.failed
        /\ count'.skipped = count.skipped + PendingCount
    BY <2>0, <2>4 DEF Counts
  <2>6. CountOf(row', "skipped") = CountOf(row, "skipped") + PendingCount
    <3> DEFINE M == InStatus(row, {"pending"})
    <3>1. M \in SUBSET Keys /\ \A k \in Keys : k \in M <=> row[k].st = "pending"
      BY DEF InStatus
    <3>2. PendingCount = Cardinality(M)
      BY DEF PendingCount, CountOf
    <3> HIDE DEF M
    <3>3. \A k \in Keys : row'[k].st = "skipped" <=> row[k].st = "skipped" \/ k \in M
      BY <2>3, <3>1
    <3>4. \A k \in M : row[k].st # "skipped"
      BY <3>1
    <3> QED
      BY <3>1, <3>2, <3>3, <3>4, CountGrows
  <2>7. /\ CountOf(row', "sent") = CountOf(row, "sent")
        /\ CountOf(row', "bounced") = CountOf(row, "bounced")
        /\ CountOf(row', "failed") = CountOf(row, "failed")
    <3>1. \A k \in Keys : /\ row'[k].st = "sent" <=> row[k].st = "sent"
                          /\ row'[k].st = "bounced" <=> row[k].st = "bounced"
                          /\ row'[k].st = "failed" <=> row[k].st = "failed"
      BY <2>3
    <3> QED
      BY <3>1, CountUnchanged
  <2>8. Agree(count)
    BY <1>0, <1>2 DEF BulkInv, CountsKept
  <2>9. Agree(count)' /\ CountType'
    BY <2>5, <2>6, <2>7, <2>8 DEF Agree, CountType
  <2>10. Apart'
    BY <1>0, <2>3, FewerApart DEF Live
  <2>11. \A k \in Keys : Allowed(k)'
    BY <1>0, <1>2, <2>1, <2>3 DEF BulkInv, Standing, Allowed
  <2>12. \A k \in Keys : row[k].st \in WentOut => row'[k] = row[k]
    BY <2>3 DEF WentOut
  <2> QED
    BY <1>0, <1>2, <2>1, <2>3, <2>9, <2>10, <2>11, <2>12, Resting
<1> QED
  BY <1>1, <1>2

\* A round has one row for each of its people.
LEMMA RoundHasOneRowEach ==
    ASSUME NEW r \in Rounds, NEW P \in SUBSET People
    PROVE  LET M == {k \in Keys : Round(k) = r /\ Person(k) \in P}
           IN  Cardinality(M) = Cardinality(P)
<1> DEFINE M == {k \in Keys : Round(k) = r /\ Person(k) \in P}
           f == [p \in P |-> <<r, p>>]
<1>1. \A p \in P : <<r, p>> \in M
  BY DEF Keys, Round, Person
<1>2. f \in [P -> M]
  BY <1>1
<1>3. \A p, q \in P : f[p] = f[q] => p = q
  OBVIOUS
<1>4. \A k \in M : \E p \in P : f[p] = k
  <2> TAKE k \in M
  <2>1. Person(k) \in P /\ k = <<r, Person(k)>>
    BY RoundPerson
  <2> QED
    BY <2>1
<1> HIDE DEF f, M
<1>5. f \in Bijection(P, M)
  <2>1. f \in Injection(P, M)
    BY <1>2, <1>3 DEF Injection, IsInjective
  <2>2. f \in Surjection(P, M)
    BY <1>2, <1>4 DEF Surjection
  <2> QED
    BY <2>1, <2>2 DEF Bijection
<1>6. ExistsBijection(P, M)
  BY <1>5 DEF ExistsBijection
<1>7. IsFiniteSet(P)
  BY BulkAssumption, FS_Subset
<1>8. Cardinality(M) = Cardinality(P)
  BY <1>6, <1>7, FS_Bijection
<1> QED
  BY <1>8 DEF M

\* remind makes a round beyond every earlier one.
LEMMA RemindSound ==
    ASSUME BulkInv, Remind PROVE BulkInv'
<1> DEFINE waiting == Reached \ answers
           goes == Reminded(waiting)
           r == LastRound + 1
<1>0. /\ email.started /\ email.status = "sent" /\ callout = "open"
      /\ r <= MaxRound
      /\ row' = [k \in Keys |->
                   IF Round(k) = r /\ Person(k) \in waiting
                   THEN [st |-> IF Person(k) \in goes THEN "pending" ELSE "skipped", mid |-> 0]
                   ELSE row[k]]
      /\ count' = [count EXCEPT !.skipped = @ + Cardinality(waiting \ goes)]
      /\ email' = [email EXCEPT !.status = "queued", !.due = TRUE]
      /\ UNCHANGED <<log, addr, callout, lock, job, late>>
  BY DEF Remind, outside
<1>1. waiting \in SUBSET People
  BY RoundPerson DEF Reached, InStatus
<1>2. \A p, q \in goes : p # q => addr[p] # addr[q]
  <2>1. ASSUME NEW p \in goes, NEW q \in goes, p < q PROVE addr[p] # addr[q]
    BY <2>1 DEF Reminded, Sendable
  <2>2. \A p \in goes : p \in Nat
    BY <1>1, BulkAssumption DEF Reminded
  <2>3. \A p, q \in Nat : p # q => p < q \/ q < p
    OBVIOUS
  <2> HIDE DEF goes
  <2> QED
    BY <2>1, <2>2, <2>3
<1>3. row \in Rows
  BY DEF BulkInv, BulkTypes, RowType, Rows
<1>4. r \in Rounds /\ \A k \in Keys : Round(k) = r => row[k].st = "none"
  <2>1. LastRound \in Rounds /\ \A k \in Keys : Round(k) > LastRound => row[k].st = "none"
    <3>1. \A k \in Keys : row[k].st \in Statuses
      BY <1>3 DEF Rows
    <3> QED
      BY <3>1, LastRoundIsLast
  <2>2. LastRound \in Nat
    BY <2>1, BulkAssumption DEF Rounds
  <2> QED
    BY <1>0, <2>1, <2>2, BulkAssumption DEF Rounds
<1> HIDE DEF waiting, goes, r
<1>5. row' \in Rows
  BY <1>0, <1>3 DEF Rows, Statuses
<1>6. \A k \in Keys :
        /\ ~(Round(k) = r /\ Person(k) \in waiting) => row'[k] = row[k]
        /\ Round(k) = r /\ Person(k) \in waiting =>
             /\ row'[k].mid = 0 /\ row[k].st = "none"
             /\ Person(k) \in goes => row'[k].st = "pending"
             /\ Person(k) \notin goes => row'[k].st = "skipped"
  BY <1>0, <1>4
<1>7. Apart'
  <2> SUFFICES ASSUME NEW j \in Keys, NEW k \in Keys, j # k, Round(j) = Round(k), Live(j)', Live(k)'
               PROVE  addr[Person(j)] # addr[Person(k)]
    BY <1>0 DEF Apart
  <2>1. CASE Round(k) = r
    <3>1. Person(j) \in goes /\ Person(k) \in goes
      BY <1>4, <1>6, <2>1 DEF Live
    <3>2. Person(j) # Person(k)
      BY RoundPerson
    <3> QED
      BY <1>2, <3>1, <3>2
  <2>2. CASE Round(k) # r
    BY <1>6, <2>2 DEF BulkInv, Apart, Live
  <2> QED
    BY <2>1, <2>2
<1>8. EmailType' /\ email'.started /\ email'.status = "queued"
  BY <1>0 DEF BulkInv, BulkTypes, EmailType
<1> DEFINE P == waiting \ goes
           M == {k \in Keys : Round(k) = r /\ Person(k) \in P}
<1>9. Cardinality(M) = Cardinality(P)
  <2>1. P \in SUBSET People
    BY <1>1
  <2> HIDE DEF P
  <2> QED
    BY <1>4, <2>1, RoundHasOneRowEach
<1>10. Cardinality(P) \in Nat
  <2>1. P \in SUBSET People
    BY <1>1
  <2> QED
    BY <2>1, BulkAssumption, FS_Subset, FS_CardinalityType
<1>11. /\ count' \in Counts /\ count \in Counts
       /\ count'.sent = count.sent /\ count'.bounced = count.bounced
       /\ count'.failed = count.failed
       /\ count'.skipped = count.skipped + Cardinality(P)
  <2>1. count \in Counts
    BY DEF BulkInv, BulkTypes, CountType
  <2>3. count.skipped + Cardinality(P) \in Nat
    BY <1>10, <2>1 DEF Counts
  <2> QED
    BY <1>0, <2>1, <2>3 DEF Counts
<1>12. CountOf(row', "skipped") = CountOf(row, "skipped") + Cardinality(M)
  <2>1. M \in SUBSET Keys
    OBVIOUS
  <2>2. \A k \in Keys : row'[k].st = "skipped" <=> row[k].st = "skipped" \/ k \in M
    BY <1>6
  <2>3. \A k \in M : row[k].st # "skipped"
    BY <1>6
  <2> HIDE DEF M
  <2> QED
    BY <2>1, <2>2, <2>3, CountGrows
<1>13. /\ CountOf(row', "sent") = CountOf(row, "sent")
       /\ CountOf(row', "bounced") = CountOf(row, "bounced")
       /\ CountOf(row', "failed") = CountOf(row, "failed")
  <2>1. \A k \in Keys : /\ row'[k].st = "sent" <=> row[k].st = "sent"
                        /\ row'[k].st = "bounced" <=> row[k].st = "bounced"
                        /\ row'[k].st = "failed" <=> row[k].st = "failed"
    BY <1>6
  <2> QED
    BY <2>1, CountUnchanged
<1>14. Agree(count)
  BY <1>0 DEF BulkInv, CountsKept
<1> HIDE DEF P, M
<1>15. Agree(count)' /\ CountType'
  BY <1>9, <1>11, <1>12, <1>13, <1>14 DEF Agree, CountType
<1>16. \A k \in Keys : Allowed(k)'
  BY <1>0, <1>6, <1>8 DEF BulkInv, Standing, Allowed
<1>17. \A k \in Keys : row[k].st \in WentOut => row'[k] = row[k]
  BY <1>6 DEF WentOut
<1>18. \A k \in Keys : row'[k].mid \in {0, row[k].mid}
  BY <1>6
<1> QED
  BY <1>0, <1>5, <1>7, <1>8, <1>15, <1>16, <1>17, <1>18, Resting

-----------------------------------------------------------------------------
(* The sender's steps. *)

\* The advisory lock: while one worker is in run_sender the others are not.
LEMMA OneAtWork ==
    ASSUME BulkInv, NEW w \in Workers, job[w].pc # "idle"
    PROVE  lock = w /\ \A v \in Workers \ {w} : job[v].pc = "idle"
BY DEF BulkInv, Working

\* Only the worker that takes a step has anything in its hands.
LEMMA Hands ==
    ASSUME BulkInv, NEW w \in Workers, NEW j \in Job, job' = [job EXCEPT ![w] = j],
           \A v \in Workers \ {w} : job[v].pc = "idle",
           Working(w)', Holding(w)'
    PROVE  JobType' /\ \A v \in Workers : Working(v)' /\ Holding(v)'
<1>1. JobType' /\ \A v \in Workers \ {w} : job'[v] = job[v]
  BY DEF BulkInv, BulkTypes, JobType
<1>2. ASSUME NEW v \in Workers \ {w} PROVE Working(v)' /\ Holding(v)'
  <2>1. job'[v].pc = "idle"
    BY <1>1, <1>2
  <2> QED
    BY <2>1 DEF Working, Holding, SendingPC, Recover, InHand, Recovering, Looping
<1> QED
  BY <1>1, <1>2

\* A step of a worker that changes nothing but what it has in its hands.
LEMMA HandsMove ==
    ASSUME BulkInv, NEW w \in Workers, NEW j \in Job, job' = [job EXCEPT ![w] = j],
           \A v \in Workers \ {w} : job[v].pc = "idle",
           UNCHANGED <<email, count, row, log, addr, callout, late>>, j.pc # "handover",
           Working(w)', Holding(w)'
    PROVE  BulkInv'
<1>1. JobType' /\ \A v \in Workers : Working(v)' /\ Holding(v)'
  BY Hands
<1>2. BulkTypes' /\ Standing' /\ CountsKept' /\ LogInv' /\ Apart' /\ NothingLeft'
  BY <1>1 DEF BulkInv, BulkTypes, EmailType, RowType, LogType, CountType, Standing, Allowed,
         CountsKept, Agree, LogInv, Named, Logged, Apart, Live, NothingLeft, Left
<1>3. \A v \in Workers : job'[v].pc # "handover"
  BY DEF BulkInv, BulkTypes, JobType
<1>4. OnTime'
  BY <1>3 DEF BulkInv, OnTime
<1>5. ConfirmedBatch'
  BY DEF BulkInv, ConfirmedBatch, Batch
<1> QED
  BY <1>1, <1>2, <1>4, <1>5 DEF BulkInv

\* A worker that does nothing has an empty record.
LEMMA IdleIsJob == IdleJob \in Job
BY DEF IdleJob, Job, ZeroCount, Counts

\* The worker leaves run_sender, or dies.
LEMMA LeaveSound ==
    ASSUME BulkInv, NEW w \in Workers, job[w].pc # "idle", Leave(w),
           UNCHANGED <<email, count, row, log, addr, callout, late>>
    PROVE  BulkInv'
<1>1. job' = [job EXCEPT ![w] = IdleJob] /\ IdleJob.pc = "idle"
  BY DEF Leave, Goto, IdleJob
<1>2. job'[w].pc = "idle"
  BY <1>1 DEF BulkInv, BulkTypes, JobType
<1>3. Working(w)' /\ Holding(w)'
  BY <1>2 DEF Working, Holding, SendingPC, Recover, InHand, Recovering, Looping
<1>4. \A v \in Workers \ {w} : job[v].pc = "idle"
  BY OneAtWork
<1> QED
  BY <1>1, <1>3, <1>4, IdleIsJob, HandsMove

\* A run that dies leaves the rows as they are, and the lock free.
LEMMA CrashSound ==
    ASSUME BulkInv, NEW w \in Workers, Crash(w) PROVE BulkInv'
BY LeaveSound DEF Crash, outside

\* Run now out of time leaves like a run that dies.
LEMMA OutOfTimeSound ==
    ASSUME BulkInv, NEW w \in Workers, OutOfTime(w) PROVE BulkInv'
BY LeaveSound DEF OutOfTime, outside

\* run_sender takes the advisory lock with nothing in its hands.
LEMMA RunSenderSound ==
    ASSUME BulkInv, NEW w \in Workers, RunSender(w) PROVE BulkInv'
<1> DEFINE pc == IF email.status = "sending" THEN "send" ELSE "claim"
           j == [IdleJob EXCEPT !.pc = pc]
<1>1. job' = [job EXCEPT ![w] = j] /\ lock = "free" /\ lock' = w
      /\ UNCHANGED <<email, count, row, log, addr, callout, late>>
  BY DEF RunSender, Goto, Lock, outside
<1>2. /\ j \in Job /\ j.todo = {} /\ j.went = {}
      /\ j.pc = "claim" \/ (j.pc = "send" /\ email.status = "sending")
  BY DEF IdleJob, Job, ZeroCount, Counts, SendingPC
<1>3. job'[w] = j
  BY <1>1 DEF BulkInv, BulkTypes, JobType
<1>4. \A v \in Workers : job[v].pc = "idle"
  BY <1>1, BulkAssumption DEF BulkInv, Working
<1> HIDE DEF j
<1>5. Working(w)'
  BY <1>1, <1>2, <1>3 DEF Working, SendingPC, Recover, InHand, Recovering, Looping
<1>6. Holding(w)'
  BY <1>2, <1>3 DEF Holding, SendingPC, Recover, InHand, Recovering, Looping
<1> QED
  BY <1>1, <1>2, <1>4, <1>5, <1>6, HandsMove

\* _recover_logged_copies lists every copy a dead run left behind.
LEMMA BeginSendSound ==
    ASSUME BulkInv, NEW w \in Workers, BeginSend(w) PROVE BulkInv'
<1> DEFINE went == {<<k, log[row[k].mid].st>> : k \in LoggedCopies}
           j == [job[w] EXCEPT !.pc = "recover", !.went = went]
<1>1. job' = [job EXCEPT ![w] = j] /\ job[w].pc = "send" /\ lock' = lock
      /\ UNCHANGED <<email, count, row, log, addr, callout, late>>
  BY DEF BeginSend, Goto, outside
<1>2. \A k \in LoggedCopies : k \in Keys /\ row[k].st = "pending" /\ log[row[k].mid].st \in WentOut
  BY DEF LoggedCopies, InStatus, WentOut
<1>3. went \in SUBSET (Keys \X WentOut)
  BY <1>2
<1>4. \A e \in went : row[e[1]].st = "pending" /\ \A f \in went : f[1] = e[1] => f = e
  BY <1>2
<1>5. \A k \in Keys : Left(k) => \E e \in went : e[1] = k
  <2> SUFFICES ASSUME NEW k \in Keys, Left(k) PROVE \E e \in went : e[1] = k
    OBVIOUS
  <2>1. k \in LoggedCopies
    BY DEF Left, LoggedCopies, InStatus, WentOut
  <2>2. <<k, log[row[k].mid].st>> \in went
    BY <2>1
  <2> QED
    BY <2>2
<1> HIDE DEF went
<1>6. job[w] \in Job /\ job[w].todo = {} /\ email.status = "sending"
  BY <1>1 DEF BulkInv, BulkTypes, JobType, Working, SendingPC
<1>7. j \in Job /\ j.pc = "recover" /\ j.todo = {} /\ j.went = went
  BY <1>3, <1>6 DEF Job, SendingPC, Recover
<1>8. job'[w] = j
  BY <1>1 DEF BulkInv, BulkTypes, JobType
<1> HIDE DEF j
<1>9. lock = w /\ \A v \in Workers \ {w} : job[v].pc = "idle"
  BY <1>1, OneAtWork
<1>10. Working(w)'
  BY <1>1, <1>6, <1>7, <1>8, <1>9 DEF Working, SendingPC, Recover, InHand, Recovering, Looping
<1>11. Holding(w)'
  BY <1>1, <1>4, <1>5, <1>7, <1>8 DEF Holding, Left, InHand, Recover, Recovering, Looping
<1> QED
  BY <1>1, <1>7, <1>9, <1>10, <1>11, HandsMove

\* The rows to send are listed once nothing is left behind.
LEMMA ListRowsSound ==
    ASSUME BulkInv, NEW w \in Workers, ListRows(w) PROVE BulkInv'
<1> DEFINE todo == InStatus(row, {"pending"})
           j == [job[w] EXCEPT !.pc = "loop", !.todo = todo]
<1>1. job' = [job EXCEPT ![w] = j] /\ job[w].pc = "recover" /\ job[w].went = {} /\ lock' = lock
      /\ UNCHANGED <<email, count, row, log, addr, callout, late>>
  BY DEF ListRows, Goto, outside
<1>2. todo \in SUBSET Keys /\ \A k \in todo : row[k].st = "pending"
  BY DEF InStatus
<1> HIDE DEF todo
<1>3. job[w] \in Job /\ email.status = "sending"
  BY <1>1 DEF BulkInv, BulkTypes, JobType, Working, SendingPC, Recover
<1>4. \A k \in Keys : ~Left(k)
  BY <1>1 DEF BulkInv, Holding, Recovering, Recover
<1>5. j \in Job /\ j.pc = "loop" /\ j.todo = todo /\ j.went = {}
  BY <1>1, <1>2, <1>3 DEF Job, SendingPC, Recover
<1>6. job'[w] = j
  BY <1>1 DEF BulkInv, BulkTypes, JobType
<1> HIDE DEF j
<1>7. lock = w /\ \A v \in Workers \ {w} : job[v].pc = "idle"
  BY <1>1, OneAtWork
<1>8. Working(w)'
  BY <1>1, <1>3, <1>5, <1>6, <1>7 DEF Working, SendingPC, Recover, InHand, Recovering, Looping
<1>9. Holding(w)'
  BY <1>1, <1>2, <1>4, <1>5, <1>6 DEF Holding, Left, InHand, Recover, Recovering, Looping
<1> QED
  BY <1>1, <1>5, <1>7, <1>8, <1>9, HandsMove

\* The counts apply_stop reads are those of the rows as they will be.
LEMMA SeeStopSound ==
    ASSUME BulkInv, NEW w \in Workers, job[w].pc \in {"loop", "paced"}, SeeStop(w),
           UNCHANGED <<email, count, row, log, addr, callout, lock, late>>
    PROVE  BulkInv'
<1> DEFINE tally == Recount(Stopped(row))
           j == [IdleJob EXCEPT !.pc = "stop", !.tally = tally]
<1>1. job' = [job EXCEPT ![w] = j]
  BY DEF SeeStop, Goto
<1>2. Agree(tally) /\ tally \in Counts
  <2>1. row \in Rows
    BY DEF BulkInv, BulkTypes, RowType, Rows
  <2>2. \A k \in Keys : \A st \in {"sent", "bounced", "failed", "skipped"} :
            Stopped(row)[k].st = st <=> row[k].st = st
    BY <2>1, StoppedRows
  <2>3. \A st \in {"sent", "bounced", "failed", "skipped"} :
            CountOf(Stopped(row), st) = CountOf(row, st)
    <3> TAKE st \in {"sent", "bounced", "failed", "skipped"}
    <3>1. \A k \in Keys : Stopped(row)[k].st = st <=> row[k].st = st
      BY <2>2
    <3> QED
      BY <3>1, CountUnchanged
  <2> QED
    BY <2>3, RecountAgrees DEF Agree
<1> HIDE DEF tally
<1>3. j \in Job /\ j.pc = "stop" /\ j.tally = tally /\ j.todo = {} /\ j.went = {}
  BY <1>2 DEF IdleJob, Job, SendingPC
<1>4. job'[w] = j
  BY <1>1 DEF BulkInv, BulkTypes, JobType
<1> HIDE DEF j
<1>5. email.status = "sending" /\ \A k \in Keys : ~Left(k)
  BY DEF BulkInv, Working, Holding, SendingPC, InHand, Looping
<1>6. lock = w /\ \A v \in Workers \ {w} : job[v].pc = "idle"
  BY OneAtWork
<1>7. Working(w)'
  BY <1>3, <1>4, <1>5, <1>6 DEF Working, SendingPC, Recover, InHand, Recovering, Looping
<1>8. Holding(w)'
  <2>1. Agree(tally)'
    BY <1>2 DEF Agree, tally
  <2> QED
    BY <1>2, <1>3, <1>4, <1>5 DEF Holding, Agree, Left, InHand, Recover, Recovering, Looping
<1> QED
  BY <1>1, <1>3, <1>6, <1>7, <1>8, HandsMove

\* The head of the loop: a stop seen, or the next row in hand.
LEMMA NextCopySound ==
    ASSUME BulkInv, NEW w \in Workers, NextCopy(w) PROVE BulkInv'
<1>0. job[w].pc = "loop" /\ job[w].todo # {}
      /\ UNCHANGED <<email, count, row, log, addr, callout, lock, late>>
  BY DEF NextCopy, outside
<1>1. CASE SeeStop(w)
  BY <1>0, <1>1, SeeStopSound
<1>2. CASE Goto(w, [job[w] EXCEPT !.pc = "paced", !.key = FirstOf(job[w].todo)])
  <2> DEFINE k == FirstOf(job[w].todo)
             j == [job[w] EXCEPT !.pc = "paced", !.key = k]
  <2>1. job' = [job EXCEPT ![w] = j]
    BY <1>2 DEF Goto
  <2>2. job[w] \in Job
    BY DEF BulkInv, BulkTypes, JobType
  <2>3. k \in job[w].todo /\ k \in Keys
    BY <1>0, <2>2, FirstOfIn DEF Job
  <2> HIDE DEF k
  <2>4. j \in Job /\ j.pc = "paced" /\ j.key = k /\ j.todo = job[w].todo /\ j.went = job[w].went
    BY <2>2, <2>3 DEF Job, SendingPC, InHand
  <2>5. job'[w] = j
    BY <2>1 DEF BulkInv, BulkTypes, JobType
  <2> HIDE DEF j
  <2>6. lock = w /\ \A v \in Workers \ {w} : job[v].pc = "idle"
    BY <1>0, OneAtWork
  <2>7. /\ email.status = "sending" /\ job[w].went = {}
        /\ \A i \in job[w].todo : row[i].st = "pending"
        /\ \A i \in Keys : ~Left(i)
    BY <1>0 DEF BulkInv, Working, Holding, SendingPC, Looping
  <2>8. Working(w)'
    BY <1>0, <2>3, <2>4, <2>5, <2>6, <2>7
       DEF Working, SendingPC, Recover, InHand, Recovering, Looping
  <2>9. Holding(w)'
    BY <1>0, <2>4, <2>5, <2>7 DEF Holding, Left, InHand, Recover, Recovering, Looping
  <2> QED
    BY <1>0, <2>1, <2>4, <2>6, <2>8, <2>9, HandsMove
<1> QED
  BY <1>1, <1>2 DEF NextCopy

\* _finish reads the counts once no row is pending.
LEMMA FinishReadSound ==
    ASSUME BulkInv, NEW w \in Workers, FinishRead(w) PROVE BulkInv'
<1> DEFINE tally == Recount(row)
           j == [job[w] EXCEPT !.pc = "finish", !.tally = tally]
<1>0. job[w].pc = "loop" /\ PendingCount = 0 /\ job' = [job EXCEPT ![w] = j]
      /\ UNCHANGED <<email, count, row, log, addr, callout, lock, late>>
  BY DEF FinishRead, Goto, outside
<1>1. Agree(tally) /\ tally \in Counts
  BY RecountAgrees DEF Agree
<1>2. \A k \in Keys : row[k].st # "pending"
  <2>1. IsFiniteSet(InStatus(row, {"pending"}))
    BY CountsAreNumbers
  <2>2. InStatus(row, {"pending"}) = {}
    BY <1>0, <2>1, FS_EmptySet DEF PendingCount, CountOf
  <2> QED
    BY <2>2 DEF InStatus
<1>3. job[w] \in Job
  BY DEF BulkInv, BulkTypes, JobType
<1> HIDE DEF tally
<1>4. j \in Job /\ j.pc = "finish" /\ j.tally = tally /\ j.todo = job[w].todo
      /\ j.went = job[w].went
  BY <1>1, <1>3 DEF Job, SendingPC
<1>5. job'[w] = j
  BY <1>0 DEF BulkInv, BulkTypes, JobType
<1> HIDE DEF j
<1>6. lock = w /\ \A v \in Workers \ {w} : job[v].pc = "idle"
  BY <1>0, OneAtWork
<1>7. email.status = "sending" /\ \A k \in Keys : ~Left(k)
  BY <1>0 DEF BulkInv, Working, Holding, SendingPC, Looping
<1>8. Working(w)'
  BY <1>0, <1>4, <1>5, <1>6, <1>7 DEF Working, SendingPC, Recover, InHand, Recovering, Looping
<1>9. Holding(w)'
  BY <1>0, <1>1, <1>2, <1>4, <1>5, <1>7
     DEF Holding, Agree, Left, InHand, Recover, Recovering, Looping
<1> QED
  BY <1>0, <1>4, <1>6, <1>8, <1>9, HandsMove

-----------------------------------------------------------------------------
(* Copies in the sender's hands. *)

\* A step of the sender that takes live rows on, while the email is being sent.
LEMMA SendingStep ==
    ASSUME BulkInv, NEW w \in Workers, NEW j \in Job, job' = [job EXCEPT ![w] = j],
           \A v \in Workers \ {w} : job[v].pc = "idle",
           email.status = "sending", email' = email, row' \in Rows, LogType', CountType',
           late' \in Nat,
           \A k \in Keys : \/ row'[k].st = row[k].st
                           \/ Live(k) /\ row'[k].st \in {"sent", "bounced", "failed", "skipped"},
           LogInv', Working(w)', Holding(w)', OnTime', addr' = addr
    PROVE  BulkInv'
<1>1. JobType' /\ \A v \in Workers : Working(v)' /\ Holding(v)'
  BY Hands
<1>2. BulkTypes'
  BY <1>1 DEF BulkInv, BulkTypes, EmailType, RowType, Rows
<1>3. email.started
  BY DEF BulkInv, Standing
<1>4. Standing'
  BY <1>3 DEF BulkInv, Standing, Allowed
<1>5. CountsKept' /\ NothingLeft' /\ ConfirmedBatch'
  BY DEF CountsKept, NothingLeft, ConfirmedBatch
<1>6. Apart'
  BY FewerApart DEF Live
<1> QED
  BY <1>1, <1>2, <1>4, <1>5, <1>6 DEF BulkInv

\* What the worker that has a copy in hand knows of it.
LEMMA InHandFacts ==
    ASSUME BulkInv, NEW w \in Workers, job[w].pc \in InHand
    PROVE  /\ job[w] \in Job /\ job[w].key \in Keys /\ job[w].key \in job[w].todo
           /\ row[job[w].key].st = "pending" /\ job[w].went = {} /\ email.status = "sending"
           /\ lock = w /\ \A v \in Workers \ {w} : job[v].pc = "idle"
           /\ \A k \in job[w].todo : row[k].st = "pending"
           /\ job[w].pc # "record" => \A k \in Keys : ~Left(k)
<1>1. job[w] \in Job
  BY DEF BulkInv, BulkTypes, JobType
<1>2. job[w].key \in job[w].todo /\ job[w].went = {} /\ email.status = "sending"
  BY DEF BulkInv, Working, InHand, SendingPC, Looping
<1>3. /\ \A k \in job[w].todo : row[k].st = "pending"
      /\ job[w].pc # "record" => \A k \in Keys : ~Left(k)
  BY DEF BulkInv, Holding, InHand, Looping
<1>4. lock = w /\ \A v \in Workers \ {w} : job[v].pc = "idle"
  BY OneAtWork DEF InHand
<1> QED
  BY <1>1, <1>2, <1>3, <1>4 DEF Job

\* A step on one copy that was not logged as gone leaves the log true, if the copy's own
\* entries are.
LEMMA LogStep ==
    ASSUME BulkInv, NEW k \in Keys, \A i \in Keys \ {k} : row'[i] = row[i],
           Len(log) \in Nat, Len(log') \in Nat, Len(log) <= Len(log'),
           \A m \in 1 .. Len(log) : log'[m].key = log[m].key
                                    /\ (log[m].key # k => log'[m] = log[m]),
           \A m \in 1 .. Len(log') : m > Len(log) => log'[m].key = k,
           Named(k)',
           \A m \in 1 .. Len(log') : log'[m].key = k => Logged(m)'
    PROVE  LogInv' /\ \A i \in Keys \ {k} : Left(i)' => Left(i)
<1>1. ASSUME NEW i \in Keys \ {k}
      PROVE  Named(i)' /\ (Left(i)' => Left(i))
  <2>1. row[i].mid # 0 => row[i].mid \in 1 .. Len(log) /\ log[row[i].mid].key = i
    BY DEF BulkInv, LogInv, Named
  <2>2. row[i].mid # 0 => row[i].mid \in 1 .. Len(log') /\ log'[row[i].mid] = log[row[i].mid]
    BY <2>1
  <2>3. row'[i] = row[i]
    OBVIOUS
  <2> QED
    BY <2>1, <2>2, <2>3 DEF Named, Left
<1>2. ASSUME NEW m \in 1 .. Len(log') PROVE Logged(m)'
  <2>1. CASE log'[m].key = k
    BY <2>1
  <2>2. CASE log'[m].key # k
    <3>1. m \in 1 .. Len(log)
      BY <2>2
    <3>2. log'[m] = log[m] /\ log[m].key \in Keys \ {k}
      BY <2>2, <3>1, LogEntries DEF BulkInv, BulkTypes
    <3>3. Logged(m)
      BY <3>1 DEF BulkInv, LogInv
    <3> QED
      BY <3>2, <3>3 DEF Logged
  <2> QED
    BY <2>1, <2>2
<1> QED
  BY <1>1, <1>2 DEF LogInv

\* No entry of a pending copy that is not left behind shows it gone.
LEMMA NoEntryGone ==
    ASSUME BulkInv, NEW k \in Keys, row[k].st = "pending", ~Left(k),
           NEW m \in 1 .. Len(log), log[m].key = k
    PROVE  log[m].st \notin WentOut
<1>1. Logged(m) /\ m # 0
  BY DEF BulkInv, LogInv
<1> QED
  BY <1>1 DEF Logged, Left

\* A new Message-ID leaves the earlier entries as they are.
LEMMA LogAppends ==
    ASSUME NEW l \in Seq(Entry), NEW e \in Entry
    PROVE  /\ Append(l, e) \in Seq(Entry) /\ Len(l) \in Nat
           /\ Len(Append(l, e)) = Len(l) + 1
           /\ \A m \in 1 .. Len(l) : Append(l, e)[m] = l[m]
           /\ Append(l, e)[Len(l) + 1] = e
BY AppendProperties, LenProperties

Written(l, m, st) == [l EXCEPT ![m].st = st]

\* A new status of one entry leaves the other entries and every key as they are.
LEMMA LogSets ==
    ASSUME NEW l \in Seq(Entry), NEW m \in 1 .. Len(l),
           NEW st \in EntryStatuses,
           NEW new, new = Written(l, m, st)
    PROVE  /\ new \in Seq(Entry) /\ Len(l) \in Nat
           /\ Len(new) = Len(l)
           /\ \A i \in 1 .. Len(l) : new[i].key = l[i].key /\ (i # m => new[i] = l[i])
           /\ new[m].st = st
<1>1. l[m] \in Entry
  BY ElementOfSeq
<1>2. [l[m] EXCEPT !.st = st] \in Entry /\ [l[m] EXCEPT !.st = st].key = l[m].key
      /\ [l[m] EXCEPT !.st = st].st = st
  BY <1>1 DEF Entry
<1> DEFINE e == [l[m] EXCEPT !.st = st]
<1>3. new = [l EXCEPT ![m] = e]
  BY DEF Written
<1> HIDE DEF e
<1>4. [l EXCEPT ![m] = e] \in Seq(Entry) /\ Len([l EXCEPT ![m] = e]) = Len(l)
      /\ \A i \in 1 .. Len(l) : [l EXCEPT ![m] = e][i] = IF i = m THEN e ELSE l[i]
  BY <1>2, ExceptSeq DEF e
<1>5. Len(l) \in Nat
  BY LenProperties
<1> QED
  BY <1>2, <1>3, <1>4, <1>5 DEF e

\* A worker in its loop that has only copies to send in its hands.
LEMMA LoopHolds ==
    ASSUME NEW w \in Workers,
           \/ job'[w].pc \in {"loop", "paced", "handover", "taken"}
           \/ job'[w].pc = "count" /\ job'[w].next \in {"loop", "claim"},
           \A k \in job'[w].todo : row'[k].st = "pending",
           \A k \in Keys : ~Left(k)',
           job'[w].pc \in {"handover", "taken"} => row'[job'[w].key].mid # 0
    PROVE  Holding(w)'
BY DEF Holding, InHand, Recover, Recovering, Looping

\* After the pause: a stop seen, a copy skipped, or a Message-ID saved.
LEMMA AfterPauseSound ==
    ASSUME BulkInv, NEW w \in Workers, AfterPause(w) PROVE BulkInv'
<1>0. PICK k : k = job[w].key
  OBVIOUS
<1>1. job[w].pc = "paced" /\ UNCHANGED <<email, count, addr, callout, lock, late>>
  BY DEF AfterPause, outside
<1>2. /\ job[w] \in Job /\ k \in Keys /\ k \in job[w].todo
      /\ row[k].st = "pending" /\ job[w].went = {} /\ email.status = "sending"
      /\ lock = w /\ \A v \in Workers \ {w} : job[v].pc = "idle"
      /\ \A i \in job[w].todo : row[i].st = "pending"
      /\ \A i \in Keys : ~Left(i)
  BY <1>0, <1>1, InHandFacts DEF InHand
<1>3. row \in Rows /\ log \in Seq(Entry) /\ CountType /\ late \in Nat
  BY DEF BulkInv, BulkTypes, RowType, Rows, LogType
<1>4. CASE SeeStop(w) /\ UNCHANGED <<row, log>>
  BY <1>1, <1>4, SeeStopSound
<1>5. CASE /\ row' = [row EXCEPT ![k].st = "skipped"]
           /\ Goto(w, [job[w] EXCEPT !.pc = "count", !.out = "skipped", !.next = "loop",
                                     !.todo = @ \ {k}])
           /\ UNCHANGED log
  <2> DEFINE j == [job[w] EXCEPT !.pc = "count", !.out = "skipped", !.next = "loop",
                                 !.todo = job[w].todo \ {k}]
  <2>1. job' = [job EXCEPT ![w] = j]
    BY <1>5 DEF Goto
  <2>2. /\ j \in Job /\ j.pc = "count" /\ j.out = "skipped" /\ j.next = "loop"
        /\ j.todo = job[w].todo \ {k} /\ j.went = job[w].went
    BY <1>2 DEF Job, SendingPC
  <2>3. job'[w] = j
    BY <2>1 DEF BulkInv, BulkTypes, JobType
  <2> HIDE DEF j
  <2>4. /\ row' \in Rows /\ row'[k].st = "skipped" /\ row'[k].mid = row[k].mid
        /\ \A i \in Keys \ {k} : row'[i] = row[i]
    BY <1>2, <1>3, <1>5 DEF Rows, Statuses
  <2>5. LogInv' /\ \A i \in Keys : ~Left(i)'
    <3>1. \A i \in Keys : row[i].st \in WentOut => row'[i] = row[i]
      BY <1>2, <2>4 DEF WentOut
    <3>2. \A i \in Keys : row'[i].mid \in {0, row[i].mid}
      BY <2>4
    <3> QED
      BY <1>2, <1>5, <3>1, <3>2, LogQuiet
  <2>6. Working(w)'
    BY <1>1, <1>2, <2>2, <2>3 DEF Working, SendingPC, Recover, InHand, Recovering, Looping
  <2>7. Holding(w)'
    <3>1. \A i \in job'[w].todo : row'[i].st = "pending"
      <4>1. job[w].todo \in SUBSET Keys
        BY <1>2 DEF Job
      <4> QED
        BY <1>2, <2>2, <2>3, <2>4, <4>1
    <3> QED
      BY <2>2, <2>3, <2>5, <3>1, LoopHolds
  <2>8. OnTime'
    <3>1. \A v \in Workers : job'[v].pc # "handover"
      BY <1>2, <2>1, <2>2 DEF BulkInv, BulkTypes, JobType
    <3> QED
      BY <1>1, <3>1 DEF BulkInv, OnTime
  <2>9. LogType' /\ CountType'
    BY <1>1, <1>3, <1>5 DEF LogType, CountType
  <2>10. \A i \in Keys : row'[i].st = row[i].st \/ (Live(i) /\ row'[i].st = "skipped")
    BY <1>2, <2>4 DEF Live
  <2> QED
    BY <1>1, <1>2, <1>3, <2>1, <2>2, <2>4, <2>5, <2>6, <2>7, <2>8, <2>9, <2>10, SendingStep
<1>6. CASE /\ ~IsClosed
           /\ log' = Append(log, [key |-> k, st |-> "saved"])
           /\ row' = [row EXCEPT ![k].mid = Len(log')]
           /\ Goto(w, [job[w] EXCEPT !.pc = "handover", !.tries = 0])
  <2> DEFINE j == [job[w] EXCEPT !.pc = "handover", !.tries = 0]
             e == [key |-> k, st |-> "saved"]
  <2>1. job' = [job EXCEPT ![w] = j]
    BY <1>6 DEF Goto
  <2>2. /\ j \in Job /\ j.pc = "handover" /\ j.key = k
        /\ j.todo = job[w].todo /\ j.went = job[w].went
    BY <1>0, <1>2 DEF Job, SendingPC, InHand
  <2>3. job'[w] = j
    BY <2>1 DEF BulkInv, BulkTypes, JobType
  <2> HIDE DEF j
  <2>4. e \in Entry /\ e.key = k /\ e.st = "saved"
    BY <1>2 DEF Entry, EntryStatuses
  <2>5. log' = Append(log, e)
    BY <1>6
  <2> HIDE DEF e
  <2>6. /\ log' \in Seq(Entry) /\ Len(log) \in Nat /\ Len(log') = Len(log) + 1
        /\ \A m \in 1 .. Len(log) : log'[m] = log[m]
        /\ log'[Len(log')] = e
    BY <1>3, <2>4, <2>5, LogAppends
  <2>7. /\ row' \in Rows /\ row'[k].st = "pending" /\ row'[k].mid = Len(log')
        /\ \A i \in Keys \ {k} : row'[i] = row[i]
    BY <1>2, <1>3, <1>6, <2>6 DEF Rows, Statuses
  <2>8. \A m \in 1 .. Len(log') : log'[m].key = k => log'[m].st \notin WentOut
    <3> TAKE m \in 1 .. Len(log')
    <3>1. CASE m = Len(log')
      BY <2>4, <2>6, <3>1 DEF WentOut
    <3>2. CASE m # Len(log')
      <4>1. m \in 1 .. Len(log)
        BY <2>6, <3>2
      <4> QED
        BY <1>2, <2>6, <4>1, NoEntryGone
    <3> QED
      BY <3>1, <3>2
  <2>9. Named(k)' /\ ~Left(k)'
    BY <2>4, <2>6, <2>7, <2>8 DEF Named, Left
  <2>10. LogInv' /\ \A i \in Keys \ {k} : Left(i)' => Left(i)
    <3>1. \A m \in 1 .. Len(log') : log'[m].key = k => Logged(m)'
      BY <2>8 DEF Logged
    <3>2. \A m \in 1 .. Len(log') : m > Len(log) => log'[m].key = k
      BY <2>4, <2>6
    <3> QED
      BY <1>2, <2>6, <2>7, <2>9, <3>1, <3>2, LogStep
  <2>11. \A i \in Keys : ~Left(i)'
    BY <1>2, <2>9, <2>10
  <2>12. Working(w)'
    BY <1>1, <1>2, <2>2, <2>3 DEF Working, SendingPC, Recover, InHand, Recovering, Looping
  <2>13. Holding(w)'
    <3>1. \A i \in job'[w].todo : row'[i].st = "pending"
      <4>1. job[w].todo \in SUBSET Keys
        BY <1>2 DEF Job
      <4> QED
        BY <1>2, <2>2, <2>3, <2>7, <4>1
    <3>2. row'[job'[w].key].mid # 0
      BY <2>2, <2>3, <2>6, <2>7
    <3> QED
      BY <2>2, <2>3, <2>11, <3>1, <3>2, LoopHolds
  <2>14. OnTime'
    BY <1>1, <1>6 DEF BulkInv, OnTime, IsClosed
  <2>15. LogType' /\ CountType'
    BY <1>1, <1>3, <2>6 DEF LogType, CountType
  <2>16. \A i \in Keys : row'[i].st = row[i].st
    BY <1>2, <2>7
  <2> QED
    BY <1>1, <1>2, <1>3, <2>1, <2>2, <2>7, <2>10, <2>12, <2>13, <2>14, <2>15, <2>16,
       SendingStep
<1> QED
  BY <1>0, <1>4, <1>5, <1>6 DEF AfterPause, Gone

\* The log entry of the copy in hand is written; no other copy's entry changes.
LEMMA EntryWritten ==
    ASSUME BulkInv, NEW k \in Keys, row[k].st = "pending", row[k].mid # 0,
           \A i \in Keys : ~Left(i),
           NEW st \in EntryStatuses,
           log' = [log EXCEPT ![row[k].mid].st = st], row' = row
    PROVE  LogType' /\ LogInv' /\ \A i \in Keys : Left(i)' => i = k /\ st \in WentOut
<1>0. PICK m : m = row[k].mid
  OBVIOUS
<1>1. m \in 1 .. Len(log) /\ log[m].key = k
  BY <1>0 DEF BulkInv, LogInv, Named
<1>2. log \in Seq(Entry)
  BY DEF BulkInv, BulkTypes, LogType
<1>3. /\ log' \in Seq(Entry) /\ Len(log) \in Nat /\ Len(log') = Len(log)
      /\ \A i \in 1 .. Len(log) : log'[i].key = log[i].key /\ (i # m => log'[i] = log[i])
      /\ log'[m].st = st
  <2>1. PICK new : new = Written(log, m, st)
    OBVIOUS
  <2>2. /\ new \in Seq(Entry) /\ Len(log) \in Nat /\ Len(new) = Len(log)
        /\ \A i \in 1 .. Len(log) : new[i].key = log[i].key /\ (i # m => new[i] = log[i])
        /\ new[m].st = st
    BY <1>1, <1>2, <2>1, LogSets
  <2>3. log' = new
    BY <1>0, <2>1 DEF Written
  <2> QED
    BY <2>2, <2>3
<1>4. LogType'
  BY <1>3 DEF LogType
<1>5. Named(k)'
  BY <1>0, <1>1, <1>3 DEF Named
<1>6. ASSUME NEW n \in 1 .. Len(log'), log'[n].key = k PROVE Logged(n)'
  <2>1. CASE n = m
    BY <1>0, <1>6, <2>1 DEF Logged
  <2>2. CASE n # m
    <3>1. log'[n] = log[n] /\ n \in 1 .. Len(log)
      BY <1>3, <2>2
    <3>2. log[n].st \notin WentOut
      BY <1>6, <3>1, NoEntryGone
    <3> QED
      BY <3>1, <3>2 DEF Logged
  <2> QED
    BY <2>1, <2>2
<1>7. LogInv' /\ \A i \in Keys \ {k} : Left(i)' => Left(i)
  <2>1. \A i \in 1 .. Len(log) : log'[i].key = log[i].key /\ (log[i].key # k => log'[i] = log[i])
    BY <1>1, <1>3
  <2>2. \A i \in 1 .. Len(log') : i > Len(log) => log'[i].key = k
    BY <1>3
  <2>3. \A i \in Keys \ {k} : row'[i] = row[i]
    OBVIOUS
  <2> QED
    BY <1>3, <1>5, <1>6, <2>1, <2>2, <2>3, LogStep
<1>8. Left(k)' => st \in WentOut
  BY <1>0, <1>3 DEF Left
<1> QED
  BY <1>4, <1>7, <1>8

\* The mail server takes the copy; only this one can be late.
LEMMA AcceptedSound ==
    ASSUME BulkInv, NEW w \in Workers, Accepted(w) PROVE BulkInv'
<1>0. PICK k : k = job[w].key
  OBVIOUS
<1> DEFINE j == [job[w] EXCEPT !.pc = "taken"]
<1>1. /\ job[w].pc = "handover" /\ UNCHANGED <<email, count, row, addr, callout, lock>>
      /\ log' = [log EXCEPT ![row[k].mid].st = "taken"]
      /\ late' = IF IsClosed THEN late + 1 ELSE late
      /\ job' = [job EXCEPT ![w] = j]
  BY <1>0 DEF Accepted, LogStatus, Goto, outside
<1>2. /\ job[w] \in Job /\ k \in Keys /\ k \in job[w].todo
      /\ row[k].st = "pending" /\ job[w].went = {} /\ email.status = "sending"
      /\ lock = w /\ \A v \in Workers \ {w} : job[v].pc = "idle"
      /\ \A i \in job[w].todo : row[i].st = "pending"
      /\ \A i \in Keys : ~Left(i)
  BY <1>0, <1>1, InHandFacts DEF InHand
<1>3. row[k].mid # 0
  BY <1>0, <1>1 DEF BulkInv, Holding
<1>4. LogType' /\ LogInv' /\ \A i \in Keys : ~Left(i)'
  <2>1. "taken" \in EntryStatuses /\ "taken" \notin WentOut
    BY DEF WentOut, EntryStatuses
  <2>2. row' = row /\ log' = [log EXCEPT ![row[k].mid].st = "taken"]
    BY <1>1
  <2> QED
    BY <1>2, <1>3, <2>1, <2>2, EntryWritten
<1>5. /\ j \in Job /\ j.pc = "taken" /\ j.key = k
      /\ j.todo = job[w].todo /\ j.went = job[w].went
  BY <1>0, <1>2 DEF Job, SendingPC, InHand
<1>6. job'[w] = j
  BY <1>1 DEF BulkInv, BulkTypes, JobType
<1> HIDE DEF j
<1>7. Working(w)'
  BY <1>1, <1>2, <1>5, <1>6 DEF Working, SendingPC, Recover, InHand, Recovering, Looping
<1>8. Holding(w)'
  BY <1>1, <1>2, <1>3, <1>4, <1>5, <1>6, LoopHolds
<1>9. OnTime' /\ late' \in Nat
  <2>1. \A v \in Workers : job'[v].pc # "handover"
    BY <1>1, <1>2, <1>5 DEF BulkInv, BulkTypes, JobType
  <2>2. late \in Nat /\ late = 0
    BY <1>1 DEF BulkInv, BulkTypes, OnTime
  <2>3. email.started
    BY <1>2 DEF BulkInv, Standing
  <2> QED
    BY <1>1, <2>1, <2>2, <2>3 DEF OnTime, IsClosed
<1>10. row' \in Rows /\ CountType'
  BY <1>1 DEF BulkInv, BulkTypes, RowType, Rows, CountType
<1>11. \A i \in Keys : row'[i].st = row[i].st
  BY <1>1
<1> QED
  BY <1>1, <1>2, <1>4, <1>5, <1>7, <1>8, <1>9, <1>10, <1>11, SendingStep

\* The worker has the outcome of its copy: the log shows it gone only if it was sent.
LEMMA RecordHolds ==
    ASSUME NEW w \in Workers, job'[w].pc = "record",
           \A k \in job'[w].todo : row'[k].st = "pending",
           \A k \in Keys : Left(k)' => k = job'[w].key /\ job'[w].out = "sent"
    PROVE  Holding(w)'
BY DEF Holding, InHand, Recover, Recovering, Looping

\* The log shows the copy gone before its row does.
LEMMA WriteLogSound ==
    ASSUME BulkInv, NEW w \in Workers, WriteLog(w) PROVE BulkInv'
<1>0. PICK k : k = job[w].key
  OBVIOUS
<1> DEFINE j == [job[w] EXCEPT !.pc = "record", !.out = "sent", !.next = "loop", !.tries = 0]
<1>1. /\ job[w].pc = "taken" /\ UNCHANGED <<email, count, row, addr, callout, lock, late>>
      /\ log' = [log EXCEPT ![row[k].mid].st = "sent"]
      /\ job' = [job EXCEPT ![w] = j]
  BY <1>0 DEF WriteLog, LogStatus, Goto, outside
<1>2. /\ job[w] \in Job /\ k \in Keys /\ k \in job[w].todo
      /\ row[k].st = "pending" /\ job[w].went = {} /\ email.status = "sending"
      /\ lock = w /\ \A v \in Workers \ {w} : job[v].pc = "idle"
      /\ \A i \in job[w].todo : row[i].st = "pending"
      /\ \A i \in Keys : ~Left(i)
  BY <1>0, <1>1, InHandFacts DEF InHand
<1>3. row[k].mid # 0
  BY <1>0, <1>1 DEF BulkInv, Holding
<1>4. LogType' /\ LogInv' /\ \A i \in Keys : Left(i)' => i = k
  <2>1. "sent" \in EntryStatuses
    BY DEF EntryStatuses
  <2>2. row' = row /\ log' = [log EXCEPT ![row[k].mid].st = "sent"]
    BY <1>1
  <2> QED
    BY <1>2, <1>3, <2>1, <2>2, EntryWritten
<1>5. /\ j \in Job /\ j.pc = "record" /\ j.key = k /\ j.out = "sent" /\ j.next = "loop"
      /\ j.todo = job[w].todo /\ j.went = job[w].went
  BY <1>0, <1>2 DEF Job, SendingPC, InHand
<1>6. job'[w] = j
  BY <1>1 DEF BulkInv, BulkTypes, JobType
<1> HIDE DEF j
<1>7. Working(w)'
  BY <1>1, <1>2, <1>5, <1>6 DEF Working, SendingPC, Recover, InHand, Recovering, Looping
<1>8. Holding(w)'
  BY <1>1, <1>2, <1>4, <1>5, <1>6, RecordHolds
<1>9. OnTime' /\ late' \in Nat
  <2>1. \A v \in Workers : job'[v].pc # "handover"
    BY <1>1, <1>2, <1>5 DEF BulkInv, BulkTypes, JobType
  <2> QED
    BY <1>1, <2>1 DEF BulkInv, BulkTypes, OnTime
<1>10. row' \in Rows /\ CountType'
  BY <1>1 DEF BulkInv, BulkTypes, RowType, Rows, CountType
<1>11. \A i \in Keys : row'[i].st = row[i].st
  BY <1>1
<1> QED
  BY <1>1, <1>2, <1>4, <1>5, <1>7, <1>8, <1>9, <1>10, <1>11, SendingStep

\* The copy in hand has failed, whether or not its entry says so.
LEMMA FailedInHand ==
    ASSUME BulkInv, NEW w \in Workers, job[w].pc \in {"handover", "taken"}, NEW next \in {"loop", "claim"},
           Goto(w, [job[w] EXCEPT !.pc = "record", !.out = "failed", !.next = next, !.tries = 0]),
           LogStatus(w, "failed") \/ UNCHANGED log,
           UNCHANGED <<email, count, row, addr, callout, lock, late>>
    PROVE  BulkInv'
<1>0. PICK k : k = job[w].key
  OBVIOUS
<1> DEFINE j == [job[w] EXCEPT !.pc = "record", !.out = "failed", !.next = next, !.tries = 0]
<1>1. job' = [job EXCEPT ![w] = j]
  BY DEF Goto
<1>2. /\ job[w] \in Job /\ k \in Keys /\ k \in job[w].todo
      /\ row[k].st = "pending" /\ job[w].went = {} /\ email.status = "sending"
      /\ lock = w /\ \A v \in Workers \ {w} : job[v].pc = "idle"
      /\ \A i \in job[w].todo : row[i].st = "pending"
      /\ \A i \in Keys : ~Left(i)
  BY <1>0, InHandFacts DEF InHand
<1>3. row[k].mid # 0
  BY <1>0 DEF BulkInv, Holding
<1>4. LogType' /\ LogInv' /\ \A i \in Keys : ~Left(i)'
  <2>1. "failed" \in EntryStatuses /\ "failed" \notin WentOut
    BY DEF WentOut, EntryStatuses
  <2>2. CASE log' = [log EXCEPT ![row[k].mid].st = "failed"]
    BY <1>2, <1>3, <2>1, <2>2, EntryWritten
  <2>3. CASE log' = log
    BY <1>2, <2>3 DEF BulkInv, BulkTypes, LogType, LogInv, Named, Logged, Left
  <2> QED
    BY <1>0, <2>2, <2>3 DEF LogStatus
<1>5. /\ j \in Job /\ j.pc = "record" /\ j.key = k /\ j.out = "failed" /\ j.next = next
      /\ j.todo = job[w].todo /\ j.went = job[w].went
  BY <1>0, <1>2 DEF Job, SendingPC, InHand
<1>6. job'[w] = j
  BY <1>1 DEF BulkInv, BulkTypes, JobType
<1> HIDE DEF j
<1>7. Working(w)'
  BY <1>1, <1>2, <1>5, <1>6 DEF Working, SendingPC, Recover, InHand, Recovering, Looping
<1>8. Holding(w)'
  BY <1>1, <1>2, <1>4, <1>5, <1>6, RecordHolds
<1>9. OnTime' /\ late' \in Nat
  <2>1. \A v \in Workers : job'[v].pc # "handover"
    BY <1>1, <1>2, <1>5 DEF BulkInv, BulkTypes, JobType
  <2> QED
    BY <1>1, <2>1 DEF BulkInv, BulkTypes, OnTime
<1>10. row' \in Rows /\ CountType'
  BY <1>1 DEF BulkInv, BulkTypes, RowType, Rows, CountType
<1>11. \A i \in Keys : row'[i].st = row[i].st
  BY <1>1
<1> QED
  BY <1>1, <1>2, <1>4, <1>5, <1>7, <1>8, <1>9, <1>10, <1>11, SendingStep

\* An unexpected error fails the copy.
LEMMA UnexpectedSound ==
    ASSUME BulkInv, NEW w \in Workers, Unexpected(w) PROVE BulkInv'
<1>1. LogStatus(w, "failed") \/ UNCHANGED log
  BY DEF Unexpected
<1>2. /\ job[w].pc \in {"handover", "taken"}
      /\ Goto(w, [job[w] EXCEPT !.pc = "record", !.out = "failed", !.next = "claim", !.tries = 0])
      /\ UNCHANGED <<email, count, row, addr, callout, lock, late>>
  BY DEF Unexpected, outside
<1> QED
  BY <1>1, <1>2, FailedInHand

\* A refused copy is tried again under a fresh Message-ID, or fails.
LEMMA RefusedSound ==
    ASSUME BulkInv, NEW w \in Workers, Refused(w) PROVE BulkInv'
<1>0. PICK k : k = job[w].key
  OBVIOUS
<1>1. job[w].pc = "handover" /\ UNCHANGED <<email, count, addr, callout, lock, late>>
  BY DEF Refused, outside
<1>2. CASE /\ LogStatus(w, "failed")
           /\ UNCHANGED row
           /\ Goto(w, [job[w] EXCEPT !.pc = "record", !.out = "failed", !.next = "loop", !.tries = 0])
  BY <1>1, <1>2, FailedInHand
<1>3. CASE /\ log' = Append([log EXCEPT ![row[k].mid].st = "failed"],
                            [key |-> k, st |-> "saved"])
           /\ row' = [row EXCEPT ![k].mid = Len(log')]
           /\ Goto(w, [job[w] EXCEPT !.tries = @ + 1])
  <2> DEFINE j == [job[w] EXCEPT !.tries = @ + 1]
             e == [key |-> k, st |-> "saved"]
  <2>1. /\ job[w] \in Job /\ k \in Keys /\ k \in job[w].todo
        /\ row[k].st = "pending" /\ job[w].went = {} /\ email.status = "sending"
        /\ lock = w /\ \A v \in Workers \ {w} : job[v].pc = "idle"
        /\ \A i \in job[w].todo : row[i].st = "pending"
        /\ \A i \in Keys : ~Left(i)
    BY <1>0, <1>1, InHandFacts DEF InHand
  <2>2. row \in Rows /\ log \in Seq(Entry) /\ CountType /\ late \in Nat
    BY DEF BulkInv, BulkTypes, RowType, Rows, LogType
  <2>3. PICK m : m = row[k].mid
    OBVIOUS
  <2>4. m \in 1 .. Len(log) /\ log[m].key = k
    BY <1>0, <1>1, <2>1, <2>3 DEF BulkInv, LogInv, Named, Holding
  <2>5. PICK kept : kept = [log EXCEPT ![m].st = "failed"]
    OBVIOUS
  <2>6. /\ kept \in Seq(Entry) /\ Len(log) \in Nat /\ Len(kept) = Len(log)
        /\ \A i \in 1 .. Len(log) : kept[i].key = log[i].key /\ (i # m => kept[i] = log[i])
        /\ kept[m].st = "failed"
    <3>1. kept = Written(log, m, "failed")
      BY <2>5 DEF Written
    <3>2. "failed" \in EntryStatuses
      BY DEF EntryStatuses
    <3> QED
      BY <2>2, <2>4, <3>1, <3>2, LogSets
  <2>7. e \in Entry /\ e.key = k /\ e.st = "saved"
    BY <2>1 DEF Entry, EntryStatuses
  <2>8. log' = Append(kept, e)
    BY <1>3, <2>3, <2>5
  <2> HIDE DEF e
  <2>9. /\ log' \in Seq(Entry) /\ Len(log') = Len(log) + 1
        /\ \A i \in 1 .. Len(log) : log'[i] = kept[i]
        /\ log'[Len(log')] = e
    BY <2>6, <2>7, <2>8, LogAppends
  <2>10. /\ row' \in Rows /\ row'[k].st = "pending" /\ row'[k].mid = Len(log')
         /\ \A i \in Keys \ {k} : row'[i] = row[i]
    BY <1>3, <2>1, <2>2, <2>6, <2>9 DEF Rows, Statuses
  <2>11. \A n \in 1 .. Len(log') : log'[n].key = k => log'[n].st \notin WentOut
    <3> TAKE n \in 1 .. Len(log')
    <3>1. CASE n = Len(log')
      BY <2>7, <2>9, <3>1 DEF WentOut
    <3>2. CASE n # Len(log') /\ n = m
      BY <2>4, <2>6, <2>9, <3>2 DEF WentOut
    <3>3. CASE n # Len(log') /\ n # m
      <4>1. n \in 1 .. Len(log)
        BY <2>6, <2>9, <3>3
      <4>2. log'[n] = log[n]
        BY <2>6, <2>9, <3>3, <4>1
      <4> QED
        BY <2>1, <4>1, <4>2, NoEntryGone
    <3> QED
      BY <3>1, <3>2, <3>3
  <2>12. Named(k)' /\ ~Left(k)'
    BY <2>6, <2>7, <2>9, <2>10, <2>11 DEF Named, Left
  <2>13. LogInv' /\ \A i \in Keys \ {k} : Left(i)' => Left(i)
    <3>1. \A n \in 1 .. Len(log') : log'[n].key = k => Logged(n)'
      BY <2>11 DEF Logged
    <3>2. \A n \in 1 .. Len(log') : n > Len(log) => log'[n].key = k
      BY <2>6, <2>7, <2>9
    <3>3. \A n \in 1 .. Len(log) : log'[n].key = log[n].key /\ (log[n].key # k => log'[n] = log[n])
      BY <2>4, <2>6, <2>9
    <3>4. Len(log') \in Nat /\ Len(log) <= Len(log')
      BY <2>6, <2>9
    <3> QED
      BY <2>1, <2>6, <2>10, <2>12, <3>1, <3>2, <3>3, <3>4, LogStep
  <2>14. \A i \in Keys : ~Left(i)'
    BY <2>1, <2>12, <2>13
  <2>15. job' = [job EXCEPT ![w] = j]
    BY <1>3 DEF Goto
  <2>16. /\ j \in Job /\ j.pc = "handover" /\ j.key = k
         /\ j.todo = job[w].todo /\ j.went = job[w].went
    BY <1>0, <1>1, <2>1 DEF Job
  <2>17. job'[w] = j
    BY <2>15 DEF BulkInv, BulkTypes, JobType
  <2> HIDE DEF j
  <2>18. Working(w)'
    BY <1>1, <2>1, <2>16, <2>17 DEF Working, SendingPC, Recover, InHand, Recovering, Looping
  <2>19. Holding(w)'
    <3>1. \A i \in job'[w].todo : row'[i].st = "pending"
      <4>1. job[w].todo \in SUBSET Keys
        BY <2>1 DEF Job
      <4> QED
        BY <2>1, <2>10, <2>16, <2>17, <4>1
    <3>2. row'[job'[w].key].mid # 0
      BY <2>6, <2>9, <2>10, <2>16, <2>17
    <3> QED
      BY <2>14, <2>16, <2>17, <3>1, <3>2, LoopHolds
  <2>20. OnTime'
    <3>1. late = 0
      BY <1>1, <2>2 DEF BulkInv, OnTime
    <3> QED
      BY <1>1, <3>1 DEF OnTime
  <2>21. LogType' /\ CountType'
    BY <1>1, <2>2, <2>9 DEF LogType, CountType
  <2>22. \A i \in Keys : row'[i].st = row[i].st
    BY <2>1, <2>10
  <2> QED
    BY <1>1, <2>1, <2>2, <2>10, <2>13, <2>15, <2>16, <2>18, <2>19, <2>20, <2>21, <2>22,
       SendingStep
<1> QED
  BY <1>0, <1>2, <1>3 DEF Refused

\* _record settles the row; nothing is left behind after it.
LEMMA RecordRowSound ==
    ASSUME BulkInv, NEW w \in Workers, RecordRow(w) PROVE BulkInv'
<1>0. PICK k : k = job[w].key
  OBVIOUS
<1> DEFINE j == [job[w] EXCEPT !.pc = "count", !.todo = @ \ {k}]
           out == job[w].out
<1>1. /\ job[w].pc = "record" /\ UNCHANGED <<email, count, log, addr, callout, lock, late>>
      /\ row' = [row EXCEPT ![k] = [st |-> out, mid |-> IF out = "sent" THEN row[k].mid ELSE 0]]
      /\ job' = [job EXCEPT ![w] = j]
  BY <1>0 DEF RecordRow, Goto, outside
<1>2. /\ job[w] \in Job /\ k \in Keys /\ k \in job[w].todo
      /\ row[k].st = "pending" /\ job[w].went = {} /\ email.status = "sending"
      /\ lock = w /\ \A v \in Workers \ {w} : job[v].pc = "idle"
      /\ \A i \in job[w].todo : row[i].st = "pending"
  BY <1>0, <1>1, InHandFacts DEF InHand
<1>3. out \in {"sent", "failed"} /\ job[w].next \in {"loop", "claim"}
  BY <1>1 DEF BulkInv, Working
<1>4. \A i \in Keys : Left(i) => i = k /\ out = "sent"
  BY <1>0, <1>1 DEF BulkInv, Holding, Looping, InHand
<1>5. row \in Rows
  BY DEF BulkInv, BulkTypes, RowType, Rows
<1>6. /\ row' \in Rows /\ row'[k].st = out
      /\ row'[k].mid = (IF out = "sent" THEN row[k].mid ELSE 0)
      /\ \A i \in Keys \ {k} : row'[i] = row[i]
  <2> HIDE DEF out
  <2>1. row[k] \in [st: Statuses, mid: Nat]
    BY <1>2, <1>5 DEF Rows
  <2>3. [st |-> out, mid |-> IF out = "sent" THEN row[k].mid ELSE 0] \in [st: Statuses, mid: Nat]
    BY <1>3, <2>1 DEF Statuses
  <2> QED
    BY <1>1, <1>2, <1>5, <2>3 DEF Rows
<1>7. /\ j \in Job /\ j.pc = "count" /\ j.out = out /\ j.next = job[w].next
      /\ j.todo = job[w].todo \ {k} /\ j.went = job[w].went
  BY <1>2 DEF Job, SendingPC
<1>8. job'[w] = j
  BY <1>1 DEF BulkInv, BulkTypes, JobType
<1> HIDE DEF j, out
<1>9. Named(k)' /\ ~Left(k)'
  BY <1>1, <1>2, <1>3, <1>6 DEF BulkInv, LogInv, Named, Left
<1>10. LogInv' /\ \A i \in Keys \ {k} : Left(i)' => Left(i)
  <2>1. ASSUME NEW m \in 1 .. Len(log'), log'[m].key = k PROVE Logged(m)'
    <3>1. Logged(m)
      BY <1>1 DEF BulkInv, LogInv
    <3>2. CASE out = "sent"
      BY <1>1, <1>6, <2>1, <3>1, <3>2 DEF Logged, WentOut
    <3>3. CASE out # "sent"
      <4>1. ~Left(k) /\ m \in 1 .. Len(log) /\ log[m].key = k
        BY <1>1, <1>2, <1>4, <2>1, <3>3
      <4>2. log[m].st \notin WentOut
        BY <1>2, <4>1, NoEntryGone
      <4> QED
        BY <1>1, <4>2 DEF Logged
    <3> QED
      BY <3>2, <3>3
  <2>2. Len(log) \in Nat
    BY LenProperties DEF BulkInv, BulkTypes, LogType
  <2>3. Len(log') = Len(log) /\ \A m \in 1 .. Len(log) : log'[m] = log[m]
    BY <1>1
  <2>4. Len(log') \in Nat /\ Len(log) <= Len(log')
        /\ \A m \in 1 .. Len(log') : m > Len(log) => log'[m].key = k
    BY <2>2, <2>3
  <2> QED
    BY <1>2, <1>6, <1>9, <2>1, <2>2, <2>3, <2>4, LogStep
<1>11. \A i \in Keys : ~Left(i)'
  BY <1>4, <1>9, <1>10
<1>12. Working(w)'
  BY <1>1, <1>2, <1>3, <1>7, <1>8 DEF Working, SendingPC, Recover, InHand, Recovering, Looping
<1>13. Holding(w)'
  <2>1. \A i \in job'[w].todo : row'[i].st = "pending"
    <3>1. job[w].todo \in SUBSET Keys
      BY <1>2 DEF Job
    <3> QED
      BY <1>2, <1>6, <1>7, <1>8, <3>1
  <2> QED
    BY <1>3, <1>7, <1>8, <1>11, <2>1, LoopHolds
<1>14. OnTime' /\ late' \in Nat
  <2>1. \A v \in Workers : job'[v].pc # "handover"
    BY <1>1, <1>2, <1>7 DEF BulkInv, BulkTypes, JobType
  <2> QED
    BY <1>1, <2>1 DEF BulkInv, BulkTypes, OnTime
<1>15. LogType' /\ CountType'
  BY <1>1 DEF BulkInv, BulkTypes, LogType, CountType
<1>16. \A i \in Keys : row'[i].st = row[i].st \/ (Live(i) /\ row'[i].st \in {"sent", "failed"})
  BY <1>2, <1>3, <1>6 DEF Live
<1> QED
  BY <1>1, <1>2, <1>6, <1>7, <1>10, <1>12, <1>13, <1>14, <1>15, <1>16, SendingStep

\* A count goes up by one.
LEMMA CountOne ==
    ASSUME NEW c \in Counts, NEW out \in {"sent", "failed", "skipped"}
    PROVE  [c EXCEPT ![out] = @ + 1] \in Counts
<1>1. CASE out = "sent"
  <2>1. [c EXCEPT ![out] = @ + 1] = [c EXCEPT !.sent = @ + 1]
    BY <1>1
  <2> QED
    BY <2>1 DEF Counts
<1>2. CASE out = "failed"
  <2>1. [c EXCEPT ![out] = @ + 1] = [c EXCEPT !.failed = @ + 1]
    BY <1>2
  <2> QED
    BY <2>1 DEF Counts
<1>3. CASE out = "skipped"
  <2>1. [c EXCEPT ![out] = @ + 1] = [c EXCEPT !.skipped = @ + 1]
    BY <1>3
  <2> QED
    BY <2>1 DEF Counts
<1> QED
  BY <1>1, <1>2, <1>3

\* A worker done with a copy keeps its list.
LEMMA LooseJob ==
    ASSUME NEW w \in Workers, job[w] \in Job, NEW pc \in {"recover", "loop", "claim"}
    PROVE  /\ Loose(w, pc) \in Job /\ Loose(w, pc).pc = pc /\ Loose(w, pc).went = job[w].went
           /\ Loose(w, pc).todo = IF pc = "claim" THEN {} ELSE job[w].todo
<1>1. PICK todo : todo = IF pc = "claim" THEN {} ELSE job[w].todo
  OBVIOUS
<1>2. PICK went : went = job[w].went
  OBVIOUS
<1>3. went \in SUBSET (Keys \X WentOut) /\ todo \in SUBSET Keys
  BY <1>1, <1>2 DEF Job
<1>4. Loose(w, pc) = [IdleJob EXCEPT !.pc = pc, !.went = went, !.todo = todo]
  BY <1>1, <1>2 DEF Loose
<1>5. PICK idle \in Job : idle = IdleJob
  BY IdleIsJob
<1>6. Loose(w, pc) = [idle EXCEPT !.pc = pc, !.went = went, !.todo = todo]
  BY <1>4, <1>5
<1>7. /\ Loose(w, pc) \in Job /\ Loose(w, pc).pc = pc /\ Loose(w, pc).went = went
      /\ Loose(w, pc).todo = todo
  BY <1>3, <1>6 DEF Job, SendingPC, Recover
<1> QED
  BY <1>1, <1>2, <1>7

\* _record adds to the count.
LEMMA RecordCountSound ==
    ASSUME BulkInv, NEW w \in Workers, RecordCount(w) PROVE BulkInv'
<1> DEFINE next == job[w].next
           j == IF next = "bounce" THEN [job[w] EXCEPT !.pc = "bounce"] ELSE Loose(w, next)
<1>1. /\ job[w].pc = "count" /\ UNCHANGED <<email, row, log, addr, callout, lock, late>>
      /\ count' = [count EXCEPT ![job[w].out] = @ + 1]
      /\ job' = [job EXCEPT ![w] = j]
  BY DEF RecordCount, Goto, outside
<1>2. /\ job[w] \in Job /\ email.status = "sending"
      /\ next \in {"recover", "bounce", "loop", "claim"}
      /\ job[w].out \in {"sent", "failed", "skipped"}
      /\ next \in Recover => job[w].todo = {}
      /\ next \notin Recover => job[w].went = {}
      /\ next \in Recover => \A e \in job[w].went : /\ row[e[1]].st = "pending"
                                                    /\ \A f \in job[w].went : f[1] = e[1] => f = e
      /\ next \in Recover => \A k \in Keys : Left(k) => \E e \in job[w].went : e[1] = k
      /\ next \notin Recover => /\ \A k \in job[w].todo : row[k].st = "pending"
                                /\ \A k \in Keys : ~Left(k)
  <2>1. job[w] \in Job /\ Working(w) /\ Holding(w)
    BY DEF BulkInv, BulkTypes, JobType
  <2>2. next \in {"recover", "bounce", "loop", "claim"} /\ job[w].out \in {"sent", "failed", "skipped"}
        /\ email.status = "sending"
    BY <1>1, <2>1 DEF Job, Working, SendingPC
  <2> QED
    BY <1>1, <2>1, <2>2 DEF Working, Holding, Recovering, Looping, Recover
<1>3. CountType'
  BY <1>1, <1>2, CountOne DEF BulkInv, BulkTypes, CountType
<1>4. lock = w /\ \A v \in Workers \ {w} : job[v].pc = "idle"
  BY <1>1, OneAtWork
<1>5. /\ j \in Job /\ j.pc = next /\ j.went = job[w].went
      /\ j.todo = IF next = "claim" THEN {} ELSE job[w].todo
  <2>1. CASE next = "bounce"
    BY <1>2, <2>1 DEF Job, SendingPC, Recover
  <2>2. CASE next # "bounce"
    BY <1>2, <2>2, LooseJob
  <2> QED
    BY <2>1, <2>2
<1>6. job'[w] = j
  BY <1>1 DEF BulkInv, BulkTypes, JobType
<1> HIDE DEF j, next
<1>7. Working(w)'
  BY <1>1, <1>2, <1>4, <1>5, <1>6 DEF Working, SendingPC, Recover, InHand, Recovering, Looping
<1>8. Holding(w)'
  BY <1>1, <1>2, <1>5, <1>6 DEF Holding, Left, InHand, Recover, Recovering, Looping
<1>9. OnTime' /\ late' \in Nat
  <2>1. \A v \in Workers : job'[v].pc # "handover"
    BY <1>1, <1>2, <1>4, <1>5 DEF BulkInv, BulkTypes, JobType
  <2> QED
    BY <1>1, <2>1 DEF BulkInv, BulkTypes, OnTime
<1>10. LogType' /\ LogInv' /\ row' \in Rows
  BY <1>1 DEF BulkInv, BulkTypes, LogType, LogInv, Named, Logged, RowType, Rows
<1>11. \A i \in Keys : row'[i].st = row[i].st
  BY <1>1
<1> QED
  BY <1>1, <1>2, <1>3, <1>4, <1>5, <1>7, <1>8, <1>9, <1>10, <1>11, SendingStep

\* A copy left behind is recorded as sent.
LEMMA RecoverCopySound ==
    ASSUME BulkInv, NEW w \in Workers, RecoverCopy(w) PROVE BulkInv'
<1>0. job[w].pc = "recover" /\ UNCHANGED <<email, count, log, addr, callout, lock, late>>
  BY DEF RecoverCopy, outside
<1>1. PICK e \in job[w].went :
         /\ row' = [row EXCEPT ![e[1]].st = "sent"]
         /\ Goto(w, [job[w] EXCEPT !.pc = "count", !.key = e[1], !.out = "sent",
                                   !.next = IF e[2] = "bounced" THEN "bounce" ELSE "recover",
                                   !.went = @ \ {e}])
  BY DEF RecoverCopy
<1>2. PICK k : k = e[1]
  OBVIOUS
<1>3. PICK next : next = IF e[2] = "bounced" THEN "bounce" ELSE "recover"
  OBVIOUS
<1> DEFINE j == [job[w] EXCEPT !.pc = "count", !.key = k, !.out = "sent",
                               !.next = next, !.went = @ \ {e}]
<1>4. job' = [job EXCEPT ![w] = j] /\ row' = [row EXCEPT ![k].st = "sent"]
  BY <1>1, <1>2, <1>3 DEF Goto
<1>5. /\ job[w] \in Job /\ email.status = "sending" /\ job[w].todo = {}
      /\ \A f \in job[w].went : /\ row[f[1]].st = "pending"
                                /\ \A g \in job[w].went : g[1] = f[1] => g = f
      /\ \A i \in Keys : Left(i) => \E f \in job[w].went : f[1] = i
  BY <1>0 DEF BulkInv, BulkTypes, JobType, Working, Holding, SendingPC, Recover, Recovering
<1>6. k \in Keys /\ row[k].st = "pending"
  BY <1>1, <1>2, <1>5 DEF Job
<1>7. lock = w /\ \A v \in Workers \ {w} : job[v].pc = "idle"
  BY <1>0, OneAtWork
<1>8. /\ j \in Job /\ j.pc = "count" /\ j.next = next /\ next \in Recover /\ j.out = "sent"
      /\ j.went = job[w].went \ {e} /\ j.todo = {}
  BY <1>3, <1>5, <1>6 DEF Job, SendingPC, Recover
<1>9. job'[w] = j
  BY <1>4 DEF BulkInv, BulkTypes, JobType
<1> HIDE DEF j
<1>10. row \in Rows
  BY DEF BulkInv, BulkTypes, RowType, Rows
<1>11. /\ row' \in Rows /\ row'[k].st = "sent" /\ row'[k].mid = row[k].mid
       /\ \A i \in Keys \ {k} : row'[i] = row[i]
  BY <1>4, <1>6, <1>10 DEF Rows, Statuses
<1>12. LogInv'
  BY <1>0, <1>11, LogEntries DEF BulkInv, BulkTypes, LogInv, Named, Logged, WentOut
<1>13. Working(w)'
  BY <1>0, <1>5, <1>7, <1>8, <1>9 DEF Working, SendingPC, Recover, InHand, Recovering, Looping
<1>14. \A f \in j.went : /\ row'[f[1]].st = "pending"
                         /\ \A g \in j.went : g[1] = f[1] => g = f
  <2> TAKE f \in j.went
  <2>1. f \in job[w].went /\ f # e /\ f[1] \in Keys
    BY <1>5, <1>8 DEF Job
  <2>2. f[1] # k
    BY <1>1, <1>2, <1>5, <2>1
  <2> QED
    BY <1>5, <1>8, <1>11, <2>1, <2>2
<1>15. \A i \in Keys : Left(i)' => \E f \in j.went : f[1] = i
  <2> SUFFICES ASSUME NEW i \in Keys, Left(i)' PROVE \E f \in j.went : f[1] = i
    OBVIOUS
  <2>1. i # k
    BY <1>11 DEF Left
  <2>2. Left(i)
    BY <1>0, <1>11, <2>1 DEF Left
  <2>3. PICK f \in job[w].went : f[1] = i
    BY <1>5, <2>2
  <2> QED
    BY <1>2, <1>8, <2>1, <2>3
<1>16. Holding(w)'
  BY <1>8, <1>9, <1>14, <1>15 DEF Holding, InHand, Recover, Recovering, Looping
<1>17. OnTime' /\ late' \in Nat
  <2>1. \A v \in Workers : job'[v].pc # "handover"
    BY <1>4, <1>7, <1>8 DEF BulkInv, BulkTypes, JobType
  <2> QED
    BY <1>0, <2>1 DEF BulkInv, BulkTypes, OnTime
<1>18. LogType' /\ CountType'
  BY <1>0 DEF BulkInv, BulkTypes, LogType, CountType
<1>19. \A i \in Keys : row'[i].st = row[i].st \/ (Live(i) /\ row'[i].st = "sent")
  BY <1>6, <1>11 DEF Live
<1> QED
  BY <1>0, <1>4, <1>5, <1>7, <1>8, <1>11, <1>12, <1>13, <1>16, <1>17, <1>18, <1>19, SendingStep

-----------------------------------------------------------------------------
(* Bounces. *)

\* mark_bounced moves the rows of one Message-ID from sent to bounced.
LEMMA MarkedRows ==
    ASSUME row \in Rows, count \in Counts, NEW m, MarkBounced(m)
    PROVE  /\ row' \in Rows /\ count' \in Counts
           /\ \A k \in Keys : /\ row'[k].mid = row[k].mid
                              /\ k \in MarkedBounced(m) => row'[k].st = "bounced"
                              /\ k \notin MarkedBounced(m) => row'[k] = row[k]
           /\ \A k \in MarkedBounced(m) : k \in Keys /\ row[k].st = "sent" /\ row[k].mid = m
           /\ MarkedBounced(m) = {} => count' = count
           /\ MarkedBounced(m) # {} => /\ count'.sent = Minus(count.sent, 1)
                                       /\ count'.bounced = count.bounced + 1
                                       /\ count'.failed = count.failed
                                       /\ count'.skipped = count.skipped
<1> DEFINE S == MarkedBounced(m)
<1>1. \A k \in S : k \in Keys /\ row[k].st = "sent" /\ row[k].mid = m
  BY DEF MarkedBounced, InStatus
<1> HIDE DEF S
<1>2. CASE S = {}
  <2>1. row' = row /\ count' = count
    BY <1>2 DEF MarkBounced, S
  <2> QED
    BY <1>1, <1>2, <2>1 DEF S
<1>3. CASE S # {}
  <2>1. /\ row' = [k \in Keys |-> IF k \in S THEN [row[k] EXCEPT !.st = "bounced"] ELSE row[k]]
        /\ count' = [count EXCEPT !.sent = Minus(@, 1), !.bounced = @ + 1]
    BY <1>3 DEF MarkBounced, S
  <2>2. /\ row' \in Rows
        /\ \A k \in Keys : /\ row'[k].mid = row[k].mid
                           /\ k \in S => row'[k].st = "bounced"
                           /\ k \notin S => row'[k] = row[k]
    BY <2>1 DEF Rows, Statuses
  <2>3. Minus(count.sent, 1) \in Nat /\ count.bounced + 1 \in Nat
    BY DEF Counts, Minus
  <2>4. /\ count' \in Counts
        /\ count'.sent = Minus(count.sent, 1) /\ count'.bounced = count.bounced + 1
        /\ count'.failed = count.failed /\ count'.skipped = count.skipped
    BY <2>1, <2>3 DEF Counts
  <2> QED
    BY <1>1, <1>3, <2>2, <2>4 DEF S
<1> QED
  BY <1>2, <1>3

\* A recovered copy that bounced is marked.
LEMMA RecoverBounceSound ==
    ASSUME BulkInv, NEW w \in Workers, RecoverBounce(w) PROVE BulkInv'
<1> DEFINE j == Loose(w, "recover")
<1>1. PICK m : m = row[job[w].key].mid
  OBVIOUS
<1>2. /\ job[w].pc = "bounce" /\ MarkBounced(m)
      /\ UNCHANGED <<email, log, addr, callout, lock, late>>
      /\ job' = [job EXCEPT ![w] = j]
  BY <1>1 DEF RecoverBounce, Goto, outside
<1>3. row \in Rows /\ count \in Counts
  BY DEF BulkInv, BulkTypes, RowType, Rows, CountType
<1>4. /\ row' \in Rows /\ count' \in Counts
      /\ \A k \in Keys : row'[k].mid = row[k].mid
      /\ \A k \in Keys : row'[k] = row[k] \/ (row[k].st = "sent" /\ row'[k].st = "bounced")
  BY <1>2, <1>3, MarkedRows
<1>5. /\ job[w] \in Job /\ email.status = "sending" /\ job[w].todo = {}
      /\ \A f \in job[w].went : /\ row[f[1]].st = "pending"
                                /\ \A g \in job[w].went : g[1] = f[1] => g = f
      /\ \A i \in Keys : Left(i) => \E f \in job[w].went : f[1] = i
  BY <1>2 DEF BulkInv, BulkTypes, JobType, Working, Holding, SendingPC, Recover, Recovering
<1>6. lock = w /\ \A v \in Workers \ {w} : job[v].pc = "idle"
  BY <1>2, OneAtWork
<1>7. j \in Job /\ j.pc = "recover" /\ j.went = job[w].went /\ j.todo = {}
  BY <1>5, LooseJob
<1>8. job'[w] = j
  BY <1>2 DEF BulkInv, BulkTypes, JobType
<1> HIDE DEF j
<1>9. LogInv'
  BY <1>2, <1>4, LogEntries DEF BulkInv, BulkTypes, LogInv, Named, Logged, WentOut
<1>10. \A i \in Keys : Left(i)' <=> Left(i)
  BY <1>2, <1>4 DEF Left
<1>11. Working(w)'
  BY <1>2, <1>5, <1>6, <1>7, <1>8 DEF Working, SendingPC, Recover, InHand, Recovering, Looping
<1>12. Holding(w)'
  <2>1. \A f \in j.went : f[1] \in Keys /\ row'[f[1]].st = "pending"
    BY <1>4, <1>5, <1>7 DEF Job
  <2> QED
    BY <1>5, <1>7, <1>8, <1>10, <2>1 DEF Holding, InHand, Recover, Recovering, Looping
<1>13. OnTime' /\ late' \in Nat
  <2>1. \A v \in Workers : job'[v].pc # "handover"
    BY <1>2, <1>6, <1>7 DEF BulkInv, BulkTypes, JobType
  <2> QED
    BY <1>2, <2>1 DEF BulkInv, BulkTypes, OnTime
<1>14. LogType' /\ CountType'
  BY <1>2, <1>4 DEF BulkInv, BulkTypes, LogType, CountType
<1>15. \A i \in Keys : row'[i].st = row[i].st \/ (Live(i) /\ row'[i].st = "bounced")
  BY <1>4 DEF Live
<1> QED
  BY <1>2, <1>4, <1>5, <1>6, <1>7, <1>9, <1>11, <1>12, <1>13, <1>14, <1>15, SendingStep

\* One row goes from sent to bounced.
LEMMA OneBounces ==
    ASSUME NEW k \in Keys, row[k].st = "sent", row'[k].st = "bounced",
           \A i \in Keys \ {k} : row'[i] = row[i]
    PROVE  /\ CountOf(row, "sent") = CountOf(row', "sent") + 1
           /\ CountOf(row', "bounced") = CountOf(row, "bounced") + 1
           /\ CountOf(row', "failed") = CountOf(row, "failed")
           /\ CountOf(row', "skipped") = CountOf(row, "skipped")
           /\ CountOf(row, "sent") \in Nat /\ CountOf(row', "sent") \in Nat
           /\ CountOf(row, "bounced") \in Nat
<1> DEFINE M == {k}
<1>1. M \in SUBSET Keys /\ Cardinality(M) = 1
  BY FS_Singleton
<1>2. CountOf(row, "sent") = CountOf(row', "sent") + Cardinality(M)
  <2>1. \A i \in Keys : row[i].st = "sent" <=> row'[i].st = "sent" \/ i \in M
    OBVIOUS
  <2>2. \A i \in M : row'[i].st # "sent"
    OBVIOUS
  <2> HIDE DEF M
  <2> QED
    BY <1>1, <2>1, <2>2, CountGrows
<1>3. CountOf(row', "bounced") = CountOf(row, "bounced") + Cardinality(M)
  <2>1. \A i \in Keys : row'[i].st = "bounced" <=> row[i].st = "bounced" \/ i \in M
    OBVIOUS
  <2>2. \A i \in M : row[i].st # "bounced"
    OBVIOUS
  <2> HIDE DEF M
  <2> QED
    BY <1>1, <2>1, <2>2, CountGrows
<1>4. /\ CountOf(row', "failed") = CountOf(row, "failed")
      /\ CountOf(row', "skipped") = CountOf(row, "skipped")
  <2>1. \A i \in Keys : /\ row'[i].st = "failed" <=> row[i].st = "failed"
                        /\ row'[i].st = "skipped" <=> row[i].st = "skipped"
    OBVIOUS
  <2> QED
    BY <2>1, CountUnchanged
<1> QED
  BY <1>1, <1>2, <1>3, <1>4, CountsAreNumbers

\* A bounce report moves a copy from sent to bounced: the rows' counts with it, while a
\* tally taken before keeps the sum.
LEMMA BouncedAgreement ==
    ASSUME \/ \A i \in Keys : row'[i] = row[i]
           \/ \E k \in Keys : row[k].st = "sent" /\ row'[k].st = "bounced"
                              /\ \A i \in Keys \ {k} : row'[i] = row[i],
           NEW c \in Counts, Agree(c)
    PROVE  /\ c.sent + c.bounced = CountOf(row', "sent") + CountOf(row', "bounced")
           /\ c.sent >= CountOf(row', "sent")
           /\ c.failed = CountOf(row', "failed")
           /\ c.skipped = CountOf(row', "skipped")
<1>1. CASE \A i \in Keys : row'[i] = row[i]
  BY <1>1, KeptAgreement
<1>2. CASE \E k \in Keys : row[k].st = "sent" /\ row'[k].st = "bounced"
                           /\ \A i \in Keys \ {k} : row'[i] = row[i]
  <2>1. PICK k \in Keys : row[k].st = "sent" /\ row'[k].st = "bounced"
                          /\ \A i \in Keys \ {k} : row'[i] = row[i]
    BY <1>2
  <2>2. /\ CountOf(row, "sent") = CountOf(row', "sent") + 1
        /\ CountOf(row', "bounced") = CountOf(row, "bounced") + 1
        /\ CountOf(row', "failed") = CountOf(row, "failed")
        /\ CountOf(row', "skipped") = CountOf(row, "skipped")
        /\ CountOf(row, "sent") \in Nat /\ CountOf(row', "sent") \in Nat
        /\ CountOf(row, "bounced") \in Nat
    BY <2>1, OneBounces
  <2> QED
    BY <2>2 DEF Agree, Counts
<1> QED
  BY <1>1, <1>2

\* check_bounces gives one entry of the log its new status.
LEMMA LogBounces ==
    ASSUME log \in Seq(Entry), NEW m \in 1 .. Len(log), log' = [log EXCEPT ![m].st = "bounced"]
    PROVE  /\ log' \in Seq(Entry) /\ Len(log) \in Nat /\ Len(log') = Len(log)
           /\ \A i \in 1 .. Len(log) : log'[i].key = log[i].key /\ (i # m => log'[i] = log[i])
           /\ log'[m].st = "bounced"
<1>1. PICK st \in EntryStatuses : st = "bounced"
  BY DEF EntryStatuses
<1>2. PICK new : new = Written(log, m, st)
  OBVIOUS
<1>3. /\ new \in Seq(Entry) /\ Len(log) \in Nat /\ Len(new) = Len(log)
      /\ \A i \in 1 .. Len(log) : new[i].key = log[i].key /\ (i # m => new[i] = log[i])
      /\ new[m].st = st
  BY <1>2, LogSets
<1>4. log' = new
  BY <1>1, <1>2 DEF Written
<1> QED
  BY <1>1, <1>3, <1>4

\* A bounce report can come at any moment; a tally read before it still agrees.
LEMMA BounceReportSound ==
    ASSUME BulkInv, NEW m \in 1 .. Len(log), BounceReport(m) PROVE BulkInv'
<1>1. /\ log[m].st = "sent" /\ MarkBounced(m) /\ log' = [log EXCEPT ![m].st = "bounced"]
      /\ UNCHANGED <<email, addr, callout, lock, job, late>>
  BY DEF BounceReport
<1>2. row \in Rows /\ count \in Counts /\ log \in Seq(Entry)
  BY DEF BulkInv, BulkTypes, RowType, Rows, CountType, LogType
<1>3. /\ row' \in Rows /\ count' \in Counts
      /\ \A k \in Keys : /\ row'[k].mid = row[k].mid
                         /\ k \in MarkedBounced(m) => row'[k].st = "bounced"
                         /\ k \notin MarkedBounced(m) => row'[k] = row[k]
      /\ \A k \in MarkedBounced(m) : k \in Keys /\ row[k].st = "sent" /\ row[k].mid = m
      /\ MarkedBounced(m) = {} => count' = count
      /\ MarkedBounced(m) # {} => /\ count'.sent = Minus(count.sent, 1)
                                  /\ count'.bounced = count.bounced + 1
                                  /\ count'.failed = count.failed
                                  /\ count'.skipped = count.skipped
  BY <1>1, <1>2, MarkedRows
<1>4. m # 0 /\ email.started
  <2>1. log # <<>>
    OBVIOUS
  <2> QED
    BY <2>1 DEF BulkInv, Standing
<1>5. \A k \in MarkedBounced(m) : k = log[m].key
  BY <1>3, <1>4 DEF BulkInv, LogInv, Named
<1>6. /\ log' \in Seq(Entry) /\ Len(log) \in Nat /\ Len(log') = Len(log)
      /\ \A i \in 1 .. Len(log) : log'[i].key = log[i].key /\ (i # m => log'[i] = log[i])
      /\ log'[m].st = "bounced"
  BY <1>1, <1>2, LogBounces
<1>7. \A i \in 1 .. Len(log) : log'[i].st \in WentOut <=> log[i].st \in WentOut
  BY <1>1, <1>6 DEF WentOut
<1>8. \A k \in Keys : row'[k] = row[k] \/ (row[k].st = "sent" /\ row'[k].st = "bounced")
  BY <1>3
<1>9. \A k \in Keys : Named(k)' /\ (Left(k)' <=> Left(k))
  <2> TAKE k \in Keys
  <2>1. Named(k)
    BY DEF BulkInv, LogInv
  <2>2. Named(k)'
    BY <1>3, <1>6, <2>1 DEF Named
  <2>3. row[k].mid # 0 => (log'[row[k].mid].st \in WentOut <=> log[row[k].mid].st \in WentOut)
    BY <1>7, <2>1 DEF Named
  <2> QED
    BY <1>3, <1>8, <2>2, <2>3 DEF Left
<1>10. LogInv'
  <2>1. ASSUME NEW n \in 1 .. Len(log') PROVE Logged(n)'
    <3>1. n \in 1 .. Len(log) /\ log[n].key \in Keys /\ Logged(n)
      BY <1>6, LogEntries DEF BulkInv, BulkTypes, LogInv
    <3>2. row'[log[n].key].mid = row[log[n].key].mid
      BY <1>3, <3>1
    <3>3. row[log[n].key].st \in WentOut \cup {"pending"} => row'[log[n].key].st \in WentOut \cup {"pending"}
      BY <1>8, <3>1 DEF WentOut
    <3> QED
      BY <1>6, <1>7, <3>1, <3>2, <3>3 DEF Logged
  <2> QED
    BY <1>9, <2>1 DEF LogInv
<1>11. BulkTypes'
  BY <1>1, <1>3, <1>6 DEF BulkInv, BulkTypes, EmailType, RowType, Rows, LogType, JobType,
     CountType
<1>12. Standing'
  BY <1>1, <1>4, <1>8 DEF BulkInv, Standing, Allowed
<1>13. Apart'
  BY <1>1, <1>8, FewerApart DEF Live
<1>14. NothingLeft'
  BY <1>1, <1>9 DEF BulkInv, NothingLeft
<1>15. \/ \A i \in Keys : row'[i] = row[i]
       \/ \E k \in Keys : row[k].st = "sent" /\ row'[k].st = "bounced"
                          /\ \A i \in Keys \ {k} : row'[i] = row[i]
  <2>1. CASE MarkedBounced(m) = {}
    BY <1>3, <2>1
  <2>2. CASE MarkedBounced(m) # {}
    <3>1. PICK k \in MarkedBounced(m) : TRUE
      BY <2>2
    <3>2. k \in Keys /\ row[k].st = "sent" /\ row'[k].st = "bounced"
      BY <1>3, <3>1
    <3>3. \A i \in Keys \ {k} : i \notin MarkedBounced(m)
      BY <1>5, <3>1
    <3>4. \A i \in Keys \ {k} : row'[i] = row[i]
      BY <1>3, <3>3
    <3> QED
      BY <3>2, <3>4
  <2> QED
    BY <2>1, <2>2
<1>16. CountsKept'
  <2> SUFFICES ASSUME email.status # "sending" PROVE Agree(count)'
    BY <1>1 DEF CountsKept
  <2>1. Agree(count)
    BY <1>4 DEF BulkInv, CountsKept
  <2>2. CASE MarkedBounced(m) = {}
    <3>1. count' = count
      BY <1>3, <2>2
    <3>2. \A i \in Keys : row'[i] = row[i]
      BY <1>3, <2>2
    <3> QED
      BY <2>1, <3>1, <3>2, KeptAgreement DEF Agree
  <2>3. CASE MarkedBounced(m) # {}
    <3>1. PICK k \in Keys : row[k].st = "sent" /\ row'[k].st = "bounced"
                            /\ \A i \in Keys \ {k} : row'[i] = row[i]
      <4>1. PICK i \in MarkedBounced(m) : TRUE
        BY <2>3
      <4>2. i \in Keys /\ row[i].st = "sent" /\ row'[i].st = "bounced"
        BY <1>3, <4>1
      <4> QED
        BY <1>15, <4>2
    <3>2. /\ CountOf(row, "sent") = CountOf(row', "sent") + 1
          /\ CountOf(row', "bounced") = CountOf(row, "bounced") + 1
          /\ CountOf(row', "failed") = CountOf(row, "failed")
          /\ CountOf(row', "skipped") = CountOf(row, "skipped")
          /\ CountOf(row, "sent") \in Nat /\ CountOf(row', "sent") \in Nat
          /\ CountOf(row, "bounced") \in Nat
      BY <3>1, OneBounces
    <3>3. count.sent \in Nat /\ count.bounced \in Nat
      BY <1>2 DEF Counts
    <3>4. /\ count.sent + count.bounced = CountOf(row, "sent") + CountOf(row, "bounced")
          /\ count.sent >= CountOf(row, "sent") /\ count.failed = CountOf(row, "failed")
          /\ count.skipped = CountOf(row, "skipped")
      BY <2>1 DEF Agree
    <3>5. count'.sent = count.sent - 1 /\ count'.bounced = count.bounced + 1
      <4>1. count.sent > 0
        BY <3>2, <3>3, <3>4
      <4>2. Minus(count.sent, 1) = count.sent - 1
        BY <3>3, <4>1 DEF Minus
      <4> QED
        BY <1>3, <2>3, <4>2
    <3>6. /\ count'.sent + count'.bounced = CountOf(row', "sent") + CountOf(row', "bounced")
          /\ count'.sent >= CountOf(row', "sent")
      <4>1. \A s, b, x, y, u, v \in Int : s + b = x + y /\ s >= x /\ x = u + 1 /\ v = y + 1
                                           => (s - 1) + (b + 1) = u + v /\ s - 1 >= u
        OBVIOUS
      <4>2. PICK s \in Int : s = count.sent
        BY <3>3
      <4>3. PICK b \in Int : b = count.bounced
        BY <3>3
      <4>4. PICK x \in Int : x = CountOf(row, "sent")
        BY <3>2
      <4>5. PICK y \in Int : y = CountOf(row, "bounced")
        BY <3>2
      <4>6. PICK u \in Int : u = CountOf(row', "sent")
        BY <3>2
      <4>7. PICK v \in Int : v = CountOf(row', "bounced")
        BY <3>2
      <4>8. s + b = x + y /\ s >= x /\ x = u + 1 /\ v = y + 1
        BY <3>2, <3>4, <4>2, <4>3, <4>4, <4>5, <4>6, <4>7
      <4>9. (s - 1) + (b + 1) = u + v /\ s - 1 >= u
        BY <4>1, <4>8
      <4> QED
        BY <3>5, <4>2, <4>3, <4>6, <4>7, <4>9
    <3> QED
      BY <1>3, <2>3, <3>2, <3>4, <3>6 DEF Agree
  <2> QED
    BY <2>2, <2>3
<1>17. \A w \in Workers : Working(w)'
  BY <1>1 DEF BulkInv, Working
<1>18. ASSUME NEW w \in Workers PROVE Holding(w)'
  <2>1. Holding(w) /\ job[w] \in Job /\ job' = job
    BY <1>1 DEF BulkInv, BulkTypes, JobType
  <2>2. \A k \in Keys : row'[k].st = "pending" <=> row[k].st = "pending"
    BY <1>8
  <2>3. \A k \in job[w].todo : k \in Keys
    BY <2>1 DEF Job
  <2>4. \A e \in job[w].went : e[1] \in Keys
    BY <2>1 DEF Job
  <2>5. Agree(job[w].tally) => Agree(job[w].tally)'
    <3>1. job[w].tally \in Counts
      BY <2>1 DEF Job
    <3> QED
      BY <1>15, <2>1, <3>1, BouncedAgreement DEF Agree
  <2>6. row[job[w].key].mid # 0 /\ job[w].pc \in {"handover", "taken"} => row'[job[w].key].mid # 0
    <3>1. job[w].pc \in {"handover", "taken"} => job[w].key \in Keys
      BY InHandFacts DEF InHand
    <3> QED
      BY <1>3, <3>1
  <2> QED
    BY <1>9, <2>1, <2>2, <2>3, <2>4, <2>5, <2>6 DEF Holding
<1>19. OnTime' /\ ConfirmedBatch'
  BY <1>1, <1>4 DEF BulkInv, OnTime, ConfirmedBatch
<1> QED
  BY <1>10, <1>11, <1>12, <1>13, <1>14, <1>16, <1>17, <1>18, <1>19 DEF BulkInv

-----------------------------------------------------------------------------
(* The end of a send, and its beginning. *)

\* A worker at the claim has nothing in its hands.
LEMMA AtClaim ==
    ASSUME BulkInv, NEW w \in Workers, NEW j \in Job, job' = [job EXCEPT ![w] = j],
           job[w].pc # "idle", j.pc = "claim", j.todo = {}, j.went = {}, lock' = lock
    PROVE  JobType' /\ \A v \in Workers : Working(v)' /\ Holding(v)' /\ job'[v].pc \in {"idle", "claim"}
<1>1. lock = w /\ \A v \in Workers \ {w} : job[v].pc = "idle"
  BY OneAtWork
<1>2. job'[w] = j /\ \A v \in Workers \ {w} : job'[v] = job[v]
  BY DEF BulkInv, BulkTypes, JobType
<1>3. Working(w)'
  BY <1>1, <1>2 DEF Working, SendingPC, Recover, InHand, Recovering, Looping
<1>4. Holding(w)'
  BY <1>2 DEF Holding, InHand, Recover, Recovering, Looping
<1>5. JobType' /\ \A v \in Workers : Working(v)' /\ Holding(v)'
  BY <1>1, <1>3, <1>4, Hands
<1>6. \A v \in Workers : job'[v].pc \in {"idle", "claim"}
  BY <1>1, <1>2
<1> QED
  BY <1>5, <1>6

\* The worker that holds the counts read before commits them with the final status.
LEMMA SendEndsSound ==
    ASSUME BulkInv, NEW w \in Workers, job[w].pc \in {"stop", "finish"},
           NEW st \in {"sent", "stopped"}, email' = [email EXCEPT !.status = st, !.stop = FALSE],
           count' = job[w].tally, job' = [job EXCEPT ![w] = [IdleJob EXCEPT !.pc = "claim"]],
           row' \in Rows, \A k \in Keys : row'[k].mid = row[k].mid,
           \A k \in Keys : row[k].st # "pending" => row'[k] = row[k],
           \A k \in Keys : row[k].st = "pending" => st = "stopped" /\ row'[k].st = "stopped",
           UNCHANGED <<log, addr, callout, lock, late>>
    PROVE  BulkInv'
<1>1. /\ job[w] \in Job /\ email.status = "sending" /\ email.started
      /\ Agree(job[w].tally) /\ \A k \in Keys : ~Left(k)
  BY DEF BulkInv, BulkTypes, JobType, Working, Holding, SendingPC, Standing
<1>2. EmailType' /\ email'.status = st /\ email'.started
  BY <1>1 DEF BulkInv, BulkTypes, EmailType
<1> DEFINE j == [IdleJob EXCEPT !.pc = "claim"]
<1>3. j \in Job /\ j.pc = "claim" /\ j.todo = {} /\ j.went = {}
  BY DEF IdleJob, Job, ZeroCount, Counts
<1> HIDE DEF j
<1>4. job' = [job EXCEPT ![w] = j]
  BY DEF j
<1>5. JobType' /\ \A v \in Workers : Working(v)' /\ Holding(v)' /\ job'[v].pc \in {"idle", "claim"}
  BY <1>3, <1>4, AtClaim
<1>6. LogInv' /\ \A k \in Keys : ~Left(k)'
  <2>1. \A k \in Keys : row[k].st \in WentOut => row'[k] = row[k]
    BY DEF WentOut
  <2> QED
    BY <1>1, <2>1, LogQuiet
<1>7. CountType' /\ Agree(count)'
  <2>1. \A k \in Keys : \A s \in {"sent", "bounced", "failed", "skipped"} :
            row'[k].st = s <=> row[k].st = s
    OBVIOUS
  <2>2. PICK c : c = job[w].tally
    OBVIOUS
  <2>3. c \in Counts /\ Agree(c) /\ count' = c
    BY <1>1, <2>2 DEF Job
  <2> QED
    BY <2>1, <2>3, KeptAgreement DEF Agree, CountType
<1>8. BulkTypes'
  BY <1>2, <1>5, <1>7 DEF BulkInv, BulkTypes, RowType, Rows, LogType
<1>9. Standing'
  BY <1>1, <1>2 DEF BulkInv, Standing, Allowed
<1>10. CountsKept' /\ NothingLeft' /\ ConfirmedBatch'
  BY <1>2, <1>6, <1>7 DEF CountsKept, NothingLeft, ConfirmedBatch
<1>11. Apart'
  BY FewerApart DEF Live
<1>12. OnTime'
  BY <1>1, <1>2, <1>5 DEF BulkInv, OnTime
<1> QED
  BY <1>5, <1>6, <1>8, <1>9, <1>10, <1>11, <1>12 DEF BulkInv

\* apply_stop commits the counts read before.
LEMMA ApplyStopSound ==
    ASSUME BulkInv, NEW w \in Workers, ApplyStop(w) PROVE BulkInv'
<1>1. /\ job[w].pc = "stop" /\ row' = Stopped(row) /\ count' = job[w].tally
      /\ email' = [email EXCEPT !.status = "stopped", !.stop = FALSE]
      /\ job' = [job EXCEPT ![w] = [IdleJob EXCEPT !.pc = "claim"]]
      /\ UNCHANGED <<log, addr, callout, lock, late>>
  BY DEF ApplyStop, Goto, outside
<1>2. row \in Rows
  BY DEF BulkInv, BulkTypes, RowType, Rows
<1>3. /\ row' \in Rows
      /\ \A k \in Keys : /\ row'[k].mid = row[k].mid
                         /\ row[k].st # "pending" => row'[k] = row[k]
                         /\ row[k].st = "pending" => row'[k].st = "stopped"
  BY <1>1, <1>2, StoppedRows
<1> QED
  BY <1>1, <1>3, SendEndsSound

\* _finish commits the counts read before.
LEMMA FinishSaveSound ==
    ASSUME BulkInv, NEW w \in Workers, FinishSave(w) PROVE BulkInv'
<1>1. /\ job[w].pc = "finish" /\ row' = row /\ count' = job[w].tally
      /\ email' = [email EXCEPT !.status = "sent", !.stop = FALSE]
      /\ job' = [job EXCEPT ![w] = [IdleJob EXCEPT !.pc = "claim"]]
      /\ UNCHANGED <<log, addr, callout, lock, late>>
  BY DEF FinishSave, Goto, outside
<1>2. row \in Rows
  BY DEF BulkInv, BulkTypes, RowType, Rows
<1>3. \A k \in Keys : row[k].st # "pending"
  BY <1>1 DEF BulkInv, Holding
<1> QED
  BY <1>1, <1>2, <1>3, SendEndsSound

\* _refuse: the sender lost the right to send this type while the email waited.
LEMMA RefuseSound ==
    ASSUME BulkInv, email.status = "queued", Refuse,
           UNCHANGED <<count, log, addr, callout, job, lock, late>>
    PROVE  BulkInv'
<1>1. CASE email.started
  <2>1. row' = Stopped(row) /\ email' = [email EXCEPT !.status = "stopped"]
    BY <1>1 DEF Refuse
  <2>2. EmailType' /\ email'.started /\ email'.status = "stopped"
    BY <1>1, <2>1 DEF BulkInv, BulkTypes, EmailType
  <2>3. row \in Rows
    BY DEF BulkInv, BulkTypes, RowType, Rows
  <2>4. /\ row' \in Rows
        /\ \A k \in Keys : /\ row'[k].mid = row[k].mid
                           /\ row[k].st # "pending" => row'[k] = row[k]
                           /\ row[k].st = "pending" => row'[k].st = "stopped"
    BY <2>1, <2>3, StoppedRows
  <2>5. Agree(count)' /\ CountType'
    <3>1. \A k \in Keys : \A s \in {"sent", "bounced", "failed", "skipped"} :
              row'[k].st = s <=> row[k].st = s
      BY <2>4
    <3>2. Agree(count) /\ count' = count /\ CountType
      BY <1>1 DEF BulkInv, BulkTypes, CountsKept
    <3> QED
      BY <3>1, <3>2, KeptAgreement DEF Agree, CountType
  <2>6. Apart'
    BY <2>4, FewerApart DEF Live
  <2>7. \A k \in Keys : Allowed(k)'
    BY <1>1, <2>2, <2>4 DEF BulkInv, Standing, Allowed
  <2>8. \A k \in Keys : row[k].st \in WentOut => row'[k] = row[k]
    BY <2>4 DEF WentOut
  <2> QED
    BY <1>1, <2>2, <2>4, <2>5, <2>6, <2>7, <2>8, Resting
<1>2. CASE ~email.started
  <2>1. row' = row /\ BackToDraft
    BY <1>2 DEF Refuse
  <2>2. EmailType' /\ ~email'.started /\ email'.status = "draft" /\ ConfirmedBatch'
    BY <1>2, <2>1, DraftAgain DEF BulkInv, BulkTypes
  <2> QED
    BY <1>2, <2>1, <2>2, ComposedRows, Composing
<1> QED
  BY <1>1, <1>2

\* _freeze settles every row of the batch, and _skip_if_closed the ones still pending.
LEMMA ClaimedRows ==
    ASSUME row \in Rows
    PROVE  /\ Claimed \in Rows
           /\ \A k \in Keys :
                /\ Claimed[k].mid = row[k].mid
                /\ row[k].st \notin {"batched", "pending"} => Claimed[k] = row[k]
                /\ row[k].st = "pending" => Claimed[k].st \in {"pending", "skipped"}
                /\ row[k].st = "batched" => Claimed[k].st \in {"pending", "skipped"}
                /\ row[k].st = "batched" /\ Claimed[k].st = "pending" => Receives(Person(k))
<1>1. /\ Frozen \in Rows
      /\ \A k \in Keys :
           /\ Frozen[k].mid = row[k].mid
           /\ row[k].st # "batched" => Frozen[k] = row[k]
           /\ row[k].st = "batched" => Frozen[k].st \in {"pending", "skipped"}
           /\ row[k].st = "batched" /\ Frozen[k].st = "pending" => Receives(Person(k))
  BY DEF Frozen, Rows, Statuses
<1>2. CASE IsClosed
  <2>1. Claimed = SkippedPending(Frozen)
    BY <1>2 DEF Claimed
  <2> QED
    BY <1>1, <2>1, SkippedRows
<1>3. CASE ~IsClosed
  <2>1. Claimed = Frozen
    BY <1>3 DEF Claimed
  <2> QED
    BY <1>1, <2>1
<1> QED
  BY <1>2, <1>3

\* Of the people of the batch that share an address one is sent a copy.
LEMMA ReceiversApart ==
    ASSUME NEW p \in People, NEW q \in People, p # q, Receives(p), Receives(q),
           row[<<0, p>>].st = "batched", row[<<0, q>>].st = "batched"
    PROVE  addr[p] # addr[q]
<1>1. p < q \/ q < p
  BY BulkAssumption
<1> QED
  BY <1>1 DEF Receives

\* A claim finds nothing to do, refuses the email, or freezes its batch and starts it.
LEMMA ClaimSound ==
    ASSUME BulkInv, NEW w \in Workers, Claim(w) PROVE BulkInv'
<1>0. job[w].pc = "claim" /\ UNCHANGED <<log, addr, callout, late>>
  BY DEF Claim, outside
<1>1. CASE Leave(w) /\ UNCHANGED <<email, row, count>>
  BY <1>0, <1>1, LeaveSound
<1>2. CASE email.status = "queued" /\ Refuse /\ UNCHANGED <<job, lock, count>>
  BY <1>0, <1>2, RefuseSound
<1>3. CASE /\ email.status = "queued"
           /\ row' = Claimed
           /\ count' = [count EXCEPT !.skipped = @ + NewlySkipped(Claimed)]
           /\ email' = [email EXCEPT !.status = "sending", !.started = TRUE]
           /\ Goto(w, [job[w] EXCEPT !.pc = "send"])
           /\ UNCHANGED lock
  <2>1. row \in Rows
    BY DEF BulkInv, BulkTypes, RowType, Rows
  <2>2. /\ row' \in Rows
        /\ \A k \in Keys :
             /\ row'[k].mid = row[k].mid
             /\ row[k].st \notin {"batched", "pending"} => row'[k] = row[k]
             /\ row[k].st = "pending" => row'[k].st \in {"pending", "skipped"}
             /\ row[k].st = "batched" => row'[k].st \in {"pending", "skipped"}
             /\ row[k].st = "batched" /\ row'[k].st = "pending" => Receives(Person(k))
    BY <1>3, <2>1, ClaimedRows
  <2>3. EmailType' /\ email'.status = "sending" /\ email'.started
    BY <1>3 DEF BulkInv, BulkTypes, EmailType
  <2>4. CountType'
    <3> DEFINE D == InStatus(Claimed, {"skipped"}) \ InStatus(row, {"skipped"})
    <3>1. D \in SUBSET Keys
      BY DEF InStatus
    <3>2. Cardinality(D) \in Nat
      BY <3>1, KeysFinite, FS_Subset, FS_CardinalityType
    <3>3. NewlySkipped(Claimed) \in Nat
      BY <3>2 DEF NewlySkipped
    <3>4. count \in Counts
      BY DEF BulkInv, BulkTypes, CountType
    <3>5. PICK n \in Nat : n = NewlySkipped(Claimed)
      BY <3>3
    <3>6. count' = [count EXCEPT !.skipped = @ + n]
      BY <1>3, <3>5
    <3> QED
      BY <3>4, <3>6 DEF CountType, Counts
  <2>5. lock = w /\ \A v \in Workers \ {w} : job[v].pc = "idle"
    BY <1>0, OneAtWork
  <2>6. job[w] \in Job /\ job[w].todo = {} /\ job[w].went = {}
    BY <1>0 DEF BulkInv, BulkTypes, JobType, Working
  <2> DEFINE j == [job[w] EXCEPT !.pc = "send"]
  <2>7. j \in Job /\ j.pc = "send" /\ j.todo = {} /\ j.went = {}
    BY <2>6 DEF Job, SendingPC
  <2> HIDE DEF j
  <2>8. job' = [job EXCEPT ![w] = j] /\ job'[w] = j
    BY <1>3 DEF j, Goto, BulkInv, BulkTypes, JobType
  <2>9. Working(w)'
    BY <1>3, <2>3, <2>5, <2>7, <2>8
       DEF Working, SendingPC, Recover, InHand, Recovering, Looping
  <2>10. Holding(w)'
    BY <2>7, <2>8 DEF Holding, InHand, Recover, Recovering, Looping
  <2>11. JobType' /\ \A v \in Workers : Working(v)' /\ Holding(v)'
    BY <2>5, <2>7, <2>8, <2>9, <2>10, Hands
  <2>12. LogInv'
    <3>1. \A k \in Keys : row[k].st \in WentOut => row'[k] = row[k]
      BY <2>2 DEF WentOut
    <3>2. \A k \in Keys : ~Left(k)
      BY <1>3 DEF BulkInv, NothingLeft
    <3> QED
      BY <1>0, <2>2, <3>1, <3>2, LogQuiet
  <2>13. Apart'
    <3>1. CASE email.started
      <4>1. \A k \in Keys : row[k].st # "batched"
        BY <3>1 DEF BulkInv, Standing, Allowed
      <4>2. \A k \in Keys : Live(k)' => Live(k)
        BY <2>2, <4>1 DEF Live
      <4> QED
        BY <1>0, <4>2, FewerApart
    <3>2. CASE ~email.started
      <4>1. \A k \in Keys : row[k].st \in {"none", "batched"} /\ (Round(k) > 0 => row[k].st = "none")
        BY <3>2 DEF BulkInv, Standing, Allowed
      <4>2. ASSUME NEW k \in Keys, Live(k)'
            PROVE  /\ Person(k) \in People /\ k = <<0, Person(k)>>
                   /\ row[k].st = "batched" /\ Receives(Person(k))
        <5>1. row[k].st = "batched" /\ row'[k].st = "pending"
          BY <2>2, <4>1, <4>2 DEF Live
        <5>2. Round(k) \in Nat /\ Person(k) \in People /\ k = <<Round(k), Person(k)>>
          BY RoundPerson, BulkAssumption DEF Rounds
        <5>3. Round(k) = 0
          BY <4>1, <5>1, <5>2
        <5> QED
          BY <2>2, <5>1, <5>2, <5>3
      <4>3. ASSUME NEW i \in Keys, NEW k \in Keys, i # k, Live(i)', Live(k)'
            PROVE  addr[Person(i)] # addr[Person(k)]
        <5>1. PICK p \in People : p = Person(i) /\ i = <<0, p>>
          BY <4>2, <4>3
        <5>2. PICK q \in People : q = Person(k) /\ k = <<0, q>>
          BY <4>2, <4>3
        <5>3. /\ p # q /\ Receives(p) /\ Receives(q)
              /\ row[<<0, p>>].st = "batched" /\ row[<<0, q>>].st = "batched"
          BY <4>2, <4>3, <5>1, <5>2
        <5> QED
          BY <5>1, <5>2, <5>3, ReceiversApart
      <4> QED
        BY <1>0, <4>3 DEF Apart
    <3> QED
      BY <3>1, <3>2
  <2>14. BulkTypes'
    BY <1>0, <2>2, <2>3, <2>4, <2>11 DEF BulkInv, BulkTypes, RowType, Rows, LogType
  <2>15. \A k \in Keys : row'[k].st \notin {"batched", "stopped"}
    BY <1>3, <2>2 DEF BulkInv, Standing, Allowed
  <2>16. Standing'
    BY <2>3, <2>15 DEF Standing, Allowed
  <2>17. CountsKept' /\ NothingLeft' /\ ConfirmedBatch'
    BY <2>3 DEF CountsKept, NothingLeft, ConfirmedBatch
  <2>18. \A v \in Workers : job'[v].pc # "handover"
    BY <2>5, <2>7, <2>8 DEF BulkInv, BulkTypes, JobType
  <2>19. OnTime'
    BY <1>0, <2>3, <2>18 DEF BulkInv, OnTime
  <2> QED
    BY <2>11, <2>12, <2>13, <2>14, <2>16, <2>17, <2>19 DEF BulkInv
<1> QED
  BY <1>1, <1>2, <1>3 DEF Claim

-----------------------------------------------------------------------------
(* The invariant, and what follows from it. *)

\* A step of something else.
LEMMA StutterSound ==
    ASSUME BulkInv, UNCHANGED vars PROVE BulkInv'
<1>1. /\ UNCHANGED <<count, row, log, addr, job, lock, late>>
      /\ email' = email /\ callout' = callout
  BY DEF vars
<1> QED
  BY <1>1, Aside DEF BulkInv, BulkTypes, EmailType, OnTime

\* Every operation of the portal keeps the invariant.
LEMMA PortalSound ==
    ASSUME BulkInv, Portal PROVE BulkInv'
<1>1. CASE \E p \in People : AddAccounts(p)
  BY <1>1, AddSound
<1>2. CASE \E S \in SUBSET People : RemoveAccounts(S)
  BY <1>2, RemoveSound
<1>3. CASE Update
  BY <1>3, UpdateSound
<1>4. CASE Queue
  BY <1>4, QueueSound
<1>5. CASE Cancel
  BY <1>5, CancelSound
<1>6. CASE DeleteDraft
  BY <1>6, DeleteDraftSound
<1>7. CASE RetryFailed
  BY <1>7, RetryFailedSound
<1>8. CASE Resume
  BY <1>8, ResumeSound
<1>9. CASE Stop
  BY <1>9, StopSound
<1>10. CASE \E p \in People : RecordAnswer(p)
  BY <1>10, RecordAnswerSound
<1>11. CASE Close
  BY <1>11, CloseSound
<1>12. CASE Remind
  BY <1>12, RemindSound
<1> QED
  BY <1>1, <1>2, <1>3, <1>4, <1>5, <1>6, <1>7, <1>8, <1>9, <1>10, <1>11, <1>12 DEF Portal

\* So does everything that happens to the sender and to the people.
LEMMA EnvironmentSound ==
    ASSUME BulkInv, Environment PROVE BulkInv'
<1>1. CASE StartArrives
  BY <1>1, StartArrivesSound
<1>2. CASE Expire
  BY <1>2, ExpireSound
<1>3. CASE PeopleChange
  BY <1>3, PeopleChangeSound
<1>4. CASE \E m \in 1 .. Len(log) : BounceReport(m)
  BY <1>4, BounceReportSound
<1>5. CASE \E w \in Workers : Refused(w)
  BY <1>5, RefusedSound
<1>6. CASE \E w \in Workers : Unexpected(w)
  BY <1>6, UnexpectedSound
<1>7. CASE \E w \in Workers : OutOfTime(w)
  BY <1>7, OutOfTimeSound
<1>8. CASE \E w \in Workers : Crash(w)
  BY <1>8, CrashSound
<1> QED
  BY <1>1, <1>2, <1>3, <1>4, <1>5, <1>6, <1>7, <1>8 DEF Environment

\* So does every step of a run.
LEMMA SenderSound ==
    ASSUME BulkInv, NEW w \in Workers, SenderStep(w) PROVE BulkInv'
<1>1. CASE RunSender(w)
  BY <1>1, RunSenderSound
<1>2. CASE Claim(w)
  BY <1>2, ClaimSound
<1>3. CASE BeginSend(w)
  BY <1>3, BeginSendSound
<1>4. CASE RecoverCopy(w)
  BY <1>4, RecoverCopySound
<1>5. CASE RecoverBounce(w)
  BY <1>5, RecoverBounceSound
<1>6. CASE ListRows(w)
  BY <1>6, ListRowsSound
<1>7. CASE NextCopy(w)
  BY <1>7, NextCopySound
<1>8. CASE AfterPause(w)
  BY <1>8, AfterPauseSound
<1>9. CASE Accepted(w)
  BY <1>9, AcceptedSound
<1>10. CASE WriteLog(w)
  BY <1>10, WriteLogSound
<1>11. CASE RecordRow(w)
  BY <1>11, RecordRowSound
<1>12. CASE RecordCount(w)
  BY <1>12, RecordCountSound
<1>13. CASE ApplyStop(w)
  BY <1>13, ApplyStopSound
<1>14. CASE FinishRead(w)
  BY <1>14, FinishReadSound
<1>15. CASE FinishSave(w)
  BY <1>15, FinishSaveSound
<1> QED
  BY <1>1, <1>2, <1>3, <1>4, <1>5, <1>6, <1>7, <1>8, <1>9, <1>10, <1>11, <1>12,
     <1>13, <1>14, <1>15 DEF SenderStep

\* The invariant is inductive.
LEMMA NextSound == BulkInv /\ [Next]_vars => BulkInv'
<1> SUFFICES ASSUME BulkInv, [Next]_vars PROVE BulkInv'
  OBVIOUS
<1>1. CASE Portal
  BY <1>1, PortalSound
<1>2. CASE Environment
  BY <1>2, EnvironmentSound
<1>3. CASE \E w \in Workers : SenderStep(w)
  BY <1>3, SenderSound
<1>4. CASE UNCHANGED vars
  BY <1>4, StutterSound
<1> QED
  BY <1>1, <1>2, <1>3, <1>4 DEF Next

\* Whatever the portal's users, the sender's processes, the mail server and the people
\* do, the rows, the log, the counts and what the sender has in its hands stay in step.
THEOREM BulkInvariance == Spec => []BulkInv
<1>1. Init => BulkInv
  BY InitSound
<1>2. BulkInv /\ [Next]_vars => BulkInv'
  BY NextSound
<1> QED
  BY <1>1, <1>2, PTL DEF Spec

\* No address gets two copies of one round, by the email log, for any number of people,
\* processes, crashes, stops and retries (_recover_logged_copies, recheck_rows): an entry
\* that shows a copy gone is the one its row names, so two of them are two rows, and the
\* rows that went or will go have different addresses.
THEOREM OneCopyPerAddress == Spec => []NoSecondCopy
<1>1. BulkInv => NoSecondCopy
  <2> SUFFICES ASSUME BulkInv, NEW m \in 1 .. Len(log), NEW n \in 1 .. Len(log), m # n,
                      {log[m].st, log[n].st} \subseteq {"sent", "bounced"},
                      Round(log[m].key) = Round(log[n].key)
               PROVE  addr[Person(log[m].key)] # addr[Person(log[n].key)]
    BY DEF NoSecondCopy
  <2>1. log[m].key \in Keys /\ log[n].key \in Keys
    BY LogEntries DEF BulkInv, BulkTypes
  <2>2. log[m].st \in WentOut /\ log[n].st \in WentOut
    BY DEF WentOut
  <2>3. /\ row[log[m].key].mid = m /\ row[log[m].key].st \in WentOut \cup {"pending"}
        /\ row[log[n].key].mid = n /\ row[log[n].key].st \in WentOut \cup {"pending"}
    BY <2>2 DEF BulkInv, LogInv, Logged
  <2>4. log[m].key # log[n].key /\ Live(log[m].key) /\ Live(log[n].key)
    BY <2>3 DEF Live, WentOut
  <2> QED
    BY <2>1, <2>4 DEF BulkInv, Apart
<1> QED
  BY <1>1, BulkInvariance, PTL

\* A finished or stopped email has nothing left to send, and its counts are its rows', up
\* to bounces that came between a recount and its commit (_finish, apply_stop, recount).
THEOREM EmailsSettle == Spec => []SettledEmail
<1>1. BulkInv => SettledEmail
  <2> SUFFICES ASSUME BulkInv PROVE SettledEmail
    OBVIOUS
  <2>1. email.status \in {"sent", "stopped"} => email.started
    BY DEF BulkInv, Standing
  <2>2. \A k \in Keys : /\ email.status = "sent" => row[k].st \notin {"batched", "pending", "stopped"}
                        /\ email.status = "stopped" => row[k].st \notin {"batched", "pending"}
    BY <2>1 DEF BulkInv, Standing, Allowed
  <2>3. email.status \in {"sent", "stopped"} => Agree(count)
    BY <2>1 DEF BulkInv, CountsKept
  <2> QED
    BY <2>2, <2>3 DEF SettledEmail, InStatus, Agree
<1> QED
  BY <1>1, BulkInvariance, PTL

\* An email waiting for its start holds the people its sender confirmed: queue writes the
\* count down, and every later change of the batch sends the email back to a draft.
THEOREM BatchAsConfirmed == Spec => []ConfirmedBatch
<1>1. BulkInv => ConfirmedBatch
  BY DEF BulkInv
<1> QED
  BY <1>1, BulkInvariance, PTL

\* Once a callout has closed at most one copy is still handed over, whatever is resumed,
\* retried or rerun later (_skip_if_unsendable, _skip_if_closed, close).
THEOREM LateCopyIsOne == Spec => []OneLateCopy
<1>1. BulkInv => OneLateCopy
  BY DEF BulkInv, OnTime, OneLateCopy
<1> QED
  BY <1>1, BulkInvariance, PTL

-----------------------------------------------------------------------------
(* What a step may never do. *)

\* Every copy that went stays gone through the step, and a started email stays started.
CopiesStay == /\ \A k \in Keys : /\ row[k].st = "sent" => row'[k].st \in {"sent", "bounced"}
                                 /\ row[k].st = "bounced" => row'[k].st = "bounced"
              /\ email.started => email'.started

\* One row changes, and it had not gone.
LEMMA OneRowStays ==
    ASSUME BulkInv, NEW k \in Keys, row[k].st \notin WentOut, email' = email,
           \A i \in Keys \ {k} : row'[i] = row[i]
    PROVE  CopiesStay
BY DEF CopiesStay, WentOut

\* mark_bounced takes sent copies to bounced.
LEMMA BouncesStay ==
    ASSUME BulkInv, NEW m, MarkBounced(m), email' = email
    PROVE  CopiesStay
<1>1. row \in Rows /\ count \in Counts
  BY DEF BulkInv, BulkTypes, RowType, Rows, CountType
<1>2. \A k \in Keys : /\ k \in MarkedBounced(m) => row'[k].st = "bounced" /\ row[k].st = "sent"
                      /\ k \notin MarkedBounced(m) => row'[k] = row[k]
  BY <1>1, MarkedRows
<1> QED
  BY <1>2 DEF CopiesStay

\* No operation of the portal touches a copy that went.
LEMMA PortalKeeps ==
    ASSUME BulkInv, Portal PROVE CopiesStay
<1>0. row \in Rows /\ EmailType
  BY DEF BulkInv, BulkTypes, RowType, Rows
<1>1. ASSUME ~email.started PROVE CopiesStay
  BY <1>1 DEF BulkInv, Standing, Allowed, CopiesStay
<1>2. CASE RetryFailed
  <2> DEFINE S == InStatus(row, {"failed"})
  <2>1. S \in SUBSET Keys /\ (\A k \in S : row[k].st = "failed") /\ row' = Rechecked(S)
    BY <1>2 DEF RetryFailed, InStatus
  <2>2. email'.started = email.started
    BY <1>0, <1>2 DEF RetryFailed, EmailType
  <2> HIDE DEF S
  <2>3. \A k \in Keys : k \notin S => row'[k] = row[k]
    BY <1>0, <2>1, RecheckedRows
  <2> QED
    BY <2>1, <2>2, <2>3 DEF CopiesStay
<1>3. CASE Resume
  <2> DEFINE S == InStatus(row, {"stopped"})
  <2>1. S \in SUBSET Keys /\ (\A k \in S : row[k].st = "stopped") /\ row' = Rechecked(S)
    BY <1>3 DEF Resume, InStatus
  <2>2. email'.started = email.started
    BY <1>0, <1>3 DEF Resume, EmailType
  <2> HIDE DEF S
  <2>3. \A k \in Keys : k \notin S => row'[k] = row[k]
    BY <1>0, <2>1, RecheckedRows
  <2> QED
    BY <2>1, <2>2, <2>3 DEF CopiesStay
<1>4. CASE Stop
  <2>1. email'.started = email.started
    BY <1>0, <1>4 DEF Stop, EmailType
  <2>2. row' = row \/ row' = Stopped(row)
    BY <1>4 DEF Stop
  <2>3. \A k \in Keys : row[k].st # "pending" => row'[k] = row[k]
    BY <1>0, <2>2, StoppedRows
  <2> QED
    BY <2>1, <2>3 DEF CopiesStay
<1>5. CASE Close
  <2>1. email'.started = email.started
    BY <1>0, <1>5 DEF Close, EmailType
  <2>2. row' = row \/ row' = SkippedPending(row)
    BY <1>5 DEF Close
  <2>3. \A k \in Keys : row[k].st # "pending" => row'[k] = row[k]
    BY <1>0, <2>2, SkippedRows
  <2> QED
    BY <2>1, <2>3 DEF CopiesStay
<1>6. CASE Remind
  <2>1. PICK r : r = LastRound + 1
    OBVIOUS
  <2>2. email'.started = email.started
    BY <1>0, <1>6 DEF Remind, EmailType
  <2>3. \A k \in Keys : row'[k] = row[k] \/ Round(k) = r
    BY <1>6, <2>1 DEF Remind
  <2>4. \A k \in Keys : Round(k) = r => row[k].st = "none"
    <3>1. LastRound \in Rounds /\ \A k \in Keys : Round(k) > LastRound => row[k].st = "none"
      <4>1. \A k \in Keys : row[k].st \in Statuses
        BY <1>0 DEF Rows
      <4> QED
        BY <4>1, LastRoundIsLast
    <3>2. LastRound \in Nat
      BY <3>1, BulkAssumption DEF Rounds
    <3> QED
      BY <2>1, <3>1, <3>2
  <2> QED
    BY <2>2, <2>3, <2>4 DEF CopiesStay
<1>7. CASE \E p \in People : RecordAnswer(p)
  BY <1>7 DEF RecordAnswer, CopiesStay
<1>8. CASE (\E p \in People : AddAccounts(p)) \/ (\E S \in SUBSET People : RemoveAccounts(S))
           \/ Update \/ Queue \/ Cancel \/ DeleteDraft
  <2>1. ~email.started
    BY <1>8 DEF AddAccounts, RemoveAccounts, Update, Queue, Cancel, DeleteDraft, CanEdit
  <2> QED
    BY <1>1, <2>1
<1> QED
  BY <1>2, <1>3, <1>4, <1>5, <1>6, <1>7, <1>8 DEF Portal

\* Of what happens outside only a bounce report touches a copy that went.
LEMMA EnvironmentKeeps ==
    ASSUME BulkInv, Environment PROVE CopiesStay
<1>0. row \in Rows /\ EmailType
  BY DEF BulkInv, BulkTypes, RowType, Rows
<1>1. CASE StartArrives
  <2>1. email'.started = email.started /\ row' = row
    BY <1>0, <1>1 DEF StartArrives, EmailType
  <2> QED
    BY <2>1 DEF CopiesStay
<1>2. CASE Expire \/ PeopleChange
  BY <1>2 DEF Expire, PeopleChange, CopiesStay
<1>3. CASE \E m \in 1 .. Len(log) : BounceReport(m)
  BY <1>3, BouncesStay DEF BounceReport
<1>4. ASSUME NEW w \in Workers, Refused(w) PROVE CopiesStay
  <2>1. PICK k : k = job[w].key
    OBVIOUS
  <2>2. job[w].pc = "handover" /\ email' = email
        /\ (row' = row \/ row' = [row EXCEPT ![k].mid = Len(log')])
    BY <1>4, <2>1 DEF Refused
  <2>3. k \in Keys /\ row[k].st = "pending"
    BY <2>1, <2>2, InHandFacts DEF InHand
  <2>4. \A i \in Keys \ {k} : row'[i] = row[i]
    BY <1>0, <2>2 DEF Rows
  <2> QED
    BY <2>2, <2>3, <2>4, OneRowStays DEF WentOut
<1>5. ASSUME NEW w \in Workers, Unexpected(w) \/ OutOfTime(w) \/ Crash(w) PROVE CopiesStay
  BY <1>5 DEF Unexpected, OutOfTime, Crash, CopiesStay
<1> QED
  BY <1>1, <1>2, <1>3, <1>4, <1>5 DEF Environment

\* A run touches the rows it has in hand, which are pending.
LEMMA SenderKeeps ==
    ASSUME BulkInv, NEW w \in Workers, SenderStep(w) PROVE CopiesStay
<1>0. row \in Rows /\ EmailType /\ job[w] \in Job
  BY DEF BulkInv, BulkTypes, RowType, Rows, JobType
<1>1. CASE Claim(w)
  <2>1. CASE UNCHANGED <<email, row>>
    BY <2>1 DEF CopiesStay
  <2>2. CASE Refuse
    <3>1. email'.started = email.started /\ (row' = row \/ row' = Stopped(row))
      BY <1>0, <2>2 DEF Refuse, BackToDraft, EmailType
    <3>2. \A k \in Keys : row[k].st # "pending" => row'[k] = row[k]
      BY <1>0, <3>1, StoppedRows
    <3> QED
      BY <3>1, <3>2 DEF CopiesStay
  <2>3. CASE row' = Claimed /\ email' = [email EXCEPT !.status = "sending", !.started = TRUE]
    <3>1. email'.started
      BY <1>0, <2>3 DEF EmailType
    <3>2. \A k \in Keys : row[k].st \notin {"batched", "pending"} => row'[k] = row[k]
      BY <1>0, <2>3, ClaimedRows
    <3> QED
      BY <3>1, <3>2 DEF CopiesStay
  <2> QED
    BY <1>1, <2>1, <2>2, <2>3 DEF Claim
<1>2. CASE RunSender(w) \/ BeginSend(w) \/ ListRows(w) \/ NextCopy(w) \/ Accepted(w) \/ WriteLog(w)
           \/ RecordCount(w) \/ FinishRead(w)
  BY <1>2 DEF RunSender, BeginSend, ListRows, NextCopy, Accepted, WriteLog, RecordCount,
              FinishRead, CopiesStay
<1>3. CASE RecoverCopy(w)
  <2>1. PICK e \in job[w].went : row' = [row EXCEPT ![e[1]].st = "sent"]
    BY <1>3 DEF RecoverCopy
  <2>2. PICK k : k = e[1]
    OBVIOUS
  <2>3. k \in Keys /\ row[k].st = "pending"
    <3>1. job[w].pc = "recover"
      BY <1>3 DEF RecoverCopy
    <3>2. row[e[1]].st = "pending"
      BY <2>1, <3>1 DEF BulkInv, Holding, Recovering, Recover
    <3> QED
      BY <1>0, <2>1, <2>2, <3>2 DEF Job
  <2>4. \A i \in Keys \ {k} : row'[i] = row[i]
    BY <1>0, <2>1, <2>2 DEF Rows
  <2>5. email' = email
    BY <1>3 DEF RecoverCopy
  <2> QED
    BY <2>3, <2>4, <2>5, OneRowStays DEF WentOut
<1>4. CASE RecoverBounce(w)
  BY <1>4, BouncesStay DEF RecoverBounce
<1>5. CASE AfterPause(w)
  <2>1. PICK k : k = job[w].key
    OBVIOUS
  <2>2. job[w].pc = "paced" /\ email' = email
        /\ (row' = row \/ row' = [row EXCEPT ![k].st = "skipped"]
                       \/ row' = [row EXCEPT ![k].mid = Len(log')])
    BY <1>5, <2>1 DEF AfterPause
  <2>3. k \in Keys /\ row[k].st = "pending"
    BY <2>1, <2>2, InHandFacts DEF InHand
  <2>4. \A i \in Keys \ {k} : row'[i] = row[i]
    BY <1>0, <2>2 DEF Rows
  <2> QED
    BY <2>2, <2>3, <2>4, OneRowStays DEF WentOut
<1>6. CASE RecordRow(w)
  <2>1. PICK k : k = job[w].key
    OBVIOUS
  <2>2. /\ job[w].pc = "record" /\ email' = email
        /\ \E r : row' = [row EXCEPT ![k] = r]
    BY <1>6, <2>1 DEF RecordRow
  <2>3. k \in Keys /\ row[k].st = "pending"
    BY <2>1, <2>2, InHandFacts DEF InHand
  <2>4. \A i \in Keys \ {k} : row'[i] = row[i]
    BY <1>0, <2>2 DEF Rows
  <2> QED
    BY <2>2, <2>3, <2>4, OneRowStays DEF WentOut
<1>7. CASE ApplyStop(w)
  <2>1. email'.started = email.started /\ row' = Stopped(row)
    BY <1>0, <1>7 DEF ApplyStop, EmailType
  <2>2. \A k \in Keys : row[k].st # "pending" => row'[k] = row[k]
    BY <1>0, <2>1, StoppedRows
  <2> QED
    BY <2>1, <2>2 DEF CopiesStay
<1>8. CASE FinishSave(w)
  <2>1. email'.started = email.started /\ row' = row
    BY <1>0, <1>8 DEF FinishSave, EmailType
  <2> QED
    BY <2>1 DEF CopiesStay
<1> QED
  BY <1>1, <1>2, <1>3, <1>4, <1>5, <1>6, <1>7, <1>8 DEF SenderStep

\* A copy that went never reads as anything but sent or bounced again, and a started email
\* is never a draft again (_record, apply_stop, retry_failed, resume, _refuse).
THEOREM GoneCopiesStayGone == Spec => WhatWentStaysGone
<1> DEFINE Step == /\ \A k \in Keys :
                        /\ row[k].st = "sent" => row'[k].st \in {"sent", "bounced"}
                        /\ row[k].st = "bounced" => row'[k].st = "bounced"
                   /\ email.started => email'.status \in {"queued", "sending", "sent", "stopped"}
<1>1. BulkInv /\ [Next]_vars => [Step]_vars
  <2> SUFFICES ASSUME BulkInv, Next PROVE Step
    OBVIOUS
  <2>1. CopiesStay
    BY PortalKeeps, EnvironmentKeeps, SenderKeeps DEF Next
  <2>2. BulkInv'
    BY NextSound
  <2> QED
    BY <2>1, <2>2 DEF CopiesStay, BulkInv, Standing
<1>2. (Init /\ [][Next]_vars) /\ []BulkInv => [][Step]_vars
  BY <1>1, PTL
<1> QED
  BY <1>2, BulkInvariance, PTL DEF Spec, WhatWentStaysGone
====
