----------------------------- MODULE JobsProofs ------------------------------
(***************************************************************************)
(* Theorems about Jobs: whatever dies, hangs, is pruned or restored, two   *)
(* runs of a job do not do its work at once, a row contradicts its run     *)
(* only where a poll held it past the limit as the run ended or a backup   *)
(* brought it back, and the run records say how each run ended.            *)
(*                                                                         *)
(* A step moves one process and at most closes its row, writes a new one,  *)
(* or closes rows past the limit.  So the parts of the invariant about     *)
(* rows, about records and about what both say are kept apart, and each is *)
(* shown for the few ways a step can touch it.                             *)
(***************************************************************************)
EXTENDS Jobs, TLAPS, SequenceTheorems

Stages == {"none", "starting", "launched", "recorded", "unrecorded", "working", "worked",
           "broke", "closing", "ended", "dead"}
Endings == {"", "could not start", "busy", "finished", "error"}
ProcState == [at : Stages, row : Nat, file : Nat, fails : BOOLEAN, skip : BOOLEAN,
              idle : BOOLEAN, end : Endings, polled : BOOLEAN]
RowState == [at : Nat, open : BOOLEAN,
             told : {"did not finish"} \union Endings, proc : Procs]
RunState == [state : {"none", "running", "succeeded", "failed"}, at : Nat, idle : BOOLEAN]

\* The row's own run has not reported: whoever closes it now closes it under the run.
Unreported == {"starting", "launched", "recorded", "unrecorded", "working", "worked"}
Reported == {"closing", "ended", "dead"}

JobsTypes ==
    /\ job \in JOBS /\ clock \in Nat /\ page \in Nat
    /\ rows \in Seq(RowState) /\ proc \in [Procs -> ProcState] /\ runs \in [Procs -> RunState]
    /\ dump \in [rows : Seq(RowState), runs : [Procs -> RunState]]

\* A process at work with a row is the one the row names.
OwnRow ==
    \A p \in Procs : Alive(p) /\ proc[p].row # 0 =>
        proc[p].row \in DOMAIN rows /\ rows[proc[p].row].proc = p

\* The row a poll is about to close is of the renewals and past the limit.
PolledOld ==
    page # 0 => /\ job = "renewals" /\ page \in DOMAIN rows
                /\ rows[page].at <= clock - StaleAfter

\* A row closed under its run is past the limit; no poll closes the registry's.
ClosedOld ==
    \A p \in Procs : LET i == proc[p].row IN
        proc[p].at \in Unreported /\ i # 0 /\ ~rows[i].open =>
            /\ rows[i].at <= clock - StaleAfter
            /\ job = "registry" => Stale(i)

OneScan ==
    job = "renewals" =>
        \A p, q \in Procs : proc[p].at = "working" /\ proc[q].at = "working" => p = q

\* Of two loads of the registry with rows, one is past the limit.
OneLoad ==
    job = "registry" =>
        /\ \A p \in Procs : proc[p].at = "working" => proc[p].row # 0
        /\ \A p, q \in Procs :
              /\ p # q /\ proc[p].row # 0 /\ proc[q].row # 0
              /\ proc[p].at \in Unreported /\ proc[q].at \in Unreported
              => Stale(proc[p].row) \/ Stale(proc[q].row)

RowsInv == OwnRow /\ PolledOld /\ ClosedOld /\ OneScan /\ OneLoad

\* The record of a run that has just begun says so, unless it is old enough to be pruned; and
\* one that says running is of a run that began and has not said how it ended.
RunsInv ==
    \A p \in Procs :
        /\ proc[p].at = "recorded" =>
              /\ ~runs[p].idle
              /\ runs[p].state = "running" \/ runs[p].at < clock - Retention
        /\ runs[p].state = "running" =>
              /\ proc[p].at \in {"recorded", "working", "worked", "broke", "closing", "dead"}
              /\ ~runs[p].idle

JobsInv == JobsTypes /\ RowsInv /\ RunsInv

\* A process goes on to a stage; the others stay where they are.
MovesTo(p, at, row) ==
    /\ proc' \in [Procs -> ProcState] /\ proc'[p].at = at /\ proc'[p].row = row
    /\ \A q \in Procs \ {p} : proc'[q] = proc[q]

\* Rows are numbered from 1 and have their fields, a backup's too.
LEMMA RowsTyped ==
    ASSUME JobsTypes
    PROVE  /\ Len(rows) \in Nat /\ DOMAIN rows = 1..Len(rows)
           /\ \A i \in DOMAIN rows : rows[i] \in RowState
           /\ \A i \in DOMAIN dump.rows : dump.rows[i] \in RowState
           /\ 0 \notin DOMAIN rows
<1> DEFINE old == dump.rows
<1>1. old \in Seq(RowState) /\ rows \in Seq(RowState)
  BY DEF JobsTypes
<1> HIDE DEF old
<1>2. \A s \in Seq(RowState) : /\ Len(s) \in Nat /\ DOMAIN s = 1..Len(s)
                               /\ \A i \in DOMAIN s : s[i] \in RowState
  OBVIOUS
<1>3. \A n \in Nat : 0 \notin 1..n
  OBVIOUS
<1>4. 0 \notin DOMAIN rows
  BY <1>1, <1>2, <1>3
<1> QED
  BY <1>1, <1>2, <1>4 DEF old

\* A row written is numbered after the others.
LEMMA OneMore ==
    /\ \A some \in Seq(RowState) : DOMAIN some = 1..Len(some)
    /\ \A n \in Nat : \A i \in 1..(n + 1) : i \in 1..n \/ i = n + 1
    /\ \A n \in Nat : 0 \notin 1..(n + 1) /\ \A i \in 1..n : i \in 1..(n + 1)
  OBVIOUS

\* What is past the limit by a day is past it.
LEMMA LessIsLeq ==
    \A m \in Nat, n \in Int : (m < n => m <= n) /\ (m >= n => ~(m < n))
  OBVIOUS

LEMMA RowWritten ==
    ASSUME JobsTypes, NEW i \in DOMAIN rows, NEW row \in RowState
    PROVE  [rows EXCEPT ![i] = row] \in Seq(RowState)
<1>1. rows \in Seq(RowState) /\ i \in 1..Len(rows)
  BY RowsTyped DEF JobsTypes
<1> QED
  BY <1>1, ExceptSeq

-----------------------------------------------------------------------------
(* What a step does to the rows.                                           *)

\* A process moves and no row is touched.
LEMMA MoveKeepsRows ==
    ASSUME JobsTypes, RowsInv, NEW p \in Procs, NEW at, MovesTo(p, at, proc[p].row),
           UNCHANGED <<job, clock, rows, page, dump>>,
           Alive(p) \/ proc[p].row = 0,
           at \in Unreported => proc[p].at \in Unreported \/ proc[p].row = 0,
           at = "working" => /\ job = "renewals" => scan_lock(p)
                             /\ job = "registry" => proc[p].row # 0
    PROVE  RowsInv'
<1>1. \A q \in Procs : q # p => proc'[q] = proc[q]
  BY DEF MovesTo
<1>2. proc'[p].at = at /\ proc'[p].row = proc[p].row
  BY DEF MovesTo
<1>3. OwnRow'
  <2> SUFFICES ASSUME NEW q \in Procs, Alive(q)', proc'[q].row # 0
               PROVE  proc'[q].row \in DOMAIN rows /\ rows[proc'[q].row].proc = q
    BY DEF OwnRow
  <2>1. Alive(q) /\ proc[q].row # 0 /\ proc'[q].row = proc[q].row
    BY <1>1, <1>2 DEF Alive
  <2> QED
    BY <2>1 DEF RowsInv, OwnRow
<1>4. PolledOld'
  BY DEF RowsInv, PolledOld
<1>5. ClosedOld'
  <2> SUFFICES ASSUME NEW q \in Procs, proc'[q].at \in Unreported, proc'[q].row # 0,
                      ~rows[proc'[q].row].open
               PROVE  /\ rows[proc'[q].row].at <= clock - StaleAfter
                      /\ job = "registry" => Stale(proc'[q].row)
    BY DEF ClosedOld, Stale
  <2>1. proc[q].at \in Unreported /\ proc'[q].row = proc[q].row
    BY <1>1, <1>2
  <2> QED
    BY <2>1 DEF RowsInv, ClosedOld
<1>7. OneScan'
  BY <1>1, <1>2 DEF RowsInv, OneScan, scan_lock
<1>8. OneLoad'
  <2>1. ASSUME job = "registry", NEW q \in Procs, proc'[q].at = "working"
        PROVE  proc'[q].row # 0
    BY <1>1, <1>2, <2>1 DEF RowsInv, OneLoad
  <2>2. ASSUME job = "registry", NEW q \in Procs, NEW r \in Procs, q # r,
               proc'[q].row # 0, proc'[r].row # 0,
               proc'[q].at \in Unreported, proc'[r].at \in Unreported
        PROVE  Stale(proc'[q].row) \/ Stale(proc'[r].row)
    <3>1. /\ proc[q].at \in Unreported /\ proc[r].at \in Unreported
          /\ proc'[q].row = proc[q].row /\ proc'[r].row = proc[r].row
      BY <1>1, <1>2, <2>2
    <3> QED
      BY <2>2, <3>1 DEF RowsInv, OneLoad
  <2> QED
    BY <2>1, <2>2 DEF OneLoad, Stale
<1> QED
  BY <1>3, <1>4, <1>5, <1>7, <1>8 DEF RowsInv

\* A process closes its own row as it reports.
LEMMA ReportKeepsRows ==
    ASSUME JobsTypes, RowsInv, NEW p \in Procs, NEW at \in Reported,
           NEW error \in {"could not start", "busy", "finished", "error"},
           MovesTo(p, at, proc[p].row), Alive(p), proc[p].row # 0,
           rows' = [rows EXCEPT ![proc[p].row] = close_scan(@, error)],
           UNCHANGED <<job, clock, page, dump>>
    PROVE  RowsInv' /\ rows' \in Seq(RowState)
<1> DEFINE own == proc[p].row
<1>1. \A q \in Procs : q # p => proc'[q] = proc[q]
  BY DEF MovesTo
<1>2. proc'[p].at = at /\ proc'[p].row = own
  BY DEF MovesTo
<1>3. own \in DOMAIN rows /\ rows[own].proc = p
  BY DEF RowsInv, OwnRow
<1>4. /\ DOMAIN rows = 1..Len(rows) /\ Len(rows) \in Nat
      /\ \A i \in DOMAIN rows : rows[i] \in RowState
  BY RowsTyped
<1>5. /\ DOMAIN rows' = DOMAIN rows
      /\ \A i \in DOMAIN rows : i # own => rows'[i] = rows[i]
      /\ rows'[own] = close_scan(rows[own], error)
  BY <1>3
<1>6. /\ close_scan(rows[own], error) \in RowState
      /\ close_scan(rows[own], error).at = rows[own].at
      /\ close_scan(rows[own], error).proc = rows[own].proc
      /\ close_scan(rows[own], error).told = error
  <2>1. rows[own] \in RowState
    BY <1>3, <1>4
  <2> HIDE DEF own
  <2> QED
    BY <2>1 DEF close_scan, RowState, Endings
<1>7. rows' \in Seq(RowState)
  <2>1. rows' = [rows EXCEPT ![own] = close_scan(rows[own], error)]
    OBVIOUS
  <2> QED
    BY <1>3, <1>6, <2>1, RowWritten
<1>8. \A i \in DOMAIN rows : rows'[i].at = rows[i].at /\ rows'[i].proc = rows[i].proc
  BY <1>5, <1>6
<1>9. \A q \in Procs : q # p /\ Alive(q) /\ proc[q].row # 0 => proc[q].row # own
  BY <1>3 DEF RowsInv, OwnRow
<1>10. at \notin Unreported
  BY DEF Reported, Unreported
<1> HIDE DEF own
<1>11. OwnRow'
  <2> SUFFICES ASSUME NEW q \in Procs, Alive(q)', proc'[q].row # 0
               PROVE  proc'[q].row \in DOMAIN rows' /\ rows'[proc'[q].row].proc = q
    BY DEF OwnRow
  <2>1. Alive(q) /\ proc[q].row # 0 /\ proc'[q].row = proc[q].row
    BY <1>1, <1>2 DEF Alive, own
  <2>2. proc[q].row \in DOMAIN rows /\ rows[proc[q].row].proc = q
    BY <2>1 DEF RowsInv, OwnRow
  <2>3. rows'[proc[q].row].proc = q
    BY <1>8, <2>2
  <2> QED
    BY <1>5, <2>1, <2>2, <2>3
<1>12. PolledOld'
  BY <1>5, <1>8 DEF RowsInv, PolledOld
<1>13. ClosedOld'
  <2> SUFFICES ASSUME NEW q \in Procs, proc'[q].at \in Unreported, proc'[q].row # 0,
                      ~rows'[proc'[q].row].open
               PROVE  /\ rows'[proc'[q].row].at <= clock - StaleAfter
                      /\ job = "registry" => rows'[proc'[q].row].at < clock - StaleAfter
    BY DEF ClosedOld, Stale
  <2>1. q # p /\ proc'[q] = proc[q]
    BY <1>1, <1>2, <1>10
  <2>2. Alive(q)
    BY <2>1 DEF Unreported, Alive
  <2>3. proc[q].row \in DOMAIN rows /\ proc[q].row # own
    BY <1>9, <2>1, <2>2 DEF RowsInv, OwnRow
  <2> QED
    BY <1>5, <2>1, <2>3 DEF RowsInv, ClosedOld, Stale
<1>16. OneScan'
  BY <1>1, <1>2, <1>10 DEF RowsInv, OneScan, Unreported
<1>17. OneLoad'
  <2>1. ASSUME job = "registry", NEW q \in Procs, proc'[q].at = "working"
        PROVE  proc'[q].row # 0
    BY <1>1, <1>2, <1>10, <2>1 DEF RowsInv, OneLoad, Unreported
  <2>2. ASSUME job = "registry", NEW q \in Procs, NEW r \in Procs, q # r,
               proc'[q].row # 0, proc'[r].row # 0,
               proc'[q].at \in Unreported, proc'[r].at \in Unreported
        PROVE  \/ rows'[proc'[q].row].at < clock - StaleAfter
               \/ rows'[proc'[r].row].at < clock - StaleAfter
    <3>1. proc'[q] = proc[q] /\ proc'[r] = proc[r]
      BY <1>1, <1>2, <1>10, <2>2
    <3>2. proc[q].row \in DOMAIN rows /\ proc[r].row \in DOMAIN rows
      BY <2>2, <3>1 DEF RowsInv, OwnRow, Alive, Unreported
    <3> QED
      <4>1. OneLoad
        BY DEF RowsInv
      <4>2. Stale(proc[q].row) \/ Stale(proc[r].row)
        BY <2>2, <3>1, <4>1 DEF OneLoad
      <4> QED
        BY <1>8, <3>1, <3>2, <4>2 DEF Stale
  <2> QED
    BY <2>1, <2>2 DEF OneLoad, Stale
<1> QED
  BY <1>7, <1>11, <1>12, <1>13, <1>16, <1>17 DEF RowsInv

\* A process writes a row when every open one is past the limit; the open ones may be closed.
LEMMA NewRowKeepsRows ==
    ASSUME JobsTypes, RowsInv, NEW p \in Procs, NEW at \in {"starting", "working"},
           MovesTo(p, at, Len(rows) + 1), proc[p].row = 0, ~is_running,
           at = "working" => job = "registry",
           rows' \in Seq(RowState), Len(rows') = Len(rows) + 1, rows'[Len(rows) + 1] = Row(p),
           \A i \in DOMAIN rows : /\ rows'[i].at = rows[i].at /\ rows'[i].proc = rows[i].proc
                                  /\ ~rows'[i].open => ~rows[i].open \/ Stale(i),
           UNCHANGED <<job, clock, page, dump>>
    PROVE  RowsInv'
<1> DEFINE new == Len(rows) + 1
<1>1. \A q \in Procs : q # p => proc'[q] = proc[q]
  BY DEF MovesTo
<1>2. proc'[p].at = at /\ proc'[p].row = new
  BY DEF MovesTo
<1>3. /\ Len(rows) \in Nat /\ DOMAIN rows = 1..Len(rows) /\ DOMAIN rows' = 1..new
      /\ \A i \in DOMAIN rows : rows[i] \in RowState
  BY RowsTyped
<1>4. /\ new \in DOMAIN rows' /\ new \notin DOMAIN rows /\ DOMAIN rows \subseteq DOMAIN rows'
      /\ \A i \in DOMAIN rows' : i \in DOMAIN rows \/ i = new
  BY <1>3
<1>5. rows'[new].open /\ rows'[new].proc = p
  <2>1. Row(p).open /\ Row(p).proc = p
    BY DEF Row
  <2> QED
    BY <2>1
<1>6. \A i \in DOMAIN rows : rows[i].open => Stale(i)
  BY DEF is_running
<1>7. \A q \in Procs : q # p /\ Alive(q) /\ proc[q].row # 0 => proc[q].row \in DOMAIN rows
  BY DEF RowsInv, OwnRow
<1>8. clock \in Nat /\ StaleAfter \in Nat
  BY JobLimits DEF JobsTypes
<1>10. \A i \in DOMAIN rows : Stale(i) => rows[i].at <= clock - StaleAfter
  <2>1. \A i \in DOMAIN rows : rows[i].at \in Nat
    BY <1>3 DEF RowState
  <2>2. clock - StaleAfter \in Int
    BY <1>8
  <2>3. \A m \in Nat, n \in Int : m < n => m <= n
    OBVIOUS
  <2> QED
    BY <2>1, <2>2, <2>3 DEF Stale
<1> HIDE DEF new
<1>11. OwnRow'
  <2> SUFFICES ASSUME NEW q \in Procs, Alive(q)', proc'[q].row # 0
               PROVE  proc'[q].row \in DOMAIN rows' /\ rows'[proc'[q].row].proc = q
    BY DEF OwnRow
  <2>1. CASE q = p
    BY <1>2, <1>4, <1>5, <2>1
  <2>2. CASE q # p
    <3>1. Alive(q) /\ proc[q].row # 0 /\ proc'[q].row = proc[q].row
      BY <1>1, <2>2 DEF Alive
    <3> QED
      BY <1>4, <3>1 DEF RowsInv, OwnRow
  <2> QED
    BY <2>1, <2>2
<1>12. PolledOld'
  BY <1>4 DEF RowsInv, PolledOld
<1>13. ClosedOld'
  <2> SUFFICES ASSUME NEW q \in Procs, proc'[q].at \in Unreported, proc'[q].row # 0,
                      ~rows'[proc'[q].row].open
               PROVE  /\ rows'[proc'[q].row].at <= clock - StaleAfter
                      /\ job = "registry" => rows'[proc'[q].row].at < clock - StaleAfter
    BY DEF ClosedOld, Stale
  <2>1. q # p /\ proc'[q] = proc[q]
    BY <1>1, <1>2, <1>5
  <2>2. Alive(q)
    BY <2>1 DEF Unreported, Alive
  <2>3. proc[q].row \in DOMAIN rows
    BY <1>7, <2>1, <2>2
  <2>4. ~rows[proc[q].row].open \/ Stale(proc[q].row)
    BY <2>1, <2>3
  <2>5. CASE Stale(proc[q].row)
    BY <1>10, <2>1, <2>3, <2>5 DEF Stale
  <2>6. CASE ~rows[proc[q].row].open
    BY <2>1, <2>3, <2>6 DEF RowsInv, ClosedOld, Stale
  <2> QED
    BY <2>4, <2>5, <2>6
<1>16. OneScan'
  BY <1>1, <1>2 DEF RowsInv, OneScan
<1>17. OneLoad'
  <2>1. ASSUME job = "registry", NEW q \in Procs, proc'[q].at = "working"
        PROVE  proc'[q].row # 0
    BY <1>1, <1>2, <1>3, <2>1 DEF RowsInv, OneLoad, new
  <2>2. ASSUME job = "registry", NEW q \in Procs, q # p, proc[q].row # 0,
               proc[q].at \in Unreported
        PROVE  rows'[proc[q].row].at < clock - StaleAfter
    <3>1. proc[q].row \in DOMAIN rows
      BY <1>7, <2>2 DEF Alive, Unreported
    <3>2. Stale(proc[q].row)
      BY <1>6, <2>2, <3>1 DEF RowsInv, ClosedOld
    <3> QED
      BY <3>1, <3>2 DEF Stale
  <2>3. ASSUME job = "registry", NEW q \in Procs, NEW r \in Procs, q # r,
               proc'[q].row # 0, proc'[r].row # 0,
               proc'[q].at \in Unreported, proc'[r].at \in Unreported
        PROVE  \/ rows'[proc'[q].row].at < clock - StaleAfter
               \/ rows'[proc'[r].row].at < clock - StaleAfter
    <3>1. CASE q # p
      BY <1>1, <2>2, <2>3, <3>1
    <3>2. CASE r # p
      BY <1>1, <2>2, <2>3, <3>2
    <3> QED
      BY <2>3, <3>1, <3>2
  <2> QED
    BY <2>1, <2>3 DEF OneLoad, Stale
<1> QED
  BY <1>11, <1>12, <1>13, <1>16, <1>17 DEF RowsInv

-----------------------------------------------------------------------------
(* What a step does to the records, and to the process.                    *)

\* A process moves and no record is touched.
LEMMA MoveKeepsRuns ==
    ASSUME RunsInv, NEW p \in Procs, NEW at, NEW row, MovesTo(p, at, row), at # "recorded",
           runs[p].state = "running" => at \in {"working", "worked", "broke", "closing", "dead"},
           UNCHANGED <<runs, clock>>
    PROVE  RunsInv'
<1> SUFFICES ASSUME NEW q \in Procs
             PROVE  /\ proc'[q].at = "recorded" =>
                          /\ ~runs[q].idle
                          /\ runs[q].state = "running" \/ runs[q].at < clock - Retention
                    /\ runs[q].state = "running" =>
                          /\ proc'[q].at \in {"recorded", "working", "worked", "broke",
                                              "closing", "dead"}
                          /\ ~runs[q].idle
  BY DEF RunsInv
<1>1. CASE q = p
  BY <1>1 DEF MovesTo, RunsInv
<1>2. CASE q # p
  BY <1>2 DEF MovesTo, RunsInv
<1> QED
  BY <1>1, <1>2

\* A process notes how its run ended; idle records of others may be deleted.
LEMMA FinishKeepsRuns ==
    ASSUME JobsTypes, RunsInv, NEW p \in Procs, NEW at \in {"ended", "dead"}, NEW row,
           MovesTo(p, at, row), UNCHANGED clock, runs' \in [Procs -> RunState],
           runs'[p].state # "running",
           \A q \in Procs : q # p => runs'[q] = runs[q] \/ (runs'[q] = NoRun /\ runs[q].idle)
    PROVE  RunsInv'
<1> SUFFICES ASSUME NEW q \in Procs
             PROVE  /\ proc'[q].at = "recorded" =>
                          /\ ~runs'[q].idle
                          /\ runs'[q].state = "running" \/ runs'[q].at < clock - Retention
                    /\ runs'[q].state = "running" =>
                          /\ proc'[q].at \in {"recorded", "working", "worked", "broke",
                                              "closing", "dead"}
                          /\ ~runs'[q].idle
  BY DEF RunsInv
<1>1. CASE q = p
  BY <1>1 DEF MovesTo
<1>2. CASE q # p
  <2>1. proc'[q] = proc[q]
    BY <1>2 DEF MovesTo
  <2>2. runs'[q] = runs[q] \/ (runs'[q] = NoRun /\ proc[q].at # "recorded")
    BY <1>2 DEF RunsInv
  <2> QED
    BY <2>1, <2>2 DEF RunsInv, NoRun
<1> QED
  BY <1>1, <1>2

LEMMA RunsTyped ==
    ASSUME JobsTypes
    PROVE  /\ NoRun \in RunState /\ \A q \in Procs : runs[q] \in RunState
           /\ pruned \in [Procs -> RunState]
<1>1. NoRun \in RunState
  BY DEF NoRun, RunState
<1> QED
  BY <1>1 DEF JobsTypes, pruned

LEMMA Goes2 ==
    ASSUME JobsTypes, NEW p \in Procs, NEW at \in Stages, Goes(p, at)
    PROVE  MovesTo(p, at, proc[p].row)
<1> DEFINE new == [proc[p] EXCEPT !.at = at]
<1>1. new \in ProcState /\ new.at = at /\ new.row = proc[p].row
  BY DEF JobsTypes, ProcState
<1>2. proc' = [proc EXCEPT ![p] = new]
  BY DEF Goes
<1> HIDE DEF new
<1> QED
  BY <1>1, <1>2 DEF JobsTypes, MovesTo

LEMMA StageSet ==
    ASSUME JobsTypes, NEW p \in Procs, NEW at \in Stages
    PROVE  LET new == [proc[p] EXCEPT !.at = at]
           IN  new \in ProcState /\ new.at = at /\ new.row = proc[p].row
<1>1. proc[p] \in ProcState
  BY DEF JobsTypes
<1> QED
  BY <1>1 DEF ProcState

LEMMA SetTo ==
    ASSUME JobsTypes, NEW p \in Procs, NEW new \in ProcState, proc' = [proc EXCEPT ![p] = new]
    PROVE  MovesTo(p, new.at, new.row)
  BY DEF JobsTypes, MovesTo

\* A run that ends keeps its row, and says how it ended.
LEMMA EndsMoves ==
    ASSUME JobsTypes, NEW p \in Procs, NEW at \in {"ended", "closing"},
           NEW error \in {"could not start", "busy", "finished", "error"}, Ends(p, at, error)
    PROVE  /\ MovesTo(p, at, proc[p].row) /\ proc'[p].end = error
           /\ proc'[p].fails = (error = "error" \/ proc[p].fails)
           /\ proc'[p].polled = (page # 0 /\ page = proc[p].row)
<1> DEFINE one == [proc[p] EXCEPT !.at = at]
           two == [one EXCEPT !.end = error]
           three == [two EXCEPT !.fails = (error = "error" \/ proc[p].fails)]
           four == [three EXCEPT !.skip = (error = "busy")]
           held == page # 0 /\ page = proc[p].row
           new == [four EXCEPT !.polled = held]
<1>1. /\ one \in ProcState /\ one.at = at /\ one.row = proc[p].row
      /\ one.fails = proc[p].fails /\ one.fails \in BOOLEAN
  BY DEF JobsTypes, ProcState, Stages
<1>2. proc' = [proc EXCEPT ![p] = new]
  BY DEF Ends
<1> HIDE DEF one
<1>3. two \in ProcState /\ two.at = at /\ two.row = proc[p].row /\ two.end = error
  BY <1>1 DEF ProcState, Endings
<1> HIDE DEF two
<1>4. (error = "error" \/ proc[p].fails) \in BOOLEAN
  BY <1>1
<1>5. /\ three \in ProcState /\ three.at = at /\ three.row = proc[p].row /\ three.end = error
      /\ three.fails = (error = "error" \/ proc[p].fails)
  BY <1>3, <1>4 DEF ProcState
<1> HIDE DEF three
<1>6. /\ four \in ProcState /\ four.at = at /\ four.row = proc[p].row /\ four.end = error
      /\ four.fails = (error = "error" \/ proc[p].fails)
  BY <1>5 DEF ProcState
<1> HIDE DEF four
<1>7. held \in BOOLEAN
  OBVIOUS
<1> HIDE DEF held
<1>8. /\ new \in ProcState /\ new.at = at /\ new.row = proc[p].row /\ new.end = error
      /\ new.fails = (error = "error" \/ proc[p].fails) /\ new.polled = held
  BY <1>6, <1>7 DEF ProcState
<1> HIDE DEF new
<1>9. MovesTo(p, at, proc[p].row) /\ proc'[p] = new
  BY <1>2, <1>8, SetTo DEF JobsTypes
<1> QED
  BY <1>8, <1>9 DEF held

-----------------------------------------------------------------------------
(* The steps.                                                              *)

\* A process nobody has started has no row.
LEMMA UnusedIsNew ==
    ASSUME JobsTypes, NEW p \in Procs, Unused(p)
    PROVE  proc[p].at = "none" /\ proc[p].row = 0
<1>1. NoProc.at = "none" /\ NoProc.row = 0
  BY DEF NoProc
<1> QED
  BY <1>1 DEF Unused

\* The open rows closed and the new one written.
LEMMA StartRows ==
    ASSUME JobsTypes, NEW p \in Procs, start(p)
    PROVE  /\ MovesTo(p, "starting", Len(rows) + 1) /\ proc'[p].end = ""
           /\ rows' \in Seq(RowState) /\ Len(rows') = Len(rows) + 1
           /\ rows'[Len(rows) + 1] = Row(p)
           /\ \A i \in DOMAIN rows : /\ rows'[i].at = rows[i].at /\ rows'[i].proc = rows[i].proc
                                     /\ ~rows'[i].open => ~rows[i].open \/ Stale(i)
                                     /\ rows'[i].open => rows[i].open
                                     /\ rows'[i].told = rows[i].told \/ rows[i].open
                                     /\ \/ rows'[i].told = rows[i].told
                                        \/ rows'[i].told = "did not finish" /\ Stale(i)
<1> DEFINE closed == [i \in DOMAIN rows |-> IF rows[i].open
                                           THEN close_scan(rows[i], "did not finish") ELSE rows[i]]
           one == [NoProc EXCEPT !.at = "starting"]
           new == [one EXCEPT !.row = Len(rows) + 1]
<1>1. ~is_running
  BY DEF start
<1>2. /\ Len(rows) \in Nat /\ DOMAIN rows = 1..Len(rows)
      /\ \A i \in DOMAIN rows : rows[i] \in RowState
  BY RowsTyped
<1>3. \A i \in DOMAIN rows : /\ close_scan(rows[i], "did not finish") \in RowState
                             /\ close_scan(rows[i], "did not finish").at = rows[i].at
                             /\ close_scan(rows[i], "did not finish").proc = rows[i].proc
                             /\ close_scan(rows[i], "did not finish").told = "did not finish"
                             /\ ~close_scan(rows[i], "did not finish").open
  BY <1>2 DEF close_scan, RowState
<1>4. closed \in Seq(RowState) /\ Len(closed) = Len(rows)
  <2>1. \A i \in 1..Len(rows) : closed[i] \in RowState
    BY <1>2, <1>3
  <2>2. DOMAIN closed = 1..Len(rows)
    BY <1>2
  <2>3. closed = [i \in 1..Len(rows) |-> closed[i]]
    BY <1>2
  <2> HIDE DEF closed
  <2>4. closed \in [1..Len(rows) -> RowState]
    BY <2>1, <2>3
  <2> QED
    BY <1>2, <2>4, SeqDef, LenProperties
<1>5. Row(p) \in RowState
  BY DEF Row, RowState, JobsTypes, Endings
<1>6. rows' = Append(closed, Row(p))
  BY DEF start
<1>7. \A i \in DOMAIN rows : /\ closed[i].at = rows[i].at /\ closed[i].proc = rows[i].proc
                             /\ ~closed[i].open => ~rows[i].open \/ Stale(i)
                             /\ closed[i].open => rows[i].open
                             /\ closed[i].told = rows[i].told \/ rows[i].open
                             /\ \/ closed[i].told = rows[i].told
                                \/ closed[i].told = "did not finish" /\ Stale(i)
  <2> SUFFICES ASSUME NEW i \in DOMAIN rows
               PROVE  /\ closed[i].at = rows[i].at /\ closed[i].proc = rows[i].proc
                      /\ ~closed[i].open => ~rows[i].open \/ Stale(i)
                      /\ closed[i].open => rows[i].open
                      /\ closed[i].told = rows[i].told \/ rows[i].open
                      /\ \/ closed[i].told = rows[i].told
                         \/ closed[i].told = "did not finish" /\ Stale(i)
    OBVIOUS
  <2>1. CASE rows[i].open
    <3>1. Stale(i)
      BY <1>1, <2>1 DEF is_running
    <3>2. closed[i] = close_scan(rows[i], "did not finish")
      BY <2>1
    <3> HIDE DEF closed
    <3> QED
      BY <1>3, <2>1, <3>1, <3>2
  <2>2. CASE ~rows[i].open
    BY <2>2
  <2> QED
    BY <2>1, <2>2
<1> HIDE DEF closed
<1>8. /\ rows' \in Seq(RowState) /\ Len(rows') = Len(rows) + 1
      /\ \A i \in DOMAIN rows : rows'[i] = closed[i]
      /\ rows'[Len(rows) + 1] = Row(p)
  BY <1>2, <1>4, <1>5, <1>6, AppendProperties
<1>9. one \in ProcState /\ one.at = "starting" /\ one.end = ""
  BY DEF NoProc, ProcState, Stages, Endings
<1>10. proc' = [proc EXCEPT ![p] = new]
  BY DEF start
<1> HIDE DEF one
<1>11. new \in ProcState /\ new.at = "starting" /\ new.row = Len(rows) + 1 /\ new.end = ""
  <2>1. Len(rows) + 1 \in Nat
    BY <1>2
  <2> QED
    BY <1>9, <2>1 DEF ProcState
<1> HIDE DEF new
<1>12. MovesTo(p, "starting", Len(rows) + 1) /\ proc'[p] = new
  BY <1>10, <1>11, SetTo DEF JobsTypes
<1>13. \A i \in DOMAIN rows : /\ rows'[i].at = rows[i].at /\ rows'[i].proc = rows[i].proc
                              /\ ~rows'[i].open => ~rows[i].open \/ Stale(i)
                              /\ rows'[i].told = rows[i].told \/ rows[i].open
                              /\ rows'[i].open => rows[i].open
                              /\ \/ rows'[i].told = rows[i].told
                                 \/ rows'[i].told = "did not finish" /\ Stale(i)
  BY <1>7, <1>8
<1> QED
  BY <1>8, <1>11, <1>12, <1>13

LEMMA StartKeeps ==
    ASSUME JobsInv, NEW p \in Procs, start(p),
           UNCHANGED <<job, clock, runs, page, register, dump>>
    PROVE  JobsInv'
<1>0. JobsTypes /\ RowsInv /\ RunsInv
  BY DEF JobsInv
<1>1. proc[p].at = "none" /\ proc[p].row = 0 /\ ~is_running
  BY <1>0, UnusedIsNew DEF start
<1>2. /\ MovesTo(p, "starting", Len(rows) + 1)
      /\ rows' \in Seq(RowState) /\ Len(rows') = Len(rows) + 1 /\ rows'[Len(rows) + 1] = Row(p)
      /\ \A i \in DOMAIN rows : /\ rows'[i].at = rows[i].at /\ rows'[i].proc = rows[i].proc
                                /\ ~rows'[i].open => ~rows[i].open \/ Stale(i)
  BY <1>0, StartRows
<1>3. RowsInv'
  <2>1. "starting" # "working"
    OBVIOUS
  <2> QED
    BY <1>0, <1>1, <1>2, <2>1, NewRowKeepsRows
<1>4. runs[p].state # "running"
  BY <1>0, <1>1 DEF RunsInv
<1>5. RunsInv'
  BY <1>0, <1>2, <1>4, MoveKeepsRuns
<1>6. JobsTypes'
  BY <1>0, <1>2 DEF JobsTypes, MovesTo
<1> QED
  BY <1>3, <1>5, <1>6 DEF JobsInv

\* A process goes on and nothing else changes.
LEMMA MoveKeeps ==
    ASSUME JobsInv, NEW p \in Procs, NEW at, MovesTo(p, at, proc[p].row),
           UNCHANGED <<job, clock, rows, runs, page, dump>>,
           Alive(p) \/ proc[p].row = 0,
           at \in Unreported => proc[p].at \in Unreported \/ proc[p].row = 0,
           at = "working" => /\ job = "renewals" => scan_lock(p)
                             /\ job = "registry" => proc[p].row # 0,
           at # "recorded",
           runs[p].state = "running" => at \in {"working", "worked", "broke", "closing", "dead"}
    PROVE  JobsInv'
<1>1. RowsInv'
  BY MoveKeepsRows DEF JobsInv
<1>2. RunsInv'
  BY MoveKeepsRuns DEF JobsInv
<1>3. JobsTypes'
  BY DEF JobsInv, JobsTypes, MovesTo
<1> QED
  BY <1>1, <1>2, <1>3 DEF JobsInv

\* A process reports, and closes its row if it has one.
LEMMA ReportKeeps ==
    ASSUME JobsInv, NEW p \in Procs, NEW at \in Reported,
           NEW error \in {"could not start", "busy", "finished", "error"},
           MovesTo(p, at, proc[p].row), Alive(p),
           rows' = IF proc[p].row = 0 THEN rows
                   ELSE [rows EXCEPT ![proc[p].row] = close_scan(@, error)],
           UNCHANGED <<job, clock, runs, page, dump>>,
           at = "closing" \/ runs[p].state # "running"
    PROVE  JobsInv'
<1>1. at # "recorded" /\ at \notin Unreported /\ at # "working"
  BY DEF Reported, Unreported
<1>2. CASE proc[p].row = 0
  BY <1>1, <1>2, MoveKeeps
<1>3. CASE proc[p].row # 0
  <2>1. RowsInv' /\ rows' \in Seq(RowState)
    BY <1>3, ReportKeepsRows DEF JobsInv
  <2>2. RunsInv'
    BY <1>1, MoveKeepsRuns DEF JobsInv
  <2>3. JobsTypes'
    BY <2>1 DEF JobsInv, JobsTypes, MovesTo
  <2> QED
    BY <2>1, <2>2, <2>3 DEF JobsInv
<1> QED
  BY <1>2, <1>3

\* A row or a process for the next stages: what the stage names are not.
LEMMA StagesApart ==
    /\ \A at \in {"starting", "launched", "recorded", "unrecorded", "working", "worked"} :
          at \in Unreported /\ at \notin Reported /\ at \notin {"none", "dead", "ended"}
    /\ \A at \in {"broke", "none"} : at \notin Unreported /\ at \notin Reported
    /\ \A at \in {"closing", "ended", "dead"} : at \in Reported /\ at \notin Unreported
  BY DEF Unreported, Reported

LEMMA LaunchKeeps ==
    ASSUME JobsInv, NEW p \in Procs, proc[p].at = "starting",
           (Goes(p, "launched") /\ UNCHANGED rows) \/ CouldNotStart(p),
           UNCHANGED <<job, clock, runs, page, register, dump>>
    PROVE  JobsInv'
<1>1. Alive(p) /\ runs[p].state # "running"
  BY DEF Alive, JobsInv, RunsInv
<1>2. JobsTypes
  BY DEF JobsInv
<1>3. CASE Goes(p, "launched") /\ UNCHANGED rows
  <2>1. MovesTo(p, "launched", proc[p].row)
    BY <1>2, <1>3, Goes2 DEF Stages
  <2> QED
    BY <1>1, <1>3, <2>1, StagesApart, MoveKeeps
<1>4. CASE CouldNotStart(p)
  BY <1>1, <1>2, <1>4, EndsMoves, StagesApart, ReportKeeps DEF CouldNotStart, Ends
<1> QED
  BY <1>3, <1>4

LEMMA TimerKeeps ==
    ASSUME JobsInv, NEW p \in Procs, StartFromTimer(p)
    PROVE  JobsInv'
<1>1. JobsTypes /\ proc[p].at = "none" /\ proc[p].row = 0
  BY UnusedIsNew DEF JobsInv, StartFromTimer
<1>2. MovesTo(p, "launched", proc[p].row)
  BY <1>1, Goes2 DEF Stages, StartFromTimer
<1>3. runs[p].state # "running"
  BY <1>1 DEF JobsInv, RunsInv
<1> QED
  BY <1>1, <1>2, <1>3, StagesApart, MoveKeeps DEF StartFromTimer

\* The record of a run that begins says running; old ones are pruned.
LEMMA RecordKeeps ==
    ASSUME JobsInv, NEW p \in Procs, start_run(p)
    PROVE  JobsInv'
<1>0. JobsTypes /\ RowsInv /\ RunsInv /\ proc[p].at = "launched"
  BY DEF JobsInv, start_run
<1>1. Alive(p) /\ runs[p].state # "running"
  BY <1>0 DEF Alive, RunsInv
<1>2. CASE runs' = runs /\ Goes(p, "unrecorded")
  <2>1. MovesTo(p, "unrecorded", proc[p].row)
    BY <1>0, <1>2, Goes2 DEF Stages
  <2> QED
    BY <1>0, <1>1, <1>2, <2>1, StagesApart, MoveKeeps DEF start_run
<1>3. ASSUME runs' = [pruned EXCEPT ![p] = [state |-> "running", at |-> clock, idle |-> FALSE]],
             Goes(p, "recorded")
      PROVE  JobsInv'
  <2> DEFINE begun == [state |-> "running", at |-> clock, idle |-> FALSE]
  <2>1. MovesTo(p, "recorded", proc[p].row)
    BY <1>0, <1>3, Goes2 DEF Stages
  <2>2. RowsInv'
    BY <1>0, <1>1, <2>1, StagesApart, MoveKeepsRows DEF start_run
  <2>3. begun \in RunState
    BY <1>0 DEF JobsTypes, RunState
  <2>4. pruned \in [Procs -> RunState] /\ \A q \in Procs : runs[q].at \in Nat
    BY <1>0, RunsTyped DEF RunState
  <2>5. runs' \in [Procs -> RunState] /\ runs'[p] = begun
        /\ \A q \in Procs : q # p => runs'[q] = pruned[q]
    BY <1>3, <2>3, <2>4
  <2>6. JobsTypes'
    BY <1>0, <2>1, <2>5 DEF JobsTypes, MovesTo, start_run
  <2>7. RunsInv'
    <3> SUFFICES ASSUME NEW q \in Procs
                 PROVE  /\ proc'[q].at = "recorded" =>
                              /\ ~runs'[q].idle
                              /\ runs'[q].state = "running" \/ runs'[q].at < clock - Retention
                        /\ runs'[q].state = "running" =>
                              /\ proc'[q].at \in {"recorded", "working", "worked", "broke",
                                                  "closing", "dead"}
                              /\ ~runs'[q].idle
      BY DEF RunsInv, start_run
    <3>1. CASE q = p
      BY <2>1, <2>5, <3>1 DEF MovesTo
    <3>2. CASE q # p /\ runs[q].at < clock - Retention
      <4>1. runs'[q] = NoRun
        BY <2>5, <3>2 DEF pruned
      <4>2. 0 < clock - Retention
        <5>1. clock - Retention \in Int
          BY <1>0, JobLimits DEF JobsTypes
        <5>2. \A m \in Nat, n \in Int : m < n => 0 < n
          OBVIOUS
        <5> QED
          BY <2>4, <3>2, <5>1, <5>2
      <4> QED
        BY <4>1, <4>2 DEF NoRun
    <3>3. CASE q # p /\ ~(runs[q].at < clock - Retention)
      <4>1. runs'[q] = runs[q] /\ proc'[q] = proc[q]
        BY <2>1, <2>5, <3>3 DEF pruned, MovesTo
      <4> QED
        BY <1>0, <4>1 DEF RunsInv
    <3> QED
      BY <3>1, <3>2, <3>3
  <2> QED
    BY <2>2, <2>6, <2>7 DEF JobsInv
<1> QED
  BY <1>2, <1>3 DEF start_run

\* A load that the timer started writes its row, unless another one runs.
LEMMA ClaimKeeps ==
    ASSUME JobsInv, NEW p \in Procs, proc[p].at \in {"recorded", "unrecorded"},
           job = "registry", proc[p].row = 0, claim_unattended_run(p),
           UNCHANGED <<job, clock, runs, page, register, dump>>
    PROVE  JobsInv'
<1>0. JobsTypes /\ RowsInv /\ RunsInv /\ Alive(p) /\ proc[p].at \notin Reported
  BY StagesApart DEF JobsInv, Alive
<1>1. CASE is_running
  <2> DEFINE one == [proc[p] EXCEPT !.at = "closing"]
             new == [one EXCEPT !.fails = TRUE]
  <2>1. one \in ProcState /\ one.at = "closing" /\ one.row = proc[p].row
    BY <1>0, StageSet DEF Stages
  <2>2. proc' = [proc EXCEPT ![p] = new] /\ UNCHANGED rows
    BY <1>1 DEF claim_unattended_run
  <2> HIDE DEF one
  <2>3. new \in ProcState /\ new.at = "closing" /\ new.row = proc[p].row
    BY <2>1 DEF ProcState
  <2> HIDE DEF new
  <2>4. MovesTo(p, "closing", proc[p].row)
    BY <1>0, <2>2, <2>3, SetTo
  <2> QED
    BY <1>0, <2>2, <2>4, StagesApart, MoveKeeps
<1>2. CASE ~is_running
  <2> DEFINE one == [proc[p] EXCEPT !.at = "working"]
             two == [one EXCEPT !.row = Len(rows) + 1]
             new == [two EXCEPT !.file = clock]
  <2>1. one \in ProcState /\ one.at = "working"
    BY <1>0, StageSet DEF Stages
  <2>2. /\ proc' = [proc EXCEPT ![p] = new]
        /\ rows' = Append(rows, Row(p))
    BY <1>2 DEF claim_unattended_run
  <2>3. /\ Len(rows) \in Nat /\ DOMAIN rows = 1..Len(rows) /\ rows \in Seq(RowState)
        /\ clock \in Nat
    BY <1>0, RowsTyped DEF JobsTypes
  <2> HIDE DEF one
  <2>4. two \in ProcState /\ two.at = "working" /\ two.row = Len(rows) + 1
    BY <2>1, <2>3 DEF ProcState
  <2> HIDE DEF two
  <2>5. new \in ProcState /\ new.at = "working" /\ new.row = Len(rows) + 1
    BY <2>3, <2>4 DEF ProcState
  <2> HIDE DEF new
  <2>6. MovesTo(p, "working", Len(rows) + 1)
    BY <1>0, <2>2, <2>5, SetTo
  <2>7. Row(p) \in RowState
    BY <1>0 DEF Row, RowState, JobsTypes, Endings
  <2>8. /\ rows' \in Seq(RowState) /\ Len(rows') = Len(rows) + 1
        /\ \A i \in DOMAIN rows : rows'[i] = rows[i]
        /\ rows'[Len(rows) + 1] = Row(p)
    BY <2>2, <2>3, <2>7, AppendProperties
  <2>9. RowsInv'
    BY <1>0, <1>2, <2>6, <2>8, NewRowKeepsRows
  <2>10. RunsInv'
    BY <1>0, <2>6, MoveKeepsRuns
  <2>11. JobsTypes'
    BY <1>0, <2>6, <2>8 DEF JobsTypes, MovesTo
  <2> QED
    BY <2>9, <2>10, <2>11 DEF JobsInv
<1> QED
  BY <1>1, <1>2

LEMMA HandleKeeps ==
    ASSUME JobsInv, NEW p \in Procs, Handle(p)
    PROVE  JobsInv'
<1>0. /\ JobsTypes /\ Alive(p) /\ proc[p].at \in {"recorded", "unrecorded"}
      /\ UNCHANGED <<job, clock, runs, page, register, dump>>
  BY DEF JobsInv, Alive, Handle
<1>1. ASSUME Goes(p, "working"), UNCHANGED rows, job = "renewals" => scan_lock(p),
             job # "registry"
      PROVE  JobsInv'
  <2>1. MovesTo(p, "working", proc[p].row)
    BY <1>0, <1>1, Goes2 DEF Stages
  <2> QED
    BY <1>0, <1>1, <2>1, StagesApart, MoveKeeps
<1>2. CASE RunAutoRenewals(p)
  <2>1. CASE scan_lock(p)
    BY <1>1, <1>2, <2>1 DEF RunAutoRenewals
  <2>2. CASE ~scan_lock(p)
    <3>1. Ends(p, "closing", "busy")
      BY <1>2, <2>2 DEF RunAutoRenewals
    <3> QED
      BY <1>0, <3>1, EndsMoves, StagesApart, ReportKeeps DEF Ends
  <2> QED
    BY <2>1, <2>2
<1>3. CASE ImportRegistry(p)
  <2>1. CASE proc[p].row = 0
    BY <1>0, <1>3, <2>1, ClaimKeeps DEF ImportRegistry
  <2>2. CASE proc[p].row # 0
    <3> DEFINE one == [proc[p] EXCEPT !.at = "working"]
               new == [one EXCEPT !.file = clock]
    <3>1. one \in ProcState /\ one.at = "working" /\ one.row = proc[p].row
      BY <1>0 DEF JobsTypes, ProcState, Stages
    <3>2. job = "registry" /\ proc' = [proc EXCEPT ![p] = new] /\ UNCHANGED rows
      BY <1>3, <2>2 DEF ImportRegistry
    <3> HIDE DEF one
    <3>3. new \in ProcState /\ new.at = "working" /\ new.row = proc[p].row
      BY <1>0, <3>1 DEF ProcState, JobsTypes
    <3> HIDE DEF new
    <3>4. MovesTo(p, "working", proc[p].row)
      BY <1>0, <3>2, <3>3, SetTo
    <3> QED
      BY <1>0, <2>2, <3>2, <3>4, StagesApart, MoveKeeps
  <2> QED
    BY <2>1, <2>2
<1>4. CASE job = "bulk-email" /\ Goes(p, "working") /\ UNCHANGED rows
  BY <1>1, <1>4
<1> QED
  BY <1>2, <1>3, <1>4 DEF Handle

LEMMA WorkKeeps ==
    ASSUME JobsInv, NEW p \in Procs, Work(p)
    PROVE  JobsInv'
<1>0. /\ JobsTypes /\ Alive(p) /\ proc[p].at = "working"
      /\ UNCHANGED <<job, clock, rows, runs, page, dump>>
  BY DEF JobsInv, Alive, Work
<1>1. ASSUME NEW at \in {"broke", "worked", "closing"}, MovesTo(p, at, proc[p].row)
      PROVE  JobsInv'
  BY <1>0, <1>1, StagesApart, MoveKeeps
<1>2. CASE Goes(p, "broke")
  BY <1>0, <1>1, <1>2, Goes2 DEF Stages
<1>3. CASE Goes(p, "worked")
  BY <1>0, <1>1, <1>3, Goes2 DEF Stages
<1>4. ASSUME NEW problems \in BOOLEAN,
             proc' = [proc EXCEPT ![p].at = "worked", ![p].fails = problems]
      PROVE  JobsInv'
  <2> DEFINE one == [proc[p] EXCEPT !.at = "worked"]
             new == [one EXCEPT !.fails = problems]
  <2>1. one \in ProcState /\ one.at = "worked" /\ one.row = proc[p].row
    BY <1>0 DEF JobsTypes, ProcState, Stages
  <2>2. proc' = [proc EXCEPT ![p] = new]
    BY <1>4
  <2> HIDE DEF one
  <2>3. new \in ProcState /\ new.at = "worked" /\ new.row = proc[p].row
    BY <2>1 DEF ProcState
  <2> HIDE DEF new
  <2> QED
    BY <1>0, <1>1, <2>2, <2>3, SetTo
<1>5. ASSUME NEW idle \in BOOLEAN,
             proc' = [proc EXCEPT ![p].at = "closing", ![p].idle = idle]
      PROVE  JobsInv'
  <2> DEFINE one == [proc[p] EXCEPT !.at = "closing"]
             new == [one EXCEPT !.idle = idle]
  <2>1. one \in ProcState /\ one.at = "closing" /\ one.row = proc[p].row
    BY <1>0 DEF JobsTypes, ProcState, Stages
  <2>2. proc' = [proc EXCEPT ![p] = new]
    BY <1>5
  <2> HIDE DEF one
  <2>3. new \in ProcState /\ new.at = "closing" /\ new.row = proc[p].row
    BY <2>1 DEF ProcState
  <2> HIDE DEF new
  <2> QED
    BY <1>0, <1>1, <2>2, <2>3, SetTo
<1> QED
  BY <1>2, <1>3, <1>4, <1>5 DEF Work

\* The command closes its row as it ends.
LEMMA ClosesKeep ==
    ASSUME JobsInv, NEW p \in Procs, finish_scan(p) \/ StoppedWithAnError(p)
    PROVE  JobsInv'
<1>1. JobsTypes /\ Alive(p) /\ UNCHANGED <<job, clock, runs, page, dump>>
  BY DEF JobsInv, finish_scan, StoppedWithAnError, Alive
<1>2. PICK error \in {"finished", "error"} : Ends(p, "closing", error)
  BY DEF finish_scan, StoppedWithAnError
<1> QED
  BY <1>1, <1>2, EndsMoves, StagesApart, ReportKeeps DEF Ends

\* What a run notes as it ends touches its own record and idle ones.
LEMMA FinishRuns ==
    ASSUME JobsTypes, NEW p \in Procs, NEW status \in {"succeeded", "failed"},
           NEW idle \in BOOLEAN, runs' = finish(p, status, idle)
    PROVE  /\ runs' \in [Procs -> RunState] /\ runs'[p].state = status
           /\ \A q \in Procs : q # p => runs'[q] = runs[q] \/ (runs'[q] = NoRun /\ runs[q].idle)
<1> DEFINE since == IF runs[p].at = 0 THEN clock ELSE runs[p].at
           own == [state |-> status, at |-> since, idle |-> idle]
           saved == [runs EXCEPT ![p] = own]
<1>1. runs' = [q \in Procs |-> IF idle /\ q \in OthersIdle(p) THEN NoRun ELSE saved[q]]
  BY DEF finish, JobsTypes
<1>2. since \in Nat
  BY DEF JobsTypes, RunState
<1> HIDE DEF since
<1>3. own \in RunState /\ own.state = status
  BY <1>2 DEF RunState
<1> HIDE DEF own
<1>4. /\ saved \in [Procs -> RunState] /\ saved[p] = own
      /\ \A q \in Procs : q # p => saved[q] = runs[q]
  BY <1>3 DEF JobsTypes
<1> HIDE DEF saved
<1>5. NoRun \in RunState /\ p \notin OthersIdle(p)
      /\ \A q \in OthersIdle(p) : runs[q].idle
  BY RunsTyped DEF OthersIdle
<1> QED
  BY <1>1, <1>3, <1>4, <1>5

LEMMA EndKeeps ==
    ASSUME JobsInv, NEW p \in Procs, run_recorded(p) \/ Terminated(p) \/ Killed(p)
    PROVE  JobsInv'
<1>0. /\ JobsTypes /\ RowsInv /\ RunsInv /\ Alive(p) /\ proc[p] \in ProcState
      /\ UNCHANGED <<job, clock, rows, page, dump>>
  BY DEF JobsInv, JobsTypes, Alive, run_recorded, Terminated, Killed
<1>1. \A at \in {"ended", "dead"} : Goes(p, at) => MovesTo(p, at, proc[p].row)
  BY <1>0, Goes2 DEF Stages
<1>2. ASSUME NEW at \in {"ended", "dead"}, Goes(p, at), runs' = runs,
             at = "dead" \/ runs[p].state # "running"
      PROVE  JobsInv'
  BY <1>0, <1>1, <1>2, StagesApart, MoveKeeps
<1>3. ASSUME NEW at \in {"ended", "dead"}, Goes(p, at),
             runs' \in [Procs -> RunState], runs'[p].state # "running",
             \A q \in Procs : q # p => runs'[q] = runs[q] \/ (runs'[q] = NoRun /\ runs[q].idle)
      PROVE  JobsInv'
  <2>1. MovesTo(p, at, proc[p].row)
    BY <1>1, <1>3
  <2>2. RowsInv'
    BY <1>0, <2>1, StagesApart, MoveKeepsRows
  <2>3. RunsInv'
    BY <1>0, <1>3, <2>1, FinishKeepsRuns
  <2>4. JobsTypes'
    BY <1>0, <1>3, <2>1 DEF JobsTypes, MovesTo
  <2> QED
    BY <2>2, <2>3, <2>4 DEF JobsInv
<1>4. ASSUME NEW at \in {"ended", "dead"}, Goes(p, at),
             NEW status \in {"succeeded", "failed"}, NEW idle \in BOOLEAN,
             runs' = finish(p, status, idle)
      PROVE  JobsInv'
  <2>1. runs'[p].state = status /\ status # "running"
    BY <1>0, <1>4, FinishRuns
  <2> QED
    BY <1>0, <1>3, <1>4, <2>1, FinishRuns
<1>5. CASE run_recorded(p)
  <2>1. CASE Recorded(p) /\ Goes(p, "dead") /\ UNCHANGED runs
    BY <1>2, <2>1
  <2>2. CASE ~Recorded(p) /\ Goes(p, "ended") /\ UNCHANGED runs
    BY <1>2, <2>2 DEF Recorded
  <2>3. CASE Goes(p, "ended") /\ runs' = [runs EXCEPT ![p] = NoRun]
    <3>1. NoRun \in RunState /\ NoRun.state # "running"
      BY <1>0, RunsTyped DEF NoRun
    <3>2. runs \in [Procs -> RunState]
      BY <1>0 DEF JobsTypes
    <3>3. /\ runs' \in [Procs -> RunState] /\ runs'[p].state # "running"
          /\ \A q \in Procs : q # p => runs'[q] = runs[q]
      BY <2>3, <3>1, <3>2
    <3> QED
      BY <1>3, <2>3, <3>3
  <2>4. CASE /\ Goes(p, "ended")
             /\ runs' = finish(p, IF proc[p].fails THEN "failed" ELSE "succeeded",
                               proc[p].idle /\ ~proc[p].fails)
    <3>1. PICK status \in {"succeeded", "failed"}, idle \in BOOLEAN :
             runs' = finish(p, status, idle)
      BY <2>4
    <3> QED
      BY <1>4, <2>4, <3>1
  <2> QED
    BY <1>5, <2>1, <2>2, <2>3, <2>4 DEF run_recorded
<1>6. CASE Terminated(p)
  BY <1>4, <1>6 DEF Terminated
<1>7. CASE Killed(p)
  BY <1>2, <1>7 DEF Killed
<1> QED
  BY <1>5, <1>6, <1>7

-----------------------------------------------------------------------------
(* The page, the backups and the clock.                                    *)

LEMMA PagesKeep ==
    ASSUME JobsInv, (\E i \in DOMAIN rows : PollReads(i)) \/ close_if_stale
    PROVE  JobsInv'
<1>0. JobsTypes /\ RowsInv /\ RunsInv /\ UNCHANGED <<job, clock, runs, proc, dump>>
  BY DEF JobsInv, PollReads, close_if_stale
<1>1. /\ Len(rows) \in Nat /\ DOMAIN rows = 1..Len(rows)
      /\ \A i \in DOMAIN rows : rows[i] \in RowState
  BY <1>0, RowsTyped
<1>2. RunsInv'
  BY <1>0 DEF RunsInv
<1>3. ASSUME NEW i \in DOMAIN rows, PollReads(i)
      PROVE  JobsInv'
  <2>1. UNCHANGED rows /\ page' = i /\ job = "renewals" /\ rows[i].at <= clock - StaleAfter
    BY <1>3 DEF PollReads
  <2>2. PolledOld'
    BY <1>0, <1>3, <2>1 DEF PolledOld
  <2>3. RowsInv'
    BY <1>0, <2>1, <2>2
    DEF RowsInv, OwnRow, ClosedOld, OneScan, OneLoad, Alive, Stale
  <2>4. JobsTypes'
    BY <1>0, <1>1, <2>1 DEF JobsTypes
  <2> QED
    BY <1>2, <2>3, <2>4 DEF JobsInv
<1>4. CASE close_if_stale
  <2> DEFINE row == close_scan(rows[page], "did not finish")
  <2>1. /\ page # 0 /\ page' = 0 /\ rows' = [rows EXCEPT ![page] = row]
        /\ page \in DOMAIN rows /\ job = "renewals"
        /\ rows[page].at <= clock - StaleAfter
    BY <1>0, <1>4 DEF close_if_stale, RowsInv, PolledOld
  <2>2. /\ row \in RowState /\ row.at = rows[page].at /\ row.proc = rows[page].proc
    BY <1>1, <2>1 DEF close_scan, RowState
  <2> HIDE DEF row
  <2>3. rows' \in Seq(RowState)
    BY <1>0, <2>1, <2>2, RowWritten
  <2>4. /\ DOMAIN rows' = DOMAIN rows
        /\ \A i \in DOMAIN rows : /\ rows'[i].at = rows[i].at /\ rows'[i].proc = rows[i].proc
                                  /\ i # page => rows'[i] = rows[i]
    BY <2>1, <2>2
  <2>5. OwnRow'
    BY <1>0, <2>4 DEF RowsInv, OwnRow, Alive
  <2>6. PolledOld'
    BY <2>1 DEF PolledOld
  <2>7. ClosedOld'
    <3> SUFFICES ASSUME NEW q \in Procs, proc[q].at \in Unreported, proc[q].row # 0,
                        ~rows'[proc[q].row].open
                 PROVE  rows'[proc[q].row].at <= clock - StaleAfter
      BY <1>0, <2>1 DEF ClosedOld
    <3>1. proc[q].row \in DOMAIN rows
      BY <1>0 DEF RowsInv, OwnRow, Alive, Unreported
    <3>2. CASE proc[q].row = page
      BY <2>1, <2>4, <3>2
    <3>3. CASE proc[q].row # page
      BY <1>0, <2>4, <3>1, <3>3 DEF RowsInv, ClosedOld
    <3> QED
      BY <3>2, <3>3
  <2>9. OneScan'
    BY <1>0 DEF RowsInv, OneScan
  <2>10. OneLoad'
    BY <1>0, <2>1 DEF OneLoad
  <2>11. JobsTypes'
    BY <1>0, <2>1, <2>3 DEF JobsTypes
  <2> QED
    BY <1>2, <2>5, <2>6, <2>7, <2>9, <2>10, <2>11 DEF JobsInv, RowsInv
<1> QED
  BY <1>3, <1>4

LEMMA BackupsKeep ==
    ASSUME JobsInv, create_backup \/ restore_backup
    PROVE  JobsInv'
<1>0. JobsTypes /\ RowsInv /\ RunsInv
  BY DEF JobsInv
<1>1. CASE create_backup
  <2> DEFINE now == [rows |-> rows, runs |-> runs]
  <2>1. UNCHANGED <<job, clock, rows, runs, proc, page>> /\ dump' = now
    BY <1>1 DEF create_backup
  <2>2. now.rows = rows /\ now \in [rows : Seq(RowState), runs : [Procs -> RunState]]
    BY <1>0 DEF JobsTypes
  <2> HIDE DEF now
  <2>3. RowsInv'
    BY <1>0, <2>1, <2>2
    DEF RowsInv, OwnRow, PolledOld, ClosedOld, OneScan, OneLoad, Alive, Stale
  <2>4. RunsInv' /\ JobsTypes'
    BY <1>0, <2>1, <2>2 DEF RunsInv, JobsTypes
  <2> QED
    BY <2>3, <2>4 DEF JobsInv
<1>2. CASE restore_backup
  <2>1. /\ UNCHANGED <<job, clock, proc, page, dump>> /\ page = 0 /\ rows' = dump.rows
        /\ runs' = close_restored_runs(dump.runs)
        /\ \A q \in Procs : proc[q].at \in {"none", "dead", "ended"}
    BY <1>2 DEF restore_backup, Alive
  <2>2. rows' \in Seq(RowState) /\ dump.runs \in [Procs -> RunState]
    BY <1>0, <2>1 DEF JobsTypes
  <2>3. /\ runs' \in [Procs -> RunState]
        /\ \A q \in Procs : runs'[q].state # "running"
    <3> DEFINE old == dump.runs
    <3>1. runs' = [q \in Procs |-> IF old[q].state = "running"
                                   THEN [old[q] EXCEPT !.state = "failed"] ELSE old[q]]
      BY <2>1 DEF close_restored_runs
    <3>2. old \in [Procs -> RunState]
      BY <2>2
    <3> HIDE DEF old
    <3>3. \A q \in Procs : /\ [old[q] EXCEPT !.state = "failed"] \in RunState
                           /\ [old[q] EXCEPT !.state = "failed"].state = "failed"
                           /\ old[q] \in RunState
      BY <3>2 DEF RunState
    <3> QED
      BY <3>1, <3>3
  <2>4. RowsInv'
    BY <1>0, <2>1, StagesApart
    DEF RowsInv, OwnRow, PolledOld, ClosedOld, OneScan, OneLoad, Alive
  <2>5. RunsInv' /\ JobsTypes'
    BY <1>0, <2>1, <2>2, <2>3 DEF RunsInv, JobsTypes
  <2> QED
    BY <2>4, <2>5 DEF JobsInv
<1> QED
  BY <1>1, <1>2

\* What is past the limit stays past it.
LEMMA TicksKeep ==
    ASSUME JobsInv, ClockTicks
    PROVE  JobsInv'
<1>0. /\ JobsTypes /\ RowsInv /\ RunsInv /\ clock' = clock + 1
      /\ UNCHANGED <<job, rows, runs, proc, page, dump>>
  BY DEF JobsInv, ClockTicks
<1>1. clock \in Nat /\ clock' \in Nat /\ StaleAfter \in Nat /\ Retention \in Nat
  BY <1>0, JobLimits DEF JobsTypes
<1>2. /\ DOMAIN rows = 1..Len(rows)
      /\ \A i \in DOMAIN rows : rows[i].at \in Nat
      /\ \A q \in Procs : runs[q].at \in Nat
  BY <1>0, RowsTyped, RunsTyped DEF RowState, RunState
<1>3. \A i \in DOMAIN rows : /\ rows[i].at <= clock - StaleAfter => rows[i].at <= clock' - StaleAfter
                             /\ Stale(i) => Stale(i)'
  <2>1. \A n \in Nat : /\ n <= clock - StaleAfter => n <= clock' - StaleAfter
                       /\ n < clock - StaleAfter => n < clock' - StaleAfter
    BY <1>0, <1>1
  <2> QED
    BY <1>0, <1>2, <2>1 DEF Stale
<1>4. \A q \in Procs : runs[q].at < clock - Retention => runs[q].at < clock' - Retention
  <2>1. \A n \in Nat : n < clock - Retention => n < clock' - Retention
    BY <1>0, <1>1
  <2> QED
    BY <1>2, <2>1
<1>5. \A q \in Procs : proc[q].at \in Unreported /\ proc[q].row # 0 => proc[q].row \in DOMAIN rows
  BY <1>0 DEF RowsInv, OwnRow, Alive, Unreported
<1>6. OwnRow' /\ PolledOld' /\ OneScan'
  BY <1>0, <1>3 DEF RowsInv, OwnRow, PolledOld, OneScan, Alive
<1>7. ClosedOld'
  BY <1>0, <1>3, <1>5 DEF RowsInv, ClosedOld
<1>8. OneLoad'
  BY <1>0, <1>3, <1>5 DEF RowsInv, OneLoad
<1>9. RunsInv' /\ JobsTypes'
  BY <1>0, <1>1, <1>4 DEF RunsInv, JobsTypes
<1> QED
  BY <1>6, <1>7, <1>8, <1>9 DEF JobsInv, RowsInv

-----------------------------------------------------------------------------
LEMMA JobsBegin ==
    JobsInit => JobsInv
<1> SUFFICES ASSUME JobsInit PROVE JobsInv
  OBVIOUS
<1>1. NoRun \in RunState /\ NoRun.state = "none"
  BY DEF NoRun, RunState
<1>2. NoProc \in ProcState /\ NoProc.at = "none" /\ NoProc.row = 0
  BY DEF NoProc, ProcState, Stages, Endings
<1>3. <<>> \in Seq(RowState) /\ DOMAIN <<>> = {}
  BY EmptySeq
<1> DEFINE none == [p \in Procs |-> NoRun]
           empty == [rows |-> <<>>, runs |-> none]
<1>4. none \in [Procs -> RunState]
  BY <1>1
<1> HIDE DEF none
<1>5. empty \in [rows : Seq(RowState), runs : [Procs -> RunState]] /\ empty.rows = <<>>
  BY <1>3, <1>4
<1>6. runs = none /\ dump = empty
  BY DEF JobsInit, none
<1> HIDE DEF empty
<1>7. /\ clock = 1 /\ page = 0 /\ rows = <<>>
      /\ proc \in [Procs -> ProcState]
      /\ \A p \in Procs : proc[p].at = "none" /\ proc[p].row = 0
  BY <1>2 DEF JobsInit
<1>8. \A p \in Procs : runs[p].state = "none"
  BY <1>1, <1>6 DEF none
<1>9. JobsTypes
  BY <1>3, <1>4, <1>5, <1>6, <1>7 DEF JobsTypes, JobsInit
<1>10. RunsInv
  BY <1>7, <1>8 DEF RunsInv
<1>11. RowsInv
  BY <1>3, <1>5, <1>6, <1>7, StagesApart
  DEF RowsInv, OwnRow, PolledOld, ClosedOld, OneScan, OneLoad, Alive
<1> QED
  BY <1>9, <1>10, <1>11 DEF JobsInv

LEMMA JobsStep ==
    JobsInv /\ [JobsNext]_jobsVars => JobsInv'
<1> SUFFICES ASSUME JobsInv, [JobsNext]_jobsVars PROVE JobsInv'
  OBVIOUS
<1>1. ASSUME NEW p \in Procs,
             \/ RenewalRunView(p) \/ RegistryImportRunView(p) \/ launch_scan(p) \/ launch_import(p)
             \/ StartFromTimer(p) \/ recorded_request_run(p) \/ start_run(p) \/ Handle(p)
             \/ Work(p) \/ finish_scan(p) \/ StoppedWithAnError(p) \/ run_recorded(p)
             \/ Terminated(p) \/ Killed(p)
      PROVE  JobsInv'
  <2>1. CASE RenewalRunView(p) \/ RegistryImportRunView(p)
    BY <2>1, StartKeeps DEF RenewalRunView, RegistryImportRunView, start_scan, start_import
  <2>2. CASE launch_scan(p) \/ launch_import(p)
    BY <2>2, LaunchKeeps DEF launch_scan, launch_import
  <2>3. CASE StartFromTimer(p) \/ recorded_request_run(p)
    BY <2>3, TimerKeeps DEF recorded_request_run
  <2>4. CASE start_run(p)
    BY <2>4, RecordKeeps
  <2>5. CASE Handle(p) \/ Work(p)
    BY <2>5, HandleKeeps, WorkKeeps
  <2>6. CASE finish_scan(p) \/ StoppedWithAnError(p)
    BY <2>6, ClosesKeep
  <2>7. CASE run_recorded(p) \/ Terminated(p) \/ Killed(p)
    BY <2>7, EndKeeps
  <2> QED
    BY <1>1, <2>1, <2>2, <2>3, <2>4, <2>5, <2>6, <2>7
<1>2. CASE (\E i \in DOMAIN rows : PollReads(i)) \/ close_if_stale
  BY <1>2, PagesKeep
<1>3. CASE create_backup \/ restore_backup
  BY <1>3, BackupsKeep
<1>4. CASE ClockTicks
  BY <1>4, TicksKeep
<1>5. CASE UNCHANGED jobsVars
  BY <1>5 DEF jobsVars, JobsInv, JobsTypes, RowsInv, OwnRow, PolledOld, ClosedOld,
              OneScan, OneLoad, RunsInv, Alive, Stale
<1> QED
  BY <1>1, <1>2, <1>3, <1>4, <1>5 DEF JobsNext

-----------------------------------------------------------------------------
(* What the rows and the records say, and how the runs ended.              *)

\* How a run ended is written once, as it reports.
EndsOnce ==
    \A p \in Procs : proc[p].end # "" => proc[p].at \in Reported

\* A row, a backup's too, is of a process that began; it tells of that process's end, or is
\* past the limit and says that the run did not finish.
ToldBy(some) ==
    \A i \in DOMAIN some :
        /\ proc[some[i].proc].at # "none"
        /\ some[i].told \in {"", "did not finish", proc[some[i].proc].end}
        /\ some[i].told = "did not finish" => some[i].at <= clock - StaleAfter

\* A process at work has no other row than the one it knows of.
OnlyRow ==
    \A i \in DOMAIN rows : Alive(rows[i].proc) => proc[rows[i].proc].row = i

\* A run that ended left no row open but what a backup brought back.
OpenRows ==
    \A i \in DOMAIN rows :
        rows[i].open => proc[rows[i].proc].end = "" \/ (i \in DOMAIN dump.rows /\ dump.rows[i].open)

TruthInv ==
    EndsOnce /\ ToldBy(rows) /\ ToldBy(dump.rows) /\ OnlyRow /\ OpenRows

\* A record that says how its run ended is of a run that did, and that way; a backup's too.
EndedRuns ==
    \A p \in Procs :
        /\ runs[p].state = "succeeded" => proc[p].at = "ended" /\ ~proc[p].fails
        /\ runs[p].state = "failed" =>
              /\ proc[p].at \in {"ended", "dead"}
              /\ proc[p].fails \/ proc[p].at = "dead" \/ dump.runs[p].state = "running"
        /\ dump.runs[p].state = "succeeded" => proc[p].at = "ended" /\ ~proc[p].fails
        /\ dump.runs[p].state = "failed" =>
              /\ proc[p].at \in {"ended", "dead"}
              /\ proc[p].fails \/ proc[p].at = "dead"
        /\ dump.runs[p].state # "none" => proc[p].at # "none"

\* What may say of a run that it did not finish: it has not ended, a poll was holding its row
\* as it ended, or a backup brought the row back.
Excused(i) == proc[rows[i].proc].end = "" \/ proc[rows[i].proc].polled \/ BroughtBack(i)

\* Only a row that is excused says so, or is held by a poll that will have it say so.
NoneOverwritten ==
    \A i \in DOMAIN rows : rows[i].told = "did not finish" \/ i = page => Excused(i)

AllInv == JobsInv /\ TruthInv /\ EndedRuns /\ NoneOverwritten

\* A process moves, its end is not written and no row is touched.
LEMMA MoveTells ==
    ASSUME JobsTypes, TruthInv, NEW p \in Procs, NEW at, MovesTo(p, at, proc[p].row),
           proc'[p].end = proc[p].end, UNCHANGED <<clock, rows, dump>>, at # "none",
           Alive(p) \/ proc[p].at = "none", proc[p].at \in Reported => at \in Reported
    PROVE  TruthInv'
<1>1. \A q \in Procs : q # p => proc'[q] = proc[q]
  BY DEF MovesTo
<1>2. proc'[p].at = at /\ proc'[p].row = proc[p].row /\ proc'[p].end = proc[p].end
  BY DEF MovesTo
<1>3. /\ \A i \in DOMAIN rows : rows[i].proc \in Procs
      /\ \A i \in DOMAIN dump.rows : dump.rows[i].proc \in Procs
  BY RowsTyped DEF RowState
<1>4. \A q \in Procs : /\ proc'[q].end = proc[q].end
                       /\ proc[q].at # "none" => proc'[q].at # "none"
  BY <1>1, <1>2
<1>5. EndsOnce'
  BY <1>1, <1>2 DEF TruthInv, EndsOnce
<1>6. ToldBy(rows)'
  BY <1>3, <1>4 DEF TruthInv, ToldBy
<1>7. ToldBy(dump.rows)'
  BY <1>3, <1>4 DEF TruthInv, ToldBy
<1>8. OnlyRow'
  <2> SUFFICES ASSUME NEW i \in DOMAIN rows, Alive(rows[i].proc)'
               PROVE  proc'[rows[i].proc].row = i
    BY DEF OnlyRow
  <2>1. proc[rows[i].proc].at # "none" /\ rows[i].proc \in Procs
    BY <1>3 DEF TruthInv, ToldBy
  <2>2. Alive(rows[i].proc) /\ proc'[rows[i].proc].row = proc[rows[i].proc].row
    BY <1>1, <1>2, <2>1 DEF Alive
  <2> QED
    BY <2>2 DEF TruthInv, OnlyRow
<1>9. OpenRows'
  BY <1>3, <1>4 DEF TruthInv, OpenRows
<1> QED
  BY <1>5, <1>6, <1>7, <1>8, <1>9 DEF TruthInv

\* A run ends: its row, when it has one, tells how.
LEMMA EndTells ==
    ASSUME JobsInv, TruthInv, NEW p \in Procs, NEW at \in {"ended", "closing"},
           NEW error \in {"could not start", "busy", "finished", "error"}, Ends(p, at, error),
           Alive(p), proc[p].at \notin Reported, UNCHANGED <<clock, dump>>
    PROVE  TruthInv'
<1> DEFINE own == proc[p].row
<1>0. JobsTypes /\ RowsInv
  BY DEF JobsInv
<1>1. /\ \A q \in Procs : q # p => proc'[q] = proc[q]
      /\ proc'[p].at = at /\ proc'[p].row = own /\ proc'[p].end = error
  BY <1>0, EndsMoves DEF MovesTo
<1>2. proc[p].end = ""
  BY DEF TruthInv, EndsOnce
<1>3. /\ Len(rows) \in Nat /\ DOMAIN rows = 1..Len(rows)
      /\ \A i \in DOMAIN rows : i # 0 /\ rows[i] \in RowState
      /\ \A i \in DOMAIN rows : rows[i].proc \in Procs
      /\ \A i \in DOMAIN dump.rows : dump.rows[i].proc \in Procs
  BY <1>0, RowsTyped DEF RowState
<1>4. own # 0 => own \in DOMAIN rows /\ rows[own].proc = p
  BY <1>0 DEF RowsInv, OwnRow
<1>5. \A i \in DOMAIN rows : rows[i].proc = p => i = own
  BY DEF TruthInv, OnlyRow
<1>6. /\ DOMAIN rows' = DOMAIN rows
      /\ \A i \in DOMAIN rows : /\ i # own => rows'[i] = rows[i]
                                /\ i = own => rows'[i] = close_scan(rows[own], error)
  <2>1. CASE own = 0
    <3>1. \A i \in DOMAIN rows : i # own
      BY <1>3, <2>1
    <3> QED
      BY <2>1, <3>1 DEF Ends
  <2>2. CASE own # 0
    BY <1>4, <2>2 DEF Ends
  <2> QED
    BY <2>1, <2>2
<1>7. own # 0 => /\ close_scan(rows[own], error).at = rows[own].at
                 /\ close_scan(rows[own], error).proc = p
                 /\ close_scan(rows[own], error).told = error
                 /\ ~close_scan(rows[own], error).open
  <2> SUFFICES ASSUME own # 0
               PROVE  /\ close_scan(rows[own], error).at = rows[own].at
                      /\ close_scan(rows[own], error).proc = p
                      /\ close_scan(rows[own], error).told = error
                      /\ ~close_scan(rows[own], error).open
    OBVIOUS
  <2>1. rows[own] \in RowState /\ rows[own].proc = p
    BY <1>3, <1>4
  <2> HIDE DEF own
  <2> QED
    BY <2>1 DEF close_scan, RowState
<1>8. own \in DOMAIN rows => own # 0
  BY <1>3
<1> HIDE DEF own
<1>9. EndsOnce'
  BY <1>1 DEF TruthInv, EndsOnce, Reported
<1>10. \A q \in Procs : proc[q].at # "none" => proc'[q].at # "none"
  BY <1>1
<1>11. ToldBy(rows)'
  <2> SUFFICES ASSUME NEW i \in DOMAIN rows
               PROVE  /\ proc'[rows'[i].proc].at # "none"
                      /\ rows'[i].told \in {"", "did not finish", proc'[rows'[i].proc].end}
                      /\ rows'[i].told = "did not finish" => rows'[i].at <= clock - StaleAfter
    BY <1>6 DEF ToldBy
  <2>1. CASE i = own
    BY <1>1, <1>6, <1>7, <1>8, <2>1
  <2>2. CASE i # own
    <3>1. rows'[i] = rows[i] /\ rows[i].proc \in Procs /\ rows[i].proc # p
      BY <1>3, <1>5, <1>6, <2>2
    <3>2. proc'[rows'[i].proc] = proc[rows[i].proc]
      BY <1>1, <3>1
    <3>3. /\ proc[rows[i].proc].at # "none"
          /\ rows[i].told \in {"", "did not finish", proc[rows[i].proc].end}
          /\ rows[i].told = "did not finish" => rows[i].at <= clock - StaleAfter
      BY DEF TruthInv, ToldBy
    <3> QED
      BY <3>1, <3>2, <3>3
  <2> QED
    BY <2>1, <2>2
<1>12. ToldBy(dump.rows)'
  <2> SUFFICES ASSUME NEW i \in DOMAIN dump.rows
               PROVE  /\ proc'[dump.rows[i].proc].at # "none"
                      /\ dump.rows[i].told \in {"", "did not finish", proc'[dump.rows[i].proc].end}
                      /\ dump.rows[i].told = "did not finish" => dump.rows[i].at <= clock - StaleAfter
    BY DEF ToldBy
  <2>1. dump.rows[i].proc \in Procs /\ ToldBy(dump.rows)
    BY <1>3 DEF TruthInv
  <2>2. CASE dump.rows[i].proc = p
    <3>1. dump.rows[i].told \in {"", "did not finish"}
      BY <1>2, <2>1, <2>2 DEF ToldBy
    <3> QED
      BY <1>10, <2>1, <3>1 DEF ToldBy
  <2>3. CASE dump.rows[i].proc # p
    BY <1>1, <2>1, <2>3 DEF ToldBy
  <2> QED
    BY <2>2, <2>3
<1>13. OnlyRow'
  <2> SUFFICES ASSUME NEW i \in DOMAIN rows,
                      proc'[rows'[i].proc].at \notin {"none", "dead", "ended"}
               PROVE  proc'[rows'[i].proc].row = i
    BY <1>6 DEF OnlyRow, Alive
  <2>1. rows'[i].proc = rows[i].proc /\ rows[i].proc \in Procs
    BY <1>3, <1>4, <1>6, <1>7, <1>8
  <2>2. Alive(rows[i].proc) /\ proc'[rows[i].proc].row = proc[rows[i].proc].row
    BY <1>1, <2>1 DEF Alive, own
  <2> QED
    BY <2>1, <2>2 DEF TruthInv, OnlyRow
<1>14. OpenRows'
  <2> SUFFICES ASSUME NEW i \in DOMAIN rows, rows'[i].open
               PROVE  \/ proc'[rows'[i].proc].end = ""
                      \/ i \in DOMAIN dump.rows /\ dump.rows[i].open
    BY <1>6 DEF OpenRows
  <2>1. i # own
    BY <1>6, <1>7, <1>8
  <2>2. rows'[i] = rows[i] /\ rows[i].proc \in Procs /\ rows[i].proc # p
    BY <1>3, <1>5, <1>6, <2>1
  <2> QED
    BY <1>1, <2>2 DEF TruthInv, OpenRows
<1> QED
  BY <1>9, <1>11, <1>12, <1>13, <1>14 DEF TruthInv

\* A process that had no row writes one; what else it closes is past the limit.
LEMMA NewRowTells ==
    ASSUME JobsTypes, TruthInv, NEW p \in Procs, NEW at \in {"starting", "working"},
           MovesTo(p, at, Len(rows) + 1), proc'[p].end = "", proc[p].end = "",
           proc[p].row = 0, Alive(p) \/ proc[p].at = "none",
           Len(rows') = Len(rows) + 1, rows' \in Seq(RowState), rows'[Len(rows) + 1] = Row(p),
           \A i \in DOMAIN rows : /\ rows'[i].at = rows[i].at /\ rows'[i].proc = rows[i].proc
                                  /\ rows'[i].open => rows[i].open
                                  /\ \/ rows'[i].told = rows[i].told
                                     \/ rows'[i].told = "did not finish"
                                        /\ rows[i].at <= clock - StaleAfter,
           UNCHANGED <<clock, dump>>
    PROVE  TruthInv'
<1> DEFINE new == Len(rows) + 1
<1>1. \A q \in Procs : q # p => proc'[q] = proc[q]
  BY DEF MovesTo
<1>2. proc'[p].at = at /\ proc'[p].row = new
  BY DEF MovesTo
<1>3. /\ Len(rows) \in Nat /\ DOMAIN rows = 1..Len(rows) /\ DOMAIN rows' = 1..new
  BY OneMore, RowsTyped
<1>4. /\ \A i \in DOMAIN rows : rows[i].proc \in Procs
      /\ \A i \in DOMAIN dump.rows : dump.rows[i].proc \in Procs
  BY RowsTyped DEF RowState
<1>5. rows'[new].proc = p /\ rows'[new].told = ""
  <2>1. Row(p).proc = p /\ Row(p).told = ""
    BY DEF Row
  <2> QED
    BY <2>1
<1>6. \A i \in DOMAIN rows' : i \in DOMAIN rows \/ i = new
  BY <1>3, OneMore
<1>7. \A i \in DOMAIN rows : rows[i].proc # p
  BY RowsTyped DEF TruthInv, ToldBy, OnlyRow
<1>8. \A q \in Procs : /\ proc'[q].end = proc[q].end
                       /\ proc[q].at # "none" => proc'[q].at # "none"
  BY <1>1, <1>2
<1> HIDE DEF new
<1>9. EndsOnce'
  BY <1>1 DEF TruthInv, EndsOnce
<1>10. ToldBy(rows)'
  <2> SUFFICES ASSUME NEW i \in DOMAIN rows'
               PROVE  /\ proc'[rows'[i].proc].at # "none"
                      /\ rows'[i].told \in {"", "did not finish", proc'[rows'[i].proc].end}
                      /\ rows'[i].told = "did not finish" => rows'[i].at <= clock - StaleAfter
    BY DEF ToldBy
  <2>1. CASE i = new
    BY <1>2, <1>5, <2>1
  <2>2. CASE i \in DOMAIN rows
    <3>1. /\ rows'[i].proc = rows[i].proc /\ rows'[i].at = rows[i].at
          /\ rows[i].proc \in Procs
      BY <1>4, <2>2
    <3>2. /\ proc[rows[i].proc].at # "none"
          /\ rows[i].told \in {"", "did not finish", proc[rows[i].proc].end}
          /\ rows[i].told = "did not finish" => rows[i].at <= clock - StaleAfter
      BY <2>2 DEF TruthInv, ToldBy
    <3>3. \/ rows'[i].told = rows[i].told
          \/ rows'[i].told = "did not finish" /\ rows[i].at <= clock - StaleAfter
      BY <2>2
    <3> QED
      BY <1>8, <3>1, <3>2, <3>3
  <2> QED
    BY <1>6, <2>1, <2>2
<1>11. ToldBy(dump.rows)'
  BY <1>4, <1>8 DEF TruthInv, ToldBy
<1>12. OnlyRow'
  <2> SUFFICES ASSUME NEW i \in DOMAIN rows',
                      proc'[rows'[i].proc].at \notin {"none", "dead", "ended"}
               PROVE  proc'[rows'[i].proc].row = i
    BY DEF OnlyRow, Alive
  <2>1. CASE i = new
    BY <1>2, <1>5, <2>1
  <2>2. CASE i \in DOMAIN rows
    <3>1. rows'[i].proc = rows[i].proc /\ rows[i].proc # p /\ rows[i].proc \in Procs
      BY <1>4, <1>7, <2>2
    <3>2. proc'[rows'[i].proc] = proc[rows[i].proc]
      BY <1>1, <3>1
    <3>3. Alive(rows[i].proc) => proc[rows[i].proc].row = i
      BY <2>2 DEF TruthInv, OnlyRow
    <3> QED
      BY <3>2, <3>3 DEF Alive
  <2> QED
    BY <1>6, <2>1, <2>2
<1>13. OpenRows'
  <2> SUFFICES ASSUME NEW i \in DOMAIN rows', rows'[i].open
               PROVE  \/ proc'[rows'[i].proc].end = ""
                      \/ i \in DOMAIN dump.rows /\ dump.rows[i].open
    BY DEF OpenRows
  <2>1. CASE i = new
    BY <1>5, <2>1
  <2>2. CASE i \in DOMAIN rows
    <3>1. rows'[i].proc = rows[i].proc /\ rows[i].open /\ rows[i].proc \in Procs
      BY <1>4, <2>2
    <3> QED
      BY <1>8, <2>2, <3>1 DEF TruthInv, OpenRows
  <2> QED
    BY <1>6, <2>1, <2>2
<1> QED
  BY <1>9, <1>10, <1>11, <1>12, <1>13 DEF TruthInv

\* A process moves and at most its own record says how its run ended.
LEMMA RecordTells ==
    ASSUME EndedRuns, NEW p \in Procs, NEW at, NEW row, MovesTo(p, at, row), at # "none",
           Alive(p) \/ proc[p].at = "none", UNCHANGED dump,
           \A q \in Procs : q # p => runs'[q] = runs[q] \/ runs'[q].state = "none",
           runs'[p].state = "succeeded" => at = "ended" /\ ~proc'[p].fails,
           runs'[p].state = "failed" => /\ at \in {"ended", "dead"}
                                        /\ proc'[p].fails \/ at = "dead"
    PROVE  EndedRuns'
<1> SUFFICES ASSUME NEW q \in Procs
             PROVE  /\ runs'[q].state = "succeeded" => proc'[q].at = "ended" /\ ~proc'[q].fails
                    /\ runs'[q].state = "failed" =>
                          /\ proc'[q].at \in {"ended", "dead"}
                          /\ \/ proc'[q].fails \/ proc'[q].at = "dead"
                             \/ dump.runs[q].state = "running"
                    /\ dump.runs[q].state = "succeeded" =>
                          proc'[q].at = "ended" /\ ~proc'[q].fails
                    /\ dump.runs[q].state = "failed" =>
                          /\ proc'[q].at \in {"ended", "dead"}
                          /\ proc'[q].fails \/ proc'[q].at = "dead"
                    /\ dump.runs[q].state # "none" => proc'[q].at # "none"
  BY DEF EndedRuns
<1>1. CASE q = p
  <2>1. proc'[q].at = at
    BY <1>1 DEF MovesTo
  <2>2. dump.runs[q].state # "succeeded" /\ dump.runs[q].state # "failed"
    BY <1>1 DEF EndedRuns, Alive
  <2> QED
    BY <1>1, <2>1, <2>2
<1>2. CASE q # p
  <2>1. proc'[q] = proc[q]
    BY <1>2 DEF MovesTo
  <2>2. runs'[q] = runs[q] \/ runs'[q].state = "none"
    BY <1>2
  <2> QED
    BY <2>1, <2>2 DEF EndedRuns
<1> QED
  BY <1>1, <1>2

\* A record that does not yet say how its run ended, of a process that has not ended.
LEMMA NotToldYet ==
    ASSUME EndedRuns, NEW p \in Procs, Alive(p) \/ proc[p].at = "none"
    PROVE  runs[p].state # "succeeded" /\ runs[p].state # "failed"
  BY DEF EndedRuns, Alive

LEMMA GoesTells ==
    ASSUME JobsTypes, NEW p \in Procs, NEW at, Goes(p, at)
    PROVE  proc'[p].end = proc[p].end /\ proc'[p].fails = proc[p].fails
  BY DEF JobsTypes, ProcState, Goes

\* A process goes on, and neither its end nor a row or a record is written.
LEMMA MoveKeepsTruth ==
    ASSUME JobsTypes, TruthInv, EndedRuns, NEW p \in Procs, NEW at,
           MovesTo(p, at, proc[p].row), proc'[p].end = proc[p].end, at # "none",
           UNCHANGED <<clock, rows, runs, dump>>, Alive(p) \/ proc[p].at = "none",
           proc[p].at \in Reported => at \in Reported
    PROVE  TruthInv' /\ EndedRuns'
<1>1. TruthInv'
  BY MoveTells
<1>2. EndedRuns'
  BY NotToldYet, RecordTells
<1> QED
  BY <1>1, <1>2

\* The same, of a move that changes only the stage.
LEMMA GoKeepsTruth ==
    ASSUME JobsTypes, TruthInv, EndedRuns, NEW p \in Procs, NEW at \in Stages, Goes(p, at),
           at # "none", UNCHANGED <<clock, rows, runs, dump>>, Alive(p) \/ proc[p].at = "none",
           proc[p].at \in Reported => at \in Reported
    PROVE  TruthInv' /\ EndedRuns'
  BY Goes2, GoesTells, MoveKeepsTruth

LEMMA EndKeepsTruth ==
    ASSUME JobsInv, TruthInv, EndedRuns, NEW p \in Procs, NEW at \in {"ended", "closing"},
           NEW error \in {"could not start", "busy", "finished", "error"}, Ends(p, at, error),
           Alive(p), proc[p].at \notin Reported, UNCHANGED <<clock, runs, dump>>
    PROVE  TruthInv' /\ EndedRuns'
<1>1. TruthInv'
  BY EndTells
<1>2. MovesTo(p, at, proc[p].row) /\ at # "none"
  BY EndsMoves DEF JobsInv
<1>3. EndedRuns'
  BY <1>2, NotToldYet, RecordTells
<1> QED
  BY <1>1, <1>3

LEMMA StartTells ==
    ASSUME JobsInv, TruthInv, EndedRuns, NEW p \in Procs, start(p), UNCHANGED <<clock, runs, dump>>
    PROVE  TruthInv' /\ EndedRuns'
<1>0. JobsTypes /\ clock \in Nat
  BY DEF JobsInv, JobsTypes
<1>1. proc[p].at = "none" /\ proc[p].row = 0
  BY <1>0, UnusedIsNew DEF start
<1>2. proc[p].end = ""
  BY <1>1 DEF TruthInv, EndsOnce, Reported
<1>3. /\ MovesTo(p, "starting", Len(rows) + 1) /\ proc'[p].end = ""
      /\ rows' \in Seq(RowState) /\ Len(rows') = Len(rows) + 1
      /\ rows'[Len(rows) + 1] = Row(p)
      /\ \A i \in DOMAIN rows : /\ rows'[i].at = rows[i].at /\ rows'[i].proc = rows[i].proc
                                /\ rows'[i].open => rows[i].open
                                /\ \/ rows'[i].told = rows[i].told
                                   \/ rows'[i].told = "did not finish" /\ Stale(i)
  BY <1>0, StartRows
<1>4. \A i \in DOMAIN rows : Stale(i) => rows[i].at <= clock - StaleAfter
  <2>1. \A i \in DOMAIN rows : rows[i].at \in Nat
    BY <1>0, RowsTyped DEF RowState
  <2>2. clock - StaleAfter \in Int
    BY <1>0, JobLimits
  <2> QED
    BY <2>1, <2>2, LessIsLeq DEF Stale
<1>5. \A i \in DOMAIN rows : /\ rows'[i].at = rows[i].at /\ rows'[i].proc = rows[i].proc
                             /\ rows'[i].open => rows[i].open
                             /\ \/ rows'[i].told = rows[i].told
                                \/ rows'[i].told = "did not finish"
                                   /\ rows[i].at <= clock - StaleAfter
  BY <1>3, <1>4
<1>6. TruthInv'
  BY <1>0, <1>1, <1>2, <1>3, <1>5, NewRowTells
<1>7. EndedRuns'
  BY <1>1, <1>3, NotToldYet, RecordTells
<1> QED
  BY <1>6, <1>7

LEMMA RecordBeginTells ==
    ASSUME JobsInv, TruthInv, EndedRuns, NEW p \in Procs, start_run(p)
    PROVE  TruthInv' /\ EndedRuns'
<1>0. /\ JobsTypes /\ proc[p].at = "launched" /\ UNCHANGED <<clock, rows, dump>>
      /\ Alive(p) /\ proc[p].at \notin Reported
  BY StagesApart DEF JobsInv, start_run, Alive
<1>1. CASE runs' = runs /\ Goes(p, "unrecorded")
  BY <1>0, <1>1, GoKeepsTruth DEF Stages
<1>2. ASSUME runs' = [pruned EXCEPT ![p] = [state |-> "running", at |-> clock, idle |-> FALSE]],
             Goes(p, "recorded")
      PROVE  TruthInv' /\ EndedRuns'
  <2>1. MovesTo(p, "recorded", proc[p].row) /\ proc'[p].end = proc[p].end
    BY <1>0, <1>2, Goes2, GoesTells DEF Stages
  <2>2. TruthInv'
    BY <1>0, <2>1, MoveTells
  <2>3. /\ runs'[p].state = "running"
        /\ \A q \in Procs : q # p => runs'[q] = runs[q] \/ runs'[q].state = "none"
    <3>1. pruned \in [Procs -> RunState] /\ NoRun.state = "none"
      BY <1>0, RunsTyped DEF NoRun
    <3>2. \A q \in Procs : q # p => runs'[q] = pruned[q]
      BY <1>2, <3>1
    <3> QED
      BY <1>2, <3>1, <3>2 DEF pruned
  <2>4. EndedRuns'
    BY <1>0, <2>1, <2>3, RecordTells
  <2> QED
    BY <2>2, <2>4
<1> QED
  BY <1>1, <1>2 DEF start_run

LEMMA HandleTells ==
    ASSUME JobsInv, TruthInv, EndedRuns, NEW p \in Procs, Handle(p)
    PROVE  TruthInv' /\ EndedRuns'
<1>0. /\ JobsTypes /\ Alive(p) /\ proc[p].at \notin Reported
      /\ UNCHANGED <<clock, runs, dump>>
  BY StagesApart DEF JobsInv, Alive, Handle
<1>1. CASE Goes(p, "working") /\ UNCHANGED rows
  BY <1>0, <1>1, GoKeepsTruth DEF Stages
<1>2. CASE RunAutoRenewals(p)
  BY <1>0, <1>1, <1>2, EndKeepsTruth DEF RunAutoRenewals
<1>3. CASE ImportRegistry(p) /\ proc[p].row # 0
  <2> DEFINE one == [proc[p] EXCEPT !.at = "working"]
             new == [one EXCEPT !.file = clock]
  <2>1. one \in ProcState /\ one.at = "working" /\ one.row = proc[p].row /\ one.end = proc[p].end
    BY <1>0 DEF JobsTypes, ProcState, Stages
  <2>2. proc' = [proc EXCEPT ![p] = new] /\ UNCHANGED rows
    BY <1>3 DEF ImportRegistry
  <2> HIDE DEF one
  <2>3. new \in ProcState /\ new.at = "working" /\ new.row = proc[p].row /\ new.end = proc[p].end
    BY <1>0, <2>1 DEF ProcState, JobsTypes
  <2> HIDE DEF new
  <2>4. MovesTo(p, "working", proc[p].row) /\ proc'[p].end = proc[p].end
    BY <1>0, <2>2, <2>3, SetTo DEF JobsTypes
  <2> QED
    BY <1>0, <2>2, <2>4, MoveKeepsTruth
<1>4. CASE claim_unattended_run(p) /\ is_running
  <2> DEFINE one == [proc[p] EXCEPT !.at = "closing"]
             new == [one EXCEPT !.fails = TRUE]
  <2>1. one \in ProcState /\ one.at = "closing" /\ one.row = proc[p].row /\ one.end = proc[p].end
    BY <1>0 DEF JobsTypes, ProcState, Stages
  <2>2. proc' = [proc EXCEPT ![p] = new] /\ UNCHANGED rows
    BY <1>4 DEF claim_unattended_run
  <2> HIDE DEF one
  <2>3. new \in ProcState /\ new.at = "closing" /\ new.row = proc[p].row /\ new.end = proc[p].end
    BY <2>1 DEF ProcState
  <2> HIDE DEF new
  <2>4. MovesTo(p, "closing", proc[p].row) /\ proc'[p].end = proc[p].end
    BY <1>0, <2>2, <2>3, SetTo DEF JobsTypes
  <2> QED
    BY <1>0, <2>2, <2>4, MoveKeepsTruth
<1>5. CASE proc[p].row = 0 /\ claim_unattended_run(p) /\ ~is_running
  <2> DEFINE one == [proc[p] EXCEPT !.at = "working"]
             two == [one EXCEPT !.row = Len(rows) + 1]
             new == [two EXCEPT !.file = clock]
  <2>1. one \in ProcState /\ one.at = "working" /\ one.end = proc[p].end
    BY <1>0 DEF JobsTypes, ProcState, Stages
  <2>2. /\ proc' = [proc EXCEPT ![p] = new]
        /\ rows' = Append(rows, Row(p))
    BY <1>5 DEF claim_unattended_run
  <2>3. /\ Len(rows) \in Nat /\ DOMAIN rows = 1..Len(rows) /\ rows \in Seq(RowState)
        /\ clock \in Nat
    BY <1>0, RowsTyped DEF JobsTypes
  <2> HIDE DEF one
  <2>4. two \in ProcState /\ two.at = "working" /\ two.row = Len(rows) + 1 /\ two.end = proc[p].end
    BY <2>1, <2>3 DEF ProcState
  <2> HIDE DEF two
  <2>5. new \in ProcState /\ new.at = "working" /\ new.row = Len(rows) + 1 /\ new.end = proc[p].end
    BY <2>3, <2>4 DEF ProcState
  <2> HIDE DEF new
  <2>6. MovesTo(p, "working", Len(rows) + 1) /\ proc'[p].end = proc[p].end
    BY <1>0, <2>2, <2>5, SetTo DEF JobsTypes
  <2>7. Row(p) \in RowState
    BY <1>0 DEF Row, RowState, JobsTypes, Endings
  <2>8. /\ rows' \in Seq(RowState) /\ Len(rows') = Len(rows) + 1
        /\ \A i \in DOMAIN rows : rows'[i] = rows[i]
        /\ rows'[Len(rows) + 1] = Row(p)
    BY <2>2, <2>3, <2>7, AppendProperties
  <2>9. proc[p].end = ""
    BY <1>0 DEF TruthInv, EndsOnce
  <2>10. TruthInv'
    BY <1>0, <1>5, <2>6, <2>8, <2>9, NewRowTells
  <2>11. EndedRuns'
    BY <1>0, <2>6, NotToldYet, RecordTells
  <2> QED
    BY <2>10, <2>11
<1> QED
  BY <1>1, <1>2, <1>3, <1>4, <1>5 DEF Handle, ImportRegistry

LEMMA WorkTells ==
    ASSUME JobsInv, TruthInv, EndedRuns, NEW p \in Procs, Work(p)
    PROVE  TruthInv' /\ EndedRuns'
<1>0. /\ JobsTypes /\ Alive(p) /\ proc[p].at \notin Reported
      /\ UNCHANGED <<clock, rows, runs, dump>>
  BY StagesApart DEF JobsInv, Alive, Work
<1>1. CASE Goes(p, "broke") \/ Goes(p, "worked")
  BY <1>0, <1>1, GoKeepsTruth DEF Stages
<1>2. ASSUME NEW problems \in BOOLEAN,
             proc' = [proc EXCEPT ![p].at = "worked", ![p].fails = problems]
      PROVE  TruthInv' /\ EndedRuns'
  <2> DEFINE one == [proc[p] EXCEPT !.at = "worked"]
             new == [one EXCEPT !.fails = problems]
  <2>1. one \in ProcState /\ one.at = "worked" /\ one.row = proc[p].row /\ one.end = proc[p].end
    BY <1>0 DEF JobsTypes, ProcState, Stages
  <2>2. proc' = [proc EXCEPT ![p] = new]
    BY <1>2
  <2> HIDE DEF one
  <2>3. new \in ProcState /\ new.at = "worked" /\ new.row = proc[p].row /\ new.end = proc[p].end
    BY <2>1 DEF ProcState
  <2> HIDE DEF new
  <2>4. MovesTo(p, "worked", proc[p].row) /\ proc'[p].end = proc[p].end
    BY <1>0, <2>2, <2>3, SetTo DEF JobsTypes
  <2> QED
    BY <1>0, <2>4, MoveKeepsTruth
<1>3. ASSUME NEW idle \in BOOLEAN,
             proc' = [proc EXCEPT ![p].at = "closing", ![p].idle = idle]
      PROVE  TruthInv' /\ EndedRuns'
  <2> DEFINE one == [proc[p] EXCEPT !.at = "closing"]
             new == [one EXCEPT !.idle = idle]
  <2>1. one \in ProcState /\ one.at = "closing" /\ one.row = proc[p].row /\ one.end = proc[p].end
    BY <1>0 DEF JobsTypes, ProcState, Stages
  <2>2. proc' = [proc EXCEPT ![p] = new]
    BY <1>3
  <2> HIDE DEF one
  <2>3. new \in ProcState /\ new.at = "closing" /\ new.row = proc[p].row /\ new.end = proc[p].end
    BY <2>1 DEF ProcState
  <2> HIDE DEF new
  <2>4. MovesTo(p, "closing", proc[p].row) /\ proc'[p].end = proc[p].end
    BY <1>0, <2>2, <2>3, SetTo DEF JobsTypes
  <2> QED
    BY <1>0, <2>4, MoveKeepsTruth
<1> QED
  BY <1>1, <1>2, <1>3 DEF Work

LEMMA RecordedTells ==
    ASSUME JobsInv, TruthInv, EndedRuns, NEW p \in Procs,
           run_recorded(p) \/ Terminated(p) \/ Killed(p)
    PROVE  TruthInv' /\ EndedRuns'
<1>0. JobsTypes /\ Alive(p) /\ UNCHANGED <<clock, rows, dump>>
  BY DEF JobsInv, Alive, run_recorded, Terminated, Killed
<1>1. ASSUME NEW at \in {"ended", "dead"}, Goes(p, at)
      PROVE  /\ MovesTo(p, at, proc[p].row) /\ TruthInv'
             /\ proc'[p].fails = proc[p].fails
  <2>1. /\ MovesTo(p, at, proc[p].row) /\ proc'[p].end = proc[p].end
        /\ proc'[p].fails = proc[p].fails
    BY <1>0, <1>1, Goes2, GoesTells DEF Stages
  <2>2. at \in Reported /\ at # "none"
    BY StagesApart
  <2> QED
    BY <1>0, <2>1, <2>2, MoveTells
<1>2. ASSUME NEW at \in {"ended", "dead"}, Goes(p, at), UNCHANGED runs
      PROVE  TruthInv' /\ EndedRuns'
  <2>1. at \in Stages /\ at # "none" /\ at \in Reported
    BY StagesApart DEF Stages
  <2> QED
    BY <1>0, <1>2, <2>1, GoKeepsTruth
<1>3. ASSUME NEW at \in {"ended", "dead"}, Goes(p, at),
             NEW status \in {"succeeded", "failed"}, NEW idle \in BOOLEAN,
             runs' = finish(p, status, idle),
             status = "succeeded" => at = "ended" /\ ~proc[p].fails,
             status = "failed" => proc[p].fails \/ at = "dead"
      PROVE  TruthInv' /\ EndedRuns'
  <2>1. runs'[p].state = status
    BY <1>0, <1>3, FinishRuns
  <2>2. \A q \in Procs : q # p => runs'[q] = runs[q] \/ runs'[q].state = "none"
    <3>1. NoRun.state = "none"
      BY DEF NoRun
    <3> QED
      BY <1>0, <1>3, <3>1, FinishRuns
  <2>3. EndedRuns'
    BY <1>0, <1>1, <1>3, <2>1, <2>2, RecordTells
  <2> QED
    BY <1>1, <1>3, <2>3
<1>4. ASSUME Goes(p, "ended"), runs' = [runs EXCEPT ![p] = NoRun]
      PROVE  TruthInv' /\ EndedRuns'
  <2>1. runs'[p].state = "none" /\ \A q \in Procs : q # p => runs'[q] = runs[q]
    <3>1. NoRun.state = "none" /\ runs \in [Procs -> RunState]
      BY <1>0 DEF NoRun, JobsTypes
    <3> QED
      BY <1>4, <3>1
  <2>2. EndedRuns'
    BY <1>0, <1>1, <1>4, <2>1, RecordTells
  <2> QED
    BY <1>1, <1>4, <2>2
<1>5. CASE run_recorded(p)
  <2>1. CASE Goes(p, "dead") /\ UNCHANGED runs
    BY <1>2, <2>1
  <2>2. CASE Goes(p, "ended") /\ UNCHANGED runs
    BY <1>2, <2>2
  <2>3. CASE Goes(p, "ended") /\ runs' = [runs EXCEPT ![p] = NoRun]
    BY <1>4, <2>3
  <2>4. CASE /\ Goes(p, "ended")
             /\ runs' = finish(p, IF proc[p].fails THEN "failed" ELSE "succeeded",
                               proc[p].idle /\ ~proc[p].fails)
    <3>1. PICK idle \in BOOLEAN : idle = (proc[p].idle /\ ~proc[p].fails)
      OBVIOUS
    <3>2. CASE proc[p].fails
      BY <1>3, <2>4, <3>1, <3>2
    <3>3. CASE ~proc[p].fails
      BY <1>3, <2>4, <3>1, <3>3
    <3> QED
      BY <3>2, <3>3
  <2> QED
    BY <1>5, <2>1, <2>2, <2>3, <2>4 DEF run_recorded
<1>6. CASE Terminated(p)
  BY <1>3, <1>6 DEF Terminated
<1>7. CASE Killed(p)
  BY <1>2, <1>7 DEF Killed
<1> QED
  BY <1>5, <1>6, <1>7

\* A poll closes a row past the limit; the one it closes may have told how its run ended.
LEMMA PageTells ==
    ASSUME JobsInv, TruthInv, EndedRuns, (\E i \in DOMAIN rows : PollReads(i)) \/ close_if_stale
    PROVE  TruthInv' /\ EndedRuns'
<1>0. JobsTypes /\ RowsInv /\ UNCHANGED <<clock, runs, proc, dump>>
  BY DEF JobsInv, PollReads, close_if_stale
<1>1. EndedRuns' /\ EndsOnce' /\ ToldBy(dump.rows)'
  BY <1>0 DEF EndedRuns, TruthInv, EndsOnce, ToldBy
<1>2. CASE \E i \in DOMAIN rows : PollReads(i)
  <2>1. UNCHANGED rows
    BY <1>2 DEF PollReads
  <2> QED
    BY <1>0, <1>1, <2>1 DEF TruthInv, ToldBy, OnlyRow, OpenRows, Alive
<1>3. CASE close_if_stale
  <2> DEFINE row == close_scan(rows[page], "did not finish")
  <2>1. /\ rows' = [rows EXCEPT ![page] = row] /\ page \in DOMAIN rows
        /\ rows[page].at <= clock - StaleAfter /\ rows[page] \in RowState
    BY <1>0, <1>3, RowsTyped DEF close_if_stale, RowsInv, PolledOld
  <2>2. /\ row.at = rows[page].at /\ row.proc = rows[page].proc
        /\ row.told = "did not finish" /\ ~row.open
    BY <2>1 DEF close_scan, RowState
  <2> HIDE DEF row
  <2>3. /\ DOMAIN rows' = DOMAIN rows
        /\ \A i \in DOMAIN rows : /\ rows'[i].proc = rows[i].proc
                                  /\ i # page => rows'[i] = rows[i]
                                  /\ rows'[i].open => rows[i].open
        /\ rows'[page] = row
    BY <2>1, <2>2
  <2>4. ToldBy(rows)'
    <3> SUFFICES ASSUME NEW i \in DOMAIN rows
                 PROVE  /\ proc[rows'[i].proc].at # "none"
                        /\ rows'[i].told \in {"", "did not finish", proc[rows'[i].proc].end}
                        /\ rows'[i].told = "did not finish" => rows'[i].at <= clock - StaleAfter
      BY <1>0, <2>3 DEF ToldBy
    <3>1. CASE i = page
      <4>1. proc[rows[i].proc].at # "none"
        BY DEF TruthInv, ToldBy
      <4>2. /\ rows'[i].proc = rows[i].proc /\ rows'[i].at = rows[i].at
            /\ rows'[i].told = "did not finish" /\ rows[i].at <= clock - StaleAfter
        BY <2>1, <2>2, <2>3, <3>1
      <4> QED
        BY <4>1, <4>2
    <3>2. CASE i # page
      <4>1. rows'[i] = rows[i]
        BY <2>3, <3>2
      <4> QED
        BY <4>1 DEF TruthInv, ToldBy
    <3> QED
      BY <3>1, <3>2
  <2>5. OnlyRow'
    <3> SUFFICES ASSUME NEW i \in DOMAIN rows,
                        proc[rows'[i].proc].at \notin {"none", "dead", "ended"}
                 PROVE  proc[rows'[i].proc].row = i
      BY <1>0, <2>3 DEF OnlyRow, Alive
    <3> QED
      BY <2>3 DEF TruthInv, OnlyRow, Alive
  <2>6. OpenRows'
    BY <1>0, <2>3 DEF TruthInv, OpenRows
  <2> QED
    BY <1>1, <2>4, <2>5, <2>6 DEF TruthInv
<1> QED
  BY <1>2, <1>3

LEMMA BackupTells ==
    ASSUME JobsInv, TruthInv, EndedRuns, create_backup \/ restore_backup
    PROVE  TruthInv' /\ EndedRuns'
<1>0. JobsTypes /\ UNCHANGED <<clock, proc>>
  BY DEF JobsInv, create_backup, restore_backup
<1>1. CASE create_backup
  <2> DEFINE now == [rows |-> rows, runs |-> runs]
  <2>1. /\ UNCHANGED <<rows, runs>> /\ dump' = now
        /\ dump.rows = <<>> /\ dump.runs = [p \in Procs |-> NoRun]
    BY <1>1 DEF create_backup
  <2>2. now.rows = rows /\ now.runs = runs
    OBVIOUS
  <2> HIDE DEF now
  <2>3. EndsOnce' /\ OnlyRow' /\ ToldBy(rows)'
    BY <1>0, <2>1 DEF TruthInv, EndsOnce, OnlyRow, ToldBy, Alive
  <2>4. ToldBy(dump.rows)'
    BY <1>0, <2>1, <2>2 DEF TruthInv, ToldBy
  <2>5. OpenRows'
    BY <1>0, <2>1, <2>2 DEF TruthInv, OpenRows
  <2>6. \A q \in Procs : dump.runs[q].state = "none"
    BY <2>1 DEF NoRun
  <2>7. EndedRuns'
    <3> SUFFICES ASSUME NEW q \in Procs
                 PROVE  /\ runs[q].state = "succeeded" => proc[q].at = "ended" /\ ~proc[q].fails
                        /\ runs[q].state = "failed" =>
                              /\ proc[q].at \in {"ended", "dead"}
                              /\ proc[q].fails \/ proc[q].at = "dead"
                        /\ runs[q].state # "none" => proc[q].at # "none"
      BY <1>0, <2>1, <2>2 DEF EndedRuns
    <3>1. runs[q].state \in {"none", "running", "succeeded", "failed"}
      BY <1>0, RunsTyped DEF RunState
    <3>2. runs[q].state = "running" => proc[q].at # "none"
      BY DEF JobsInv, RunsInv
    <3> QED
      BY <2>6, <3>1, <3>2 DEF EndedRuns
  <2> QED
    BY <2>3, <2>4, <2>5, <2>7 DEF TruthInv
<1>2. CASE restore_backup
  <2>1. /\ rows' = dump.rows /\ UNCHANGED dump /\ runs' = close_restored_runs(dump.runs)
        /\ \A q \in Procs : proc[q].at \in {"none", "dead", "ended"}
    BY <1>2 DEF restore_backup, Alive
  <2>2. EndsOnce' /\ ToldBy(rows)' /\ ToldBy(dump.rows)' /\ OpenRows'
    BY <1>0, <2>1 DEF TruthInv, EndsOnce, ToldBy, OpenRows
  <2>3. OnlyRow'
    <3>1. \A i \in DOMAIN dump.rows : dump.rows[i].proc \in Procs
      BY <1>0, RowsTyped DEF RowState
    <3> QED
      BY <1>0, <2>1, <3>1 DEF OnlyRow, Alive
  <2>4. \A q \in Procs :
           /\ dump.runs[q].state = "running" => runs'[q].state = "failed"
           /\ dump.runs[q].state # "running" => runs'[q] = dump.runs[q]
    <3> DEFINE old == dump.runs
    <3>1. runs' = [q \in Procs |-> IF old[q].state = "running"
                                   THEN [old[q] EXCEPT !.state = "failed"] ELSE old[q]]
      BY <2>1 DEF close_restored_runs
    <3>2. old \in [Procs -> RunState]
      BY <1>0 DEF JobsTypes
    <3> HIDE DEF old
    <3>3. \A q \in Procs : [old[q] EXCEPT !.state = "failed"].state = "failed"
      BY <3>2 DEF RunState
    <3>4. \A q \in Procs : /\ old[q].state = "running" => runs'[q].state = "failed"
                           /\ old[q].state # "running" => runs'[q] = old[q]
      BY <3>1, <3>3
    <3> QED
      BY <3>4 DEF old
  <2>5. EndedRuns'
    <3> SUFFICES ASSUME NEW q \in Procs
                 PROVE  /\ runs'[q].state = "succeeded" => proc[q].at = "ended" /\ ~proc[q].fails
                        /\ runs'[q].state = "failed" =>
                              /\ proc[q].at \in {"ended", "dead"}
                              /\ \/ proc[q].fails \/ proc[q].at = "dead"
                                 \/ dump.runs[q].state = "running"
      BY <1>0, <2>1 DEF EndedRuns
    <3>1. CASE dump.runs[q].state = "running"
      BY <2>1, <2>4, <3>1 DEF EndedRuns
    <3>2. CASE dump.runs[q].state # "running"
      BY <2>4, <3>2 DEF EndedRuns
    <3> QED
      BY <3>1, <3>2
  <2> QED
    BY <2>2, <2>3, <2>5 DEF TruthInv
<1> QED
  BY <1>1, <1>2

LEMMA TickTells ==
    ASSUME JobsInv, TruthInv, EndedRuns, ClockTicks
    PROVE  TruthInv' /\ EndedRuns'
<1>0. JobsTypes /\ clock' = clock + 1 /\ UNCHANGED <<rows, runs, proc, dump>>
  BY DEF JobsInv, ClockTicks
<1>1. /\ \A i \in DOMAIN rows : rows[i].at \in Nat
      /\ \A i \in DOMAIN dump.rows : dump.rows[i].at \in Nat
  BY <1>0, RowsTyped DEF RowState
<1>2. \A n \in Nat : n <= clock - StaleAfter => n <= clock' - StaleAfter
  <2>1. clock \in Nat /\ StaleAfter \in Nat
    BY <1>0, JobLimits DEF JobsTypes
  <2> QED
    BY <1>0, <2>1
<1>3. ToldBy(rows)'
  BY <1>0, <1>1, <1>2 DEF TruthInv, ToldBy
<1>4. ToldBy(dump.rows)'
  BY <1>0, <1>1, <1>2 DEF TruthInv, ToldBy
<1>5. EndsOnce' /\ OnlyRow' /\ OpenRows' /\ EndedRuns'
  BY <1>0 DEF TruthInv, EndsOnce, OnlyRow, OpenRows, EndedRuns, Alive
<1> QED
  BY <1>3, <1>4, <1>5 DEF TruthInv

LEMMA TruthStep ==
    AllInv /\ [JobsNext]_jobsVars => TruthInv' /\ EndedRuns'
<1> SUFFICES ASSUME AllInv, [JobsNext]_jobsVars PROVE TruthInv' /\ EndedRuns'
  OBVIOUS
<1>0. JobsInv /\ JobsTypes /\ TruthInv /\ EndedRuns
  BY DEF AllInv, JobsInv
<1>1. ASSUME NEW p \in Procs,
             \/ RenewalRunView(p) \/ RegistryImportRunView(p) \/ launch_scan(p) \/ launch_import(p)
             \/ StartFromTimer(p) \/ recorded_request_run(p) \/ start_run(p) \/ Handle(p)
             \/ Work(p) \/ finish_scan(p) \/ StoppedWithAnError(p) \/ run_recorded(p)
             \/ Terminated(p) \/ Killed(p)
      PROVE  TruthInv' /\ EndedRuns'
  <2>1. CASE RenewalRunView(p) \/ RegistryImportRunView(p)
    BY <1>0, <2>1, StartTells
    DEF RenewalRunView, RegistryImportRunView, start_scan, start_import
  <2>2. CASE launch_scan(p) \/ launch_import(p)
    <3>1. /\ Alive(p) /\ proc[p].at \notin Reported /\ UNCHANGED <<clock, runs, dump>>
          /\ (Goes(p, "launched") /\ UNCHANGED rows) \/ CouldNotStart(p)
      BY <2>2, StagesApart DEF launch_scan, launch_import, Alive
    <3>2. CASE Goes(p, "launched") /\ UNCHANGED rows
      BY <1>0, <3>1, <3>2, GoKeepsTruth DEF Stages
    <3>3. CASE CouldNotStart(p)
      BY <1>0, <3>1, <3>3, EndKeepsTruth DEF CouldNotStart
    <3> QED
      BY <3>1, <3>2, <3>3
  <2>3. CASE StartFromTimer(p) \/ recorded_request_run(p)
    <3>1. StartFromTimer(p) /\ UNCHANGED <<clock, rows, runs, dump>> /\ Goes(p, "launched")
      BY <2>3 DEF recorded_request_run, StartFromTimer
    <3>2. proc[p].at = "none" /\ proc[p].at \notin Reported
      BY <1>0, <3>1, UnusedIsNew, StagesApart DEF StartFromTimer
    <3> QED
      BY <1>0, <3>1, <3>2, GoKeepsTruth DEF Stages
  <2>4. CASE start_run(p)
    BY <1>0, <2>4, RecordBeginTells
  <2>5. CASE Handle(p) \/ Work(p)
    BY <1>0, <2>5, HandleTells, WorkTells
  <2>6. CASE finish_scan(p) \/ StoppedWithAnError(p)
    <3>1. /\ Alive(p) /\ proc[p].at \notin Reported /\ UNCHANGED <<clock, runs, dump>>
          /\ Ends(p, "closing", "finished") \/ Ends(p, "closing", "error")
      BY <2>6, StagesApart DEF finish_scan, StoppedWithAnError, Alive
    <3> QED
      BY <1>0, <3>1, EndKeepsTruth
  <2>7. CASE run_recorded(p) \/ Terminated(p) \/ Killed(p)
    BY <1>0, <2>7, RecordedTells
  <2> QED
    BY <1>1, <2>1, <2>2, <2>3, <2>4, <2>5, <2>6, <2>7
<1>2. CASE (\E i \in DOMAIN rows : PollReads(i)) \/ close_if_stale
  BY <1>0, <1>2, PageTells
<1>3. CASE create_backup \/ restore_backup
  BY <1>0, <1>3, BackupTells
<1>4. CASE ClockTicks
  BY <1>0, <1>4, TickTells
<1>5. CASE UNCHANGED jobsVars
  BY <1>0, <1>5
  DEF jobsVars, TruthInv, EndsOnce, ToldBy, OnlyRow, OpenRows, EndedRuns, Alive
<1> QED
  BY <1>1, <1>2, <1>3, <1>4, <1>5 DEF JobsNext

\* A step that ends no run excuses what it closes: it closes only rows of runs that have not
\* ended, rows a backup brought back, and the row a poll holds; and a poll takes only open rows.
LEMMA ClosesExcused ==
    ASSUME JobsTypes, OpenRows, NoneOverwritten, UNCHANGED dump,
           \A q \in Procs : proc'[q].end = proc[q].end /\ proc'[q].polled = proc[q].polled,
           \A i \in DOMAIN rows : i \in DOMAIN rows' /\ rows'[i].proc = rows[i].proc,
           \A i \in DOMAIN rows : rows'[i].told = rows[i].told \/ rows[i].open \/ i = page,
           \A i \in DOMAIN rows' : i \in DOMAIN rows \/ rows'[i].told = "",
           page' = 0 \/ page' = page \/ (page' \in DOMAIN rows /\ rows[page'].open),
           page # 0 => page \in DOMAIN rows, 0 \notin DOMAIN rows'
    PROVE  NoneOverwritten'
<1>1. \A i \in DOMAIN rows : i # 0 /\ rows[i].proc \in Procs
  BY RowsTyped DEF RowState
<1>2. \A i \in DOMAIN rows : Excused(i) => Excused(i)'
  BY <1>1 DEF Excused, BroughtBack
<1>3. \A i \in DOMAIN rows : rows[i].open => Excused(i)
  BY DEF OpenRows, Excused, BroughtBack
<1> SUFFICES ASSUME NEW i \in DOMAIN rows', rows'[i].told = "did not finish" \/ i = page'
             PROVE  Excused(i)'
  BY DEF NoneOverwritten
<1>4. i \in DOMAIN rows
  <2>1. CASE rows'[i].told = "did not finish"
    BY <2>1
  <2>2. CASE i = page'
    BY <2>2
  <2> QED
    BY <2>1, <2>2
<1>5. rows[i].told = "did not finish" \/ rows[i].open \/ i = page
  BY <1>4
<1> QED
  BY <1>2, <1>3, <1>4, <1>5 DEF NoneOverwritten

\* A run that ends writes its own row over, and notes the poll that holds it.
LEMMA EndExcused ==
    ASSUME JobsInv, TruthInv, NoneOverwritten, NEW p \in Procs, NEW at \in {"ended", "closing"},
           NEW error \in {"could not start", "busy", "finished", "error"}, Ends(p, at, error),
           Alive(p), UNCHANGED <<page, dump>>
    PROVE  NoneOverwritten'
<1> DEFINE own == proc[p].row
           row == close_scan(rows[own], error)
<1>0. JobsTypes /\ RowsInv /\ page \in Nat
  BY DEF JobsInv, JobsTypes
<1>1. /\ \A q \in Procs : q # p => proc'[q] = proc[q]
      /\ proc'[p].polled = (page # 0 /\ page = own)
  BY <1>0, EndsMoves DEF MovesTo
<1>2. \A i \in DOMAIN rows : i # 0 /\ rows[i] \in RowState /\ rows[i].proc \in Procs
  BY <1>0, RowsTyped DEF RowState
<1>3. own # 0 => own \in DOMAIN rows /\ rows[own].proc = p
  BY <1>0 DEF RowsInv, OwnRow
<1>4. \A i \in DOMAIN rows : rows[i].proc = p => i = own
  BY DEF TruthInv, OnlyRow
<1>5. own # 0 => row.told = error /\ row.proc = p
  BY <1>2, <1>3 DEF close_scan, RowState
<1>6. own # 0 => rows' = [rows EXCEPT ![own] = row]
  BY DEF Ends
<1>7. own = 0 => UNCHANGED rows
  BY DEF Ends
<1> HIDE DEF row, own
<1>8. /\ DOMAIN rows' = DOMAIN rows
      /\ \A i \in DOMAIN rows : i # own => rows'[i] = rows[i]
      /\ own # 0 => rows'[own] = row
  BY <1>3, <1>6, <1>7
<1>9. ASSUME NEW i \in DOMAIN rows, i # own
       PROVE  Excused(i) => Excused(i)'
  <2>1. rows'[i] = rows[i] /\ proc'[rows'[i].proc] = proc[rows[i].proc]
    BY <1>1, <1>2, <1>4, <1>8, <1>9
  <2> QED
    BY <2>1 DEF Excused, BroughtBack
<1> SUFFICES ASSUME NEW i \in DOMAIN rows, rows'[i].told = "did not finish" \/ i = page
             PROVE  Excused(i)'
  BY <1>8 DEF NoneOverwritten
<1>10. CASE i = own
  <2>1. own # 0 /\ rows'[i].told = error /\ rows'[i].proc = p
    BY <1>2, <1>5, <1>8, <1>10
  <2>2. proc'[p].polled
    BY <1>1, <1>10, <2>1
  <2> QED
    BY <2>1, <2>2 DEF Excused
<1>11. CASE i # own
  BY <1>8, <1>9, <1>11 DEF NoneOverwritten
<1> QED
  BY <1>10, <1>11

\* A process that goes on writes neither of the two notes about its end.
LEMMA SetNotes ==
    ASSUME JobsTypes, NEW p \in Procs, NEW new, proc' = [proc EXCEPT ![p] = new],
           new.end = proc[p].end, new.polled = proc[p].polled
    PROVE  \A q \in Procs : proc'[q].end = proc[q].end /\ proc'[q].polled = proc[q].polled
  BY DEF JobsTypes

LEMMA GoesNotes ==
    ASSUME JobsTypes, NEW p \in Procs, NEW at, Goes(p, at)
    PROVE  \A q \in Procs : proc'[q].end = proc[q].end /\ proc'[q].polled = proc[q].polled
<1> DEFINE new == [proc[p] EXCEPT !.at = at]
<1>1. proc' = [proc EXCEPT ![p] = new]
  BY DEF Goes
<1>2. new.end = proc[p].end /\ new.polled = proc[p].polled
  BY DEF JobsTypes, ProcState
<1> HIDE DEF new
<1> QED
  BY <1>1, <1>2, SetNotes

LEMMA QuietExcused ==
    ASSUME JobsInv, TruthInv, NoneOverwritten, UNCHANGED <<rows, page, dump>>,
           \A q \in Procs : proc'[q].end = proc[q].end /\ proc'[q].polled = proc[q].polled
    PROVE  NoneOverwritten'
<1>1. JobsTypes /\ OpenRows /\ 0 \notin DOMAIN rows' /\ (page # 0 => page \in DOMAIN rows)
  BY RowsTyped DEF JobsInv, RowsInv, PolledOld, TruthInv
<1> QED
  BY <1>1, ClosesExcused

\* A start closes only rows that are open, of runs that have not ended or brought back.
LEMMA StartExcused ==
    ASSUME JobsInv, TruthInv, NoneOverwritten, NEW p \in Procs, start(p),
           UNCHANGED <<page, dump>>
    PROVE  NoneOverwritten'
<1> DEFINE one == [NoProc EXCEPT !.at = "starting"]
           new == [one EXCEPT !.row = Len(rows) + 1]
<1>0. JobsTypes /\ Len(rows) \in Nat /\ DOMAIN rows = 1..Len(rows)
  BY RowsTyped DEF JobsInv
<1>1. one.end = NoProc.end /\ one.polled = NoProc.polled
  BY DEF NoProc
<1>2. proc' = [proc EXCEPT ![p] = new] /\ proc[p] = NoProc
  BY DEF start, Unused
<1> HIDE DEF one
<1>3. new.end = one.end /\ new.polled = one.polled
  <2>1. one \in ProcState
    BY DEF one, NoProc, ProcState, Stages, Endings
  <2> QED
    BY <2>1 DEF ProcState
<1> HIDE DEF new
<1>4. \A q \in Procs : proc'[q].end = proc[q].end /\ proc'[q].polled = proc[q].polled
  BY <1>0, <1>1, <1>2, <1>3, SetNotes
<1>5. /\ rows' \in Seq(RowState) /\ Len(rows') = Len(rows) + 1
      /\ rows'[Len(rows) + 1] = Row(p)
      /\ \A i \in DOMAIN rows : /\ rows'[i].proc = rows[i].proc
                                /\ rows'[i].told = rows[i].told \/ rows[i].open
  BY <1>0, StartRows
<1>6. rows'[Len(rows) + 1].told = ""
  <2>1. Row(p).told = ""
    BY DEF Row
  <2> QED
    BY <1>5, <2>1
<1>7. DOMAIN rows' = 1..(Len(rows) + 1)
  BY <1>5, OneMore
<1>8. /\ 0 \notin DOMAIN rows' /\ DOMAIN rows \subseteq DOMAIN rows'
      /\ \A i \in DOMAIN rows' : i \in DOMAIN rows \/ rows'[i].told = ""
  BY <1>0, <1>6, <1>7, OneMore
<1>9. OpenRows /\ (page # 0 => page \in DOMAIN rows)
  BY DEF JobsInv, RowsInv, PolledOld, TruthInv
<1> QED
  BY <1>0, <1>4, <1>5, <1>8, <1>9, ClosesExcused

LEMMA HandleExcused ==
    ASSUME JobsInv, TruthInv, NoneOverwritten, NEW p \in Procs, Handle(p)
    PROVE  NoneOverwritten'
<1>0. /\ JobsTypes /\ Alive(p) /\ UNCHANGED <<page, dump>>
      /\ Len(rows) \in Nat /\ DOMAIN rows = 1..Len(rows) /\ proc[p] \in ProcState
  BY RowsTyped DEF JobsInv, JobsTypes, Alive, Handle
<1>1. CASE Goes(p, "working") /\ UNCHANGED rows
  BY <1>0, <1>1, GoesNotes, QuietExcused
<1>2. CASE RunAutoRenewals(p)
  BY <1>0, <1>1, <1>2, EndExcused DEF RunAutoRenewals
<1>3. CASE ImportRegistry(p) /\ proc[p].row # 0
  <2> DEFINE new == [[proc[p] EXCEPT !.at = "working"] EXCEPT !.file = clock]
  <2>1. proc' = [proc EXCEPT ![p] = new] /\ UNCHANGED rows
    BY <1>3 DEF ImportRegistry
  <2>2. new.end = proc[p].end /\ new.polled = proc[p].polled
    BY <1>0 DEF ProcState
  <2> HIDE DEF new
  <2> QED
    BY <1>0, <2>1, <2>2, SetNotes, QuietExcused
<1>4. CASE claim_unattended_run(p) /\ is_running
  <2> DEFINE new == [[proc[p] EXCEPT !.at = "closing"] EXCEPT !.fails = TRUE]
  <2>1. proc' = [proc EXCEPT ![p] = new] /\ UNCHANGED rows
    BY <1>4 DEF claim_unattended_run
  <2>2. new.end = proc[p].end /\ new.polled = proc[p].polled
    BY <1>0 DEF ProcState
  <2> HIDE DEF new
  <2> QED
    BY <1>0, <2>1, <2>2, SetNotes, QuietExcused
<1>5. CASE claim_unattended_run(p) /\ ~is_running
  <2> DEFINE new == [[[proc[p] EXCEPT !.at = "working"] EXCEPT !.row = Len(rows) + 1]
                     EXCEPT !.file = clock]
  <2>1. proc' = [proc EXCEPT ![p] = new] /\ rows' = Append(rows, Row(p))
    BY <1>5 DEF claim_unattended_run
  <2>2. new.end = proc[p].end /\ new.polled = proc[p].polled
    BY <1>0 DEF ProcState
  <2> HIDE DEF new
  <2>3. \A q \in Procs : proc'[q].end = proc[q].end /\ proc'[q].polled = proc[q].polled
    BY <1>0, <2>1, <2>2, SetNotes
  <2>4. Row(p) \in RowState /\ Row(p).told = "" /\ rows \in Seq(RowState)
    BY <1>0 DEF Row, RowState, JobsTypes, Endings
  <2> DEFINE begun == Row(p)
  <2> HIDE DEF begun
  <2>5. rows' = Append(rows, begun) /\ begun \in RowState /\ begun.told = ""
    BY <2>1, <2>4 DEF begun
  <2>6. /\ DOMAIN rows' = 1..(Len(rows) + 1) /\ rows'[Len(rows) + 1].told = ""
        /\ \A i \in DOMAIN rows : rows'[i] = rows[i]
    <3>1. rows \in Seq(RowState) /\ begun \in RowState /\ rows' = Append(rows, begun)
      BY <2>4, <2>5
    <3>2. /\ rows' \in Seq(RowState) /\ Len(rows') = Len(rows) + 1
          /\ rows'[Len(rows) + 1] = begun
          /\ \A i \in 1..Len(rows) : rows'[i] = rows[i]
      BY <3>1, AppendProperties
    <3> QED
      BY <1>0, <2>5, <3>2, OneMore
  <2>7. /\ 0 \notin DOMAIN rows' /\ DOMAIN rows \subseteq DOMAIN rows'
        /\ \A i \in DOMAIN rows' : i \in DOMAIN rows \/ rows'[i].told = ""
    BY <1>0, <2>6, OneMore
  <2>8. OpenRows /\ (page # 0 => page \in DOMAIN rows)
    BY DEF JobsInv, RowsInv, PolledOld, TruthInv
  <2> QED
    BY <1>0, <2>3, <2>6, <2>7, <2>8, ClosesExcused
<1> QED
  BY <1>1, <1>2, <1>3, <1>4, <1>5 DEF Handle, ImportRegistry

LEMMA WorkExcused ==
    ASSUME JobsInv, TruthInv, NoneOverwritten, NEW p \in Procs, Work(p)
    PROVE  NoneOverwritten'
<1>0. JobsTypes /\ proc[p] \in ProcState /\ UNCHANGED <<rows, page, dump>>
  BY DEF JobsInv, JobsTypes, Work
<1>1. CASE Goes(p, "broke") \/ Goes(p, "worked")
  BY <1>0, <1>1, GoesNotes, QuietExcused
<1>2. ASSUME NEW problems \in BOOLEAN,
             proc' = [proc EXCEPT ![p].at = "worked", ![p].fails = problems]
      PROVE  NoneOverwritten'
  <2> DEFINE new == [[proc[p] EXCEPT !.at = "worked"] EXCEPT !.fails = problems]
  <2>1. proc' = [proc EXCEPT ![p] = new]
    BY <1>2
  <2>2. new.end = proc[p].end /\ new.polled = proc[p].polled
    BY <1>0 DEF ProcState
  <2> HIDE DEF new
  <2> QED
    BY <1>0, <2>1, <2>2, SetNotes, QuietExcused
<1>3. ASSUME NEW idle \in BOOLEAN,
             proc' = [proc EXCEPT ![p].at = "closing", ![p].idle = idle]
      PROVE  NoneOverwritten'
  <2> DEFINE new == [[proc[p] EXCEPT !.at = "closing"] EXCEPT !.idle = idle]
  <2>1. proc' = [proc EXCEPT ![p] = new]
    BY <1>3
  <2>2. new.end = proc[p].end /\ new.polled = proc[p].polled
    BY <1>0 DEF ProcState
  <2> HIDE DEF new
  <2> QED
    BY <1>0, <2>1, <2>2, SetNotes, QuietExcused
<1> QED
  BY <1>1, <1>2, <1>3 DEF Work

\* A poll takes a row that is open, and closes the one it took.
LEMMA PageExcused ==
    ASSUME JobsInv, TruthInv, NoneOverwritten,
           (\E i \in DOMAIN rows : PollReads(i)) \/ close_if_stale
    PROVE  NoneOverwritten'
<1>0. /\ JobsTypes /\ OpenRows /\ 0 \notin DOMAIN rows /\ UNCHANGED <<proc, dump>>
      /\ page # 0 => page \in DOMAIN rows
  BY RowsTyped DEF JobsInv, RowsInv, PolledOld, TruthInv, PollReads, close_if_stale
<1>1. CASE \E i \in DOMAIN rows : PollReads(i)
  <2>1. UNCHANGED rows /\ page' \in DOMAIN rows /\ rows[page'].open
    BY <1>1 DEF PollReads
  <2> QED
    BY <1>0, <2>1, ClosesExcused
<1>2. CASE close_if_stale
  <2> DEFINE row == close_scan(rows[page], "did not finish")
  <2>1. /\ rows' = [rows EXCEPT ![page] = row] /\ page' = 0 /\ page \in DOMAIN rows
    BY <1>0, <1>2 DEF close_if_stale
  <2>2. rows[page] \in RowState
    BY <1>0, <2>1, RowsTyped
  <2>3. row.proc = rows[page].proc
    BY <2>2 DEF close_scan, RowState
  <2> HIDE DEF row
  <2>4. /\ DOMAIN rows' = DOMAIN rows
        /\ \A i \in DOMAIN rows : /\ rows'[i].proc = rows[i].proc
                                  /\ rows'[i].told = rows[i].told \/ i = page
    BY <2>1, <2>3
  <2> QED
    BY <1>0, <2>1, <2>4, ClosesExcused
<1> QED
  BY <1>1, <1>2

LEMMA DumpRowsFromOne ==
    ASSUME JobsTypes
    PROVE  0 \notin DOMAIN dump.rows
<1> DEFINE old == dump.rows
<1>1. old \in Seq(RowState)
  BY DEF JobsTypes
<1> HIDE DEF old
<1>2. 0 \notin DOMAIN old
  BY <1>1
<1> QED
  BY <1>2 DEF old

\* A backup holds what the rows say, and a restored site has no poll under way.
LEMMA BackupExcused ==
    ASSUME JobsInv, TruthInv, NoneOverwritten, create_backup \/ restore_backup
    PROVE  NoneOverwritten'
<1>1. CASE create_backup
  <2> DEFINE now == [rows |-> rows, runs |-> runs]
  <2>1. UNCHANGED <<rows, proc, page>> /\ dump' = now /\ dump.rows = <<>>
    BY <1>1 DEF create_backup
  <2>2. now.rows = rows
    OBVIOUS
  <2> HIDE DEF now
  <2>3. \A i : ~BroughtBack(i)
    BY <2>1, EmptySeq DEF BroughtBack
  <2> SUFFICES ASSUME NEW i \in DOMAIN rows, rows[i].told = "did not finish" \/ i = page
               PROVE  Excused(i)'
    BY <2>1 DEF NoneOverwritten
  <2>4. proc[rows[i].proc].end = "" \/ proc[rows[i].proc].polled
    BY <2>3 DEF NoneOverwritten, Excused
  <2> QED
    BY <2>1, <2>4 DEF Excused
<1>2. CASE restore_backup
  <2>0. JobsTypes
    BY DEF JobsInv
  <2>1. rows' = dump.rows /\ UNCHANGED <<dump, page>> /\ page = 0
    BY <1>2 DEF restore_backup
  <2> SUFFICES ASSUME NEW i \in DOMAIN dump.rows,
                      dump.rows[i].told = "did not finish" \/ i = 0
               PROVE  Excused(i)'
    BY <2>1 DEF NoneOverwritten
  <2>2. i # 0
    BY <2>0, DumpRowsFromOne
  <2> QED
    BY <2>1, <2>2 DEF Excused, BroughtBack
<1> QED
  BY <1>1, <1>2

LEMMA ExcusedStep ==
    AllInv /\ [JobsNext]_jobsVars => NoneOverwritten'
<1> SUFFICES ASSUME AllInv, [JobsNext]_jobsVars PROVE NoneOverwritten'
  OBVIOUS
<1>0. JobsInv /\ JobsTypes /\ TruthInv /\ NoneOverwritten
  BY DEF AllInv, JobsInv
<1>1. ASSUME NEW p \in Procs,
             \/ RenewalRunView(p) \/ RegistryImportRunView(p) \/ launch_scan(p) \/ launch_import(p)
             \/ StartFromTimer(p) \/ recorded_request_run(p) \/ start_run(p) \/ Handle(p)
             \/ Work(p) \/ finish_scan(p) \/ StoppedWithAnError(p) \/ run_recorded(p)
             \/ Terminated(p) \/ Killed(p)
      PROVE  NoneOverwritten'
  <2>1. ASSUME NEW at, Goes(p, at), UNCHANGED <<rows, page, dump>> PROVE NoneOverwritten'
    BY <1>0, <2>1, GoesNotes, QuietExcused
  <2>2. CASE RenewalRunView(p) \/ RegistryImportRunView(p)
    BY <1>0, <2>2, StartExcused
    DEF RenewalRunView, RegistryImportRunView, start_scan, start_import
  <2>3. CASE launch_scan(p) \/ launch_import(p)
    BY <1>0, <2>1, <2>3, EndExcused DEF launch_scan, launch_import, CouldNotStart, Alive
  <2>4. CASE StartFromTimer(p) \/ recorded_request_run(p) \/ start_run(p)
    BY <2>1, <2>4 DEF StartFromTimer, recorded_request_run, start_run
  <2>5. CASE Handle(p) \/ Work(p)
    BY <1>0, <2>5, HandleExcused, WorkExcused
  <2>6. CASE finish_scan(p) \/ StoppedWithAnError(p)
    BY <1>0, <2>6, EndExcused DEF finish_scan, StoppedWithAnError, Alive
  <2>7. CASE run_recorded(p) \/ Terminated(p) \/ Killed(p)
    BY <2>1, <2>7 DEF run_recorded, Terminated, Killed
  <2> QED
    BY <1>1, <2>2, <2>3, <2>4, <2>5, <2>6, <2>7
<1>2. CASE (\E i \in DOMAIN rows : PollReads(i)) \/ close_if_stale
  BY <1>0, <1>2, PageExcused
<1>3. CASE create_backup \/ restore_backup
  BY <1>0, <1>3, BackupExcused
<1>4. CASE ClockTicks \/ UNCHANGED jobsVars
  BY <1>0, <1>4, QuietExcused DEF ClockTicks, jobsVars
<1> QED
  BY <1>1, <1>2, <1>3, <1>4 DEF JobsNext

LEMMA TruthBegins ==
    JobsInit => TruthInv /\ EndedRuns /\ NoneOverwritten
<1> SUFFICES ASSUME JobsInit PROVE TruthInv /\ EndedRuns /\ NoneOverwritten
  OBVIOUS
<1>1. NoRun.state = "none" /\ NoProc.end = "" /\ NoProc.at = "none"
  BY DEF NoRun, NoProc
<1>2. /\ rows = <<>> /\ dump.rows = <<>>
      /\ \A p \in Procs : runs[p] = NoRun /\ dump.runs[p] = NoRun /\ proc[p] = NoProc
  BY DEF JobsInit
<1>3. DOMAIN <<>> = {}
  BY EmptySeq
<1>4. TruthInv
  BY <1>1, <1>2, <1>3 DEF TruthInv, EndsOnce, ToldBy, OnlyRow, OpenRows
<1>5. EndedRuns
  BY <1>1, <1>2 DEF EndedRuns
<1>6. NoneOverwritten
  BY <1>2, <1>3 DEF NoneOverwritten, JobsInit
<1> QED
  BY <1>4, <1>5, <1>6

-----------------------------------------------------------------------------
LEMMA JobsMean ==
    AllInv => RunsAccounted
<1> SUFFICES ASSUME AllInv PROVE RunsAccounted
  OBVIOUS
<1>0. JobsTypes /\ RowsInv /\ RunsInv /\ TruthInv /\ EndedRuns /\ NoneOverwritten
  BY DEF AllInv, JobsInv
<1>1. OneAtATime
  <2> SUFFICES ASSUME NEW p \in Procs, NEW q \in Procs, p # q, proc[p].at = "working",
                      proc[q].at = "working", job # "bulk-email"
               PROVE  job = "registry" /\ (Stale(proc[p].row) \/ Stale(proc[q].row))
    BY DEF OneAtATime
  <2>1. job # "renewals"
    BY <1>0 DEF RowsInv, OneScan
  <2>2. job \in JOBS
    BY <1>0 DEF JobsTypes
  <2> QED
    BY <1>0, <2>1, <2>2, StagesApart DEF JOBS, RowsInv, OneLoad
<1>2. RowsTellTruth
  BY <1>0 DEF RowsTellTruth, TruthInv, ToldBy, OpenRows, NoneOverwritten, Excused
<1>3. RecordsTellTruth
  <2> SUFFICES ASSUME NEW p \in Procs
               PROVE  /\ proc[p].at = "recorded" /\ runs[p].at >= clock - Retention =>
                            runs[p].state = "running"
                      /\ runs[p].state = "running" => Alive(p) \/ proc[p].at = "dead"
                      /\ runs[p].state = "succeeded" => proc[p].at = "ended" /\ ~proc[p].fails
                      /\ runs[p].state = "failed" =>
                            \/ proc[p].fails \/ proc[p].at = "dead"
                            \/ dump.runs[p].state = "running"
    BY DEF RecordsTellTruth
  <2>1. runs[p].at \in Nat /\ clock - Retention \in Int
    BY <1>0, RunsTyped, JobLimits DEF RunState, JobsTypes
  <2>2. runs[p].at >= clock - Retention => ~(runs[p].at < clock - Retention)
    BY <2>1, LessIsLeq
  <2>3. /\ runs[p].state = "succeeded" => proc[p].at = "ended" /\ ~proc[p].fails
        /\ runs[p].state = "failed" =>
              \/ proc[p].fails \/ proc[p].at = "dead" \/ dump.runs[p].state = "running"
    BY <1>0 DEF EndedRuns
  <2> QED
    BY <1>0, <2>2, <2>3 DEF RunsInv, Alive
<1> QED
  BY <1>1, <1>2, <1>3 DEF RunsAccounted

\* No two scans or loads of the registry do their work at once unless one has outlived the
\* limit; a row tells how its run really ended, or is past the limit and says that it did not
\* finish, of a run that had ended only where a poll held the row as it ended or a backup
\* brought it back; no run that ended leaves its row open; and a record says running, succeeded or
\* failed only of a run that is, did or was killed, whatever is killed, pruned, polled or
\* restored (start, scan_lock, Ends, close_if_stale, run_recorded, close_restored_runs).
THEOREM RunsAreAccounted == JobsSpec => []RunsAccounted
<1>1. JobsInit => AllInv
  BY JobsBegin, TruthBegins DEF AllInv
<1>2. AllInv /\ [JobsNext]_jobsVars => AllInv'
  BY JobsStep, TruthStep, ExcusedStep DEF AllInv
<1> QED
  BY <1>1, <1>2, JobsMean, PTL DEF JobsSpec

=============================================================================
