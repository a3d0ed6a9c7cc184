-------------------------------- MODULE Jobs ---------------------------------
(***************************************************************************)
(* The scheduled jobs as the Scheduled tasks page sees them                *)
(* (apps/sysadmin/recording.py, jobs.py, services.py, api/views.py;        *)
(* apps/payments/renewals/background.py and its command;                   *)
(* apps/aircraft/registry.py and its command).                             *)
(*                                                                         *)
(* A job is a process of its own, started by its timer or by Run now.  It  *)
(* keeps a JobRun record while it runs; a run of the renewals that the     *)
(* page started, and every load of the FAA registry, also has a row that   *)
(* keeps a second one from starting.  Processes are killed, machines are   *)
(* slow, and a row whose process died stays open until the limit.          *)
(***************************************************************************)
EXTENDS Integers, Sequences, FiniteSets

CONSTANTS Procs,        \* processes of a behaviour, numbered as they start
          StaleAfter,   \* the age after which an open row counts for nothing
          Retention,    \* the age after which a JobRun is pruned
          MaxRows,      \* bound on the rows of a behaviour
          MaxClock      \* bound on the clock

VARIABLES job,          \* the job this behaviour is about
          clock,
          rows,         \* RenewalScan or RegistryImport rows, oldest first
          runs,         \* JobRun rows, by the process they record
          proc,         \* the processes
          page,         \* the row a poll of the page is about to close, 0 for none
          register,     \* the day whose registry file the registrations hold, 0 for none
          dump          \* the last backup

ASSUME JobLimits == StaleAfter \in Nat /\ Retention \in Nat

jobsVars == <<job, clock, rows, runs, proc, page, register, dump>>

JOBS == {"renewals", "registry", "bulk-email"}
NoRun == [state |-> "none", at |-> 0, idle |-> FALSE]
NoProc == [at |-> "none", row |-> 0, file |-> 0, fails |-> FALSE, skip |-> FALSE, idle |-> FALSE,
           \* Nothing in the code reads these two: how the run really ended, once it has, and
           \* whether a poll was holding its row then.
           end |-> "", polled |-> FALSE]

JobsInit ==
    /\ job \in JOBS /\ clock = 1
    /\ rows = <<>> /\ runs = [p \in Procs |-> NoRun] /\ proc = [p \in Procs |-> NoProc]
    /\ page = 0 /\ register = 0
    /\ dump = [rows |-> <<>>, runs |-> [p \in Procs |-> NoRun]]

Row(p) == [at |-> clock, open |-> TRUE, told |-> "", proc |-> p]
Stale(i) == rows[i].at < clock - StaleAfter
is_running == \E i \in DOMAIN rows : rows[i].open /\ ~Stale(i)
close_scan(row, error) == [row EXCEPT !.open = FALSE, !.told = error]

Alive(p) == proc[p].at \notin {"none", "dead", "ended"}
Unused(p) == proc[p] = NoProc /\ \A q \in Procs : q < p => proc[q] # NoProc
Goes(p, at) == proc' = [proc EXCEPT ![p].at = at]

\* A run ends, and closes its row, when it has one, to say how.
Ends(p, at, end) ==
    /\ proc' = [proc EXCEPT ![p].at = at, ![p].end = end, ![p].fails = (end = "error") \/ @,
                            ![p].skip = (end = "busy"),
                            ![p].polled = page # 0 /\ page = proc[p].row]
    /\ rows' = IF proc[p].row = 0 THEN rows
               ELSE [rows EXCEPT ![proc[p].row] = close_scan(@, end)]

-----------------------------------------------------------------------------
(* Starting a process.                                                     *)

\* Check, close what is stale and write, under an advisory lock.
start(p) ==
    /\ Unused(p) /\ Len(rows) < MaxRows
    /\ ~is_running
    /\ rows' = Append([i \in DOMAIN rows |-> IF rows[i].open
                                             THEN close_scan(rows[i], "did not finish") ELSE rows[i]],
                      Row(p))
    /\ proc' = [proc EXCEPT ![p] = [NoProc EXCEPT !.at = "starting", !.row = Len(rows) + 1]]

start_scan(p) == job = "renewals" /\ start(p)
start_import(p) == job = "registry" /\ start(p)

\* The page's Run now; a rehearsal of the renewals writes nothing.
RenewalRunView(p) ==
    /\ start_scan(p)
    /\ UNCHANGED <<job, clock, runs, page, register, dump>>
RegistryImportRunView(p) ==
    /\ start_import(p)
    /\ UNCHANGED <<job, clock, runs, page, register, dump>>

CouldNotStart(p) == Ends(p, "ended", "could not start")

launch_scan(p) ==
    /\ job = "renewals" /\ proc[p].at = "starting"
    /\ (Goes(p, "launched") /\ UNCHANGED rows) \/ CouldNotStart(p)
    /\ UNCHANGED <<job, clock, runs, page, register, dump>>
launch_import(p) ==
    /\ job = "registry" /\ proc[p].at = "starting"
    /\ (Goes(p, "launched") /\ UNCHANGED rows) \/ CouldNotStart(p)
    /\ UNCHANGED <<job, clock, runs, page, register, dump>>

StartFromTimer(p) ==
    /\ Unused(p)
    /\ Goes(p, "launched")
    /\ UNCHANGED <<job, clock, rows, runs, page, register, dump>>

\* The bulk email sender's Run now works inside the request.
recorded_request_run(p) == job = "bulk-email" /\ StartFromTimer(p)

pruned == [q \in Procs |-> IF runs[q].at < clock - Retention THEN NoRun ELSE runs[q]]

\* A database that does not take the record leaves the run unrecorded.
start_run(p) ==
    /\ proc[p].at = "launched"
    /\ \/ runs' = [pruned EXCEPT ![p] = [state |-> "running", at |-> clock, idle |-> FALSE]]
          /\ Goes(p, "recorded")
       \/ runs' = runs /\ Goes(p, "unrecorded")
    /\ UNCHANGED <<job, clock, rows, page, register, dump>>

-----------------------------------------------------------------------------
(* The commands.                                                           *)

\* The renewals' session lock, held while a scan works.
scan_lock(p) == \A q \in Procs \ {p} : proc[q].at # "working"

RunAutoRenewals(p) ==
    /\ job = "renewals"
    /\ IF scan_lock(p)
       THEN Goes(p, "working") /\ UNCHANGED rows
       ELSE Ends(p, "closing", "busy")

\* A load that the timer started writes its row under the lock the page's start takes.
claim_unattended_run(p) ==
    IF is_running
    THEN UNCHANGED rows /\ proc' = [proc EXCEPT ![p].at = "closing", ![p].fails = TRUE]
    ELSE /\ Len(rows) < MaxRows
         /\ rows' = Append(rows, Row(p))
         /\ proc' = [proc EXCEPT ![p].at = "working", ![p].row = Len(rows) + 1, ![p].file = clock]

ImportRegistry(p) ==
    /\ job = "registry"
    /\ IF proc[p].row = 0 THEN claim_unattended_run(p)
       ELSE UNCHANGED rows /\ proc' = [proc EXCEPT ![p].at = "working", ![p].file = clock]

Handle(p) ==
    /\ proc[p].at \in {"recorded", "unrecorded"}
    /\ \/ RunAutoRenewals(p)
       \/ ImportRegistry(p)
       \/ job = "bulk-email" /\ Goes(p, "working") /\ UNCHANGED rows
    /\ UNCHANGED <<job, clock, runs, page, register, dump>>

\* One transaction writes the types, folds the hand-added ones, and the registrations.
ImportAll(p) == register' = proc[p].file
types_only == UNCHANGED register

Work(p) ==
    /\ proc[p].at = "working"
    /\ \/ Goes(p, "broke") /\ UNCHANGED register
       \/ /\ job = "registry" /\ Goes(p, "worked")
          /\ ImportAll(p) \/ types_only
       \/ /\ job = "renewals" /\ UNCHANGED register
          /\ \E problems \in BOOLEAN :
                proc' = [proc EXCEPT ![p].at = "worked", ![p].fails = problems]
       \/ /\ job = "bulk-email" /\ UNCHANGED register
          /\ \E idle \in BOOLEAN : proc' = [proc EXCEPT ![p].at = "closing", ![p].idle = idle]
    /\ UNCHANGED <<job, clock, rows, runs, page, dump>>

finish_scan(p) ==
    /\ proc[p].at = "worked"
    /\ Ends(p, "closing", "finished")
    /\ UNCHANGED <<job, clock, runs, page, register, dump>>

StoppedWithAnError(p) ==
    /\ proc[p].at = "broke"
    /\ Ends(p, "closing", "error")
    /\ UNCHANGED <<job, clock, runs, page, register, dump>>

-----------------------------------------------------------------------------
(* The end of a run.                                                       *)

MutOthersIdle(p) == Procs \ {p}
OthersIdle(p) == {q \in Procs \ {p} : runs[q].idle}

\* save() writes the row again if it was pruned or restored away.
finish(p, status, idle) ==
    LET saved == [runs EXCEPT ![p] = [state |-> status, at |-> IF @.at = 0 THEN clock ELSE @.at,
                                      idle |-> idle]]
    IN  [q \in Procs |-> IF idle /\ q \in OthersIdle(p) THEN NoRun ELSE saved[q]]

Recorded(p) == runs[p].state # "none"

run_recorded(p) ==
    /\ proc[p].at = "closing"
    /\ \/ /\ Recorded(p) /\ Goes(p, "ended")
          /\ runs' = IF proc[p].skip THEN [runs EXCEPT ![p] = NoRun]
                     ELSE finish(p, IF proc[p].fails THEN "failed" ELSE "succeeded",
                                 proc[p].idle /\ ~proc[p].fails)
       \/ Recorded(p) /\ Goes(p, "dead") /\ UNCHANGED runs      \* the save failed
       \/ ~Recorded(p) /\ Goes(p, "ended") /\ UNCHANGED runs
    /\ UNCHANGED <<job, clock, rows, page, register, dump>>

\* SIGTERM is noted in the record, not in the row; a killed process notes nothing.
Terminated(p) ==
    /\ proc[p].at \in {"recorded", "working", "worked", "broke"} /\ Recorded(p)
    /\ runs' = finish(p, "failed", FALSE)
    /\ Goes(p, "dead")
    /\ UNCHANGED <<job, clock, rows, page, register, dump>>

Killed(p) ==
    /\ Alive(p)
    /\ Goes(p, "dead")
    /\ UNCHANGED <<job, clock, rows, runs, page, register, dump>>

-----------------------------------------------------------------------------
(* The page's polls, backups, the clock.                                   *)

\* close_if_stale reads the row, and later saves its own copy of it.
PollReads(i) ==
    /\ job = "renewals" /\ page = 0
    /\ rows[i].open /\ rows[i].at <= clock - StaleAfter
    /\ page' = i
    /\ UNCHANGED <<job, clock, rows, runs, proc, register, dump>>

close_if_stale ==
    /\ page # 0
    /\ rows' = [rows EXCEPT ![page] = close_scan(@, "did not finish")]
    /\ page' = 0
    /\ UNCHANGED <<job, clock, runs, proc, register, dump>>

create_backup ==
    /\ dump.rows = <<>> /\ dump.runs = [p \in Procs |-> NoRun]     \* one backup is enough
    /\ dump' = [rows |-> rows, runs |-> runs]
    /\ UNCHANGED <<job, clock, rows, runs, proc, page, register>>

close_restored_runs(r) ==
    [p \in Procs |-> IF r[p].state = "running" THEN [r[p] EXCEPT !.state = "failed"] ELSE r[p]]

\* Run on a stopped site; a dump has no registrations.
restore_backup ==
    /\ page = 0 /\ \A p \in Procs : ~Alive(p)
    /\ rows' = dump.rows
    /\ runs' = close_restored_runs(dump.runs)
    /\ register' = 0
    /\ UNCHANGED <<job, clock, proc, page, dump>>

ClockTicks ==
    /\ clock < MaxClock
    /\ clock' = clock + 1
    /\ UNCHANGED <<job, rows, runs, proc, page, register, dump>>

JobsNext ==
    \/ \E p \in Procs :
          \/ RenewalRunView(p) \/ RegistryImportRunView(p) \/ launch_scan(p) \/ launch_import(p)
          \/ StartFromTimer(p) \/ recorded_request_run(p) \/ start_run(p) \/ Handle(p)
          \/ Work(p) \/ finish_scan(p) \/ StoppedWithAnError(p) \/ run_recorded(p)
          \/ Terminated(p) \/ Killed(p)
    \/ \E i \in DOMAIN rows : PollReads(i)
    \/ close_if_stale \/ create_backup \/ restore_backup \/ ClockTicks

JobsSpec == JobsInit /\ [][JobsNext]_jobsVars

-----------------------------------------------------------------------------
\* Two processes charge renewals or load the registry at once only when the older one has
\* outlived the limit; the renewals never do (is_running, scan_lock).
OneAtATime ==
    \A p, q \in Procs :
        /\ p # q /\ proc[p].at = "working" /\ proc[q].at = "working" /\ job # "bulk-email"
        => job = "registry" /\ (Stale(proc[p].row) \/ Stale(proc[q].row))

\* A backup brought the row back, open or closed on a run that had not reported.
BroughtBack(i) ==
    i \in DOMAIN dump.rows /\ (dump.rows[i].open \/ dump.rows[i].told = "did not finish")

\* A row says nothing, or that its run did not finish, or how its run really ended; it says
\* that it did not finish only once it is older than the limit, and of a run that had ended
\* only if a poll was holding the row, past the limit, as the run ended, or a backup brought
\* the row back; and no run that ended leaves its row open, a backup's rows excepted (Ends,
\* close_if_stale, start, restore_backup).
RowsTellTruth ==
    \A i \in DOMAIN rows : LET run == proc[rows[i].proc] IN
        /\ rows[i].told \in {"", "did not finish", run.end}
        /\ rows[i].told = "did not finish" =>
              /\ rows[i].at <= clock - StaleAfter
              /\ run.end = "" \/ run.polled \/ BroughtBack(i)
        /\ rows[i].open => run.end = "" \/ (i \in DOMAIN dump.rows /\ dump.rows[i].open)

\* The record of a process at work says running, whatever other runs of the job end, are
\* idle or are skipped meanwhile; one that says running is of a process at work or one that was
\* killed; one that says succeeded is of a run that ended without a problem; and one that says
\* failed is of a run with a problem or killed, or was running in the backup restored
\* (run_recorded, Terminated, close_restored_runs).
RecordsTellTruth ==
    \A p \in Procs :
        /\ proc[p].at = "recorded" /\ runs[p].at >= clock - Retention => runs[p].state = "running"
        /\ runs[p].state = "running" => Alive(p) \/ proc[p].at = "dead"
        /\ runs[p].state = "succeeded" => proc[p].at = "ended" /\ ~proc[p].fails
        /\ runs[p].state = "failed" =>
              proc[p].fails \/ proc[p].at = "dead" \/ dump.runs[p].state = "running"

\* No two runs of a job do its work at once, a row contradicts its run only where a poll held
\* it past the limit as the run ended or a backup brought it back, and the run records say how
\* each run ended.
RunsAccounted == OneAtATime /\ RowsTellTruth /\ RecordsTellTruth

\* A scan that finished is shown as finished, also by a poll that had read its row before
\* (close_if_stale, finish_scan), a row that a backup brought back excepted.
FinishedStays ==
    \A i \in DOMAIN rows :
        proc[rows[i].proc].end = "finished" => rows[i].told = "finished" \/ i \in DOMAIN dump.rows
=============================================================================
