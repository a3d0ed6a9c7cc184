------------------------------- MODULE Backups -------------------------------
(***************************************************************************)
(* Database dumps and what the Scheduled tasks page says of the job that   *)
(* takes them (apps/sysadmin/services.py, jobs.py, api/views.py and the    *)
(* commands db_backup, db_restore and db_reset).                           *)
(*                                                                         *)
(* Every dump is a process that copies what pg_dump prints into a gzipped  *)
(* file as it goes; the file's name is the second it began in, unless the  *)
(* operator gave one.  The nightly job is recorded as a run, and deletes   *)
(* old dumps once its own is written.  Processes are told to stop, are     *)
(* killed and meet full disks, and the file stays behind.                  *)
(*                                                                         *)
(* The clock counts instants, some of which make a day; the timer fires at *)
(* some of a day's instants.                                               *)
(***************************************************************************)
EXTENDS Integers, Sequences, FiniteSets, FiniteSetsExt

CONSTANTS Dumpers,      \* processes that take a dump, numbered as they start
          Hands,        \* file names the operator makes up
          Instants,     \* instants of a day
          Fires,        \* the ones the timer fires at
          PruneDays,    \* what the environment gives --prune-days
          GraceTicks,   \* the job's grace
          StaleTicks,   \* the job's stale_after
          LastInstant   \* bound on the clock

VARIABLES clock,
          files,        \* BACKUP_DIR, by name
          dumper,       \* the processes
          jobruns       \* JobRun rows of the job, by the process they record

backupVars == <<clock, files, dumper, jobruns>>

MIN_PRUNE_DAYS == 1
Clock == 0 .. LastInstant
NoFile == [part |-> "none", by |-> 0, at |-> 0, runs |-> <<>>]
NoDumper == [pc |-> "none", timer |-> FALSE, name |-> 0, kept |-> FALSE]
NoJobRun == [outcome |-> "none", started_at |-> 0]

BackupsInit ==
    /\ clock = 0
    /\ files = [n \in Clock \cup Hands |-> NoFile]
    /\ dumper = [p \in Dumpers |-> NoDumper]
    /\ jobruns = [p \in Dumpers |-> NoJobRun]

Fresh(p) == dumper[p] = NoDumper /\ \A q \in Dumpers : q < p => dumper[q] # NoDumper
Live(p) == dumper[p].pc \in {"started", "dumping", "dumped"}
Writing(p) == dumper[p].pc = "dumping"
At(p, pc) == dumper' = [dumper EXCEPT ![p].pc = pc]

-----------------------------------------------------------------------------
(* Where the job stands.                                                    *)

\* The latest time at or before a moment that the calendar names, looked for day by day.
LOOKBACK_DAYS == 3
Day(t) == t \div Instants
_latest_at_or_before(options, limit) == {h \in options : h <= limit}
previous_trigger(moment) ==
    LET limit(back) == IF back = 0 THEN moment % Instants ELSE Instants - 1
        found(back) == _latest_at_or_before(Fires, limit(back))
        days == {back \in 0 .. LOOKBACK_DAYS - 1 : back <= Day(moment) /\ found(back) # {}}
    IN  IF moment < 0 \/ days = {} THEN -1
        ELSE (Day(moment) - Min(days)) * Instants + Max(found(Min(days)))

recording_since == 0

run_outcome(p, now) ==
    IF jobruns[p].outcome = "running" /\ now - jobruns[p].started_at > StaleTicks
    THEN "stopped" ELSE jobruns[p].outcome

RunRows == {p \in Dumpers : jobruns[p] # NoJobRun}
latest_run ==
    CHOOSE p \in RunRows : \A q \in RunRows \ {p} :
        \/ jobruns[q].started_at < jobruns[p].started_at
        \/ jobruns[q].started_at = jobruns[p].started_at /\ q < p

_job_status(now) ==
    LET due == previous_trigger(now - GraceTicks)
        outcome == run_outcome(latest_run, now)
    IN  IF RunRows = {} THEN IF due < recording_since THEN "waiting" ELSE "never_run"
        ELSE IF outcome # "succeeded" THEN outcome
        ELSE IF jobruns[latest_run].started_at < due THEN "overdue" ELSE "ok"

\* The runs ?outcome=failed lists.
JobRunListView(now) ==
    {p \in RunRows : \/ jobruns[p].outcome = "failed"
                     \/ jobruns[p].outcome = "running" /\ jobruns[p].started_at < now - StaleTicks}

-----------------------------------------------------------------------------
(* Taking a dump.                                                           *)

\* The nightly job, or the operator's command run as that job.
RunBackup(p) ==
    /\ Fresh(p)
    /\ dumper' = [dumper EXCEPT ![p] = [NoDumper EXCEPT !.pc = "started", !.timer = TRUE]]
    /\ \/ jobruns' = [jobruns EXCEPT ![p] = [outcome |-> "running", started_at |-> clock]]
       \/ UNCHANGED jobruns      \* the database did not take the record
    /\ UNCHANGED <<clock, files>>

\* POST /system/backups, in the request; it leaves no JobRun.
BackupListCreateView(p) ==
    /\ Fresh(p)
    /\ At(p, "started")
    /\ UNCHANGED <<clock, files, jobruns>>

Recorded(p) == jobruns[p].outcome = "running"
Ends(p, outcome) ==
    /\ At(p, "ended")
    /\ jobruns' = [jobruns EXCEPT ![p].outcome = IF Recorded(p) THEN outcome ELSE @]

\* Neither pg_dump nor docker; no file is touched.
_pg_command(p) ==
    /\ dumper[p].pc = "started"
    /\ Ends(p, "failed")
    /\ UNCHANGED <<clock, files>>

\* A generated name is of the instant the dump begins in.  Opening the file empties it,
\* whoever else is writing it or wrote it; pg_dump reads the database as it is then.
create_backup(p) ==
    /\ dumper[p].pc = "started"
    /\ \E name \in {clock} \cup IF dumper[p].timer THEN Hands ELSE {} :
       LET mixed == \E q \in Dumpers \ {p} : Writing(q) /\ dumper[q].name = name
       IN  /\ files' = [files EXCEPT ![name] =
                          [part |-> IF mixed THEN "mixed" ELSE "open", by |-> p, at |-> clock,
                           runs |-> jobruns]]
           /\ dumper' = [dumper EXCEPT ![p].pc = "dumping", ![p].name = name]
    /\ UNCHANGED <<clock, jobruns>>

\* Closing the file dates it; the file another dump deleted meanwhile is gone, and reading
\* its size fails.
Left(p, part) ==
    files' = [files EXCEPT ![dumper[p].name] =
                IF @.part = "none" THEN @
                ELSE [@ EXCEPT !.part = IF @ = "mixed" THEN "mixed" ELSE part, !.at = clock,
                               !.runs = IF part \in {"whole", "short"} THEN @ ELSE <<>>]]
_stream_pg(p) ==
    /\ Writing(p)
    /\ Left(p, "whole")
    /\ IF files[dumper[p].name].part = "none" THEN Ends(p, "failed")
       ELSE /\ dumper' = [dumper EXCEPT ![p].pc = "dumped", ![p].kept = TRUE]
            /\ UNCHANGED jobruns
    /\ UNCHANGED <<clock>>

\* pg_dump fails: BackupError, and the file goes.
DumpFails(p) ==
    /\ Writing(p)
    /\ files' = [files EXCEPT ![dumper[p].name] = NoFile]
    /\ Ends(p, "failed")
    /\ UNCHANGED <<clock>>

\* The copy fails otherwise, as on a full disk: the file stays, and closing it ends it as
\* a good gzip file when there is room for the end.
_kill_pg(p) ==
    /\ Writing(p)
    /\ \E part \in {"short", "broken"} : Left(p, part)
    /\ Ends(p, "failed")
    /\ UNCHANGED <<clock>>

Generated(n) == n \notin Hands
prune_backups(days) ==
    [n \in DOMAIN files |->
        IF Generated(n) /\ files[n].at < clock - days * Instants THEN NoFile ELSE files[n]]

\* --prune-days is left out or empty (as in the request), is not a whole number of at
\* least 1, which fails the run, or is what the environment says.
Prune(p) ==
    /\ dumper[p].pc = "dumped"
    /\ \/ Ends(p, "succeeded") /\ UNCHANGED files
       \/ dumper[p].timer /\ Ends(p, "failed") /\ UNCHANGED files
       \/ /\ dumper[p].timer /\ PruneDays >= MIN_PRUNE_DAYS /\ Ends(p, "succeeded")
          /\ files' = prune_backups(PruneDays)
    /\ UNCHANGED <<clock>>

\* SIGTERM, at the unit's timeout or a stop: the run is noted as failed, and the file is
\* closed on the way out.  A request's worker, and kill -9, note and close nothing.
Terminated(p) ==
    /\ Live(p) /\ Recorded(p)
    /\ IF Writing(p) THEN Left(p, "short") ELSE UNCHANGED files
    /\ Ends(p, "failed")
    /\ UNCHANGED <<clock>>
Killed(p) ==
    /\ Live(p)
    /\ IF Writing(p) THEN Left(p, "broken") ELSE UNCHANGED files
    /\ At(p, "killed")
    /\ UNCHANGED <<clock, jobruns>>

-----------------------------------------------------------------------------
(* Restoring one.                                                           *)

list_backups == {n \in DOMAIN files : files[n].part # "none"}

close_restored_runs(r) ==
    [p \in Dumpers |-> IF r[p].outcome = "running" THEN [r[p] EXCEPT !.outcome = "failed"] ELSE r[p]]

\* Reading the dump through to the end: a file cut off without its end, or written by two
\* at once, is refused; one that was closed early reads well.
Readable(n) == files[n].part \in {"whole", "short"}

NoRuns == [p \in Dumpers |-> NoJobRun]
drop_schema == jobruns' = NoRuns

\* psql may stop at an error in the middle; it takes the end of a short dump for the end
\* of the database, and the record of runs may be among what that leaves out.
restore_backup(n) ==
    /\ Readable(n)
    /\ jobruns' = close_restored_runs(files[n].runs) \/ drop_schema

\* The commands, on a site that was stopped; the second is for a development database.
db_restore(n) ==
    /\ \A p \in Dumpers : ~Live(p)
    /\ restore_backup(n)
    /\ UNCHANGED <<clock, files, dumper>>
db_reset ==
    /\ \A p \in Dumpers : ~Live(p)
    /\ drop_schema
    /\ UNCHANGED <<clock, files, dumper>>

Tick ==
    /\ clock < LastInstant
    /\ clock' = clock + 1
    /\ UNCHANGED <<files, dumper, jobruns>>

BackupsNext ==
    \/ \E p \in Dumpers :
          \/ RunBackup(p) \/ BackupListCreateView(p) \/ _pg_command(p) \/ create_backup(p)
          \/ _stream_pg(p) \/ DumpFails(p) \/ _kill_pg(p) \/ Prune(p)
          \/ Terminated(p) \/ Killed(p)
    \/ \E n \in list_backups : db_restore(n)
    \/ db_reset \/ Tick

BackupsSpec == BackupsInit /\ [][BackupsNext]_backupVars

-----------------------------------------------------------------------------
\* A page that says the nightly backup is ok speaks of a dump: its latest run began since
\* the last firing of the timer that is due, and the dump it wrote is still there, whole,
\* unless another dump took its file's name; so it is
\* also after prunes by other runs and after a restore of an older record (_job_status,
\* prune_backups, restore_backup).
OkMeansDump ==
    _job_status(clock) = "ok" =>
        LET p == latest_run
            file == files[dumper[p].name] IN
        /\ ~\E h \in jobruns[p].started_at + 1 .. clock - GraceTicks : h % Instants \in Fires
        /\ dumper[p].kept
        /\ \/ file.part = "whole" /\ file.by = p
           \/ \E q \in Dumpers \ {p} : dumper[q].name = dumper[p].name

\* The runs the page lists as failed are the ones it calls failed or stopped.
FailedListed ==
    JobRunListView(clock) = {p \in RunRows : run_outcome(p, clock) \in {"failed", "stopped"}}

\* A file in BACKUP_DIR whose process came to its own end, and was not killed, holds a
\* whole dump: a backup that fails part way deletes the file it had started.
NoPartialDump ==
    \A n \in list_backups :
        (\A p \in Dumpers : dumper[p].pc # "none" => dumper[p].pc = "ended")
        => files[n].part = "whole"
=============================================================================
