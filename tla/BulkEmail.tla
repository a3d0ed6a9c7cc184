----------------------------- MODULE BulkEmail -----------------------------
(***************************************************************************)
(* One bulk email from draft to delivery: the compose screen's operations  *)
(* (drafts.py, batch.py), the background sender run by a timer and by Run  *)
(* now under one advisory lock (job.py), what becomes of the copies later  *)
(* (delivery.py, mail/bounces.py), and, when it is a mission callout, its  *)
(* answers, reminders and closing (callouts.py).                           *)
(*                                                                         *)
(* Every database write the sender makes outside a transaction is a step   *)
(* of its own, so that a crash, a Stop, a bounce report or the end of the  *)
(* time budget can come between any two of them.  A portal operation holds *)
(* the email's row lock for one transaction and is one step.               *)
(***************************************************************************)
EXTENDS Integers, FiniteSets, Sequences

CONSTANTS
    People,       \* the accounts, numbered in surname order
    AddressBooks, \* the addresses they may have, shared ones included
    Workers,      \* the processes that may run the sender: timer and Run now
    RunNow,       \* the one of them that has a time budget
    MaxRound,     \* the rounds of reminders a callout may have
    Retries,      \* Len(RETRY_DELAYS)
    MaxIncidents  \* refusals, unexpected errors, crashes, timeouts, stops, bounce
                  \* reports and changes of an account or of the sender's role, in all

ASSUME BulkAssumption ==
    /\ People \subseteq Nat /\ IsFiniteSet(People)
    /\ MaxRound \in Nat /\ Retries \in Nat /\ MaxIncidents \in Nat
    /\ "free" \notin Workers

Rounds == 0 .. MaxRound
Keys == Rounds \X People
Round(k) == k[1]
Person(k) == k[2]

VARIABLES
    email,      \* the BulkEmail row, without its counts
    count,      \* its four counts
    row,        \* its BulkEmailRecipient rows, by round and account
    log,        \* the Message-IDs handed out, in order, with the email log's status
    acct,       \* what skip_reason finds of each account
    addr,       \* each account's address
    senderOk,   \* whether the sender may still send the email's type
    callout,    \* the Callout row: "none", "open", or "closed", by hand or by the clock
    answers,    \* the accounts with a CalloutAnswer
    lock,       \* the worker holding the advisory lock, or "free"
    job,        \* each worker's own state inside run_sender
    incidents,  \* how many of those there have been
    late        \* the copies handed over after the callout closed

vars == <<email, count, row, log, acct, addr, senderOk, callout, answers,
          lock, job, incidents, late>>

outside == <<acct, addr, senderOk, callout, answers>>

Incident == incidents < MaxIncidents /\ incidents' = incidents + 1

NoRow == [st |-> "none", mid |-> 0]

ZeroCount == [sent |-> 0, failed |-> 0, skipped |-> 0, bounced |-> 0]

IdleJob == [pc |-> "idle", todo |-> {}, went |-> {}, key |-> <<0, 0>>,
            out |-> "none", next |-> "none", tries |-> 0, tally |-> ZeroCount]

Init ==
    /\ email = [status |-> "draft", started |-> FALSE, due |-> FALSE,
                stop |-> FALSE, typed |-> {}]
    /\ count = ZeroCount
    /\ row = [k \in Keys |-> NoRow]
    /\ log = <<>>
    /\ acct = [p \in People |-> "ok"]
    /\ addr \in AddressBooks
    /\ senderOk = TRUE
    /\ callout \in {"none", "open"}
    /\ answers = {}
    /\ lock = "free"
    /\ job = [w \in Workers |-> IdleJob]
    /\ incidents = 0 /\ late = 0

----------------------------------------------------------------------------
(* The batch: who is in it, and who would be sent a copy. *)

InStatus(r, S) == {k \in Keys : r[k].st \in S}

Batch == {p \in People : row[<<0, p>>].st # "none"}

\* skip_reason, for an account and the addresses already sent a copy.
Sendable(p, seen) == acct[p] = "ok" /\ addr[p] \notin seen

\* batch_rows over the batched rows: of the accounts that share an address the
\* first in surname order that may be sent a copy is the one that is.
Receives(p) ==
    /\ acct[p] = "ok"
    /\ \A q \in People : q < p /\ addr[q] = addr[p] /\ row[<<0, q>>].st = "batched"
                            => acct[q] # "ok"

Receiving == {p \in People : row[<<0, p>>].st = "batched" /\ Receives(p)}

MutCanEdit == email.status \in {"draft", "queued"}

\* BulkEmail.can_edit, asked under the row lock by locked_for_edit.
CanEdit == email.status \in {"draft", "queued"} /\ ~email.started

MutBackToDraft == UNCHANGED email

\* back_to_draft: a queued email whose people change is a draft again.
BackToDraft == email' = [email EXCEPT !.status = "draft", !.due = FALSE, !.typed = {}]

AddAccounts(p) ==
    /\ CanEdit
    /\ row' = [row EXCEPT ![<<0, p>>] = IF @ = NoRow THEN [st |-> "batched", mid |-> 0] ELSE @]
    /\ BackToDraft
    /\ UNCHANGED <<count, log, outside, lock, job, incidents, late>>

\* remove and clear: some people leave the batch, or all of them do.
RemoveAccounts(S) ==
    /\ CanEdit
    /\ S # {} /\ S \subseteq Batch
    /\ row' = [k \in Keys |-> IF Person(k) \in S THEN NoRow ELSE row[k]]
    /\ BackToDraft
    /\ UNCHANGED <<count, log, outside, lock, job, incidents, late>>

\* apply_settings: the email becomes a callout, an ordinary email, or a callout with
\* a later close time.
ApplySettings ==
    \/ callout = "none" /\ callout' = "open"
    \/ callout # "none" /\ callout' = "none"
    \/ callout = "closed" /\ callout' = "open"

\* drafts.update: an email that becomes a callout and was not of the Mission type
\* changes its type, which sends it back to a draft.
Update ==
    /\ CanEdit
    /\ ApplySettings
    /\ UNCHANGED email \/ (callout = "none" /\ BackToDraft)
    /\ UNCHANGED <<count, row, log, acct, addr, senderOk, answers,
                   lock, job, incidents, late>>

\* queue: Send, and Send again to reschedule.  The count the sender types stands for
\* the people in the batch at that moment.  check_for_send refuses a callout whose
\* answers would have closed.
Queue ==
    /\ CanEdit
    /\ senderOk
    /\ Receiving # {}
    /\ callout \in {"none", "open"}
    /\ email' = [email EXCEPT !.status = "queued", !.due = FALSE, !.typed = Batch]
    /\ UNCHANGED <<count, row, log, outside, lock, job, incidents, late>>

\* The undo window ends, or the scheduled time arrives.
StartArrives ==
    /\ email.status = "queued" /\ ~email.due
    /\ email' = [email EXCEPT !.due = TRUE]
    /\ UNCHANGED <<count, row, log, outside, lock, job, incidents, late>>

Cancel ==
    /\ ~email.started
    /\ email.status = "queued"
    /\ BackToDraft
    /\ UNCHANGED <<count, row, log, outside, lock, job, incidents, late>>

\* delete_draft: the email and its rows are gone; nothing is left to do with it.
DeleteDraft ==
    /\ CanEdit
    /\ email.status = "draft"
    /\ Batch = {}
    /\ email' = [email EXCEPT !.status = "deleted"]
    /\ UNCHANGED <<count, row, log, outside, lock, job, incidents, late>>

----------------------------------------------------------------------------
(* The counts, and sending copies again. *)

CountOf(r, st) == Cardinality(InStatus(r, {st}))

MutRecount(r) == count

\* recount: the four counts as the rows have them.
Recount(r) == [sent |-> CountOf(r, "sent"), failed |-> CountOf(r, "failed"),
               skipped |-> CountOf(r, "skipped"), bounced |-> CountOf(r, "bounced")]

Stopped(r) == [k \in Keys |-> IF r[k].st = "pending" THEN [r[k] EXCEPT !.st = "stopped"]
                                                     ELSE r[k]]

SkippedPending(r) == [k \in Keys |-> IF r[k].st = "pending" THEN [r[k] EXCEPT !.st = "skipped"]
                                                            ELSE r[k]]

PendingCount == CountOf(row, "pending")

\* The order recheck_rows takes rows in: the latest round first, surnames within it.
Before(j, k) == Round(j) > Round(k) \/ (Round(j) = Round(k) /\ Person(j) < Person(k))

Went == InStatus(row, {"sent", "bounced", "pending"})

\* What recheck_rows asks of row k when the rows of acc are queued again already.
MayGoAgain(acc, k) ==
    /\ ~ \E j \in Went \cup acc : Person(j) = Person(k) /\ Round(j) > Round(k)
    /\ ~ (Round(k) > 0 /\ Person(k) \in answers)
    /\ Sendable(Person(k), {addr[Person(j)] : j \in {i \in Went \cup acc : Round(i) = Round(k)}})

\* The rows of S that recheck_rows puts back to pending, each asked in its turn with the
\* ones queued before it; the others are skipped.
Requeued(S) ==
    CHOOSE again \in SUBSET S :
        \A k \in S : k \in again <=> MayGoAgain({j \in again : Before(j, k)}, k)

Rechecked(S) ==
    LET again == Requeued(S)
    IN  [k \in Keys |-> IF k \notin S THEN row[k]
                        ELSE [row[k] EXCEPT !.st = IF k \in again THEN "pending" ELSE "skipped"]]

Minus(a, b) == IF a > b THEN a - b ELSE 0

\* retry_failed: every failed copy of a finished send goes again or is skipped.
RetryFailed ==
    LET S == InStatus(row, {"failed"})
        again == Requeued(S)
    IN  /\ email.started /\ email.status = "sent"
        /\ S # {}
        /\ row' = Rechecked(S)
        /\ count' = [count EXCEPT !.failed = Minus(@, Cardinality(S)),
                                  !.skipped = @ + Cardinality(S \ again)]
        /\ email' = IF again = {} THEN email
                    ELSE [email EXCEPT !.status = "queued", !.due = TRUE]
        /\ UNCHANGED <<log, outside, lock, job, incidents, late>>

\* resume: Send the rest of a stopped email.
Resume ==
    LET S == InStatus(row, {"stopped"})
    IN  /\ email.status = "stopped"
        /\ row' = Rechecked(S)
        /\ count' = [count EXCEPT !.skipped = @ + Cardinality(S \ Requeued(S))]
        /\ email' = [email EXCEPT !.status = "queued", !.due = TRUE, !.stop = FALSE]
        /\ UNCHANGED <<log, outside, lock, job, incidents, late>>

\* stop: a sending email is only asked to stop; one queued again stops at once, under
\* its row lock, which a bounce report's count then waits for.
Stop ==
    /\ \/ /\ email.status = "sending"
          /\ ~email.stop
          /\ email' = [email EXCEPT !.stop = TRUE]
          /\ UNCHANGED <<row, count>>
       \/ /\ email.status = "queued" /\ email.started
          /\ row' = Stopped(row)
          /\ count' = Recount(row')
          /\ email' = [email EXCEPT !.status = "stopped", !.stop = FALSE]
    /\ Incident
    /\ UNCHANGED <<log, outside, lock, job, late>>

----------------------------------------------------------------------------
(* Mission callouts. *)

Reached == {Person(k) : k \in InStatus(row, {"sent", "bounced"})}

\* record_answer, while the callout is open: only a person with a copy has the link.
RecordAnswer(p) ==
    /\ callout = "open"
    /\ p \in Reached /\ p \notin answers
    /\ answers' = answers \cup {p}
    /\ UNCHANGED <<email, count, row, log, acct, addr, senderOk, callout, 
                   lock, job, incidents, late>>

\* close: a queued round is called off; one being sent stops before its next copy.
Close ==
    /\ email.started
    /\ callout = "open"
    /\ callout' = "closed"
    /\ IF email.status = "queued"
       THEN /\ row' = SkippedPending(row)
            /\ count' = [count EXCEPT !.skipped = @ + PendingCount]
            /\ email' = [email EXCEPT !.status = "sent"]
       ELSE UNCHANGED <<row, count, email>>
    /\ UNCHANGED <<log, acct, addr, senderOk, answers, lock, job, incidents, late>>

\* closes_at passes.  check_for_send keeps it after the start of a queued email.
Expire ==
    /\ callout = "open"
    /\ email.status = "queued" => email.due
    /\ callout' = "closed"
    /\ UNCHANGED <<email, count, row, log, acct, addr, senderOk, answers,
                   lock, job, incidents, late>>

IsClosed == callout = "closed"

LastRound == IF \E k \in Keys : Round(k) > 0 /\ row[k].st # "none"
             THEN CHOOSE r \in Rounds :
                    /\ \E p \in People : row[<<r, p>>].st # "none"
                    /\ \A k \in Keys : Round(k) > r => row[k].st = "none"
             ELSE 0

\* _reminder_rows: of the people waiting who share an address nobody answered from, a
\* reminder goes to the first in surname order that may be sent one.
Reminded(waiting) ==
    {p \in waiting :
       /\ Sendable(p, {addr[q] : q \in answers})
       /\ \A q \in waiting : q < p /\ addr[q] = addr[p] => acct[q] # "ok"}

\* remind: a fresh round for everybody reached who has not answered.
Remind ==
    LET waiting == Reached \ answers
        goes == Reminded(waiting)
        r == LastRound + 1
    IN  /\ email.started /\ email.status = "sent"
        /\ callout = "open"
        /\ goes # {}
        /\ r <= MaxRound
        /\ row' = [k \in Keys |->
                     IF Round(k) = r /\ Person(k) \in waiting
                     THEN [st |-> IF Person(k) \in goes THEN "pending" ELSE "skipped", mid |-> 0]
                     ELSE row[k]]
        /\ count' = [count EXCEPT !.skipped = @ + Cardinality(waiting \ goes)]
        /\ email' = [email EXCEPT !.status = "queued", !.due = TRUE]
        /\ UNCHANGED <<log, outside, lock, job, incidents, late>>

----------------------------------------------------------------------------
(* The background sender. *)

Goto(w, rec) == job' = [job EXCEPT ![w] = rec]

\* The worker is done with one copy and goes on at pc.
Loose(w, pc) == [IdleJob EXCEPT !.pc = pc, !.went = job[w].went,
                                !.todo = IF pc = "claim" THEN {} ELSE job[w].todo]

\* The worker returns from run_sender and the advisory lock is released.
Leave(w) == Goto(w, IdleJob) /\ lock' = "free"

\* run_sender: take the advisory lock.  A run that cannot take it does nothing.
Lock(w) == lock = "free" /\ lock' = w

MutRunSender(w) ==
    /\ job[w].pc = "idle"
    /\ email.status = "queued" /\ email.due
    /\ Lock(w)
    /\ Goto(w, [IdleJob EXCEPT !.pc = "claim"])
    /\ UNCHANGED <<email, count, row, log, outside, incidents, late>>

\* A run first finishes an email left sending, then claims the ones that are due.
RunSender(w) ==
    /\ job[w].pc = "idle"
    /\ email.status = "sending" \/ (email.status = "queued" /\ email.due)
    /\ Lock(w)
    /\ Goto(w, [IdleJob EXCEPT !.pc = IF email.status = "sending" THEN "send" ELSE "claim"])
    /\ UNCHANGED <<email, count, row, log, outside, incidents, late>>

\* _freeze and _skip_if_closed, in the claim's own transaction.
Frozen == [k \in Keys |->
             IF row[k].st # "batched" THEN row[k]
             ELSE [row[k] EXCEPT !.st = IF Receives(Person(k)) THEN "pending" ELSE "skipped"]]

Claimed == IF IsClosed THEN SkippedPending(Frozen) ELSE Frozen

NewlySkipped(r) == Cardinality(InStatus(r, {"skipped"}) \ InStatus(row, {"skipped"}))

\* _refuse: an email its sender may no longer send goes back to a draft, or to stopped
\* when it has started.
Refuse ==
    IF email.started
    THEN row' = Stopped(row) /\ email' = [email EXCEPT !.status = "stopped"]
    ELSE UNCHANGED row /\ BackToDraft

Claim(w) ==
    /\ job[w].pc = "claim"
    /\ \/ /\ email.status # "queued" \/ ~email.due
          /\ Leave(w)
          /\ UNCHANGED <<email, row, count>>
       \/ /\ email.status = "queued" /\ email.due
          /\ ~senderOk
          /\ Refuse
          /\ UNCHANGED <<job, lock, count>>
       \/ /\ email.status = "queued" /\ email.due
          /\ senderOk
          /\ row' = Claimed
          /\ count' = [count EXCEPT !.skipped = @ + NewlySkipped(Claimed)]
          /\ email' = [email EXCEPT !.status = "sending", !.started = TRUE]
          /\ Goto(w, [job[w] EXCEPT !.pc = "send"])
          /\ UNCHANGED lock
    /\ UNCHANGED <<log, outside, incidents, late>>

MutLoggedCopies == {}

\* The pending rows whose Message-ID the email log shows went out.
LoggedCopies == {k \in InStatus(row, {"pending"}) :
                   row[k].mid # 0 /\ log[row[k].mid].st \in {"sent", "bounced"}}

\* _send begins: _recover_logged_copies reads the log once.
BeginSend(w) ==
    /\ job[w].pc = "send"
    /\ Goto(w, [job[w] EXCEPT !.pc = "recover",
                              !.went = {<<k, log[row[k].mid].st>> : k \in LoggedCopies}])
    /\ UNCHANGED <<email, count, row, log, outside, lock, incidents, late>>

\* One logged copy is recorded as sent; a bounced one is marked after its count.
RecoverCopy(w) ==
    /\ job[w].pc = "recover"
    /\ \E e \in job[w].went :
         /\ row' = [row EXCEPT ![e[1]].st = "sent"]
         /\ Goto(w, [job[w] EXCEPT !.pc = "count", !.key = e[1], !.out = "sent",
                                   !.next = IF e[2] = "bounced" THEN "bounce" ELSE "recover",
                                   !.went = @ \ {e}])
    /\ UNCHANGED <<email, count, log, outside, lock, incidents, late>>

\* mark_bounced on the row that went out under Message-ID m and still reads sent.
MarkedBounced(m) == {k \in InStatus(row, {"sent"}) : row[k].mid = m}

MarkBounced(m) ==
    IF MarkedBounced(m) = {} THEN UNCHANGED <<row, count>>
    ELSE /\ row' = [k \in Keys |-> IF k \in MarkedBounced(m) THEN [row[k] EXCEPT !.st = "bounced"]
                                                             ELSE row[k]]
         /\ count' = [count EXCEPT !.sent = Minus(@, 1), !.bounced = @ + 1]

RecoverBounce(w) ==
    /\ job[w].pc = "bounce"
    /\ MarkBounced(row[job[w].key].mid)
    /\ Goto(w, Loose(w, "recover"))
    /\ UNCHANGED <<email, log, outside, lock, incidents, late>>

\* The rows to send are listed once, after the recovery.
ListRows(w) ==
    /\ job[w].pc = "recover"
    /\ job[w].went = {}
    /\ Goto(w, [job[w] EXCEPT !.pc = "loop", !.todo = InStatus(row, {"pending"})])
    /\ UNCHANGED <<email, count, row, log, outside, lock, incidents, late>>

\* surname_order: the person, then the order the rows were made in.
FirstOf(S) == CHOOSE k \in S : \A j \in S \ {k} :
                 Person(k) < Person(j) \/ (Person(k) = Person(j) /\ Round(k) < Round(j))

\* apply_stop reads the counts here and commits everything in ApplyStop below.
SeeStop(w) ==
    /\ email.stop
    /\ Goto(w, [IdleJob EXCEPT !.pc = "stop", !.tally = Recount(Stopped(row))])

\* The head of the loop: the stop flag before the pause, then the pause.
NextCopy(w) ==
    /\ job[w].pc = "loop"
    /\ job[w].todo # {}
    /\ \/ SeeStop(w)
       \/ /\ ~email.stop
          /\ Goto(w, [job[w] EXCEPT !.pc = "paced", !.key = FirstOf(job[w].todo)])
    /\ UNCHANGED <<email, count, row, log, outside, lock, incidents, late>>

MutGone(k) == acct[Person(k)] = "optedOut"

\* _skip_if_unsendable: the callout has closed, or the person turned the type off.
Gone(k) == IsClosed \/ acct[Person(k)] = "optedOut"

\* After the pause: the stop flag again, then whether the person may still be sent the
\* email (_skip_if_unsendable), then the try's Message-ID is saved on the row.
AfterPause(w) ==
    LET k == job[w].key
    IN  /\ job[w].pc = "paced"
        /\ \/ SeeStop(w) /\ UNCHANGED <<row, log>>
           \/ /\ ~email.stop /\ Gone(k)
              /\ row' = [row EXCEPT ![k].st = "skipped"]
              /\ Goto(w, [job[w] EXCEPT !.pc = "count", !.out = "skipped", !.next = "loop",
                                        !.todo = @ \ {k}])
              /\ UNCHANGED log
           \/ /\ ~email.stop /\ ~Gone(k)
              /\ log' = Append(log, [key |-> k, st |-> "saved"])
              /\ row' = [row EXCEPT ![k].mid = Len(log')]
              /\ Goto(w, [job[w] EXCEPT !.pc = "handover", !.tries = 0])
        /\ UNCHANGED <<email, count, outside, lock, incidents, late>>

LogStatus(w, st) == log' = [log EXCEPT ![row[job[w].key].mid].st = st]

\* _try_copy: the mail server takes the copy.
Accepted(w) ==
    /\ job[w].pc = "handover"
    /\ LogStatus(w, "taken")
    /\ late' = IF IsClosed THEN late + 1 ELSE late
    /\ Goto(w, [job[w] EXCEPT !.pc = "taken"])
    /\ UNCHANGED <<email, count, row, outside, lock, incidents>>

\* send_templated writes the email log row of an accepted copy.
WriteLog(w) ==
    /\ job[w].pc = "taken"
    /\ LogStatus(w, "sent")
    /\ Goto(w, [job[w] EXCEPT !.pc = "record", !.out = "sent", !.next = "loop", !.tries = 0])
    /\ UNCHANGED <<email, count, row, outside, lock, incidents, late>>

\* A refusal: a temporary one is tried again under a fresh Message-ID until the retries
\* run out; any other fails the copy.
Refused(w) ==
    LET k == job[w].key
    IN  /\ job[w].pc = "handover"
        /\ Incident
        /\ \/ /\ job[w].tries < Retries
              /\ log' = Append([log EXCEPT ![row[k].mid].st = "failed"],
                               [key |-> k, st |-> "saved"])
              /\ row' = [row EXCEPT ![k].mid = Len(log')]
              /\ Goto(w, [job[w] EXCEPT !.tries = @ + 1])
           \/ /\ LogStatus(w, "failed")
              /\ UNCHANGED row
              /\ Goto(w, [job[w] EXCEPT !.pc = "record", !.out = "failed", !.next = "loop", !.tries = 0])
        /\ UNCHANGED <<email, count, outside, lock, late>>

\* An error the server did not report, before the copy was taken or while its log row
\* was written: the copy fails, and the run leaves this email for the next one.
Unexpected(w) ==
    /\ job[w].pc \in {"handover", "taken"}
    /\ Incident
    /\ IF job[w].pc = "handover" THEN LogStatus(w, "failed") ELSE UNCHANGED log
    /\ Goto(w, [job[w] EXCEPT !.pc = "record", !.out = "failed", !.next = "claim", !.tries = 0])
    /\ UNCHANGED <<email, count, row, outside, lock, late>>

\* _record: the row is saved first ...
RecordRow(w) ==
    LET k == job[w].key
    IN  /\ job[w].pc = "record"
        /\ row' = [row EXCEPT ![k] = [st |-> job[w].out,
                                      mid |-> IF job[w].out = "sent" THEN @.mid ELSE 0]]
        /\ Goto(w, [job[w] EXCEPT !.pc = "count", !.todo = @ \ {k}])
        /\ UNCHANGED <<email, count, log, outside, lock, incidents, late>>

\* ... then the email's count.
RecordCount(w) ==
    /\ job[w].pc = "count"
    /\ count' = [count EXCEPT ![job[w].out] = @ + 1]
    /\ Goto(w, IF job[w].next = "bounce" THEN [job[w] EXCEPT !.pc = "bounce"]
               ELSE Loose(w, job[w].next))
    /\ UNCHANGED <<email, row, log, outside, lock, incidents, late>>

\* apply_stop commits: the pending rows, the status and the counts read before.
ApplyStop(w) ==
    /\ job[w].pc = "stop"
    /\ row' = Stopped(row)
    /\ count' = job[w].tally
    /\ email' = [email EXCEPT !.status = "stopped", !.stop = FALSE]
    /\ Goto(w, [IdleJob EXCEPT !.pc = "claim"])
    /\ UNCHANGED <<log, outside, lock, incidents, late>>

\* _finish: no row is left; the counts are read, and saved with the status.
FinishRead(w) ==
    /\ job[w].pc = "loop"
    /\ job[w].todo = {}
    /\ PendingCount = 0
    /\ Goto(w, [job[w] EXCEPT !.pc = "finish", !.tally = Recount(row)])
    /\ UNCHANGED <<email, count, row, log, outside, lock, incidents, late>>

FinishSave(w) ==
    /\ job[w].pc = "finish"
    /\ count' = job[w].tally
    /\ email' = [email EXCEPT !.status = "sent", !.stop = FALSE]
    /\ Goto(w, [IdleJob EXCEPT !.pc = "claim"])
    /\ UNCHANGED <<row, log, outside, lock, incidents, late>>

\* Run now's budget is spent: before a copy, after the pause, or before a retry's wait.
OutOfTime(w) ==
    /\ w = RunNow
    /\ Incident
    /\ \/ job[w].pc = "loop" /\ job[w].todo # {}
       \/ job[w].pc = "paced"
       \/ job[w].pc = "handover" /\ job[w].tries > 0
    /\ Leave(w)
    /\ UNCHANGED <<email, count, row, log, outside, late>>

\* The process dies; the database session, and the lock with it, ends.
Crash(w) ==
    /\ job[w].pc # "idle"
    /\ Incident
    /\ Leave(w)
    /\ UNCHANGED <<email, count, row, log, outside, late>>

SenderStep(w) ==
    \/ RunSender(w) \/ Claim(w) \/ BeginSend(w) \/ RecoverCopy(w) \/ RecoverBounce(w)
    \/ ListRows(w) \/ NextCopy(w) \/ AfterPause(w) \/ Accepted(w) \/ WriteLog(w)
    \/ RecordRow(w) \/ RecordCount(w) \/ ApplyStop(w) \/ FinishRead(w) \/ FinishSave(w)

----------------------------------------------------------------------------
(* The bounce check and the people. *)

\* check_bounces marks the log row of a copy that went, on_email_log_saved marks the bulk
\* copy in the same transaction, and a bad address is remembered on the account.
BounceReport(m) ==
    /\ log[m].st = "sent"
    /\ Incident
    /\ log' = [log EXCEPT ![m].st = "bounced"]
    /\ MarkBounced(m)
    /\ acct' = [p \in People |-> IF addr[p] = addr[Person(log[m].key)] /\ acct[p] = "ok"
                                 THEN "badAddress" ELSE acct[p]]
    /\ UNCHANGED <<email, addr, senderOk, callout, answers, lock, job, late>>

\* Somebody turns the type off or back on, has a bad address corrected, or the sender's
\* role is taken away.
PeopleChange ==
    /\ Incident
    /\ \/ \E p \in People, s \in {"ok", "optedOut", "badAddress"} :
            acct[p] # s /\ acct' = [acct EXCEPT ![p] = s] /\ UNCHANGED senderOk
       \/ senderOk' = ~senderOk /\ UNCHANGED acct
    /\ UNCHANGED <<email, count, row, log, addr, callout, answers, lock, job, late>>

Portal ==
    \/ \E p \in People : AddAccounts(p)
    \/ \E S \in SUBSET People : RemoveAccounts(S)
    \/ Update \/ Queue \/ Cancel \/ DeleteDraft
    \/ RetryFailed \/ Resume \/ Stop
    \/ \E p \in People : RecordAnswer(p)
    \/ Close \/ Remind

Environment ==
    \/ StartArrives \/ Expire \/ PeopleChange
    \/ \E m \in 1 .. Len(log) : BounceReport(m)
    \/ \E w \in Workers : Refused(w) \/ Unexpected(w) \/ OutOfTime(w) \/ Crash(w)

Next == Portal \/ Environment \/ \E w \in Workers : SenderStep(w)

\* The timer runs the sender every minute, and a run that has begun works until nothing
\* is due; the start time arrives.  Nothing is assumed of the people at the portal, who
\* press Run now among others.
Fairness == /\ \A w \in Workers :
                 WF_vars((w = RunNow => job[w].pc # "idle") /\ SenderStep(w))
            /\ WF_vars(StartArrives)

Spec == Init /\ [][Next]_vars /\ Fairness

----------------------------------------------------------------------------
(* Properties. *)

\* _recover_logged_copies and recheck_rows: whatever crashes, stops, retries and resumed
\* sends come in between, the email log never shows two copies of one round gone to the
\* same address.
NoSecondCopy ==
    \A m, n \in 1 .. Len(log) :
        /\ m # n
        /\ {log[m].st, log[n].st} \subseteq {"sent", "bounced"}
        /\ Round(log[m].key) = Round(log[n].key)
        => addr[Person(log[m].key)] # addr[Person(log[n].key)]

\* An email that reads sent has nothing left to send, stop or resume, one that reads
\* stopped has nothing pending that a later run could send behind its back, and the counts
\* of either agree with its rows whatever crashes came between a row and its count, up to
\* bounce reports that raced the recount, which move a copy from sent to bounced only.
SettledEmail ==
    /\ email.status = "sent" => InStatus(row, {"batched", "pending", "stopped"}) = {}
    /\ email.status = "stopped" => InStatus(row, {"batched", "pending"}) = {}
    /\ email.status \in {"sent", "stopped"} =>
         /\ count.sent + count.bounced = CountOf(row, "sent") + CountOf(row, "bounced")
         /\ count.failed = CountOf(row, "failed")
         /\ count.skipped = CountOf(row, "skipped")

\* Whoever touches the batch, an email that waits for its start time holds exactly the
\* people its sender confirmed when pressing Send (back_to_draft).
ConfirmedBatch ==
    email.status = "queued" /\ ~email.started => Batch = email.typed

\* Close now and closes_at: once a callout has closed, at most the one copy in the
\* sender's hands still goes out, over all later runs, retries and resumed sends.
OneLateCopy == late <= 1

\* A copy that reads sent or bounced never reads anything else again but bounced, and an
\* email that has started is never a draft again.
WhatWentStaysGone ==
    [][ /\ \A k \in Keys :
             /\ row[k].st = "sent" => row'[k].st \in {"sent", "bounced"}
             /\ row[k].st = "bounced" => row'[k].st = "bounced"
        /\ email.started => email'.status \in {"queued", "sending", "sent", "stopped"} ]_vars

\* A started send always comes to an end, and so does a Stop that was asked for: the
\* next run of the timer finishes what a dead or timed-out run left sending.
SendEnds == email.status = "sending" ~> email.status \in {"sent", "stopped"}

\* recount and _record's docstrings: a finished or stopped email's counts are the number of
\* its rows in each status, so a bounce is never counted as sent for good.
CountsAreRows ==
    email.status \in {"sent", "stopped"} => count = Recount(row)

=============================================================================
