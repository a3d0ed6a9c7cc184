------------------------------- MODULE Callouts -------------------------------
(***************************************************************************)
(* What a mission callout's screens say of it: the Callouts list and one    *)
(* callout's page with its answers file (callouts.py, api/callouts.py), the *)
(* answer page and "Email to me" of the people it went to (archive.py), and *)
(* the audit line each finished send leaves (job.py).  The screens read the *)
(* copies, the answers and the accounts afresh while reminders, retries,    *)
(* stops, bounces and changes of the accounts go on.                        *)
(*                                                                         *)
(* A callout is followed from its claim by the sender.  One copy is one     *)
(* step here; BulkEmail has the sender's own steps, and shared addresses.   *)
(***************************************************************************)
EXTENDS Integers, FiniteSets

CONSTANTS
    Recipients,  \* the accounts in the batch
    Leaders,     \* the DARTs a leader's profile may name
    CalloutAnswerKind, \* the answers
    MaxRound,    \* the rounds of reminders
    MaxTurns     \* presses of Retry failed and Remind non-responders, stops, bounces,
                 \* changes of an account and hidings, in all

VARIABLES
    people,   \* each account: its state, the name a copy takes, its answer, and the
              \* copy the mail server took last for it
    copies,   \* the BulkEmailRecipient rows: [st, tried, as], tried being tried_at and
              \* as the name kept in values
    email,    \* [status, sentAt, hidden]: whether sent_at is set
    callout,  \* [open, reminded, rounds, retried, count]: reminded_at, the presses of
              \* Remind, and the latest BulkEmailRetry's time and count; 0 is never
    clock,    \* what the times above are compared in: one more at each press
    asked,    \* what was queued last: [kind, keys]
    line,     \* the audit line of the last finish, until more is asked of the email
    happened  \* how many bounces and changes there have been, and the leader's DART

calloutVars == <<people, copies, email, callout, clock, asked, line, happened>>

Keys == (0 .. MaxRound) \X Recipients
Round(k) == k[1]
Person(k) == k[2]
NoCopy == [st |-> "none", tried |-> 0, as |-> 0]
NoLine == [kind |-> "none", round |-> 0, count |-> 0, sent |-> 0, failed |-> 0]
NoAsk == [kind |-> "none", keys |-> {}]
Went == {"sent", "bounced"}

\* The batch at the claim: some of it pending, the rest skipped.
CalloutsInit ==
    \E S \in SUBSET Recipients \ {{}} :
      /\ people = [u \in Recipients |-> [state |-> "ok", name |-> 1, answer |-> "none",
                                         got |-> <<0, 0>>]]
      /\ copies = [k \in Keys |->
                     IF Round(k) > 0 THEN NoCopy
                     ELSE [NoCopy EXCEPT !.st = IF Person(k) \in S THEN "pending" ELSE "skipped"]]
      /\ email = [status |-> "sending", sentAt |-> FALSE, hidden |-> FALSE]
      /\ callout = [open |-> TRUE, reminded |-> 0, rounds |-> 0, retried |-> 0, count |-> 0]
      /\ clock = 1
      /\ asked = [kind |-> "send", keys |-> {0} \X S]
      /\ line = NoLine
      /\ happened = [times |-> 0, dart |-> 1]

InStatus(S) == {k \in Keys : copies[k].st \in S}
Moved(S, st) == [k \in Keys |-> IF k \in S THEN [copies[k] EXCEPT !.st = st] ELSE copies[k]]
Turn == clock + happened.times <= MaxTurns
Happens == Turn /\ happened' = [happened EXCEPT !.times = @ + 1]
Active(u) == people[u].state \in {"ok", "badAddress"}
Answered == {u \in Recipients : people[u].answer # "none"}

\* visible_callouts, for a leader: the callout went to DART 1.
CanSee == happened.dart = 1

----------------------------------------------------------------------------
(* The screens. *)

\* _reached_ids: the row of a deleted account names nobody.
ReachedIds == {u \in Recipients : Active(u) /\ \E k \in InStatus(Went) : Person(k) = u}

\* callout_rows: whom the page and the answers file list.
CalloutRows == {u \in ReachedIds \cup Answered : Active(u)}

_row(u) == [answer |-> people[u].answer]

\* answers_document: the file has one row for each person listed.
AnswersDocument == [u \in CalloutRows |-> _row(u)]

\* counts_for: the same people counted without their rows.
CountsFor ==
    LET given == {u \in Answered : Active(u)}
        reached == ReachedIds \cup given
        Giving(a) == Cardinality({u \in given : people[u].answer = a})
    IN  [reached |-> Cardinality(reached), answers |-> [a \in CalloutAnswerKind |-> Giving(a)],
         no_answer |-> Cardinality(reached) - Cardinality(given)]

\* reminders: each round that has rows, with the copies that were to go.
Reminders == [r \in {Round(k) : k \in {j \in Keys : Round(j) > 0 /\ copies[j].st # "none"}} |->
                Cardinality({k \in Keys : Round(k) = r
                                          /\ copies[k].st \notin {"none", "skipped", "closed"}})]

\* What the list says of the callout, and what its page adds.
CalloutSummarySerializer == [is_open |-> callout.open, counts |-> CountsFor]
CalloutDetailSerializer ==
    [recipients |-> CalloutRows, reminders |-> Reminders,
     closed_skipped |-> Cardinality(InStatus({"closed"}))]

\* The last of the copies in S by tried_at, then by row.
LatestTried(S) ==
    CHOOSE k \in S : \A j \in S : \/ copies[j].tried < copies[k].tried
                                  \/ copies[j].tried = copies[k].tried /\ Round(j) <= Round(k)
TriedBy(u) == {k \in Keys : Person(k) = u /\ copies[k].tried > 0}

\* answer_page: the copy whose values the page is filled in with.
AnswerPage(u) == LatestTried(TriedBy(u))

\* messages_for and message_for: the reader's own copy, unless the email is hidden.
Received(u) == {k \in TriedBy(u) : copies[k].st \in Went /\ ~email.hidden}
MessageFor(u) == LatestTried(Received(u))

----------------------------------------------------------------------------
(* The sender. *)

\* _claim: a round whose sender may no longer send it is stopped; one of a closed callout
\* is skipped.
Claim ==
    /\ email.status = "queued"
    /\ \/ /\ Happens
          /\ copies' = Moved(InStatus({"pending"}), "stopped")
          /\ email' = [email EXCEPT !.status = "stopped"]
       \/ /\ UNCHANGED happened
          /\ copies' = IF callout.open THEN copies ELSE Moved(InStatus({"pending"}), "closed")
          /\ email' = [email EXCEPT !.status = "sending"]
    /\ UNCHANGED <<people, callout, clock, asked, line>>

NameNow(u) == IF people[u].state = "gone" THEN 0 ELSE people[u].name

\* One copy: skipped once the callout has closed, else tried with the values of now.  A
\* copy that fails unexpectedly may have been taken.
TryCopy(k, st, taken) ==
    LET u == Person(k)
        tried == [st |-> st, tried |-> clock, as |-> NameNow(u)]
    IN  /\ email.status = "sending" /\ copies[k].st = "pending"
        /\ IF callout.open
           THEN /\ copies' = [copies EXCEPT ![k] = tried]
                /\ people' = IF taken THEN [people EXCEPT ![u].got = <<Round(k), NameNow(u)>>]
                             ELSE people
           ELSE copies' = Moved({k}, "closed") /\ UNCHANGED people
        /\ UNCHANGED <<email, callout, clock, asked, line, happened>>

MutIsReminderFinish == callout.reminded > 0

\* is_reminder_finish.
IsReminderFinish == callout.reminded > 0 /\ callout.retried < callout.reminded

LastRound == IF DOMAIN Reminders = {} THEN 0
             ELSE CHOOSE r \in DOMAIN Reminders : \A s \in DOMAIN Reminders : s <= r

\* The finish line of a kind, with how the copies of S went.
LineOf(kind, round, count, S) ==
    [kind |-> kind, round |-> round, count |-> count,
     sent |-> Cardinality(S \cap InStatus(Went)), failed |-> Cardinality(S \cap InStatus({"failed"}))]

\* _finish, with reminder_finished and _retry_finished.
Finish ==
    /\ email.status = "sending" /\ InStatus({"pending"}) = {}
    /\ email' = [email EXCEPT !.status = "sent", !.sentAt = TRUE]
    /\ line' = IF ~email.sentAt THEN LineOf("send", 0, 0, Keys)
               ELSE IF IsReminderFinish
               THEN LineOf("remind", LastRound, 0, {k \in Keys : Round(k) = LastRound})
               ELSE LineOf("retry", 0, callout.count,
                           {k \in Keys : copies[k].tried >= callout.retried})
    /\ UNCHANGED <<people, copies, callout, clock, asked, happened>>

\* stop, and apply_stop; a request that comes after the last copy is dropped by _finish.
Stop ==
    /\ email.status = "queued" \/ (email.status = "sending" /\ InStatus({"pending"}) # {})
    /\ Happens
    /\ copies' = Moved(InStatus({"pending"}), "stopped")
    /\ email' = [email EXCEPT !.status = "stopped"]
    /\ UNCHANGED <<people, callout, clock, asked, line>>

----------------------------------------------------------------------------
(* Sending again. *)

\* skip_reason, and an answer since for a reminder.
MayTake(k) == /\ people[Person(k)].state = "ok"
              /\ ~(Round(k) > 0 /\ Person(k) \in Answered)

\* recheck_rows, the latest round first: nobody is sent an earlier copy after a later one.
Requeued(S) ==
    {k \in S : /\ MayTake(k)
               /\ \A j \in Keys : Person(j) = Person(k) /\ Round(j) > Round(k)
                    => /\ copies[j].st \notin Went \cup {"pending"}
                       /\ ~(j \in S /\ MayTake(j))}

Rechecked(S) == [k \in Keys |-> IF k \in Requeued(S) THEN [copies[k] EXCEPT !.st = "pending"]
                                ELSE IF k \in S THEN [copies[k] EXCEPT !.st = "skipped"]
                                ELSE copies[k]]

\* resume: Send the rest.
Resume ==
    /\ email.status = "stopped"
    /\ copies' = Rechecked(InStatus({"stopped"}))
    /\ email' = [email EXCEPT !.status = "queued"]
    /\ UNCHANGED <<people, callout, clock, asked, line, happened>>

_check_retry == email.status = "sent"

\* retry_failed.  When every failed copy is skipped the skips are kept
\* and no retry is recorded.
RetryFailed ==
    LET failed == InStatus({"failed"})
        again == Requeued(failed)
    IN  /\ _check_retry /\ failed # {} /\ Turn
        /\ copies' = Rechecked(failed)
        /\ clock' = clock + 1
        /\ line' = NoLine
        /\ IF again = {} THEN asked' = NoAsk /\ UNCHANGED <<email, callout>>
           ELSE /\ asked' = [kind |-> "retry", keys |-> again]
                /\ email' = [email EXCEPT !.status = "queued"]
                /\ callout' = [callout EXCEPT !.retried = clock', !.count = Cardinality(again)]
        /\ UNCHANGED <<people, happened>>

_check_remind == email.status = "sent" /\ callout.open

\* remind: a fresh round for everybody reached who has not answered.
Waiting == ReachedIds \ Answered
Remind ==
    LET goes == {u \in Waiting : people[u].state = "ok"}
        r == LastRound + 1
    IN  /\ _check_remind
        /\ goes # {} /\ r <= MaxRound /\ Turn
        /\ copies' = [k \in Keys |->
                        IF Round(k) # r \/ Person(k) \notin Waiting THEN copies[k]
                        ELSE [NoCopy EXCEPT !.st = IF Person(k) \in goes THEN "pending"
                                                   ELSE "skipped"]]
        /\ clock' = clock + 1
        /\ email' = [email EXCEPT !.status = "queued"]
        /\ callout' = [callout EXCEPT !.reminded = clock', !.rounds = @ + 1]
        /\ asked' = [kind |-> "remind", keys |-> {r} \X goes]
        /\ line' = NoLine
        /\ UNCHANGED <<people, happened>>

\* close: a queued round is called off, one being sent stops before its next copy.
Close ==
    /\ callout.open
    /\ callout' = [callout EXCEPT !.open = FALSE]
    /\ IF email.status = "queued"
       THEN /\ copies' = Moved(InStatus({"pending"}), "closed")
            /\ email' = [email EXCEPT !.status = "sent", !.sentAt = TRUE]
            /\ asked' = NoAsk
       ELSE UNCHANGED <<copies, email, asked>>
    /\ UNCHANGED <<people, clock, line, happened>>

\* The requests, of a caller who may open the callout.
CalloutRemindView == CanSee /\ Remind
CalloutCloseView == CanSee /\ Close

\* closes_at passes.
Expire ==
    /\ callout.open
    /\ callout' = [callout EXCEPT !.open = FALSE]
    /\ UNCHANGED <<people, copies, email, clock, asked, line, happened>>

----------------------------------------------------------------------------
(* The people, and what the office does besides. *)

\* The signed link in a copy the server took names its account for good.
read_token(u) == people[u].got # <<0, 0>> /\ people[u].state # "gone"

\* record_answer.  The same answer sent again changes nothing and is no news.
RecordAnswer(u, a) ==
    /\ Active(u) /\ callout.open
    /\ people[u].answer # a
    /\ people' = [people EXCEPT ![u].answer = a]
    /\ UNCHANGED <<copies, email, callout, clock, asked, line, happened>>

\* A POST of the answer page, one the throttle lets through.
callout_answer(u, a) == read_token(u) /\ RecordAnswer(u, a)

\* set_hidden.
SetHidden ==
    /\ Happens
    /\ email' = [email EXCEPT !.hidden = ~@]
    /\ UNCHANGED <<people, copies, callout, clock, asked, line>>

\* mark_bounced, and the bad address remembered on the account.
Bounce(k) ==
    /\ Happens
    /\ copies[k].st = "sent"
    /\ copies' = Moved({k}, "bounced")
    /\ people' = [people EXCEPT ![Person(k)].state = IF @ = "ok" THEN "badAddress" ELSE @]
    /\ UNCHANGED <<email, callout, clock, asked, line>>

\* An account is deactivated, back with a good address, or deleted, and its answer with
\* it; a new name; the leader's profile names another DART.
AccountChange(u) ==
    /\ people[u].state # "gone"
    /\ \/ \E s \in {"ok", "inactive"} \ {people[u].state} :
            people' = [people EXCEPT ![u].state = s] /\ Happens
       \/ people' = [people EXCEPT ![u].state = "gone", ![u].answer = "none"] /\ Happens
       \/ people' = [people EXCEPT ![u].name = 3 - @] /\ Happens
       \/ /\ Turn
          /\ \E d \in Leaders \ {happened.dart} :
               happened' = [times |-> happened.times + 1, dart |-> d]
          /\ UNCHANGED people
    /\ UNCHANGED <<copies, email, callout, clock, asked, line>>

CalloutsNext ==
    \/ Claim \/ Finish \/ Stop \/ Resume \/ RetryFailed \/ CalloutRemindView
    \/ CalloutCloseView \/ Expire
    \/ SetHidden
    \/ \E k \in Keys : TryCopy(k, "sent", TRUE) \/ Bounce(k)
                       \/ \E taken \in BOOLEAN : TryCopy(k, "failed", taken)
    \/ \E u \in Recipients : AccountChange(u) \/ \E a \in CalloutAnswerKind : callout_answer(u, a)

----------------------------------------------------------------------------
(* Properties. *)

\* counts_for and callout_rows: the Callouts list counts, answer by answer, the people the
\* callout's page lists; whoever it lists without an answer is whom Remind would ask, and
\* no answer of an account that may still sign in is missing.
CountsAgree ==
    LET counts == CalloutSummarySerializer.counts
        file == AnswersDocument
        Listed(a) == {u \in CalloutDetailSerializer.recipients : file[u].answer = a}
    IN  /\ counts.reached = Cardinality(DOMAIN file)
        /\ \A a \in CalloutAnswerKind : counts.answers[a] = Cardinality(Listed(a))
        /\ counts.no_answer = Cardinality(Listed("none"))
        /\ Listed("none") = Waiting
        /\ \A u \in Answered : Active(u) => u \in DOMAIN file

\* reminders and get_closed_skipped: every press of Remind is listed as a round of its own,
\* whoever has left since, and copies read as not sent because the callout had closed only
\* once it has.
RoundsListed ==
    LET page == CalloutDetailSerializer
    IN  /\ DOMAIN page.reminders = 1 .. callout.rounds
        /\ page.closed_skipped > 0 => ~CalloutSummarySerializer.is_open

\* recheck_rows, messages_for and answer_page: however copies failed and were sent again, a
\* reader's "Email to me" shows the last copy the server took for them, in the words it
\* went with, and their answer page never falls back to an earlier round.
OwnCopyShown ==
    \A u \in Recipients : people[u].got # <<0, 0>> =>
      LET last == <<people[u].got[1], u>>
      IN  /\ copies[last].st \in Went /\ ~email.hidden =>
               MessageFor(u) = last /\ copies[last].as = people[u].got[2]
          /\ Round(AnswerPage(u)) >= Round(last)

\* _finish: the line a finished send leaves is of what was queued last, a retry's or a
\* reminder round's, and counts the copies of that alone, through stops, resumed sends,
\* bounces and deleted accounts.
LineOfAsked ==
    line # NoLine =>
      /\ line.kind = asked.kind
      /\ line.failed = Cardinality(asked.keys \cap InStatus({"failed"}))
      /\ line.sent = Cardinality(asked.keys \cap InStatus(Went))
      /\ line.kind = "retry" => line.count = Cardinality(asked.keys)
      /\ line.kind = "remind" => line.round = callout.rounds
=============================================================================
