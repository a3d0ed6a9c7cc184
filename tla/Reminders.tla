------------------------------ MODULE Reminders ------------------------------
(***************************************************************************)
(* The renewal reminders of one member (apps/reminders): the stages before *)
(* and after a term ends, and the scans that send them, which a timer and  *)
(* an administrator may start at once.                                     *)
(*                                                                         *)
(* A scan goes through the stages in order.  It files a row for a reminder *)
(* before it hands it to the mail server, and takes the row away when the  *)
(* server raises; a scan can die, and an answer can be lost.               *)
(***************************************************************************)
EXTENDS Membership, Sequences

CONSTANTS Default,      \* the schedule at first: <<first, second, final, lapsed>>
          Schedules,    \* the schedules an administrator may set
          Scans,        \* scans that can run at once
          MaxScans,     \* bound on the scans of a behaviour
          MaxLost       \* bound on deaths and lost answers

VARIABLES schedule,     \* ReminderSchedule, the one row
          mandate,      \* the member's automatic renewal, as _renews_itself sees it
          scan,         \* the scans
          log,          \* ReminderLog: <<term, kind>>
          inbox,        \* copies delivered, by term and kind
          lost,         \* answers lost, by term and kind
          scanned, deaths

reminderVars == <<schedule, mandate, scan, log, inbox, lost, scanned, deaths>>

KIND_ORDER == <<"first", "second", "final", "expired", "lapsed">>
ReminderKinds == {KIND_ORDER[i] : i \in 1..Len(KIND_ORDER)}
Pairs == Slots \X ReminderKinds

\* The limits of schedule_errors.
MAX_FIRST == 180
MIN_FINAL == 1
MIN_LAPSED == 7
MAX_LAPSED == 365

schedule_ok(s) ==
    /\ s[1] <= MAX_FIRST /\ s[1] > s[2] /\ s[2] > s[3]
    /\ s[3] >= MIN_FINAL /\ s[4] \in MIN_LAPSED..MAX_LAPSED

\* A schedule is four days, the one at first in order; terms end on days.
ReminderValues ==
    /\ Default \in [1..4 -> Int] /\ schedule_ok(Default) /\ Schedules \subseteq [1..4 -> Int]
    /\ Durations \subseteq Int /\ Forever \in Int /\ IsFiniteSet(Slots)

NoScan == [at |-> "idle", kind |-> 0, left |-> {}, day |-> NoDay, slot |-> 0]

\* No scan has run.
ScansInit ==
    /\ schedule = Default /\ mandate = "none"
    /\ scan = [r \in Scans |-> NoScan]
    /\ log = {} /\ scanned = 0 /\ deaths = 0
    /\ inbox = [p \in Pairs |-> 0]
    /\ lost = [p \in Pairs |-> 0]

RemindersInit ==
    /\ \E days \in Durations, active \in BOOLEAN :
          /\ user = [kind |-> "member", friend_on |-> NoDay, active |-> active, since |-> 1]
          /\ terms = [t \in Slots |->
               IF t = 1 THEN [status |-> IF active THEN "active" ELSE "suspended",
                              starts |-> 1, ends |-> days] ELSE NoTerm]
    /\ today = 1 /\ acts = 0 /\ due = FALSE
    /\ ScansInit

-----------------------------------------------------------------------------
(* The stages.                                                             *)

offset(kind) ==
    CASE kind = "first" -> -schedule[1]
      [] kind = "second" -> -schedule[2]
      [] kind = "final" -> -schedule[3]
      [] kind = "expired" -> 0
      [] kind = "lapsed" -> schedule[4]

\* Mutant: the next stage's day is counted in.
MutReach(kind) ==
    CASE kind = "expired" -> 6
      [] kind = "lapsed" -> 30
      [] OTHER -> Min({offset(k) : k \in {k \in ReminderKinds : offset(k) > offset(kind)}})
                    - offset(kind)

\* How many days a stage that was missed is still made up for: after the end a fixed
\* number, before it until the next stage's day.
reach(kind) ==
    CASE kind = "expired" -> 6
      [] kind = "lapsed" -> 30
      [] OTHER -> Min({offset(k) : k \in {k \in ReminderKinds : offset(k) > offset(kind)}})
                    - offset(kind) - 1

\* The last days of the terms a stage is for on a given day.
stage_span(kind, day) == (day - offset(kind) - reach(kind))..(day - offset(kind))

candidates(kind, day) ==
    {t \in HeldTerms : /\ terms[t].status \notin {"canceled", "suspended"}
                  /\ terms[t].ends \in stage_span(kind, day)
                  /\ user.kind # "friend" /\ user.friend_on = NoDay}

renews_itself == mandate = "renews"

\* skip_reason: nothing to send.
Skipped(t, kind) ==
    \/ ~user.active \/ <<t, kind>> \in log
    \/ membership_status.is_lifetime \/ renews_itself
    \/ IF kind = "lapsed" THEN membership_status.status = "current"
       ELSE membership_status.expires_on # terms[t].ends

-----------------------------------------------------------------------------
(* A scan.                                                                 *)

\* The timer starts a scan, on the first of Scans that is free.
send_renewal_reminders(r) ==
    /\ scan[r].at = "idle" /\ \A q \in Scans : q < r => scan[q].at # "idle"
    /\ scanned < MaxScans /\ scanned' = scanned + 1
    /\ scan' = [scan EXCEPT ![r] = [NoScan EXCEPT !.at = "flipped", !.day = today]]
    /\ terms' = Expired /\ due' = due_conversions
    /\ UNCHANGED <<user, today, acts, schedule, mandate, log, inbox, lost, deaths>>

ConvertFriends(r) ==
    /\ scan[r].at = "flipped"
    /\ scan' = [scan EXCEPT ![r].at = "stage"]
    /\ user' = IF due_conversions THEN set_kind(user, "friend") ELSE user
    /\ UNCHANGED <<terms, today, acts, due, schedule, mandate, log, inbox, lost, scanned, deaths>>

Stage(r) ==
    /\ scan[r].at = "stage" /\ scan[r].left = {}
    /\ scan' = IF scan[r].kind = Len(KIND_ORDER) THEN [scan EXCEPT ![r] = NoScan]
               ELSE [scan EXCEPT ![r].kind = @ + 1,
                                 ![r].left = candidates(KIND_ORDER[scan[r].kind + 1],
                                                        scan[r].day)]
    /\ UNCHANGED <<memberVars, schedule, mandate, log, inbox, lost, scanned, deaths>>

\* The next candidate: skipped, or its row is filed.  The row is unique: a scan that finds
\* another's skips too.
Filed(pair) == pair \notin log

SendOne(r) ==
    /\ scan[r].at = "stage" /\ scan[r].left # {}
    /\ LET t == Min(scan[r].left)
           k == KIND_ORDER[scan[r].kind]
           go == ~Skipped(t, k)
       IN  scan' = [scan EXCEPT ![r].left = @ \ {t}, ![r].slot = t,
                                ![r].at = IF go THEN "read" ELSE @]
    /\ UNCHANGED <<memberVars, schedule, mandate, log, inbox, lost, scanned, deaths>>

Pair(r) == <<scan[r].slot, KIND_ORDER[scan[r].kind]>>

FileRow(r) ==
    /\ scan[r].at = "read"
    /\ scan' = [scan EXCEPT ![r].at = IF Filed(Pair(r)) THEN "filed" ELSE "stage"]
    /\ log' = log \union {Pair(r)}
    /\ UNCHANGED <<memberVars, schedule, mandate, inbox, lost, scanned, deaths>>

Deliver(r, answer) ==
    /\ scan[r].at = "filed"
    /\ answer = "lost" => deaths < MaxLost
    /\ deaths' = IF answer = "lost" THEN deaths + 1 ELSE deaths
    /\ inbox' = IF answer = "refused" THEN inbox ELSE [inbox EXCEPT ![Pair(r)] = @ + 1]
    /\ lost' = IF answer = "lost" THEN [lost EXCEPT ![Pair(r)] = @ + 1] ELSE lost
    /\ log' = IF answer = "accepted" THEN log ELSE log \ {Pair(r)}
    /\ scan' = [scan EXCEPT ![r].at = "stage"]
    /\ UNCHANGED <<memberVars, schedule, mandate, scanned>>

\* The process is killed: nothing takes the row away.
Die(r, delivered) ==
    /\ scan[r].at # "idle" /\ deaths < MaxLost /\ deaths' = deaths + 1
    /\ delivered => scan[r].at = "filed"
    /\ inbox' = IF delivered THEN [inbox EXCEPT ![Pair(r)] = @ + 1] ELSE inbox
    /\ scan' = [scan EXCEPT ![r] = NoScan]
    /\ UNCHANGED <<memberVars, schedule, mandate, log, lost, scanned>>

ScanStep(r) ==
    \/ ConvertFriends(r) \/ Stage(r) \/ SendOne(r) \/ FileRow(r)
    \/ \E answer \in {"accepted", "refused", "lost"} : Deliver(r, answer)

\* An administrator changes the schedule; the member's automatic renewal starts or stops.
ReminderSchedulePut ==
    /\ Act /\ schedule' \in Schedules \ {schedule} /\ schedule_ok(schedule')
    /\ UNCHANGED <<user, terms, today, due, mandate, scan, log, inbox, lost, scanned, deaths>>
MandateChanges ==
    /\ Act /\ mandate' \in {"none", "renews"} \ {mandate}
    /\ UNCHANGED <<user, terms, today, due, schedule, scan, log, inbox, lost, scanned, deaths>>

\* A scan is over within a quarter of an hour, or a minute if the page started it (systemd's
\* and gunicorn's limits): it sees one midnight at most.
OfToday == \A r \in Scans : scan[r].at # "idle" => scan[r].day = today

RemindersNext ==
    \/ \E r \in Scans :
          \/ send_renewal_reminders(r) \/ ScanStep(r)
          \/ \E delivered \in BOOLEAN : Die(r, delivered)
    \/ ReminderSchedulePut \/ MandateChanges
    \/ /\ \/ \E days \in Durations : Pay(days)
          \/ \E t \in Slots : cancel_term(t)
          \/ suspend_terms \/ restore_terms \/ become_friend \/ (NextDay /\ OfToday)
       /\ UNCHANGED reminderVars

RemindersSpec == RemindersInit /\ [][RemindersNext]_<<memberVars, reminderVars>>

-----------------------------------------------------------------------------
\* However many scans run at once, and whichever die, no reminder of a stage reaches a
\* member twice for one term, but for a copy whose acceptance the scan never heard of
\* (send_one: the row is filed first and taken away only when the send raised).
CopiesOnce == \A p \in Pairs : inbox[p] <= 1 + lost[p]

\* On any day from the first stage's to the sixth after a term's end the term is in exactly
\* one stage, and on no day in two, under every schedule an administrator can set: a day's
\* scan that did not run is made up for, and no day asks twice (stage_span).  Stages do not
\* depend on the scans, so the states in which none runs are enough.
OneStage ==
    (\A r \in Scans : scan[r].at = "idle") =>
    \A t \in HeldTerms : terms[t].ends # Forever =>
        LET stages == {k \in ReminderKinds : terms[t].ends \in stage_span(k, today)}
        IN  /\ Cardinality(stages) <= 1
            /\ today - terms[t].ends \in (-schedule[1])..6 => stages # {}

\* A member has one reminder for each stage of a term, and a day is of one stage.
RemindedOnce == CopiesOnce /\ OneStage
=============================================================================
