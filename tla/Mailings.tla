------------------------------ MODULE Mailings -------------------------------
(***************************************************************************)
(* The mail that goes out on a schedule: report subscriptions, the monthly *)
(* DART rosters (apps/reports) and the year's contribution statements      *)
(* (apps/payments/statements.py).                                          *)
(*                                                                         *)
(* A behaviour follows one mailing.  Its timer and Run now may overlap.  A *)
(* due report or roster is claimed with a row lock that others skip, and   *)
(* the copy goes out before the transaction commits; a statement is        *)
(* claimed by a row of its own that is written first.  The mail server may *)
(* refuse a copy, or take it and lose the answer, and a run may die.       *)
(***************************************************************************)
EXTENDS Integers, FiniteSets

CONSTANTS Runners,        \* runs of the timer and of Run now
          Contacts,       \* a DART's contacts; any other mailing goes to one recipient
          WeekDays, MonthDays,  \* the length of a week and of a month, in days
          LastDay         \* bound on the days of a behaviour

ASSUME CalendarLengths == WeekDays \in Nat \ {0} /\ MonthDays \in Nat \ {0}

VARIABLES mailing,        \* "report", "roster" or "statement"
          day,
          item,           \* the subscription, DART or account
          permitted,         \* whether the subscription's recipient may read the report
          runner,         \* the runs
          edit,           \* the subscription form that is open, with the row it read
          copies,         \* accepted copies of scheduled runs, by recipient and due date
          again           \* due dates whose copies may go out again, with a reason

mailingVars == <<mailing, day, item, permitted, runner, edit, copies, again>>

Dues == 0..(LastDay + WeekDays + MonthDays)
Recipients == IF mailing = "roster" THEN Contacts ELSE {1}
Month == day \div MonthDays
NoRunner == [at |-> "none", asked |-> FALSE, due |-> 0, left |-> {}, took |-> {}, failed |-> FALSE]
NoEdit == [open |-> FALSE, read |-> 0]

\* The first day after today that the cadence names.
next_due_after(cadence, weekday, today) ==
    IF cadence = "weekly"
    THEN LET ahead == (weekday - today) % WeekDays
         IN  today + IF ahead = 0 THEN WeekDays ELSE ahead
    ELSE ((today \div MonthDays) + 1) * MonthDays

\* due is next_due_on of a subscription, the month after roster_sent_at of a DART, and 1
\* for an account without a YearStatement (it has one at 2).
MailingsInit ==
    /\ mailing \in {"report", "roster", "statement"} /\ day = 0
    /\ item \in {[exists |-> TRUE, active |-> TRUE, cadence |-> c, weekday |-> w,
                  due |-> IF mailing = "report" THEN next_due_after(c, w, 0)
                          ELSE IF mailing = "roster" THEN 0 ELSE 1] :
                     c \in IF mailing = "report" THEN {"weekly", "monthly"} ELSE {"monthly"},
                     w \in {0}}
    /\ permitted = TRUE /\ edit = NoEdit
    /\ runner = [r \in Runners |-> NoRunner]
    /\ copies = [c \in Contacts |-> [d \in Dues |-> 0]]
    /\ again = {}

\* Taken by select_for_update; a statement's claim locks nothing.
Locked == mailing # "statement" /\ \E r \in Runners : runner[r].at = "claimed" /\ ~runner[r].asked
Due ==
    /\ item.exists
    /\ CASE mailing = "report" -> item.active /\ item.due <= day
         [] mailing = "roster" -> item.active /\ item.due <= Month
         [] mailing = "statement" -> item.due = 1

-----------------------------------------------------------------------------
(* A run.                                                                  *)

\* due_subscription_ids, due_roster_ids, the statements already sent.
run_scheduled(r) ==
    /\ runner[r] = NoRunner /\ Due
    /\ runner' = [runner EXCEPT ![r].at = "listed"]
    /\ UNCHANGED <<mailing, day, item, permitted, edit, copies, again>>

Claims(r, asked) ==
    runner' = [runner EXCEPT ![r] = [NoRunner EXCEPT !.at = "claimed", !.asked = asked,
                                     !.due = item.due, !.left = Recipients]]

MutStillDue == item.exists
still_due == Due

\* A row another run holds is skipped; get_or_create leaves a row that is there alone.
ClaimDue(r) ==
    /\ runner[r].at = "listed"
    /\ IF Locked \/ ~still_due
       THEN runner' = [runner EXCEPT ![r].at = "ended"] /\ UNCHANGED item
       ELSE IF mailing = "report" /\ ~permitted       \* not_permitted: the subscription stops
       THEN runner' = [runner EXCEPT ![r].at = "ended"] /\ item' = [item EXCEPT !.active = FALSE]
       ELSE Claims(r, FALSE)
            /\ item' = IF mailing = "statement" THEN [item EXCEPT !.due = 2] ELSE item
    /\ UNCHANGED <<mailing, day, permitted, edit, copies, again>>

\* send_rosters_now takes every active DART, due or not, and locks nothing.
send_rosters_now(r) ==
    /\ mailing = "roster" /\ runner[r] = NoRunner /\ item.active
    /\ Claims(r, TRUE)
    /\ UNCHANGED <<mailing, day, item, permitted, edit, copies, again>>

\* send_subscription_now leaves next_due_on alone; it too stops a subscription whose
\* recipient may not read the report.
send_subscription_now ==
    /\ mailing = "report" /\ item.exists /\ ~Locked /\ ~permitted /\ item.active
    /\ item' = [item EXCEPT !.active = FALSE]
    /\ UNCHANGED <<mailing, day, permitted, runner, edit, copies, again>>

\* A copy that was asked for is not counted.
Copied(r, c) == IF runner[r].asked THEN copies
                ELSE [copies EXCEPT ![c][runner[r].due] = @ + 1]

SendCopy(r, c) ==
    /\ runner[r].at = "claimed" /\ c \in runner[r].left
    /\ \A d \in runner[r].left : c <= d
    /\ runner' = [runner EXCEPT ![r].left = @ \ {c}, ![r].took = @ \union {c}]
    /\ copies' = Copied(r, c)
    /\ UNCHANGED <<mailing, day, item, permitted, edit, again>>

\* The mail server refuses the copy, or takes it and the answer is lost.
CopyFails(r, c) ==
    /\ runner[r].at = "claimed" /\ c \in runner[r].left
    /\ \A d \in runner[r].left : c <= d
    /\ runner' = [runner EXCEPT ![r].left = @ \ {c}, ![r].failed = TRUE]
    /\ \/ UNCHANGED <<copies, again>>
       \/ /\ copies[c][runner[r].due] < 2
          /\ copies' = Copied(r, c)
          /\ again' = again \union {runner[r].due}
    /\ UNCHANGED <<mailing, day, item, permitted, edit>>

\* Every copy sent moves the date on; a failure leaves it, and then whoever was reached is
\* written to again.  A statement's claim is deleted instead.
Settled(r) ==
    IF mailing = "statement"
    THEN IF runner[r].failed THEN [item EXCEPT !.due = 1] ELSE item
    ELSE IF runner[r].failed THEN item
    ELSE [item EXCEPT !.due = IF mailing = "report"
                              THEN next_due_after(item.cadence, item.weekday, day)
                              ELSE Month + 1]

EndRun(r) ==
    /\ runner[r].at = "claimed" /\ runner[r].left = {}
    /\ runner[r].asked => ~Locked
    /\ item' = Settled(r)
    /\ again' = IF runner[r].failed /\ runner[r].took # {} /\ ~runner[r].asked
                THEN again \union {runner[r].due} ELSE again
    /\ runner' = [runner EXCEPT ![r] = [NoRunner EXCEPT !.at = "ended"]]
    /\ UNCHANGED <<mailing, day, permitted, edit, copies>>

\* The transaction of a report or a roster rolls back; a statement's claim stays.
Crash(r) ==
    /\ runner[r].at \in {"listed", "claimed"}
    /\ again' = IF runner[r].took # {} /\ ~runner[r].asked
                THEN again \union {runner[r].due} ELSE again
    /\ runner' = [runner EXCEPT ![r] = [NoRunner EXCEPT !.at = "ended"]]
    /\ UNCHANGED <<mailing, day, item, permitted, edit, copies>>

-----------------------------------------------------------------------------
(* The subscription's form, the recipient's roles, the calendar.           *)

OpenSubscription ==
    /\ mailing = "report" /\ item.exists /\ ~edit.open
    /\ edit' = [open |-> TRUE, read |-> item]
    /\ UNCHANGED <<mailing, day, item, permitted, runner, copies, again>>

\* update: a new cadence sets the next date; the whole row is saved as it was read, and a
\* row that was deleted meanwhile is written again.
Edited(row, cadence, active) ==
    [row EXCEPT !.cadence = cadence, !.active = active,
                !.due = IF cadence = row.cadence THEN @
                        ELSE next_due_after(cadence, row.weekday, day)]

SaveForm(cadence, active) ==
    /\ edit.open /\ ~Locked
    /\ active => permitted                      \* validate: resuming
    /\ item' = Edited(edit.read, cadence, active)
    /\ again' = IF item'.due < item.due THEN again \union (item'.due .. item.due) ELSE again
    /\ edit' = NoEdit
    /\ UNCHANGED <<mailing, day, permitted, runner, copies>>

DeleteSubscription ==
    /\ mailing = "report" /\ item.exists /\ ~Locked
    /\ item' = [item EXCEPT !.exists = FALSE]
    /\ UNCHANGED <<mailing, day, permitted, runner, edit, copies, again>>

\* The recipient loses the report's role, or is given it again.
RolesChange ==
    /\ mailing = "report"
    /\ permitted' = ~permitted
    /\ UNCHANGED <<mailing, day, item, runner, edit, copies, again>>

MailingDay ==
    /\ day < LastDay
    /\ day' = day + 1
    /\ UNCHANGED <<mailing, item, permitted, runner, edit, copies, again>>

MailingsNext ==
    \/ \E r \in Runners :
          \/ run_scheduled(r) \/ ClaimDue(r) \/ send_rosters_now(r) \/ EndRun(r) \/ Crash(r)
          \/ \E c \in Contacts : SendCopy(r, c) \/ CopyFails(r, c)
    \/ send_subscription_now \/ OpenSubscription \/ DeleteSubscription \/ RolesChange \/ MailingDay
    \/ \E cadence \in {"weekly", "monthly"}, active \in BOOLEAN : SaveForm(cadence, active)

MailingsSpec == MailingsInit /\ [][MailingsNext]_mailingVars

-----------------------------------------------------------------------------
\* Nobody gets two scheduled copies for one due date, one month or one year, unless a copy
\* failed or the run died after the mail server had taken one, or a form put an earlier
\* date back (claim_due_subscription, claim_due_roster, _send_statement).
MailedOnce ==
    \A c \in Contacts, d \in Dues : copies[c][d] > 1 => d \in again
=============================================================================
