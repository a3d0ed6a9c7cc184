---------------------------- MODULE RenewalCalendar --------------------------
(***************************************************************************)
(* The days of one member's automatic renewal: which term the scan renews, *)
(* when it schedules the charge, how a decline moves it, and how the       *)
(* member's own payments, choices and the office's grants move the stored  *)
(* charge day meanwhile (apps/payments/renewals/schedule.py, scan.py,      *)
(* charge.py, mandates.py).                                                *)
(*                                                                         *)
(* A scan and a request are one step each; what happens inside a charge is *)
(* RenewalCharge's, and what a setup saves is Mandates'.  One dated plan,  *)
(* and a lifetime term the office may grant.  Emails are left out: they    *)
(* change only whether the next scan writes again.                         *)
(***************************************************************************)
EXTENDS Integers, Sequences

CONSTANTS LastDay, TermDays, NoticeDays, CatchUpDays,
          Retries,      \* bound on the rungs of the ladder, 3 in the code
          MaxTerms,     \* bound on terms
          MaxActs,      \* bound on what the member and the office do
          Forever       \* the end of a lifetime term

VARIABLES today,
          terms,        \* Membership rows, oldest first
          mandate,      \* the renewal's RenewalMandate row
          attempts,     \* its RenewalAttempt rows, oldest first
          scanned,      \* the last step was a scan
          acts

calendarVars == <<today, terms, mandate, attempts, scanned, acts>>

State == [terms |-> terms, mandate |-> mandate, attempts |-> attempts]
Becomes(s) == terms' = s.terms /\ mandate' = s.mandate /\ attempts' = s.attempts

\* A member in their first term.
CalendarInit ==
    /\ today = 0 /\ scanned = FALSE /\ acts = 0 /\ attempts = <<>>
    /\ terms = <<[starts |-> 0, ends |-> TermDays - 1, status |-> "active"]>>
    /\ mandate = [status |-> "none", next |-> 0, failures |-> 0, chosen |-> FALSE]

-----------------------------------------------------------------------------
(* schedule.py.                                                            *)

\* Days to the next try after each decline.
RETRY_OFFSETS == SubSeq(<<1, 3, 7>>, 1, Retries)

Later(a, b) == IF a > b THEN a ELSE b

\* The term of ids ending last, the newest of those; 0 when there is none.
Furthest(s, ids) ==
    IF ids = {} THEN 0
    ELSE CHOOSE i \in ids : \A j \in ids :
            \/ s.terms[i].ends > s.terms[j].ends
            \/ s.terms[i].ends = s.terms[j].ends /\ i >= j

\* Active or expired: a term that ran out is renewable under either status.
Uncanceled(s) == {i \in DOMAIN s.terms : s.terms[i].status = "active"}
lifetime_term(s) == \E i \in Uncanceled(s) : s.terms[i].ends = Forever

term_to_renew(s) ==
    IF lifetime_term(s) THEN 0
    ELSE Furthest(s, {i \in Uncanceled(s) : s.terms[i].ends >= today})

lapsed_term_to_renew(s) ==
    IF lifetime_term(s) THEN 0
    ELSE Furthest(s, {i \in Uncanceled(s) : s.terms[i].ends < today})

default_charge_date(s) ==
    LET t == term_to_renew(s) IN IF t = 0 THEN today ELSE s.terms[t].ends

Waiting(s) == {i \in DOMAIN s.attempts : s.attempts[i].outcome = "scheduled"}

\* The waiting charge's own day is read where it matters, in due_attempts.
charge_date(s) == Later(s.mandate.next, today)

\* Whoever holds no term that has begun counts as a friend.
account_kind(s) ==
    IF \E i \in Uncanceled(s) : s.terms[i].starts <= today THEN "member" ELSE "friend"

-----------------------------------------------------------------------------
(* Terms bought, and the charge day following them.                        *)

activate_term(s, days) ==
    LET t == Furthest(s, Uncanceled(s))
        starts == IF t # 0 /\ ~lifetime_term(s) /\ s.terms[t].ends >= today
                  THEN s.terms[t].ends + 1 ELSE today
        ends == IF days = Forever THEN Forever ELSE starts + days - 1
    IN  [s EXCEPT !.terms = Append(@, [starts |-> starts, ends |-> ends, status |-> "active"])]

\* covered: the day the coverage ran to before, -1 when there was none.
roll_charge_date_past(s, covered) ==
    LET t == term_to_renew(s)
        ends == s.terms[t].ends
        previous == IF covered = -1 THEN s.mandate.next ELSE covered
        rolled == ends - (previous - s.mandate.next)
    IN  IF s.mandate.status # "active" \/ t = 0 THEN s
        ELSE IF s.mandate.next >= ends \/ ends <= previous THEN s
        ELSE [s EXCEPT !.mandate.next = IF rolled >= today THEN rolled ELSE ends]

\* A pending mandate the payment saved a method for becomes active.
activate_pending_mandate(s, saves) ==
    IF s.mandate.status # "pending" \/ ~saves THEN s
    ELSE [s EXCEPT !.mandate = [status |-> "active", failures |-> 0, chosen |-> FALSE,
                                next |-> IF @.chosen THEN @.next ELSE default_charge_date(s)]]

\* payments/services._complete, for a payment of dues.
Complete(s, saves) ==
    LET t == term_to_renew(s)
        covered == IF t = 0 THEN -1 ELSE s.terms[t].ends
    IN  activate_pending_mandate(roll_charge_date_past(activate_term(s, TermDays), covered),
                                 saves)

-----------------------------------------------------------------------------
(* scan.py: the notice step.                                               *)

\* One waiting charge to a mandate.
schedule_attempt(s, t, day) ==
    IF Waiting(s) # {} THEN s
    ELSE [s EXCEPT !.attempts = Append(@, [term |-> t, on |-> day, outcome |-> "scheduled",
                                           sent |-> FALSE])]

ScheduleWithinNotice(s, t) ==
    IF charge_date(s) - today > NoticeDays THEN s ELSE schedule_attempt(s, t, charge_date(s))

HasAttempt(s, t, outcomes) ==
    \E i \in DOMAIN s.attempts : s.attempts[i].term = t /\ s.attempts[i].outcome \in outcomes

abandon(s) == [s EXCEPT !.mandate.status = "paused"]

catch_up(s) ==
    LET t == lapsed_term_to_renew(s) IN
    IF t = 0 \/ HasAttempt(s, t, {"scheduled", "succeeded", "failed", "skipped"}) THEN s
    ELSE IF today - s.mandate.next > CatchUpDays THEN abandon(s)
    ELSE ScheduleWithinNotice(s, t)

\* Mutant: an automatic charge already taken for the term is not looked for.
MutAlreadyTaken(s, t) == FALSE
AlreadyTaken(s, t) == HasAttempt(s, t, {"succeeded"})

notice(s) ==
    LET t == term_to_renew(s) IN
    IF s.mandate.status # "active" \/ account_kind(s) = "friend" \/ lifetime_term(s) THEN s
    ELSE IF t = 0 THEN catch_up(s)
    ELSE IF Waiting(s) # {} \/ AlreadyTaken(s, t) THEN s
    ELSE ScheduleWithinNotice(s, t)

-----------------------------------------------------------------------------
(* charge.py: the charge step.                                             *)

due_attempts(s) == {i \in Waiting(s) : s.attempts[i].on <= today}
Closed(s, i, outcome) == [s EXCEPT !.attempts[i].outcome = outcome]

already_renewed(s, i) ==
    LET t == term_to_renew(s) IN
    t # 0 /\ s.terms[t].ends > s.terms[s.attempts[i].term].ends

skip_reason(s, i) ==
    CASE s.mandate.status # "active" -> "not_active"
      [] account_kind(s) = "friend" -> "friend"
      [] lifetime_term(s) -> "lifetime"
      [] already_renewed(s, i) -> "already_renewed"
      [] OTHER -> "none"

skip(s, i) ==
    LET closed == Closed(s, i, "skipped") IN
    IF skip_reason(s, i) = "already_renewed"
    THEN roll_charge_date_past(closed, s.terms[s.attempts[i].term].ends)
    ELSE closed

record_success(s, i, saves) ==
    LET paid == Closed(Complete(s, saves), i, "succeeded")
        t == term_to_renew(paid)
    IN  [paid EXCEPT !.mandate.failures = 0,
                     !.mandate.next = IF t = 0 THEN @ ELSE paid.terms[t].ends]

record_failure(s, i) ==
    LET closed == Closed(s, i, "failed")
        count == s.mandate.failures + 1
    IN  IF s.mandate.status # "active" THEN closed
        ELSE IF count > Retries
        THEN [closed EXCEPT !.mandate.failures = count, !.mandate.status = "paused"]
        ELSE schedule_attempt([closed EXCEPT !.mandate.failures = count],
                              s.attempts[i].term, today + RETRY_OFFSETS[count])

\* What charging attempt i may leave.  A charge sent and unanswered is asked about first,
\* and skipped only when the provider holds none.
charge(s, i) ==
    LET skips == skip_reason(s, i) # "none"
        answered == {record_success(s, i, saves) : saves \in BOOLEAN} \cup {record_failure(s, i)}
        unanswered == {[s EXCEPT !.attempts[i].sent = TRUE]}
        unsent == IF s.attempts[i].sent THEN {} ELSE {s}
    IN  IF ~skips THEN answered \cup unanswered \cup unsent
        ELSE IF s.attempts[i].sent THEN answered \cup unanswered \cup {skip(s, i)}
        ELSE {skip(s, i)}

\* run_auto_renewals, live.
Scan ==
    LET s == notice(State)
        due == due_attempts(s)
    IN  /\ Len(terms) < MaxTerms
        /\ IF due = {} THEN Becomes(s) ELSE \E i \in due : \E r \in charge(s, i) : Becomes(r)
        /\ scanned' = TRUE
        /\ UNCHANGED <<today, acts>>

-----------------------------------------------------------------------------
(* The member and the office.                                              *)

Acts == acts < MaxActs /\ acts' = acts + 1 /\ scanned' = FALSE /\ UNCHANGED today

\* no_past_charge_date
ChargeDays == today .. today + 1

\* POST /me/renewal/setup, or a checkout that asks for renewal; day -1: none chosen.
begin_mandate(day) ==
    /\ Acts /\ ~lifetime_term(State)
    /\ mandate' = [status |-> "pending", failures |-> 0, chosen |-> day # -1,
                   next |-> IF day = -1 THEN default_charge_date(State) ELSE day]
    /\ UNCHANGED <<terms, attempts>>

save_method ==
    /\ Acts /\ mandate.status = "pending"
    /\ mandate' = [mandate EXCEPT !.status = "active", !.failures = 0, !.chosen = FALSE]
    /\ UNCHANGED <<terms, attempts>>

\* PATCH /me/renewal with a day.
Patch(day) ==
    /\ Acts /\ mandate.status # "none" /\ ~lifetime_term(State)
    /\ mandate' = [mandate EXCEPT !.next = day]
    /\ UNCHANGED <<terms, attempts>>

cancel_mandate ==
    /\ Acts /\ mandate.status \notin {"none", "canceled"}
    /\ mandate' = [mandate EXCEPT !.status = "canceled"]
    /\ attempts' = [i \in DOMAIN attempts |->
                       IF i \in Waiting(State) /\ ~attempts[i].sent
                       THEN [attempts[i] EXCEPT !.outcome = "skipped"] ELSE attempts[i]]
    /\ UNCHANGED terms

\* The member pays for a term themselves.
RenewByHand(saves) == Acts /\ Len(terms) < MaxTerms /\ Becomes(Complete(State, saves))

grant_term(days) == Acts /\ Len(terms) < MaxTerms /\ Becomes(activate_term(State, days))

\* The office cancels a term, or a refund of its payment does.
cancel_term(t) ==
    /\ Acts /\ terms[t].status = "active"
    /\ terms' = [terms EXCEPT ![t].status = "canceled"]
    /\ UNCHANGED <<mandate, attempts>>

\* The treasurer closes a charge in doubt as not taken.
close_unpaid(i) ==
    /\ Acts /\ attempts[i].outcome = "scheduled" /\ attempts[i].sent
    /\ attempts' = [attempts EXCEPT ![i].outcome = "failed"]
    /\ mandate' = [mandate EXCEPT !.status = IF @ = "active" THEN "paused" ELSE @]
    /\ UNCHANGED terms

NewDay ==
    /\ today < LastDay /\ today' = today + 1 /\ scanned' = FALSE
    /\ UNCHANGED <<terms, mandate, attempts, acts>>

MemberStep ==
    \/ \E day \in ChargeDays \cup {-1} : begin_mandate(day)
    \/ save_method \/ cancel_mandate
    \/ \E day \in ChargeDays : Patch(day)
    \/ \E saves \in BOOLEAN : RenewByHand(saves)

OfficeStep ==
    \/ \E days \in {TermDays, Forever} : grant_term(days)
    \/ \E t \in DOMAIN terms : cancel_term(t)
    \/ \E i \in DOMAIN attempts : close_unpaid(i)

CalendarNext == Scan \/ MemberStep \/ OfficeStep \/ NewDay

CalendarSpec == CalendarInit /\ [][CalendarNext]_calendarVars

-----------------------------------------------------------------------------

\* No term is renewed automatically twice, whatever becomes of the term the first charge
\* bought, of the mandate and of the stored day in between (_notice, _catch_up,
\* _record_failure).
OneRenewalPerTerm ==
    \A i, j \in DOMAIN attempts :
        (/\ attempts[i].outcome = "succeeded" /\ attempts[j].outcome = "succeeded"
         /\ attempts[i].term = attempts[j].term) => i = j

\* reminders/services._renews_itself
RemindersWithheld ==
    \/ mandate.status = "active"
    \/ mandate.status = "pending" /\ Waiting(State) # {}

\* Their last term ran out, and no automatic charge was taken for it.
Lapsed ==
    /\ term_to_renew(State) = 0 /\ lapsed_term_to_renew(State) # 0
    /\ ~AlreadyTaken(State, lapsed_term_to_renew(State))

\* When a scan has run, a lapsed member whose reminders are withheld has a charge waiting
\* or a charge day still to come: the scan is what "stops such a member lapsing
\* unnoticed" (scan._catch_up).
NoSilentLapse ==
    (scanned /\ RemindersWithheld /\ Lapsed) => (Waiting(State) # {} \/ mandate.next > today)
=============================================================================
