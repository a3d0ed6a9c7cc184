------------------------------- MODULE Bounces -------------------------------
(***************************************************************************)
(* The email log and the reports of mail that bounced (caldart/mail.py,    *)
(* apps/mail/bounces.py).                                                  *)
(*                                                                         *)
(* A message leaves from an address that carries the id of its log row,    *)
(* signed over the message.  The row is written after the mail server has   *)
(* answered; a report may come back at any time, its account may have      *)
(* moved to another address by then, and a database restored from a backup *)
(* gives an id a second time.  A run of the check may stop between any two *)
(* of its steps, and the next one reads what it left.                      *)
(***************************************************************************)
EXTENDS Integers, FiniteSets

CONSTANTS Holders,        \* accounts
          Places,         \* addresses
          Letters,        \* messages
          Readers,        \* runs of the bounce check
          MaxAge,         \* REPORT_MAX_AGE, in days
          LastAge,        \* bound on the days of a behaviour
          MaxMoves        \* bound on the address changes

ASSUME LettersFinite == IsFiniteSet(Letters)

VARIABLES holder,         \* each account's address, and the address its bounce flag is for
          letter,         \* each message: its log id, where it went, whether it was taken
          emaillog,       \* EmailLog, by id
          sequence,       \* the last id the database gave
          box,            \* the bounce mailbox: at most one report of a message
          reading,        \* the runs of the bounce check
          now,            \* the day
          restored,       \* whether a backup was restored
          moves           \* address changes so far

bounceVars == <<holder, letter, emaillog, sequence, box, reading, now, restored, moves>>

Ids == 1..Cardinality(Letters)
NoFlag == 0
NoLetter == [at |-> "none", id |-> 0, to |-> 0, user |-> 0, taken |-> FALSE]
NoEntry == [status |-> "none", letter |-> 0, to |-> 0, user |-> 0, day |-> 0]
NoReport == [kind |-> "none", signed |-> FALSE, seen |-> FALSE]
NoReading == [at |-> "idle", dry |-> FALSE, left |-> {}, on |-> 0]
NewHolder == [u \in Holders |-> [address |-> u, flag |-> NoFlag]]

BounceInit ==
    /\ holder = NewHolder
    /\ letter = [l \in Letters |-> NoLetter]
    /\ emaillog = [i \in Ids |-> NoEntry] /\ sequence = 0
    /\ box = [l \in Letters |-> NoReport]
    /\ reading = [r \in Readers |-> NoReading]
    /\ now = 0 /\ restored = FALSE /\ moves = 0

-----------------------------------------------------------------------------
(* Sending.                                                                *)

\* _reserve_log_id, then the mail server is asked.
send_templated(l, u, taken) ==
    /\ letter[l].at = "none" /\ \A k \in Letters : k < l => letter[k].at # "none"
    /\ sequence < Cardinality(Letters)
    /\ sequence' = sequence + 1
    /\ letter' = [letter EXCEPT ![l] = [at |-> "asked", id |-> sequence', user |-> u,
                                        to |-> holder[u].address, taken |-> taken]]
    /\ UNCHANGED <<holder, emaillog, box, reading, now, restored, moves>>

\* The answer: a refusal, or a message taken whose answer was lost, is logged as failed.
record(l, answered) ==
    /\ letter[l].at = "asked"
    /\ letter' = [letter EXCEPT ![l].at = "logged"]
    /\ emaillog' = [emaillog EXCEPT ![letter[l].id] =
           [status |-> IF letter[l].taken /\ answered THEN "sent" ELSE "failed",
            letter |-> l, to |-> letter[l].to, user |-> letter[l].user, day |-> now]]
    /\ UNCHANGED <<holder, sequence, box, reading, now, restored, moves>>

\* The request's transaction is rolled back after the message went.
Unrecorded(l) ==
    /\ letter[l].at = "asked"
    /\ letter' = [letter EXCEPT ![l].at = "logged"]
    /\ UNCHANGED <<holder, emaillog, sequence, box, reading, now, restored, moves>>

\* A mail server reports on a message; a report somebody else made up has no signature.
Report(l, kind, signed) ==
    /\ box[l] = NoReport /\ letter[l].at # "none"
    /\ signed => letter[l].taken
    /\ ~signed => kind = "address"
    /\ box' = [box EXCEPT ![l] = [kind |-> kind, signed |-> signed, seen |-> FALSE]]
    /\ UNCHANGED <<holder, letter, emaillog, sequence, reading, now, restored, moves>>

-----------------------------------------------------------------------------
(* The bounce check.                                                       *)

Unseen == {l \in Letters : box[l].kind # "none" /\ ~box[l].seen}

check_bounces(r, dry) ==
    /\ reading[r].at = "idle" /\ Unseen # {}
    /\ reading' = [reading EXCEPT ![r] = [at |-> "reading", dry |-> dry, left |-> Unseen, on |-> 0]]
    /\ UNCHANGED <<holder, letter, emaillog, sequence, box, now, restored, moves>>

\* parse_report: only a permanent failure is one.
IsFailure(report) == report.kind \in {"address", "policy"}
is_address_failure(report) == report.kind = "address"

\* The id is signed over the message it was given to.
bounce_tag_matches(entry, l) == entry.letter = l

\* The log row a report is about, if there is one.
signed_row(l) ==
    IF ~box[l].signed THEN {}
    ELSE {i \in {letter[l].id} :
             /\ emaillog[i].status \notin {"none", "failed"}
             /\ now - emaillog[i].day <= MaxAge
             /\ bounce_tag_matches(emaillog[i], l)}

MutReached(entry) == {entry.user}
Reached(entry) == {u \in Holders : holder[u].address = entry.to}

\* The report's writes, in one transaction.
Mark(i, report) ==
    /\ emaillog' = [emaillog EXCEPT ![i].status = "bounced"]
    /\ holder' = [u \in Holders |->
           IF is_address_failure(report) /\ u \in Reached(emaillog[i])
           THEN [holder[u] EXCEPT !.flag = emaillog[i].to] ELSE holder[u]]

\* A message the server does not hand over is left unread.
Skip(r, l) ==
    /\ reading[r].at = "reading" /\ l \in reading[r].left
    /\ reading' = [reading EXCEPT ![r].left = @ \ {l}]
    /\ UNCHANGED <<holder, letter, emaillog, sequence, box, now, restored, moves>>

\* A write that fails in the database (wrote is false) counts as ignored.
Process(r, l, wrote) ==
    /\ reading[r].at = "reading" /\ l \in reading[r].left
    /\ reading' = [reading EXCEPT ![r].left = @ \ {l}, ![r].on = IF reading[r].dry THEN 0 ELSE l,
                                  ![r].at = IF reading[r].dry THEN "reading" ELSE "recorded"]
    /\ IF ~reading[r].dry /\ wrote /\ IsFailure(box[l]) /\ signed_row(l) # {}
       THEN \E i \in signed_row(l) : Mark(i, box[l])
       ELSE UNCHANGED <<holder, emaillog>>
    /\ UNCHANGED <<letter, sequence, box, now, restored, moves>>

StoreSeen(r) ==
    /\ reading[r].at = "recorded"
    /\ box' = [box EXCEPT ![reading[r].on].seen = TRUE]
    /\ reading' = [reading EXCEPT ![r].at = "reading", ![r].on = 0]
    /\ UNCHANGED <<holder, letter, emaillog, sequence, now, restored, moves>>

\* It has read them all, or the connection or the run is lost.
Stop(r) ==
    /\ reading[r].at # "idle"
    /\ reading' = [reading EXCEPT ![r] = NoReading]
    /\ UNCHANGED <<holder, letter, emaillog, sequence, box, now, restored, moves>>

-----------------------------------------------------------------------------
(* The accounts.                                                           *)

Taken(a) == \E u \in Holders : holder[u].address = a

\* A change of address completed, or undone.
MovedTo(u, a) == [holder[u] EXCEPT !.address = a, !.flag = NoFlag]
CompleteChange(u, a) ==
    /\ moves < MaxMoves /\ ~Taken(a)
    /\ holder' = [holder EXCEPT ![u] = MovedTo(u, a)]
    /\ moves' = moves + 1
    /\ UNCHANGED <<letter, emaillog, sequence, box, reading, now, restored>>

\* A link mailed to this address is followed.
ConfirmAddress(u) ==
    /\ holder[u].flag # NoFlag
    /\ holder' = [holder EXCEPT ![u].flag = NoFlag]
    /\ UNCHANGED <<letter, emaillog, sequence, box, reading, now, restored, moves>>

\* A user administrator has checked the address.
clear_email_bounce(u) ==
    /\ holder[u].flag # NoFlag
    /\ holder' = [holder EXCEPT ![u].flag = NoFlag]
    /\ UNCHANGED <<letter, emaillog, sequence, box, reading, now, restored, moves>>

\* The first day's backup: the accounts, the log and the sequence go back.  No check runs,
\* and nothing is being sent, on a stopped site.
Restore ==
    /\ ~restored /\ restored' = TRUE
    /\ \A r \in Readers : reading[r] = NoReading
    /\ \A l \in Letters : letter[l].at # "asked"
    /\ holder' = NewHolder /\ emaillog' = [i \in Ids |-> NoEntry] /\ sequence' = 0
    /\ UNCHANGED <<letter, box, reading, now, moves>>

BounceDay == now < LastAge /\ now' = now + 1
          /\ UNCHANGED <<holder, letter, emaillog, sequence, box, reading, restored, moves>>

BounceNext ==
    \/ \E l \in Letters :
          \/ \E u \in Holders, taken \in BOOLEAN : send_templated(l, u, taken)
          \/ \E answered \in BOOLEAN : record(l, answered)
          \/ Unrecorded(l)
          \/ \E k \in {"address", "policy", "delayed"}, s \in BOOLEAN : Report(l, k, s)
    \/ \E r \in Readers :
          \/ \E dry \in BOOLEAN : check_bounces(r, dry)
          \/ \E l \in Letters : Skip(r, l) \/ \E wrote \in BOOLEAN : Process(r, l, wrote)
          \/ StoreSeen(r) \/ Stop(r)
    \/ \E u \in Holders :
          \/ \E a \in Places : CompleteChange(u, a)
          \/ ConfirmAddress(u) \/ clear_email_bounce(u)
    \/ Restore \/ BounceDay

BounceSpec == BounceInit /\ [][BounceNext]_bounceVars

-----------------------------------------------------------------------------
\* An account is marked as bouncing only for the address it has, after a message to that
\* address, sent from here, came back with the address refused; and a log row is marked
\* bounced only for its own message.
BounceIsOurs ==
    /\ \A u \in Holders : holder[u].flag # NoFlag =>
          /\ holder[u].flag = holder[u].address
          /\ \E l \in Letters : /\ letter[l].to = holder[u].flag /\ letter[l].taken
                                /\ box[l].signed /\ is_address_failure(box[l])
    /\ \A i \in Ids : emaillog[i].status = "bounced" =>
          LET l == emaillog[i].letter
          IN  letter[l].taken /\ box[l].signed /\ IsFailure(box[l])
=============================================================================
