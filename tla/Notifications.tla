---------------------------- MODULE Notifications ----------------------------
(***************************************************************************)
(* The notices staff ask for (apps/notifications): an event emitted in a   *)
(* request's transaction goes, once that commits, to the addresses         *)
(* subscribed to it and, for a sign-up, to the DART's roster contacts.     *)
(*                                                                         *)
(* A subscription belongs to an account, or to an address that was         *)
(* nobody's when it was made.  Accounts change address, role and state     *)
(* while subscriptions stay, so each send brings the subscription up to    *)
(* date and asks again whether its account may receive the event.          *)
(***************************************************************************)
EXTENDS Integers, Sequences, FiniteSets

CONSTANTS Staff,          \* accounts
          Mailboxes,      \* addresses
          Subs,           \* subscription rows
          Contact,        \* the address of the DART's roster contact
          MaxEvents,      \* bound on the events of a behaviour
          MaxChanges      \* bound on the changes to accounts and subscriptions

VARIABLES staff,          \* the accounts: address, is_active, whether a role of the event is held
          subs,           \* the subscription rows
          editing,           \* the subscription form under way, with the row it read
          event,          \* the event under way
          outbox,         \* the recipients still to mail
          seen,           \* the addresses mailed for this event
          posted,         \* the copies of this event's notice, with who was to get them
          events,         \* events so far
          changes         \* changes so far

ASSUME NoticeRows == 0 \notin Staff /\ IsFiniteSet(Subs)

noticeVars == <<staff, subs, editing, event, outbox, seen, posted, events, changes>>

NoSub == [exists |-> FALSE, user |-> 0, email |-> 0, wants |-> FALSE, is_active |-> FALSE]
NoEditing == [open |-> FALSE]
NoEvent == [at |-> "none"]

NoticeInit ==
    /\ staff = [u \in Staff |-> [address |-> u, is_active |-> TRUE, role |-> TRUE]]
    /\ subs = [s \in Subs |-> NoSub]
    /\ editing = NoEditing /\ event = NoEvent /\ outbox = <<>> /\ seen = {} /\ posted = {}
    /\ events = 0 /\ changes = 0

account_may_receive(u) == staff[u].role
HolderOf(a) == {u \in Staff : staff[u].address = a}
Rows == {s \in Subs : subs[s].exists}

-----------------------------------------------------------------------------
(* An event.                                                               *)

\* handle: the message and the roster contacts are settled at once; the rest on commit.
\* A message that cannot be built is dropped, as if nothing had been emitted.
emit(slug, audience) ==
    /\ event = NoEvent /\ events < MaxEvents
    /\ event' = [at |-> "emitted", slug |-> slug, audience |-> audience]
    /\ events' = events + 1 /\ seen' = {} /\ posted' = {}
    /\ UNCHANGED <<staff, subs, editing, outbox, changes>>

RollBack ==
    /\ event.at = "emitted" /\ event' = NoEvent
    /\ UNCHANGED <<staff, subs, editing, outbox, seen, posted, events, changes>>

\* The row, linked to the account that has its address and at that account's address.
MutRefreshed(row) ==
    IF row.user # 0 \/ HolderOf(row.email) = {} THEN row
    ELSE [row EXCEPT !.user = CHOOSE u \in HolderOf(row.email) : TRUE]
refresh_recipient(row) ==
    LET users == IF row.user # 0 THEN {row.user} ELSE HolderOf(row.email)
    IN  IF users = {} THEN row
        ELSE LET u == CHOOSE u \in users : TRUE
             IN  [row EXCEPT !.user = u, !.email = staff[u].address]

recipient_may_receive(row) ==
    row.user = 0 \/ (staff[row.user].is_active /\ account_may_receive(row.user))

\* recipient_email is unique: a row is saved unless another row has the address.
save_recipient(s, rows) ==
    LET row == refresh_recipient(rows[s])
    IN  IF \E t \in Rows \ {s} : rows[t].email = row.email THEN rows ELSE [rows EXCEPT ![s] = row]

Subscribed == {s \in Rows : subs[s].is_active /\ subs[s].wants}
Audience(row) == row.user = 0 \/ row.user \in event.audience
Chosen == {s \in Subscribed : LET row == refresh_recipient(subs[s])
                              IN  recipient_may_receive(row) /\ Audience(row)}

\* The queryset's order: by the address as it is stored.
InOrder(S) ==
    {o \in [1..Cardinality(S) -> S] :
        \A i, j \in DOMAIN o : i < j => o[i] # o[j] /\ subs[o[i]].email <= subs[o[j]].email}

subscribed_recipients(order) ==
    [i \in DOMAIN order |-> [to |-> refresh_recipient(subs[order[i]]).email, contact |-> FALSE]]

\* One row after the other, each saved against what the ones before it left.
SavedRecipients(order) ==
    LET rows[i \in 0..Len(order)] ==
            IF i = 0 THEN subs ELSE save_recipient(order[i], rows[i - 1])
    IN  rows[Len(order)]

roster_recipients ==
    IF event.slug = "signed_up" THEN <<[to |-> Contact, contact |-> TRUE]>> ELSE <<>>

\* Whether the one who has the address may have the notice, as the recipients are read (noted
\* with each copy that waits).
Entitled(r) ==
    \/ r.contact
    \/ HolderOf(r.to) = {}
    \/ \E u \in HolderOf(r.to) :
          staff[u].is_active /\ account_may_receive(u) /\ u \in event.audience

Commit ==
    /\ event.at = "emitted"
    /\ event' = [event EXCEPT !.at = "sending"]
    /\ \E order \in InOrder(Chosen) :
          LET all == subscribed_recipients(order) \o roster_recipients
          IN  outbox' = [i \in 1..Len(all) |-> [to |-> all[i].to, may |-> Entitled(all[i])]]
    /\ \E order \in InOrder(Subscribed) : subs' = SavedRecipients(order)
    /\ UNCHANGED <<staff, editing, seen, posted, events, changes>>

IsNew(r) == r.to \notin seen

\* A refused copy is logged and the next one tried.
send(taken) ==
    /\ event.at = "sending" /\ outbox # <<>>
    /\ LET r == Head(outbox)
       IN  /\ seen' = seen \cup {r.to}
           /\ posted' = IF IsNew(r) /\ taken
                        THEN posted \cup {[to |-> r.to, left |-> Len(outbox)]} ELSE posted
    /\ outbox' = Tail(outbox)
    /\ UNCHANGED <<staff, subs, editing, event, events, changes>>

\* The last one is mailed, or the process stops.
SendEnds ==
    /\ event.at = "sending"
    /\ event' = NoEvent /\ outbox' = <<>>
    /\ UNCHANGED <<staff, subs, editing, seen, posted, events, changes>>

-----------------------------------------------------------------------------
(* The office and the accounts.                                            *)

Change == changes < MaxChanges /\ changes' = changes + 1

\* The form for a new subscription; the unique address is the last word.
Subscribe(s, a, wants) ==
    /\ ~subs[s].exists /\ Change
    /\ ~\E t \in Rows : subs[t].email = a
    /\ \A u \in HolderOf(a) : wants => account_may_receive(u)
    /\ subs' = [subs EXCEPT ![s] =
           [exists |-> TRUE, email |-> a, wants |-> wants, is_active |-> TRUE,
            user |-> IF HolderOf(a) = {} THEN 0 ELSE CHOOSE u \in HolderOf(a) : TRUE]]
    /\ UNCHANGED <<staff, editing, event, outbox, seen, posted, events>>

\* The form for a change: validate works on the row it read, save writes all of it.
OpenForm(s) ==
    /\ editing = NoEditing /\ subs[s].exists /\ Change
    /\ LET fresh == refresh_recipient(subs[s])
           taken == \E t \in Rows \ {s} : subs[t].email = fresh.email
       IN  editing' = [open |-> TRUE, sub |-> s, row |-> IF taken THEN subs[s] ELSE fresh]
    /\ UNCHANGED <<staff, subs, event, outbox, seen, posted, events>>

Permitted(row, wants, active) ==
    \/ row.user = 0
    \/ (IF active /\ ~row.is_active THEN wants ELSE wants /\ ~row.wants)
          => account_may_receive(row.user)

\* A row deleted meanwhile is written again; an address taken meanwhile is refused.
PatchSubscription(wants, active) ==
    /\ editing.open
    /\ LET row == [editing.row EXCEPT !.wants = wants, !.is_active = active]
       IN  subs' = IF /\ Permitted(editing.row, wants, active)
                      /\ ~\E t \in Rows \ {editing.sub} : subs[t].email = row.email
                   THEN [subs EXCEPT ![editing.sub] = row] ELSE subs
    /\ editing' = NoEditing
    /\ UNCHANGED <<staff, event, outbox, seen, posted, events, changes>>

Delete(s) ==
    /\ subs[s].exists /\ Change
    /\ subs' = [subs EXCEPT ![s] = NoSub]
    /\ UNCHANGED <<staff, editing, event, outbox, seen, posted, events>>

\* An address change, a role given or taken, an account closed or opened.
AccountChanges(u, a, active, role) ==
    /\ Change
    /\ HolderOf(a) \subseteq {u}
    /\ staff' = [staff EXCEPT ![u] = [address |-> a, is_active |-> active, role |-> role]]
    /\ staff' # staff
    /\ UNCHANGED <<subs, editing, event, outbox, seen, posted, events>>

NoticeNext ==
    \/ \E slug \in {"signed_up", "callout_answer"}, audience \in {Staff, {1}} :
          (slug = "signed_up" => audience = Staff) /\ emit(slug, audience)
    \/ RollBack \/ Commit \/ SendEnds
    \/ \E taken \in BOOLEAN : send(taken)
    \/ \E s \in Subs : \/ \E a \in Mailboxes, wants \in BOOLEAN : Subscribe(s, a, wants)
                       \/ OpenForm(s) \/ Delete(s)
    \/ \E wants, active \in BOOLEAN : PatchSubscription(wants, active)
    \/ \E u \in Staff, a \in Mailboxes, active, role \in BOOLEAN : AccountChanges(u, a, active, role)

NoticeSpec == NoticeInit /\ [][NoticeNext]_noticeVars

-----------------------------------------------------------------------------
\* A notice waits only for addresses whose holders may have it: the account an address
\* belongs to as the recipients are read is active, holds a role of the event and is in
\* its audience, whatever the subscription was made for; and each address is mailed once.
NoticeToEntitled ==
    /\ \A i \in 1..Len(outbox) : outbox[i].may
    /\ \A p, q \in posted : p.to = q.to => p = q
=============================================================================
