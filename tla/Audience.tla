------------------------------ MODULE Audience ------------------------------
(***************************************************************************)
(* Who a bulk email reaches: the recipient list and the saved groups it is *)
(* filled from (batch.py, groups.py), the DART a leader's email is limited *)
(* to (senders.py), the email types and who turned one off (mail/types.py), *)
(* and the checks made as the email is queued, claimed, sent and sent      *)
(* again (drafts.py, job.py, delivery.py).  BulkEmail models how the copies *)
(* go out; here a copy is one step after its check.                        *)
(*                                                                         *)
(* A run reads the email's row once, and keeps the sender and the type it  *)
(* loads with it; it reads the sender's role and DART afresh, and locks    *)
(* neither.  Senders are DART leaders and CalDART management: a system     *)
(* administrator's flag, read with the account, is left out.               *)
(***************************************************************************)
EXTENDS Integers, FiniteSets

CONSTANTS Readership,     \* the accounts that may be written to
          Darts,          \* the DARTs; 0 stands for none, and for a filter that names none
          MaxTouched        \* bound on the changes of a behaviour

\* DARTs have positive ids.
ASSUME DartIds == Darts \subseteq Nat \ {0}

VARIABLES reader,         \* the accounts: DART, is_active, whether the type is turned off
          author,         \* the sender's account: exists, role, DART
          emailtype,      \* allow_opt_out and sender_roles
          group,          \* one saved group
          bulk,           \* the BulkEmail row
          list,           \* status of the recipient rows of round 0
          frozen,         \* who was to receive it as it first started, with their DARTs
          since,          \* since the claim: could the type be turned off; as it first
                          \* started, did the sender stay who they were
          reached,        \* whether each copy that went was in the sender's reach
          edits           \* changes so far

audienceVars == <<reader, author, emailtype, group, bulk, list, frozen, since, reached, edits>>

NoLimit == -1

\* The row; sender and allows are what a run at it has loaded of its sender ("row" is the
\* id alone) and of its type (nothing yet, or allow_opt_out as it was).
NoBulk == [status |-> "none", dart |-> 0, started |-> FALSE, checked |-> 0,
           sender |-> "unread", allows |-> {}]
NoGroup == [kind |-> "none", members |-> {}, filter_sets |-> {}]

AudienceInit ==
    /\ reader = [p \in Readership |->
           [dart |-> IF p \in Darts THEN p ELSE 0, is_active |-> TRUE, out |-> FALSE]]
    /\ author \in {[exists |-> TRUE, role |-> r, dart |-> 1] : r \in {"leader", "management"}}
    /\ emailtype = [allow_opt_out |-> TRUE, sender_roles |-> {"leader", "management"}]
    /\ group = NoGroup /\ bulk = NoBulk
    /\ list = [p \in Readership |-> "none"]
    /\ frozen = {} /\ since = [offered |-> FALSE, steady |-> TRUE] /\ reached = {} /\ edits = 0

Edit == edits < MaxTouched /\ edits' = edits + 1
In(status) == {p \in Readership : list[p] = status}
Batch == {p \in Readership : list[p] # "none"}

-----------------------------------------------------------------------------
(* The limit.                                                              *)

\* An account that is gone has neither role nor profile.
sender_context ==
    [is_management |-> author.exists /\ author.role = "management",
     dart |-> IF author.exists /\ author.role = "leader" THEN author.dart ELSE 0]
can_send == sender_context.is_management \/ sender_context.dart # 0

\* The DART the email is limited to, 0 when that is nobody; an email whose sender is gone
\* has no limit.
dart_limit ==
    IF ~author.exists \/ sender_context.is_management THEN NoLimit ELSE sender_context.dart
limit_dart == IF dart_limit = NoLimit THEN 0 ELSE dart_limit

\* A run that loaded the sender before the account was deleted still has one, without a DART.
run_limit == IF ~author.exists /\ bulk.sender # "unread" THEN 0 ELSE dart_limit

Allows(limit, p) == limit = NoLimit \/ (limit # 0 /\ reader[p].dart = limit)

\* Whether the type can be turned off, as the run at the email has read it.
allow_opt_out == TRUE \in bulk.allows \/ (bulk.allows = {} /\ emailtype.allow_opt_out)
opted_out(p) == allow_opt_out /\ reader[p].out
Receives(p) == Allows(dart_limit, p) /\ reader[p].is_active /\ ~opted_out(p)
sendable_type(role) == role \in emailtype.sender_roles

-----------------------------------------------------------------------------
(* The recipient list and the groups.                                      *)

can_edit == bulk.status \in {"draft", "queued"} /\ ~bulk.started

\* The member list's filters: the DART stands for all of them, which narrow the list alike.
Filters == Darts \cup {0}
filter_dart(dart) == {p \in Readership : dart = 0 \/ reader[p].dart = dart}

\* The list with Include deactivated on; donors are never on it.
selected_accounts(dart) == filter_dart(dart)

\* The filters a search may have under the limit.
forced(dart) == IF dart_limit = NoLimit THEN {dart}
                ELSE {d \in {dart_limit} : d # 0 /\ dart \in {0, d}}

\* _record_limit, the rows, back_to_draft.
add_accounts(people) ==
    /\ can_edit /\ dart_limit # 0
    /\ list' = [p \in Readership |-> IF p \in people THEN "batched" ELSE list[p]]
    /\ bulk' = [bulk EXCEPT !.status = "draft",
                            !.dart = IF dart_limit = NoLimit THEN @ ELSE dart_limit]

\* An empty draft is opened again, with the DART of now.
open_draft ==
    /\ can_send /\ bulk.status \in {"none", "draft"} /\ ~bulk.started /\ Batch = {}
    /\ bulk' = [NoBulk EXCEPT !.status = "draft", !.dart = sender_context.dart]
    /\ bulk' # bulk
    /\ UNCHANGED <<reader, author, emailtype, group, list, frozen, since, reached, edits>>

add_filters(dart) ==
    /\ Edit
    /\ \E d \in forced(dart) : add_accounts(selected_accounts(d))
    /\ UNCHANGED <<reader, author, emailtype, group, frozen, since, reached>>

group_accounts ==
    IF group.kind = "fixed" THEN group.members
    ELSE UNION {selected_accounts(d) : d \in group.filter_sets}

\* A group is not cut to the limit as it is added.
add_group == add_accounts(group_accounts)

AddGroup ==
    /\ group # NoGroup /\ Edit
    /\ add_group
    /\ UNCHANGED <<reader, author, emailtype, group, frozen, since, reached>>

TakeOut(people) ==
    /\ can_edit /\ people # {} /\ Edit
    /\ list' = [p \in Readership |-> IF p \in people THEN "none" ELSE list[p]]
    /\ bulk' = [bulk EXCEPT !.status = "draft"]
    /\ UNCHANGED <<reader, author, emailtype, group, frozen, since, reached>>

remove(p) == p \in Batch /\ TakeOut({p})
clear == TakeOut(Batch)

save_group(kind, dart) ==
    \E d \in forced(dart) :
        group' = [kind |-> kind,
                  members |-> IF kind = "fixed" THEN selected_accounts(d) ELSE {},
                  filter_sets |-> IF kind = "live" THEN {d} ELSE {}]

SaveGroup(kind, dart) ==
    /\ group = NoGroup /\ bulk.status # "none" /\ Edit
    /\ save_group(kind, dart)
    /\ UNCHANGED <<reader, author, emailtype, bulk, list, frozen, since, reached>>

\* add_member, remove_member, add_filter_set, remove_filter_set; deleting the group.
change_group(g) ==
    /\ group # NoGroup /\ Edit
    /\ \/ g = NoGroup
       \/ g.kind = group.kind
    /\ group' = g /\ g # group
    /\ UNCHANGED <<reader, author, emailtype, bulk, list, frozen, since, reached>>

Groups == {NoGroup} \cup [kind : {"fixed"}, members : SUBSET Readership, filter_sets : {{}}]
                    \cup [kind : {"live"}, members : {{}}, filter_sets : SUBSET Filters]

-----------------------------------------------------------------------------
(* Sending.                                                                *)

\* Who may open the email: CalDART management, and the sender.
visible_to(by) == by = "management" \/ (author.exists /\ by = author.role)

\* by: the role of whoever presses Send.
queue(by) ==
    /\ can_edit /\ bulk.status = "draft"
    /\ visible_to(by)
    /\ sendable_type(by) /\ dart_limit # 0
    /\ \E p \in Batch : Receives(p)
    /\ bulk' = [bulk EXCEPT !.status = "queued", !.dart = limit_dart]
    /\ UNCHANGED <<reader, author, emailtype, group, list, frozen, since, reached, edits>>

cancel ==
    /\ can_edit /\ bulk.status = "queued"
    /\ bulk' = [bulk EXCEPT !.status = "draft"]
    /\ UNCHANGED <<reader, author, emailtype, group, list, frozen, since, reached, edits>>

limit_leaves_nobody ==
    dart_limit # NoLimit /\ Batch # {} /\ ~\E p \in Batch : reader[p].dart = dart_limit

sender_refusal ==
    \/ ~author.exists \/ ~sendable_type(author.role) \/ dart_limit = 0
    \/ ~bulk.started /\ limit_leaves_nobody

Refuse ==
    /\ bulk.status = "queued" /\ sender_refusal
    /\ bulk' = [bulk EXCEPT !.status = IF bulk.started THEN "stopped" ELSE "draft"]
    /\ list' = [p \in Readership |-> IF bulk.started /\ list[p] = "pending" THEN "stopped"
                                     ELSE list[p]]
    /\ UNCHANGED <<reader, author, emailtype, group, frozen, since, reached, edits>>

\* The claim, in one transaction that holds the email's row: the refusal's reading of the
\* sender and the type, the DART the row is to carry, and the freezing of the list, which
\* reads the sender's DART again.
Claim ==
    /\ bulk.status = "queued" /\ ~sender_refusal
    /\ bulk' = [bulk EXCEPT !.status = "claimed", !.sender = "account",
                            !.allows = {emailtype.allow_opt_out}]
    /\ since' = [offered |-> emailtype.allow_opt_out, steady |-> since.steady \/ ~bulk.started]
    /\ UNCHANGED <<reader, author, emailtype, group, list, frozen, reached, edits>>

\* A resumed send keeps the DART of its first start.
RecordDart ==
    /\ bulk.status = "claimed"
    /\ bulk' = [bulk EXCEPT !.status = "dated", !.dart = IF bulk.started THEN @ ELSE limit_dart]
    /\ UNCHANGED <<reader, author, emailtype, group, list, frozen, since, reached, edits>>

Freeze ==
    /\ bulk.status = "dated"
    /\ bulk' = [bulk EXCEPT !.status = "sending", !.started = TRUE]
    /\ list' = [p \in Readership |->
           IF list[p] # "batched" THEN list[p] ELSE IF Receives(p) THEN "pending" ELSE "skipped"]
    /\ frozen' = IF bulk.started THEN frozen
                 ELSE {<<p, reader[p].dart>> : p \in {q \in Batch : Receives(q)}}
    /\ UNCHANGED <<reader, author, emailtype, group, since, reached, edits>>

\* The check just before a copy.
MutSendable(p) == ~opted_out(p)
Sendable(p) == Allows(run_limit, p) /\ ~opted_out(p)

IsNext(p) == p \in In("pending") /\ \A q \in In("pending") : p <= q

\* Whether the sender, while the account is there, may write to p, who has not turned off a
\* type that could be turned off all the while.
InReach(p) ==
    /\ author.exists => \/ author.role = "management"
                        \/ author.role = "leader" /\ author.dart = reader[p].dart
    /\ ~(reader[p].out /\ since.offered)

\* The first check loads the sender and the type; a sender deleted since the row was read
\* ends the run.
Loaded == [bulk EXCEPT !.sender = IF @ = "row" THEN "account" ELSE @, !.allows = {allow_opt_out}]

CheckCopy(p) ==
    /\ bulk.status = "sending" /\ bulk.checked = 0 /\ IsNext(p)
    /\ bulk.sender = "row" => author.exists
    /\ IF Sendable(p)
       THEN /\ bulk' = [Loaded EXCEPT !.checked = p] /\ UNCHANGED list
            /\ reached' = reached \cup {InReach(p)}
       ELSE bulk' = Loaded /\ list' = [list EXCEPT ![p] = "skipped"] /\ UNCHANGED reached
    /\ UNCHANGED <<reader, author, emailtype, group, frozen, since, edits>>

HandOver(answer) ==
    /\ bulk.status = "sending" /\ bulk.checked # 0
    /\ list' = [list EXCEPT ![bulk.checked] = answer]
    /\ bulk' = [bulk EXCEPT !.checked = 0]
    /\ UNCHANGED <<reader, author, emailtype, group, frozen, since, reached, edits>>

\* Every copy settled; or Stop was pressed.
FinishSending ==
    /\ bulk.status = "sending" /\ bulk.checked = 0
    /\ \/ /\ In("pending") = {}
          /\ bulk' = [bulk EXCEPT !.status = "sent", !.sender = "unread", !.allows = {}]
          /\ UNCHANGED list
       \/ bulk' = [bulk EXCEPT !.status = "stopped", !.sender = "unread", !.allows = {}]
          /\ list' = [p \in Readership |-> IF list[p] = "pending" THEN "stopped" ELSE list[p]]
    /\ UNCHANGED <<reader, author, emailtype, group, frozen, since, reached, edits>>

\* The run dies; the next one reads the row again.  A claim that dies is rolled back.
Rerun ==
    /\ \/ /\ bulk.status = "sending"
          /\ bulk' = [bulk EXCEPT !.checked = 0, !.allows = {},
                                  !.sender = IF author.exists THEN "row" ELSE "unread"]
       \/ /\ bulk.status = "claimed"
          /\ bulk' = [bulk EXCEPT !.status = "queued", !.sender = "unread", !.allows = {}]
    /\ UNCHANGED <<reader, author, emailtype, group, list, frozen, since, reached, edits>>

\* resume and retry_failed, which check every row again.
SendAgain(status, rows) ==
    /\ bulk.status = status /\ rows # {} /\ Edit
    /\ list' = [p \in Readership |-> IF p \notin rows THEN list[p]
                                     ELSE IF Receives(p) THEN "pending" ELSE "skipped"]
    /\ bulk' = [bulk EXCEPT
           !.status = IF status = "stopped" \/ \E p \in rows : Receives(p) THEN "queued" ELSE @]
    /\ UNCHANGED <<reader, author, emailtype, group, frozen, since, reached>>

-----------------------------------------------------------------------------
(* The people, the sender, the type.                                       *)

PersonChanges(p, dart, active) ==
    /\ Edit
    /\ reader' = [reader EXCEPT ![p].dart = dart, ![p].is_active = active] /\ reader' # reader
    /\ UNCHANGED <<author, emailtype, group, bulk, list, frozen, since, reached>>

set_opt_out(p, choice) ==
    /\ emailtype.allow_opt_out
    /\ reader' = [reader EXCEPT ![p].out = choice]
    /\ UNCHANGED <<author, emailtype, group, bulk, list, frozen, since, reached>>

\* The profile, or the office's page of the member: either way round.
EmailPreferences(p) == Edit /\ set_opt_out(p, ~reader[p].out)

\* The link in an email only turns the type off.
unsubscribe(p) == Edit /\ ~reader[p].out /\ set_opt_out(p, TRUE)

TypeFields == [allow_opt_out : BOOLEAN, sender_roles : SUBSET {"leader", "management"}]

\* Turning allow_opt_out off keeps what people have turned off.
update_type(fields) ==
    /\ Edit
    /\ emailtype' = fields /\ fields # emailtype
    /\ since' = [since EXCEPT !.offered = @ /\ fields.allow_opt_out]
    /\ UNCHANGED <<reader, author, group, bulk, list, frozen, reached>>

Starting == bulk.status \in {"claimed", "dated"}

SenderChanges(role, dart) ==
    /\ author.exists /\ Edit
    /\ author' = [exists |-> TRUE, role |-> role, dart |-> dart] /\ author' # author
    /\ since' = [since EXCEPT !.steady = @ /\ (bulk.started \/ bulk.status # "dated")]
    /\ UNCHANGED <<reader, emailtype, group, bulk, list, frozen, reached>>

\* The deletion empties the email's sender, and so waits for its row.
DeleteSender ==
    /\ author.exists /\ ~Starting /\ Edit
    /\ author' = [author EXCEPT !.exists = FALSE]
    /\ UNCHANGED <<reader, emailtype, group, bulk, list, frozen, since, reached>>

AudienceNext ==
    \/ open_draft \/ AddGroup \/ clear \/ cancel \/ Refuse
    \/ Claim \/ RecordDart \/ Freeze \/ FinishSending \/ Rerun \/ DeleteSender
    \/ \E dart \in Filters :
          \/ add_filters(dart)
          \/ \E kind \in {"fixed", "live"} : SaveGroup(kind, dart)
          \/ \E role \in {"leader", "management", "none"} : SenderChanges(role, dart)
          \/ \E p \in Readership, active \in BOOLEAN : PersonChanges(p, dart, active)
    \/ \E g \in Groups : change_group(g)
    \/ \E by \in {"leader", "management"} : queue(by)
    \/ \E p \in Readership : CheckCopy(p) \/ remove(p) \/ EmailPreferences(p) \/ unsubscribe(p)
    \/ \E answer \in {"sent", "failed"} : HandOver(answer)
    \/ SendAgain("stopped", In("stopped")) \/ SendAgain("sent", In("failed"))
    \/ \E fields \in TypeFields : update_type(fields)

AudienceSpec == AudienceInit /\ [][AudienceNext]_audienceVars

-----------------------------------------------------------------------------
\* Another leader of the DART reads the email once it has started.
readable_by(dart) == bulk.started /\ bulk.dart = dart

\* Every copy that goes is one its sender may send as it is checked: CalDART management, or
\* the leader of the DART its reader is in, to someone who has not turned off a type that
\* could be turned off from the claim on; and an email other leaders may read because it
\* carries their DART (readable_by) was frozen for people of that DART alone, unless its
\* sender changed role or DART between the two readings of its first start.
KeepsToItsDart ==
    /\ FALSE \notin reached
    /\ since.steady => \A d \in Darts : readable_by(d) => \A f \in frozen : f[2] = d

\* What the comments say without those conditions.  An email that carries a DART was frozen
\* against it (_claim).
FrozenAgainstItsDart == \A d \in Darts : readable_by(d) => \A f \in frozen : f[2] = d

\* Somebody who has turned the type off is sent no copy checked after that
\* (_skip_if_unsendable: read afresh for every copy).
OptOutsHonored ==
    [][\A p \in Readership : CheckCopy(p) /\ reader[p].out /\ emailtype.allow_opt_out
                              => list'[p] = "skipped"]_audienceVars
=============================================================================
