------------------------------ MODULE MailProofs ------------------------------
(***************************************************************************)
(* What the mail models promise, for any number of accounts, messages and   *)
(* runs: who a bulk email reaches, which links its check is silent about,   *)
(* whose mail bounced, how often a scheduled mailing goes out, and who gets *)
(* a notice.                                                                *)
(***************************************************************************)
EXTENDS Audience, LinkCheck, Bounces, Mailings, Notifications, TLAPS,
        FiniteSetTheorems, SequenceTheorems, WellFoundedInduction

-----------------------------------------------------------------------------
(* Audience.                                                               *)

SenderRoles == {"leader", "management", "none"}
EmailStatus == {"none", "draft", "queued", "claimed", "dated", "sending", "sent", "stopped"}
BulkRows == [status : EmailStatus, dart : Nat, started : BOOLEAN, checked : Readership \cup {0},
             sender : {"unread", "row", "account"}, allows : SUBSET BOOLEAN]
Authors == [exists : BOOLEAN, role : SenderRoles, dart : Nat]

\* DARTs are never NoLimit; the email's row has its fields.
AudienceTypes ==
    /\ author \in Authors /\ emailtype \in TypeFields
    /\ bulk \in BulkRows
    /\ since \in [offered : BOOLEAN, steady : BOOLEAN]

\* What was frozen as the email started agrees with the DART its row carries, and between
\* the two readings of that start the row carries the DART of a sender who stays as they are.
FrozenWithin ==
    since.steady /\ bulk.started => bulk.dart = 0 \/ \A f \in frozen : f[2] = bulk.dart
DatedWithin ==
    since.steady /\ ~bulk.started /\ bulk.status = "dated" => bulk.dart = limit_dart

\* A type that could be turned off all the while can be now, and could be when the run at
\* the email read it.
OfferedRead ==
    since.offered => emailtype.allow_opt_out /\ (bulk.allows = {} \/ TRUE \in bulk.allows)

AudienceInv ==
    AudienceTypes /\ FALSE \notin reached /\ FrozenWithin /\ DatedWithin /\ OfferedRead

\* A limit is a DART, or nobody, or none.
LEMMA LimitIsDart ==
    ASSUME author \in Authors
    PROVE  /\ sender_context.dart \in Nat
           /\ limit_dart \in Nat
           /\ dart_limit \in Nat \cup {NoLimit}
  BY DEF Authors, sender_context, limit_dart, dart_limit

\* The check just before a copy is at least what the sender's reach asks.
LEMMA SendableInReach ==
    ASSUME AudienceTypes, OfferedRead, NEW p, Sendable(p)
    PROVE  InReach(p) = TRUE
<1>1. ~(reader[p].out /\ since.offered)
  BY DEF Sendable, opted_out, allow_opt_out, OfferedRead
<1>2. author.exists => \/ author.role = "management"
                       \/ author.role = "leader" /\ author.dart = reader[p].dart
  <2> SUFFICES ASSUME author.exists, author.role # "management"
               PROVE  author.role = "leader" /\ author.dart = reader[p].dart
    OBVIOUS
  <2>1. NoLimit \notin Nat
    BY DEF NoLimit
  <2>2. run_limit = IF author.role = "leader" THEN author.dart ELSE 0
    BY DEF run_limit, dart_limit, sender_context
  <2>3. run_limit # NoLimit
    BY <2>1, <2>2 DEF AudienceTypes, Authors
  <2>4. run_limit # 0 /\ reader[p].dart = run_limit
    BY <2>3 DEF Sendable, Allows
  <2> QED
    BY <2>2, <2>4
<1> QED
  BY <1>1, <1>2 DEF InReach

\* Everybody the first start freezes is of the DART the email is limited to.
LEMMA FirstStartFreezes ==
    ASSUME NEW p, Receives(p)
    PROVE  limit_dart = 0 \/ reader[p].dart = limit_dart
  BY DEF Receives, Allows, limit_dart

\* An email that has not started, and is not being started, has nothing to agree with.
LEMMA NotStarted ==
    ASSUME AudienceInv, bulk' \in BulkRows, ~bulk'.started, bulk'.status # "dated",
           bulk'.allows = bulk.allows, UNCHANGED <<author, emailtype, since, reached>>
    PROVE  AudienceInv'
<1>1. AudienceTypes' /\ FALSE \notin reached'
  BY DEF AudienceInv, AudienceTypes
<1>2. FrozenWithin' /\ DatedWithin'
  BY DEF FrozenWithin, DatedWithin
<1>3. OfferedRead'
  BY DEF AudienceInv, OfferedRead
<1> QED
  BY <1>1, <1>2, <1>3 DEF AudienceInv

\* The list and its groups are filled before the email starts.
LEMMA AddAccountsKeeps ==
    ASSUME AudienceInv, NEW people, add_accounts(people),
           UNCHANGED <<author, emailtype, since, reached>>
    PROVE  AudienceInv'
<1>1. ~bulk.started
  BY DEF add_accounts, can_edit
<1>2. /\ bulk' \in BulkRows /\ ~bulk'.started /\ bulk'.status = "draft"
      /\ bulk'.allows = bulk.allows
  BY <1>1, LimitIsDart DEF add_accounts, AudienceInv, AudienceTypes, BulkRows, EmailStatus
<1> QED
  BY <1>2, NotStarted

\* A step that leaves the email's row, its sender and its type alone.
LEMMA AudienceElsewhere ==
    ASSUME AudienceInv, UNCHANGED <<author, emailtype, bulk, frozen, since, reached>>
    PROVE  AudienceInv'
<1>1. limit_dart' = limit_dart
  BY DEF limit_dart, dart_limit, sender_context
<1> QED
  BY <1>1 DEF AudienceInv, AudienceTypes, FrozenWithin, DatedWithin, OfferedRead

\* A step that moves the row on without its DART, and not into the readings of a start.
LEMMA RowMovesOn ==
    ASSUME AudienceInv, bulk' \in BulkRows, bulk'.started = bulk.started,
           bulk'.dart = bulk.dart, bulk'.status # "dated",
           since.offered => bulk'.allows = {} \/ TRUE \in bulk'.allows,
           FALSE \notin reached', UNCHANGED <<author, emailtype, frozen, since>>
    PROVE  AudienceInv'
<1>1. AudienceTypes'
  BY DEF AudienceInv, AudienceTypes
<1>2. FrozenWithin' /\ DatedWithin'
  BY DEF AudienceInv, FrozenWithin, DatedWithin
<1>3. OfferedRead'
  BY DEF AudienceInv, OfferedRead
<1> QED
  BY <1>1, <1>2, <1>3 DEF AudienceInv

\* The claim reads the type, and begins the history of what is so since.
LEMMA ClaimKeeps == AudienceInv /\ Claim => AudienceInv'
<1> SUFFICES ASSUME AudienceInv, Claim PROVE AudienceInv'
  OBVIOUS
<1>1. emailtype.allow_opt_out \in BOOLEAN /\ emailtype' = emailtype
  BY DEF AudienceInv, AudienceTypes, TypeFields, Claim
<1>2. /\ bulk' \in BulkRows /\ bulk'.started = bulk.started /\ bulk'.dart = bulk.dart
      /\ bulk'.status = "claimed" /\ bulk'.allows = {emailtype.allow_opt_out}
  BY <1>1 DEF Claim, AudienceInv, AudienceTypes, BulkRows, EmailStatus
<1>3. /\ since' = [offered |-> emailtype.allow_opt_out, steady |-> since.steady \/ ~bulk.started]
      /\ UNCHANGED <<author, emailtype, frozen, reached>>
  BY DEF Claim
<1>4. since.steady \in BOOLEAN /\ bulk.started \in BOOLEAN
  BY DEF AudienceInv, AudienceTypes, BulkRows
<1>5. /\ since'.offered = emailtype.allow_opt_out
      /\ since'.steady = (since.steady \/ ~bulk.started)
  BY <1>3
<1>6. since' \in [offered : BOOLEAN, steady : BOOLEAN]
  BY <1>1, <1>3, <1>4
<1>7. AudienceTypes' /\ FALSE \notin reached'
  BY <1>2, <1>3, <1>6 DEF AudienceInv, AudienceTypes
<1>8. FrozenWithin'
  BY <1>2, <1>3, <1>5 DEF AudienceInv, FrozenWithin
<1>9. DatedWithin'
  BY <1>2 DEF DatedWithin
<1>10. OfferedRead'
  BY <1>1, <1>2, <1>5 DEF OfferedRead
<1> QED
  BY <1>7, <1>8, <1>9, <1>10 DEF AudienceInv

\* The row takes the DART of its sender; a resumed send keeps its own.
LEMMA RecordDartKeeps == AudienceInv /\ RecordDart => AudienceInv'
<1> SUFFICES ASSUME AudienceInv, RecordDart PROVE AudienceInv'
  OBVIOUS
<1>1. /\ bulk' \in BulkRows /\ bulk'.started = bulk.started /\ bulk'.allows = bulk.allows
      /\ bulk'.dart = IF bulk.started THEN bulk.dart ELSE limit_dart
  BY LimitIsDart DEF RecordDart, AudienceInv, AudienceTypes, BulkRows, EmailStatus
<1>2. UNCHANGED <<author, emailtype, frozen, since, reached>>
  BY DEF RecordDart
<1>3. limit_dart' = limit_dart
  BY <1>2 DEF limit_dart, dart_limit, sender_context
<1>4. AudienceTypes' /\ FALSE \notin reached'
  BY <1>1, <1>2 DEF AudienceInv, AudienceTypes
<1>5. FrozenWithin' /\ DatedWithin'
  BY <1>1, <1>2, <1>3 DEF AudienceInv, FrozenWithin, DatedWithin
<1>6. OfferedRead'
  BY <1>1, <1>2 DEF AudienceInv, OfferedRead
<1> QED
  BY <1>4, <1>5, <1>6 DEF AudienceInv

\* The list is frozen against the DART the row carries, if the sender has not changed.
LEMMA FreezeKeeps == AudienceInv /\ Freeze => AudienceInv'
<1> SUFFICES ASSUME AudienceInv, Freeze PROVE AudienceInv'
  OBVIOUS
<1>1. /\ bulk' \in BulkRows /\ bulk'.started /\ bulk'.dart = bulk.dart
      /\ bulk'.status = "sending" /\ bulk'.allows = bulk.allows
  BY DEF Freeze, AudienceInv, AudienceTypes, BulkRows, EmailStatus
<1>2. UNCHANGED <<author, emailtype, since, reached>> /\ bulk.status = "dated"
  BY DEF Freeze
<1>3. AudienceTypes' /\ FALSE \notin reached'
  BY <1>1, <1>2 DEF AudienceInv, AudienceTypes
<1>4. FrozenWithin'
  <2>1. CASE bulk.started
    <3>1. frozen' = frozen
      BY <2>1 DEF Freeze
    <3> QED
      BY <1>1, <1>2, <2>1, <3>1 DEF AudienceInv, FrozenWithin
  <2>2. CASE ~bulk.started
    <3> SUFFICES ASSUME since.steady, bulk.dart # 0, NEW f \in frozen'
                 PROVE  f[2] = bulk.dart
      BY <1>1, <1>2 DEF FrozenWithin
    <3>1. bulk.dart = limit_dart
      BY <1>2, <2>2 DEF AudienceInv, DatedWithin
    <3>2. PICK p \in Batch : Receives(p) /\ f = <<p, reader[p].dart>>
      BY <2>2 DEF Freeze
    <3> QED
      BY <3>1, <3>2, FirstStartFreezes
  <2> QED
    BY <2>1, <2>2
<1>5. DatedWithin'
  BY <1>1 DEF DatedWithin
<1>6. OfferedRead'
  BY <1>1, <1>2 DEF AudienceInv, OfferedRead
<1> QED
  BY <1>3, <1>4, <1>5, <1>6 DEF AudienceInv

\* The type may be changed at any time; the history says whether it was.
LEMMA TypeKeeps ==
    ASSUME AudienceInv, NEW fields \in TypeFields, update_type(fields)
    PROVE  AudienceInv'
<1>1. /\ UNCHANGED <<author, bulk, frozen, reached>> /\ emailtype' = fields
      /\ since' = [since EXCEPT !.offered = @ /\ fields.allow_opt_out]
  BY DEF update_type
<1>2. fields.allow_opt_out \in BOOLEAN
  BY DEF TypeFields
<1>3. since \in [offered : BOOLEAN, steady : BOOLEAN]
  BY DEF AudienceInv, AudienceTypes
<1>4. /\ since'.steady = since.steady /\ since'.offered = (since.offered /\ fields.allow_opt_out)
      /\ since' \in [offered : BOOLEAN, steady : BOOLEAN]
  BY <1>1, <1>2, <1>3
<1>5. limit_dart' = limit_dart
  BY <1>1 DEF limit_dart, dart_limit, sender_context
<1>6. AudienceTypes' /\ FALSE \notin reached'
  BY <1>1, <1>4 DEF AudienceInv, AudienceTypes
<1>7. FrozenWithin' /\ DatedWithin'
  BY <1>1, <1>4, <1>5 DEF AudienceInv, FrozenWithin, DatedWithin
<1>8. OfferedRead'
  BY <1>1, <1>4 DEF AudienceInv, OfferedRead
<1> QED
  BY <1>6, <1>7, <1>8 DEF AudienceInv

\* The sender may change at any time; a change between the two readings is marked, and a
\* deletion waits for them.
LEMMA SenderKeeps ==
    ASSUME AudienceInv,
           \/ DeleteSender
           \/ \E role \in {"leader", "management", "none"}, dart \in Filters :
                 SenderChanges(role, dart)
    PROVE  AudienceInv'
<1>1. since \in [offered : BOOLEAN, steady : BOOLEAN] /\ author \in Authors
      /\ bulk.started \in BOOLEAN
  BY DEF AudienceInv, AudienceTypes, BulkRows
<1>2. author' \in Authors /\ UNCHANGED <<emailtype, bulk, frozen, reached>>
  <2>1. CASE DeleteSender
    BY <1>1, <2>1 DEF DeleteSender, Authors
  <2>2. ASSUME NEW role \in {"leader", "management", "none"}, NEW dart \in Filters,
               SenderChanges(role, dart)
        PROVE  author' \in Authors /\ UNCHANGED <<emailtype, bulk, frozen, reached>>
    BY <2>2, DartIds DEF SenderChanges, Filters, SenderRoles, Authors
  <2> QED
    BY <2>1, <2>2
<1>3. /\ since' \in [offered : BOOLEAN, steady : BOOLEAN] /\ since'.offered = since.offered
      /\ since'.steady => since.steady /\ (bulk.started \/ bulk.status # "dated")
  <2>1. CASE DeleteSender
    BY <1>1, <2>1 DEF DeleteSender, Starting
  <2>2. ASSUME NEW role, NEW dart, SenderChanges(role, dart)
        PROVE  /\ since' \in [offered : BOOLEAN, steady : BOOLEAN]
               /\ since'.offered = since.offered
               /\ since'.steady => since.steady /\ (bulk.started \/ bulk.status # "dated")
    <3>1. since' = [since EXCEPT !.steady = @ /\ (bulk.started \/ bulk.status # "dated")]
      BY <2>2 DEF SenderChanges
    <3> QED
      BY <1>1, <3>1
  <2> QED
    BY <2>1, <2>2
<1>4. AudienceTypes' /\ FALSE \notin reached'
  BY <1>2, <1>3 DEF AudienceInv, AudienceTypes
<1>5. FrozenWithin' /\ DatedWithin'
  BY <1>2, <1>3 DEF AudienceInv, FrozenWithin, DatedWithin
<1>6. OfferedRead'
  BY <1>2, <1>3 DEF AudienceInv, OfferedRead
<1> QED
  BY <1>4, <1>5, <1>6 DEF AudienceInv

\* Each step keeps the invariant.
LEMMA AudienceStep ==
    ASSUME AudienceInv, [AudienceNext]_audienceVars
    PROVE  AudienceInv'
<1>1. ASSUME open_draft PROVE AudienceInv'
  <2>1. bulk' = [NoBulk EXCEPT !.status = "draft", !.dart = sender_context.dart]
    BY <1>1 DEF open_draft
  <2>2. sender_context.dart \in Nat
    BY LimitIsDart DEF AudienceInv, AudienceTypes
  <2>3. bulk' \in BulkRows /\ ~bulk'.started /\ bulk'.status = "draft" /\ bulk'.allows = {}
    BY <2>1, <2>2 DEF NoBulk, BulkRows, EmailStatus
  <2>4. UNCHANGED <<author, emailtype, since, reached>>
    BY <1>1 DEF open_draft
  <2>5. AudienceTypes' /\ FALSE \notin reached'
    BY <2>3, <2>4 DEF AudienceInv, AudienceTypes
  <2>6. FrozenWithin' /\ DatedWithin' /\ OfferedRead'
    BY <2>3, <2>4 DEF AudienceInv, FrozenWithin, DatedWithin, OfferedRead
  <2> QED
    BY <2>5, <2>6 DEF AudienceInv
<1>2. ASSUME AddGroup PROVE AudienceInv'
  BY <1>2, AddAccountsKeeps DEF AddGroup, add_group
<1>3. ASSUME NEW dart \in Filters, add_filters(dart) PROVE AudienceInv'
  BY <1>3, AddAccountsKeeps DEF add_filters
<1>4. ASSUME NEW people, TakeOut(people) PROVE AudienceInv'
  <2>1. /\ bulk' \in BulkRows /\ ~bulk'.started /\ bulk'.status = "draft"
        /\ bulk'.allows = bulk.allows
    BY <1>4 DEF TakeOut, can_edit, AudienceInv, AudienceTypes, BulkRows, EmailStatus
  <2> QED
    BY <1>4, <2>1, NotStarted DEF TakeOut
<1>5. ASSUME cancel \/ \E by \in {"leader", "management"} : queue(by) PROVE AudienceInv'
  <2>1. ~bulk.started
    BY <1>5 DEF cancel, queue, can_edit
  <2>2. limit_dart \in Nat
    BY LimitIsDart DEF AudienceInv, AudienceTypes
  <2>3. /\ bulk' \in BulkRows /\ ~bulk'.started /\ bulk'.status \in {"draft", "queued"}
        /\ bulk'.allows = bulk.allows
    BY <1>5, <2>1, <2>2 DEF cancel, queue, AudienceInv, AudienceTypes, BulkRows, EmailStatus
  <2> QED
    BY <1>5, <2>3, NotStarted DEF cancel, queue
<1>6. ASSUME NEW p \in Readership, CheckCopy(p) PROVE AudienceInv'
  <2>1. emailtype.allow_opt_out \in BOOLEAN
    BY DEF AudienceInv, AudienceTypes, TypeFields
  <2>2. allow_opt_out \in BOOLEAN /\ (since.offered => allow_opt_out)
    BY <2>1 DEF allow_opt_out, AudienceInv, OfferedRead
  <2>3. /\ Loaded \in BulkRows /\ Loaded.started = bulk.started /\ Loaded.dart = bulk.dart
        /\ Loaded.status = bulk.status /\ Loaded.allows = {allow_opt_out}
    BY <2>2 DEF Loaded, AudienceInv, AudienceTypes, BulkRows
  <2>4. bulk' = Loaded \/ bulk' = [Loaded EXCEPT !.checked = p]
    <3>1. CASE Sendable(p)
      BY <1>6, <3>1, Zenon DEF CheckCopy
    <3>2. CASE ~Sendable(p)
      BY <1>6, <3>2, Zenon DEF CheckCopy
    <3> QED
      BY <3>1, <3>2
  <2>5. /\ bulk' \in BulkRows /\ bulk'.started = bulk.started /\ bulk'.dart = bulk.dart
        /\ bulk'.status = bulk.status /\ bulk'.allows = {allow_opt_out}
    BY <2>3, <2>4 DEF BulkRows
  <2>6. since.offered => TRUE \in bulk'.allows
    BY <2>2, <2>5
  <2>7. FALSE \notin reached'
    BY <1>6, SendableInReach DEF CheckCopy, AudienceInv
  <2>8. bulk.status = "sending" /\ UNCHANGED <<author, emailtype, frozen, since>>
    BY <1>6 DEF CheckCopy
  <2> QED
    BY <2>5, <2>6, <2>7, <2>8, RowMovesOn
<1>7. ASSUME \/ Refuse \/ FinishSending \/ Rerun
             \/ \E answer \in {"sent", "failed"} : HandOver(answer)
             \/ SendAgain("stopped", In("stopped")) \/ SendAgain("sent", In("failed"))
      PROVE  AudienceInv'
  <2>1. /\ bulk' \in BulkRows /\ bulk'.started = bulk.started /\ bulk'.dart = bulk.dart
        /\ bulk'.status # "dated" /\ bulk'.allows \in {{}, bulk.allows}
        /\ UNCHANGED <<author, emailtype, frozen, since, reached>>
    <3>1. CASE Refuse
      BY <3>1 DEF Refuse, AudienceInv, AudienceTypes, BulkRows, EmailStatus
    <3>2. CASE FinishSending
      <4> DEFINE over(status) == [bulk EXCEPT !.status = status, !.sender = "unread",
                                              !.allows = {}]
      <4>1. PICK status \in {"sent", "stopped"} : bulk' = over(status)
        BY <3>2 DEF FinishSending
      <4>2. bulk \in BulkRows
        BY DEF AudienceInv, AudienceTypes
      <4>3. /\ over(status) \in BulkRows /\ over(status).started = bulk.started
            /\ over(status).dart = bulk.dart /\ over(status).status # "dated"
            /\ over(status).allows = {}
        BY <4>2 DEF BulkRows, EmailStatus
      <4>4. UNCHANGED <<author, emailtype, frozen, since, reached>>
        BY <3>2 DEF FinishSending
      <4> QED BY <4>1, <4>3, <4>4
    <3>3. CASE Rerun
      <4> DEFINE back == [bulk EXCEPT !.status = "queued", !.sender = "unread", !.allows = {}]
                 died == [bulk EXCEPT !.checked = 0, !.allows = {},
                                      !.sender = IF author.exists THEN "row" ELSE "unread"]
      <4>1. bulk \in BulkRows
        BY DEF AudienceInv, AudienceTypes
      <4>2. CASE bulk.status = "sending" /\ bulk' = died
        <5>1. /\ died \in BulkRows /\ died.started = bulk.started
              /\ died.dart = bulk.dart /\ died.status = bulk.status /\ died.allows = {}
          BY <4>1 DEF BulkRows, EmailStatus
        <5> QED BY <4>2, <5>1, <3>3 DEF Rerun
      <4>3. CASE bulk.status = "claimed" /\ bulk' = back
        <5>1. /\ back \in BulkRows /\ back.started = bulk.started
              /\ back.dart = bulk.dart /\ back.status # "dated" /\ back.allows = {}
          BY <4>1 DEF BulkRows, EmailStatus
        <5> QED BY <4>3, <5>1, <3>3 DEF Rerun
      <4> QED BY <4>2, <4>3, <3>3 DEF Rerun
    <3>4. CASE \E answer \in {"sent", "failed"} : HandOver(answer)
      BY <3>4 DEF HandOver, AudienceInv, AudienceTypes, BulkRows, EmailStatus
    <3>5. CASE SendAgain("stopped", In("stopped")) \/ SendAgain("sent", In("failed"))
      BY <3>5 DEF SendAgain, AudienceInv, AudienceTypes, BulkRows, EmailStatus
    <3> QED
      BY <1>7, <3>1, <3>2, <3>3, <3>4, <3>5
  <2>2. since.offered => bulk'.allows = {} \/ TRUE \in bulk'.allows
    BY <2>1 DEF AudienceInv, OfferedRead
  <2>3. FALSE \notin reached'
    BY <2>1 DEF AudienceInv
  <2> QED
    BY <2>1, <2>2, <2>3, RowMovesOn
<1>8. ASSUME \/ \E kind, dart : SaveGroup(kind, dart)
             \/ \E g : change_group(g)
             \/ \E p, dart, active : PersonChanges(p, dart, active)
             \/ \E p : EmailPreferences(p) \/ unsubscribe(p)
      PROVE  AudienceInv'
  <2>1. UNCHANGED <<author, emailtype, bulk, frozen, since, reached>>
    BY <1>8 DEF SaveGroup, change_group, PersonChanges, EmailPreferences, unsubscribe, set_opt_out
  <2> QED
    BY <2>1, AudienceElsewhere
<1>9. ASSUME UNCHANGED audienceVars PROVE AudienceInv'
  BY <1>9, AudienceElsewhere DEF audienceVars
<1> QED
  BY <1>1, <1>2, <1>3, <1>4, <1>5, <1>6, <1>7, <1>8, <1>9,
     ClaimKeeps, RecordDartKeeps, FreezeKeeps, TypeKeeps, SenderKeeps
     DEF AudienceNext, clear, remove

\* An email reaches nobody its sender may not write to, nor anybody who has turned off a type
\* that could be turned off all along; and one that other leaders of a DART may read was
\* frozen for people of that DART alone, unless its sender changed in between (senders.py,
\* job.py).
THEOREM EmailKeepsToItsDart == AudienceSpec => []KeepsToItsDart
<1>1. AudienceInit => AudienceInv
  <2> SUFFICES ASSUME AudienceInit PROVE AudienceInv
    OBVIOUS
  <2>1. author \in Authors
    <3>1. PICK r \in {"leader", "management"} : author = [exists |-> TRUE, role |-> r, dart |-> 1]
      BY DEF AudienceInit
    <3> QED
      BY <3>1 DEF SenderRoles, Authors
  <2>2. bulk = NoBulk /\ reached = {} /\ since = [offered |-> FALSE, steady |-> TRUE]
    BY DEF AudienceInit
  <2>3. emailtype \in TypeFields
    BY DEF AudienceInit, TypeFields
  <2>4. bulk \in BulkRows /\ ~bulk.started /\ bulk.status = "none"
    BY <2>2 DEF NoBulk, BulkRows, EmailStatus
  <2> QED
    BY <2>1, <2>2, <2>3, <2>4
    DEF AudienceInv, AudienceTypes, FrozenWithin, DatedWithin, OfferedRead
<1>2. AudienceInv => KeepsToItsDart
  BY DartIds DEF AudienceInv, KeepsToItsDart, FrozenWithin, readable_by
<1> QED
  BY <1>1, <1>2, AudienceStep, PTL DEF AudienceSpec

-----------------------------------------------------------------------------
(* Bounces.                                                                *)

ReportKinds == {"none", "address", "policy", "delayed"}
LogStatus == {"none", "sent", "failed", "bounced"}
LogRows == [status : LogStatus, letter : Letters \cup {0}, to : Holders \cup Places \cup {0},
            user : Holders \cup {0}, day : Nat]
Marked == [address : Holders \cup Places, flag : Holders \cup Places \cup {0}]
BounceTypes ==
    /\ sequence \in Nat
    /\ letter \in [Letters -> [at : {"none", "asked", "logged"}, id : Int, to : Holders \cup Places \cup {0},
                               user : Holders \cup {0}, taken : BOOLEAN]]
    /\ box \in [Letters -> [kind : ReportKinds, signed : BOOLEAN, seen : BOOLEAN]]
    /\ emaillog \in [Ids -> LogRows]
    /\ holder \in [Holders -> Marked]
    /\ now \in Nat

\* A message that left has an id of the log; a signed report is about one that was taken.
ReportsOfTaken ==
    \A l \in Letters :
        /\ letter[l].at # "none" => letter[l].id \in Ids
        /\ box[l].signed => letter[l].at # "none" /\ letter[l].taken

\* A log row is about a message that left, and has the address it left for.
RowsOfLetters ==
    \A i \in Ids : emaillog[i].status # "none" =>
        /\ emaillog[i].letter \in Letters
        /\ letter[emaillog[i].letter].at # "none"
        /\ emaillog[i].to = letter[emaillog[i].letter].to

\* The two halves of BounceIsOurs: the report that a bounced row stands on, and the one that
\* an account's mark does.
Refused(a) ==
    \E l \in Letters : /\ letter[l].to = a /\ letter[l].taken
                       /\ box[l].signed /\ is_address_failure(box[l])
RowsBounced ==
    \A i \in Ids : emaillog[i].status = "bounced" =>
        /\ letter[emaillog[i].letter].taken
        /\ box[emaillog[i].letter].signed /\ IsFailure(box[emaillog[i].letter])
FlagsStand ==
    \A u \in Holders : holder[u].flag # NoFlag =>
        holder[u].flag = holder[u].address /\ Refused(holder[u].flag)

BounceInv == BounceTypes /\ ReportsOfTaken /\ RowsOfLetters /\ RowsBounced /\ FlagsStand

\* There are as many ids as messages.
LEMMA IdsCount == Cardinality(Letters) \in Nat
  BY LettersFinite, FS_CardinalityType

\* A message that leaves changes none that left before.
LEMMA SendTemplatedKeeps ==
    ASSUME BounceInv, NEW l \in Letters, NEW u \in Holders, NEW taken \in BOOLEAN,
           send_templated(l, u, taken)
    PROVE  BounceInv'
<1>1. /\ letter[l].at = "none" /\ sequence' = sequence + 1 /\ sequence' \in Ids
      /\ letter' = [letter EXCEPT ![l] = [at |-> "asked", id |-> sequence', user |-> u,
                                          to |-> holder[u].address, taken |-> taken]]
      /\ UNCHANGED <<holder, emaillog, box, now>>
  BY IdsCount DEF send_templated, Ids, BounceInv, BounceTypes
<1>2. BounceTypes'
  <2>1. holder[u].address \in Holders \cup Places
    BY DEF BounceInv, BounceTypes, Marked
  <2>2. letter' \in [Letters -> [at : {"none", "asked", "logged"}, id : Int,
                                to : Holders \cup Places \cup {0}, user : Holders \cup {0},
                                taken : BOOLEAN]]
    BY <1>1, <2>1 DEF BounceInv, BounceTypes, Ids
  <2> QED
    BY <1>1, <2>2 DEF BounceInv, BounceTypes, Ids
<1>3. \A k \in Letters : letter[k].at # "none" => letter'[k] = letter[k]
  BY <1>1 DEF BounceInv, BounceTypes
<1>4. ReportsOfTaken'
  BY <1>1, <1>3 DEF BounceInv, BounceTypes, ReportsOfTaken, Ids
<1>5. RowsOfLetters' /\ RowsBounced'
  BY <1>1, <1>3 DEF BounceInv, RowsOfLetters, RowsBounced, IsFailure, Ids
<1>6. FlagsStand'
  BY <1>1, <1>3 DEF BounceInv, FlagsStand, Refused, is_address_failure, ReportsOfTaken
<1> QED
  BY <1>2, <1>4, <1>5, <1>6 DEF BounceInv

\* The log row of a message is written once the mail server has answered, or never.
LEMMA RecordKeeps ==
    ASSUME BounceInv, NEW l \in Letters,
           Unrecorded(l) \/ \E answered \in BOOLEAN : record(l, answered)
    PROVE  BounceInv'
<1>1. /\ letter[l].at = "asked" /\ letter' = [letter EXCEPT ![l].at = "logged"]
      /\ UNCHANGED <<holder, sequence, box, now>>
  BY DEF Unrecorded, record
<1>2. \A k \in Letters : /\ letter'[k].id = letter[k].id /\ letter'[k].to = letter[k].to
                         /\ letter'[k].taken = letter[k].taken
                         /\ letter[k].at # "none" => letter'[k].at # "none"
                         /\ letter'[k].at # "none" => letter[k].at # "none"
  BY <1>1 DEF BounceInv, BounceTypes
<1>3. \/ emaillog' = emaillog
      \/ \E status \in {"sent", "failed"} :
            emaillog' = [emaillog EXCEPT ![letter[l].id] =
                [status |-> status, letter |-> l, to |-> letter[l].to,
                 user |-> letter[l].user, day |-> now]]
  BY DEF Unrecorded, record
<1>4. \A i \in Ids : \/ emaillog'[i] = emaillog[i]
                     \/ /\ emaillog'[i].status \in {"sent", "failed"}
                        /\ emaillog'[i].letter = l /\ emaillog'[i].to = letter[l].to
  BY <1>3 DEF BounceInv, BounceTypes
<1>5. BounceTypes'
  <2>1. letter' \in [Letters -> [at : {"none", "asked", "logged"}, id : Int,
                                to : Holders \cup Places \cup {0}, user : Holders \cup {0},
                                taken : BOOLEAN]]
    <3> DEFINE Copies == [at : {"none", "asked", "logged"}, id : Int,
                          to : Holders \cup Places \cup {0}, user : Holders \cup {0},
                          taken : BOOLEAN]
               copy == [letter[l] EXCEPT !.at = "logged"]
    <3>1. letter \in [Letters -> Copies] /\ letter[l] \in Copies
      BY DEF BounceInv, BounceTypes
    <3>2. copy \in Copies
      BY <3>1
    <3>3. letter' = [letter EXCEPT ![l] = copy]
      BY <1>1
    <3> HIDE DEF Copies, copy
    <3>4. letter' \in [Letters -> Copies]
      BY <3>1, <3>2, <3>3
    <3> QED
      BY <3>4 DEF Copies
  <2>2. ASSUME NEW status \in {"sent", "failed"}
        PROVE  [status |-> status, letter |-> l, to |-> letter[l].to, user |-> letter[l].user,
                day |-> now] \in LogRows
    BY DEF BounceInv, BounceTypes, LogRows, LogStatus
  <2>3. emaillog' \in [Ids -> LogRows]
    BY <1>3, <2>2 DEF BounceInv, BounceTypes
  <2> QED
    BY <1>1, <2>1, <2>3 DEF BounceInv, BounceTypes, Ids
<1>6. ReportsOfTaken'
  BY <1>1, <1>2 DEF BounceInv, ReportsOfTaken, Ids
<1>7. RowsOfLetters'
  BY <1>1, <1>2, <1>4 DEF BounceInv, RowsOfLetters, Ids
<1>8. RowsBounced'
  BY <1>1, <1>2, <1>4 DEF BounceInv, RowsBounced, RowsOfLetters, Ids, IsFailure
<1>9. FlagsStand'
  BY <1>1, <1>2 DEF BounceInv, FlagsStand, Refused, is_address_failure
<1> QED
  BY <1>5, <1>6, <1>7, <1>8, <1>9 DEF BounceInv

\* A report that arrives replaces none; a signed one is about a message that was taken.
LEMMA ReportKeeps ==
    ASSUME BounceInv, NEW l \in Letters, NEW kind \in {"address", "policy", "delayed"},
           NEW signed \in BOOLEAN, Report(l, kind, signed)
    PROVE  BounceInv'
<1>1. /\ box[l] = NoReport /\ letter[l].at # "none" /\ (signed => letter[l].taken)
      /\ box' = [box EXCEPT ![l] = [kind |-> kind, signed |-> signed, seen |-> FALSE]]
      /\ UNCHANGED <<holder, letter, emaillog, sequence, now>>
  BY DEF Report
<1>2. BounceTypes'
  BY <1>1 DEF BounceInv, BounceTypes, ReportKinds, Ids
<1>3. \A k \in Letters : box[k].signed => box'[k] = box[k]
  BY <1>1 DEF BounceInv, BounceTypes, NoReport
<1>4. ReportsOfTaken'
  BY <1>1 DEF BounceInv, BounceTypes, ReportsOfTaken, Ids
<1>5. RowsOfLetters' /\ RowsBounced'
  BY <1>1, <1>3 DEF BounceInv, RowsOfLetters, RowsBounced, IsFailure, Ids
<1>6. FlagsStand'
  BY <1>1, <1>3 DEF BounceInv, FlagsStand, Refused, is_address_failure
<1> QED
  BY <1>2, <1>4, <1>5, <1>6 DEF BounceInv

\* The check marks the row the report's signature names, and whoever has its address.
LEMMA MarkKeeps ==
    ASSUME BounceInv, NEW l \in Letters, IsFailure(box[l]), NEW i \in signed_row(l),
           Mark(i, box[l]), UNCHANGED <<letter, sequence, box, now>>
    PROVE  BounceInv'
<1>1. /\ box[l].signed /\ i = letter[l].id /\ emaillog[i].letter = l
      /\ emaillog[i].status # "none"
  BY DEF signed_row, bounce_tag_matches
<1>2. i \in Ids /\ letter[l].taken /\ emaillog[i].to = letter[l].to
  BY <1>1 DEF BounceInv, ReportsOfTaken, RowsOfLetters
<1>3. \A j \in Ids : /\ emaillog'[j].letter = emaillog[j].letter
                     /\ emaillog'[j].to = emaillog[j].to
                     /\ j # i => emaillog'[j].status = emaillog[j].status
  BY DEF Mark, BounceInv, BounceTypes
<1>4. BounceTypes'
  <2>1. emaillog' \in [Ids -> LogRows]
    <3> DEFINE entry == [emaillog[i] EXCEPT !.status = "bounced"]
    <3>1. emaillog \in [Ids -> LogRows] /\ emaillog[i] \in LogRows
      BY <1>2 DEF BounceInv, BounceTypes
    <3>2. entry \in LogRows
      BY <3>1 DEF LogRows, LogStatus
    <3>3. emaillog' = [emaillog EXCEPT ![i] = entry]
      BY DEF Mark
    <3> HIDE DEF entry
    <3> QED
      BY <3>1, <3>2, <3>3
  <2>2. emaillog[i].to \in Holders \cup Places \cup {0}
    BY <1>2 DEF BounceInv, BounceTypes, LogRows
  <2>3. holder' \in [Holders -> Marked]
    BY <2>2 DEF Mark, BounceInv, BounceTypes, Marked
  <2> QED
    BY <2>1, <2>3 DEF BounceInv, BounceTypes, Ids
<1>5. ReportsOfTaken'
  BY DEF BounceInv, ReportsOfTaken, Ids
<1>6. RowsOfLetters'
  BY <1>1, <1>2, <1>3 DEF BounceInv, RowsOfLetters, Ids
<1>7. RowsBounced'
  BY <1>1, <1>2, <1>3 DEF BounceInv, RowsBounced, Ids, IsFailure
<1>8. FlagsStand'
  <2> SUFFICES ASSUME NEW u \in Holders, holder'[u].flag # NoFlag
               PROVE  /\ holder'[u].flag = holder'[u].address
                      /\ Refused(holder'[u].flag)
    BY DEF FlagsStand, Refused, is_address_failure
  <2>1. CASE is_address_failure(box[l]) /\ u \in Reached(emaillog[i])
    <3>1. holder'[u] = [holder[u] EXCEPT !.flag = emaillog[i].to]
      BY <2>1 DEF Mark
    <3>2. holder'[u].flag = letter[l].to /\ holder'[u].address = letter[l].to
      BY <2>1, <3>1, <1>2 DEF Reached, BounceInv, BounceTypes, Marked
    <3> QED
      BY <2>1, <3>2, <1>1, <1>2 DEF Refused, is_address_failure
  <2>2. CASE ~(is_address_failure(box[l]) /\ u \in Reached(emaillog[i]))
    <3>1. holder'[u] = holder[u]
      BY <2>2 DEF Mark
    <3> QED
      BY <3>1 DEF BounceInv, FlagsStand
  <2> QED
    BY <2>1, <2>2
<1> QED
  BY <1>4, <1>5, <1>6, <1>7, <1>8 DEF BounceInv

\* A step of a run, or of the calendar, that changes no mark, row, message or report.
LEMMA BounceElsewhere ==
    ASSUME BounceInv, UNCHANGED <<holder, letter, emaillog, sequence, box>>, now' \in Nat
    PROVE  BounceInv'
  BY DEF BounceInv, BounceTypes, ReportsOfTaken, RowsOfLetters, RowsBounced, FlagsStand, Refused,
         is_address_failure, IsFailure, Ids

\* Reading a report to its end marks it seen and no more.
LEMMA StoreSeenKeeps ==
    ASSUME BounceInv, NEW r \in Readers, StoreSeen(r)
    PROVE  BounceInv'
<1>1. /\ box' = [box EXCEPT ![reading[r].on].seen = TRUE]
      /\ UNCHANGED <<holder, letter, emaillog, sequence, now>>
  BY DEF StoreSeen
<1>2. \A l \in Letters : box'[l].kind = box[l].kind /\ box'[l].signed = box[l].signed
  BY <1>1 DEF BounceInv, BounceTypes
<1>3. box' \in [Letters -> [kind : ReportKinds, signed : BOOLEAN, seen : BOOLEAN]]
  BY <1>1 DEF BounceInv, BounceTypes
<1> QED
  BY <1>1, <1>2, <1>3
     DEF BounceInv, BounceTypes, ReportsOfTaken, RowsOfLetters, RowsBounced, FlagsStand, Refused,
         is_address_failure, IsFailure, Ids

\* An account that moves, or whose mark is cleared, has none.
LEMMA ClearedKeeps ==
    ASSUME BounceInv, NEW u \in Holders, NEW a \in Holders \cup Places,
           holder' = [holder EXCEPT ![u] = [address |-> a, flag |-> NoFlag]],
           UNCHANGED <<letter, emaillog, sequence, box, now>>
    PROVE  BounceInv'
<1>1. holder' \in [Holders -> Marked]
  BY DEF BounceInv, BounceTypes, Marked, NoFlag
<1>2. FlagsStand'
  BY DEF BounceInv, BounceTypes, FlagsStand, Refused, is_address_failure
<1> QED
  BY <1>1, <1>2
     DEF BounceInv, BounceTypes, ReportsOfTaken, RowsOfLetters, RowsBounced, IsFailure, Ids

\* A restored backup has no mark and no row.
LEMMA RestoreKeeps ==
    ASSUME BounceInv, Restore
    PROVE  BounceInv'
<1>1. /\ holder' = NewHolder /\ emaillog' = [i \in Ids |-> NoEntry] /\ sequence' = 0
      /\ UNCHANGED <<letter, box, now>>
  BY DEF Restore
<1>2. BounceTypes'
  BY <1>1 DEF BounceInv, BounceTypes, NewHolder, NoEntry, NoFlag, LogStatus, Ids, LogRows, Marked
<1>3. RowsOfLetters' /\ RowsBounced' /\ FlagsStand'
  BY <1>1 DEF RowsOfLetters, RowsBounced, FlagsStand, NewHolder, NoEntry, Ids
<1> QED
  BY <1>1, <1>2, <1>3 DEF BounceInv, ReportsOfTaken, Ids

\* Each step keeps the invariant.
LEMMA BounceStep ==
    ASSUME BounceInv, [BounceNext]_bounceVars
    PROVE  BounceInv'
<1>1. ASSUME NEW l \in Letters, NEW r \in Readers, NEW wrote \in BOOLEAN, Process(r, l, wrote)
      PROVE  BounceInv'
  <2>1. CASE UNCHANGED <<holder, emaillog>>
    BY <1>1, <2>1, BounceElsewhere DEF Process, BounceInv, BounceTypes
  <2>2. CASE IsFailure(box[l]) /\ \E i \in signed_row(l) : Mark(i, box[l])
    BY <1>1, <2>2, MarkKeeps DEF Process
  <2> QED
    BY <1>1, <2>1, <2>2 DEF Process
<1>2. ASSUME \/ \E r \in Readers, dry \in BOOLEAN : check_bounces(r, dry)
             \/ \E r \in Readers, l \in Letters : Skip(r, l)
             \/ \E r \in Readers : Stop(r)
             \/ BounceDay \/ UNCHANGED bounceVars
      PROVE  BounceInv'
  <2>1. UNCHANGED <<holder, letter, emaillog, sequence, box>> /\ now' \in Nat
    BY <1>2 DEF check_bounces, Skip, Stop, BounceDay, bounceVars, BounceInv, BounceTypes
  <2> QED
    BY <2>1, BounceElsewhere
<1>3. ASSUME NEW u \in Holders,
             \/ \E a \in Places : CompleteChange(u, a)
             \/ ConfirmAddress(u) \/ clear_email_bounce(u)
      PROVE  BounceInv'
  <2>1. PICK a \in Holders \cup Places :
            holder' = [holder EXCEPT ![u] = [address |-> a, flag |-> NoFlag]]
    <3>1. CASE \E a \in Places : CompleteChange(u, a)
      <4>1. PICK a \in Places : holder' = [holder EXCEPT ![u] = MovedTo(u, a)]
        BY <3>1 DEF CompleteChange
      <4>2. holder[u] \in Marked
        BY DEF BounceInv, BounceTypes
      <4> DEFINE moved == [holder[u] EXCEPT !.address = a]
      <4>3. moved = [address |-> a, flag |-> holder[u].flag]
        BY <4>2 DEF Marked
      <4>4. MovedTo(u, a) = [moved EXCEPT !.flag = NoFlag]
        BY <4>2 DEF MovedTo, Marked
      <4> HIDE DEF moved
      <4>5. MovedTo(u, a) = [address |-> a, flag |-> NoFlag]
        BY <4>3, <4>4
      <4>6. holder' = [holder EXCEPT ![u] = [address |-> a, flag |-> NoFlag]]
        BY <4>1, <4>5
      <4> QED
        BY <4>6
    <3>2. CASE ConfirmAddress(u) \/ clear_email_bounce(u)
      <4>1. holder' = [holder EXCEPT ![u] = [address |-> holder[u].address, flag |-> NoFlag]]
        <5>1. holder' = [holder EXCEPT ![u].flag = NoFlag]
          BY <3>2 DEF ConfirmAddress, clear_email_bounce
        <5>2. holder[u] \in Marked
          BY DEF BounceInv, BounceTypes
        <5>3. [holder[u] EXCEPT !.flag = NoFlag] = [address |-> holder[u].address, flag |-> NoFlag]
          BY <5>2 DEF Marked
        <5> QED
          BY <5>1, <5>3
      <4> QED
        BY <4>1 DEF BounceInv, BounceTypes, LogRows, Marked
    <3> QED
      BY <1>3, <3>1, <3>2
  <2>2. UNCHANGED <<letter, emaillog, sequence, box, now>>
    BY <1>3 DEF CompleteChange, ConfirmAddress, clear_email_bounce
  <2> QED
    BY <2>1, <2>2, ClearedKeeps
<1> QED
  BY <1>1, <1>2, <1>3, SendTemplatedKeeps, RecordKeeps, ReportKeeps, StoreSeenKeeps,
     RestoreKeeps
     DEF BounceNext

\* An account is marked as bouncing only after a message of ours to the address it has came
\* back with the address refused, and a log row only for its own message (bounces.py).
THEOREM BouncesAreOurs == BounceSpec => []BounceIsOurs
<1>1. BounceInit => BounceInv
  BY DEF BounceInit, BounceInv, BounceTypes, ReportsOfTaken, RowsOfLetters, RowsBounced, FlagsStand,
         NewHolder, NoLetter, NoEntry, NoReport, NoFlag, ReportKinds, LogStatus, Ids, LogRows, Marked
<1>2. BounceInv => BounceIsOurs
  BY DEF BounceInv, BounceIsOurs, RowsBounced, FlagsStand, Refused
<1> QED
  BY <1>1, <1>2, BounceStep, PTL DEF BounceSpec

-----------------------------------------------------------------------------
(* LinkCheck.                                                              *)

Tasked == [at : {"none", "queued", "request", "wait", "done"}, method : {"HEAD", "GET"},
           hop : Nat, url : {"web", "port", "other"}, addr : HostKinds \cup {"none"},
           answer : {"open", "fine", "port", "private", "unreachable", "timeout",
                     "client_error", "server_error", "not_in_time"}]
LinkTypes ==
    /\ text \in [Links -> {"ours", "http", "https", "port"}]
    /\ run \in {"idle", "starting", "running", "ended"}
    /\ own \in {{}, {"ours"}}
    /\ task \in [Links -> Tasked]

\* Where a request may be: at an address that was judged public.
Pinned == IF own = {} THEN {"public", "ours"} ELSE {"public"}

\* A link's check: begun only in the run, at a judged address, and fine only once a server
\* has answered; a link with an odd port is never sent for.
SoundTask(l, t) ==
    /\ t.at = "wait" => t.addr \in Pinned
    /\ t.answer = "fine" => t.at = "done" /\ l \in heard /\ text[l] # "port"
    /\ text[l] = "port" => t.at # "wait" /\ (t.at = "request" => t.url = "port")
TasksSound ==
    \A l \in Links : /\ SoundTask(l, task[l])
                     /\ run \in {"idle", "starting"} \/ l \notin Checked => task[l].at = "none"

\* The warnings say of each link outside that nobody vouches for it, unless it loaded.
Told ==
    \A l \in Outside : \/ l \in heard /\ text[l] = "https"
                       \/ \E f \in findings : f[1] = IF l \in Checked THEN l ELSE 0
LinkInv ==
    /\ LinkTypes /\ TasksSound
    /\ Cardinality(Working) <= Workers
    /\ run = "ended" => Working = {} /\ Told

\* Any set of links is finite, and fewer of them are at most as many.
LEMMA FewerWorking ==
    ASSUME NEW S \in SUBSET Links, NEW T \in SUBSET S, Cardinality(S) <= Workers
    PROVE  Cardinality(T) <= Workers
<1>1. IsFiniteSet(S) /\ IsFiniteSet(T)
  BY LinkBounds, FS_Subset
<1>2. Cardinality(T) <= Cardinality(S) /\ Cardinality(T) \in Nat /\ Cardinality(S) \in Nat
  BY <1>1, FS_Subset, FS_CardinalityType
<1> QED
  BY <1>2, LinkBounds

\* Some link outside is checked, if there is one.
LEMMA FirstIsChecked ==
    ASSUME Checked = {}
    PROVE  Outside = {}
<1> SUFFICES ASSUME Outside # {} PROVE FALSE
  OBVIOUS
<1>1. Outside \subseteq Nat
  BY LinkBounds DEF Outside
<1>2. PICK l \in Outside : \A k \in Outside : ~(<<k, l>> \in OpToRel(<, Nat))
  BY <1>1, NatLessThanWellFounded, WFMin
<1>3. {k \in Outside : k < l} = {}
  BY <1>1, <1>2 DEF OpToRel
<1>4. l \in Checked
  BY <1>3, LinkBounds, FS_EmptySet DEF Checked
<1> QED
  BY <1>4

\* A check that has an answer, waits, or asks again, and no other check with it.
LEMMA OneTask ==
    ASSUME LinkInv, run = "running", NEW l \in Links, task[l].at \in {"request", "wait"},
           NEW t \in Tasked, t.at \in {"request", "wait", "done"}, SoundTask(l, t)',
           task' = [task EXCEPT ![l] = t], UNCHANGED <<text, run, own, findings>>,
           heard \ {l} \subseteq heard'
    PROVE  LinkInv'
<1>1. LinkTypes'
  BY DEF LinkInv, LinkTypes
<1>2. \A k \in Links : k # l => task'[k] = task[k]
  BY DEF LinkInv, LinkTypes
<1>3. task'[l] = t /\ l \in Checked
  BY DEF LinkInv, LinkTypes, TasksSound
<1>4. Checked' = Checked /\ Outside' = Outside /\ Pinned' = Pinned
  BY DEF Checked, Outside, Pinned
<1>5. TasksSound'
  <2> SUFFICES ASSUME NEW k \in Links
               PROVE  /\ SoundTask(k, task[k])'
                      /\ (k \notin Checked => task'[k].at = "none")
    BY <1>4 DEF TasksSound
  <2>1. CASE k = l
    BY <2>1, <1>3
  <2>2. CASE k # l
    BY <2>2, <1>2, <1>4 DEF LinkInv, TasksSound, SoundTask
  <2> QED
    BY <2>1, <2>2
<1>6. Cardinality(Working') <= Workers
  <2>1. Working' \in SUBSET Working /\ Working \in SUBSET Links
    BY <1>2 DEF Working
  <2> QED
    BY <2>1, FewerWorking DEF LinkInv
<1> QED
  BY <1>1, <1>5, <1>6 DEF LinkInv

\* An answer ends the check of a link that is asked for.
LEMMA AnswerKeeps ==
    ASSUME LinkInv, run = "running", NEW l \in Links, task[l].at \in {"request", "wait"},
           NEW answer, Answer(l, answer), heard \ {l} \subseteq heard',
           answer \in {"port", "private", "unreachable", "timeout", "client_error",
                       "server_error", "fine"},
           answer = "fine" => l \in heard' /\ text[l] # "port"
    PROVE  LinkInv'
<1>1. PICK t \in Tasked : t = Answered(task[l], answer)
  <2>1. task[l] \in Tasked
    BY DEF LinkInv, LinkTypes
  <2> QED
    BY <2>1 DEF Answered, Tasked
<1>2. t.at = "done" /\ t.answer = answer
  BY <1>1 DEF Answered, LinkInv, LinkTypes, Tasked
<1>3. task' = [task EXCEPT ![l] = t] /\ UNCHANGED <<text, run, own, findings>>
  BY <1>1 DEF Answer, Tasks
<1>4. SoundTask(l, t)'
  BY <1>2, <1>3 DEF SoundTask
<1> QED
  BY <1>2, <1>3, <1>4, OneTask

\* A check that is refused by HEAD, or sent on, asks again.
LEMMA AgainKeeps ==
    ASSUME LinkInv, run = "running", NEW l \in Links, task[l].at = "wait",
           NEW url \in {"web", "port", "other"}, NEW hop \in Nat, NEW method \in {"HEAD", "GET"},
           Tasks([task EXCEPT ![l] = Again(@, url, hop, method)]), UNCHANGED heard
    PROVE  LinkInv'
<1>1. PICK t \in Tasked : t = Again(task[l], url, hop, method)
  <2>1. task[l] \in Tasked
    BY DEF LinkInv, LinkTypes
  <2> QED
    BY <2>1 DEF Again, Tasked
<1>2. t.at = "request" /\ t.answer = task[l].answer
  BY <1>1 DEF Again, LinkInv, LinkTypes, Tasked
<1>3. task' = [task EXCEPT ![l] = t] /\ UNCHANGED <<text, run, own, findings>>
  BY <1>1 DEF Tasks, LinkInv, LinkTypes
<1>4. text[l] # "port" /\ task[l].answer # "fine"
  BY DEF LinkInv, TasksSound, SoundTask
<1>5. SoundTask(l, t)'
  BY <1>2, <1>3, <1>4 DEF SoundTask
<1> QED
  BY <1>2, <1>3, <1>5, OneTask

\* A request goes to an address that was judged, or is not made.
LEMMA SendRequestKeeps ==
    ASSUME LinkInv, NEW l \in Links, send_request(l)
    PROVE  LinkInv'
<1>1. run = "running" /\ task[l].at = "request" /\ heard' = heard \ {l}
  BY DEF send_request
<1>2. ASSUME NEW answer \in {"port", "private", "unreachable"}, Answer(l, answer)
      PROVE  LinkInv'
  BY <1>1, <1>2, AnswerKeeps
<1>3. ASSUME task[l].url = "web", NEW addresses \in SUBSET HostKinds,
             addresses \cap (own \cup {"private"}) = {}, NEW a \in addresses,
             Tasks([task EXCEPT ![l].at = "wait", ![l].addr = a])
      PROVE  LinkInv'
  <2>1. a \in Pinned
    BY <1>3 DEF Pinned, HostKinds, LinkInv, LinkTypes
  <2>2. PICK t \in Tasked : t = [task[l] EXCEPT !.at = "wait", !.addr = a]
    BY <1>3 DEF LinkInv, LinkTypes, Tasked
  <2>3. t.at = "wait" /\ t.addr = a /\ t.answer = task[l].answer
    BY <2>2 DEF LinkInv, LinkTypes, Tasked
  <2>4. task' = [task EXCEPT ![l] = t] /\ UNCHANGED <<text, run, own, findings>>
    BY <1>3, <2>2 DEF Tasks, LinkInv, LinkTypes
  <2>5. text[l] # "port" /\ task[l].answer # "fine"
    BY <1>1, <1>3 DEF LinkInv, TasksSound, SoundTask
  <2>6. SoundTask(l, t)'
    BY <2>1, <2>3, <2>4, <2>5 DEF SoundTask, Pinned
  <2> QED
    BY <1>1, <2>3, <2>4, <2>6, OneTask
<1> QED
  BY <1>1, <1>2, <1>3 DEF send_request

\* A server's answer, or its silence, ends the check or has it asked again.
LEMMA FinalStatusKeeps ==
    ASSUME LinkInv, NEW l \in Links, final_status(l)
    PROVE  LinkInv'
<1>1. run = "running" /\ task[l].at = "wait"
  BY DEF final_status
<1>2. CASE Answer(l, "fine") /\ heard' = heard \cup {l}
  <2>1. text[l] # "port"
    BY <1>1 DEF LinkInv, TasksSound, SoundTask
  <2> QED
    BY <1>1, <1>2, <2>1, AnswerKeeps
<1>3. ASSUME NEW answer \in {"unreachable", "timeout", "client_error", "server_error"},
             Answer(l, answer), UNCHANGED heard
      PROVE  LinkInv'
  BY <1>1, <1>3, AnswerKeeps
<1>4. ASSUME Tasks([task EXCEPT ![l] = Again(@, Url(l), 0, "GET")]), UNCHANGED heard
      PROVE  LinkInv'
  <2>1. Url(l) \in {"web", "port", "other"}
    BY DEF Url
  <2> QED
    BY <1>1, <1>4, <2>1, AgainKeeps
<1>5. ASSUME NEW url \in {"web", "port", "other"}, UNCHANGED heard,
             Tasks([task EXCEPT ![l] = Again(@, url, @.hop + 1, @.method)])
      PROVE  LinkInv'
  <2>1. task[l].hop + 1 \in Nat /\ task[l].method \in {"HEAD", "GET"}
    BY DEF LinkInv, LinkTypes, Tasked
  <2>2. Tasks([task EXCEPT ![l] = Again(@, url, task[l].hop + 1, task[l].method)])
    BY <1>5 DEF LinkInv, LinkTypes
  <2> QED
    BY <1>1, <1>5, <2>1, <2>2, AgainKeeps
<1> QED
  BY <1>1, <1>2, <1>3, <1>4, <1>5 DEF final_status

\* The run ends with a warning for every link that did not load.
LEMMA CheckAllKeeps ==
    ASSUME LinkInv, NEW timed_out \in BOOLEAN, check_all(timed_out)
    PROVE  LinkInv'
<1>1. /\ run = "running" /\ run' = "ended" /\ findings' = link_findings(task')
      /\ task' = [l \in Links |-> IF l \in Checked /\ task[l].at # "done"
                                  THEN Answered(task[l], "not_in_time") ELSE task[l]]
      /\ UNCHANGED <<text, own, heard>>
  BY DEF check_all
<1>2. Checked' = Checked /\ Outside' = Outside /\ Pinned' = Pinned /\ Checked \subseteq Outside
      /\ Outside \subseteq Links
  BY <1>1 DEF Checked, Outside, Pinned
<1>3. ASSUME NEW l \in Links
      PROVE  /\ task'[l] \in Tasked
             /\ task'[l].answer = "fine" => task'[l] = task[l]
             /\ task'[l].at \in {"none", "done"}
             /\ l \notin Checked => task'[l].at = "none"
  <2>1. task[l] \in Tasked
    BY DEF LinkInv, LinkTypes
  <2>2. CASE l \in Checked /\ task[l].at # "done"
    <3>1. task'[l] = Answered(task[l], "not_in_time")
      BY <1>1, <2>2
    <3> QED
      BY <2>1, <2>2, <3>1 DEF Answered, Tasked
  <2>3. CASE ~(l \in Checked /\ task[l].at # "done")
    <3>1. task'[l] = task[l]
      BY <1>1, <2>3
    <3> QED
      BY <1>1, <2>1, <2>3, <3>1 DEF LinkInv, TasksSound
  <2> QED
    BY <2>2, <2>3
<1>4. LinkTypes'
  BY <1>1, <1>3 DEF LinkInv, LinkTypes
<1>5. TasksSound'
  <2> SUFFICES ASSUME NEW l \in Links
               PROVE  SoundTask(l, task[l])' /\ (l \notin Checked => task'[l].at = "none")
    BY <1>1, <1>2 DEF TasksSound
  <2> QED
    BY <1>1, <1>2, <1>3 DEF SoundTask, LinkInv, TasksSound
<1>6. Working' = {}
  BY <1>3 DEF Working
<1>7. Told'
  <2> SUFFICES ASSUME NEW l \in Outside, ~(l \in heard /\ text[l] = "https")
               PROVE  \E f \in findings' : f[1] = IF l \in Checked THEN l ELSE 0
    BY <1>1, <1>2 DEF Told
  <2>1. CASE l \notin Checked
    <3>1. <<0, "skipped">> \in findings'
      BY <1>1, <1>2, <2>1 DEF link_findings
    <3> QED
      BY <2>1, <3>1
  <2>2. CASE l \in Checked /\ text[l] = "http"
    <3>1. <<l, "insecure">> \in findings'
      BY <1>1, <1>2, <2>2 DEF link_findings
    <3> QED
      BY <2>2, <3>1
  <2>3. CASE l \in Checked /\ text[l] # "http"
    <3>1. text[l] \in {"https", "port"}
      BY <1>2, <2>3 DEF Outside, LinkInv, LinkTypes
    <3>2. task'[l].answer # "fine"
      BY <1>2, <1>3, <3>1 DEF LinkInv, TasksSound, SoundTask
    <3>3. <<l, task'[l].answer>> \in findings'
      BY <1>1, <1>2, <2>3, <3>2 DEF link_findings
    <3> QED
      BY <2>3, <3>3
  <2> QED
    BY <2>1, <2>2, <2>3
<1>8. Cardinality(Working') <= Workers
  BY <1>6, LinkBounds, FS_EmptySet
<1> QED
  BY <1>4, <1>5, <1>6, <1>7, <1>8 DEF LinkInv

\* The checks are set up, and let through the gate one by one.
LEMMA StartKeeps ==
    ASSUME LinkInv, run_checks \/ own_addresses
    PROVE  LinkInv'
<1>1. Checked' = Checked /\ Outside' = Outside
  BY DEF run_checks, own_addresses, Checked, Outside
<1>2. CASE run_checks
  <2>1. \A l \in Links : task[l].at = "none"
    BY <1>2 DEF run_checks, LinkInv, TasksSound
  <2>2. Working' = {} /\ Working = {}
    BY <1>2, <2>1 DEF run_checks, Working
  <2>3. run' = "ended" => Told'
    BY <1>1, <1>2, FirstIsChecked DEF run_checks, Told
  <2>4. LinkTypes' /\ TasksSound'
    BY <1>1, <1>2, <2>1
       DEF run_checks, LinkInv, LinkTypes, TasksSound, SoundTask, Pinned
  <2> QED
    BY <1>2, <2>2, <2>3, <2>4, LinkBounds, FS_EmptySet DEF LinkInv
<1>3. CASE own_addresses
  <2>1. \A l \in Links : /\ task'[l] \in Tasked /\ task'[l].at \in {"none", "queued"}
                         /\ task'[l].answer = "open"
                         /\ l \notin Checked => task'[l].at = "none"
    BY <1>3 DEF own_addresses, NoTask, Tasked
  <2>2. Working' = {}
    BY <2>1 DEF Working
  <2>3. LinkTypes'
    BY <1>3, <2>1 DEF own_addresses, LinkInv, LinkTypes
  <2>4. run' = "running"
    BY <1>3 DEF own_addresses
  <2>5. TasksSound'
    BY <1>1, <2>1, <2>4 DEF TasksSound, SoundTask
  <2> QED
    BY <2>2, <2>3, <2>4, <2>5, LinkBounds, FS_EmptySet DEF LinkInv
<1> QED
  BY <1>2, <1>3

\* The gate lets a check through while fewer than Workers are under way.
LEMMA EnterKeeps ==
    ASSUME LinkInv, NEW l \in Links, Enter(l)
    PROVE  LinkInv'
<1>1. /\ run = "running" /\ task[l].at = "queued" /\ Cardinality(Working) < Workers
      /\ task' = [task EXCEPT ![l].at = "request", ![l].url = Url(l)]
      /\ UNCHANGED <<text, run, own, findings, heard>>
  BY DEF Enter, Tasks
<1>2. task[l] \in Tasked /\ Url(l) \in {"web", "port"}
  BY DEF LinkInv, LinkTypes, Url
<1>3. PICK t \in Tasked : t = [task[l] EXCEPT !.at = "request", !.url = Url(l)]
  BY <1>2 DEF Tasked
<1>4. t.at = "request" /\ t.url = Url(l) /\ t.answer = task[l].answer
  BY <1>2, <1>3 DEF Tasked
<1>5. task' = [task EXCEPT ![l] = t]
  BY <1>1, <1>3 DEF LinkInv, LinkTypes
<1>6. LinkTypes'
  BY <1>1, <1>5 DEF LinkInv, LinkTypes
<1>7. Checked' = Checked /\ Pinned' = Pinned /\ l \in Checked
  BY <1>1 DEF Checked, Outside, Pinned, LinkInv, TasksSound
<1>8. \A k \in Links : k # l => task'[k] = task[k]
  BY <1>5 DEF LinkInv, LinkTypes
<1>9. task'[l] = t
  BY <1>5 DEF LinkInv, LinkTypes
<1>10. task[l].answer # "fine"
  BY <1>1 DEF LinkInv, TasksSound, SoundTask
<1>11. SoundTask(l, task[l])'
  BY <1>1, <1>4, <1>9, <1>10 DEF SoundTask, Url
<1>12. TasksSound'
  <2> SUFFICES ASSUME NEW k \in Links
               PROVE  /\ SoundTask(k, task[k])'
                      /\ (k \notin Checked => task'[k].at = "none")
    BY <1>1, <1>7 DEF TasksSound
  <2>1. CASE k = l
    BY <2>1, <1>7, <1>11
  <2>2. CASE k # l
    <3>1. task'[k] = task[k] /\ SoundTask(k, task[k])
      BY <2>2, <1>8 DEF LinkInv, TasksSound
    <3>2. k \notin Checked => task[k].at = "none"
      BY <1>1 DEF LinkInv, TasksSound
    <3>3. Pinned' = Pinned /\ UNCHANGED <<text, heard>>
      BY <1>1, <1>7
    <3>4. SoundTask(k, task[k])'
      BY <3>1, <3>3 DEF SoundTask
    <3> QED
      BY <3>1, <3>2, <3>4
  <2> QED
    BY <2>1, <2>2
<1>13. Cardinality(Working') <= Workers
  <2>1. Working' = Working \cup {l} /\ l \notin Working
    BY <1>1, <1>4, <1>8, <1>9 DEF Working
  <2>2. IsFiniteSet(Working)
    BY LinkBounds, FS_Subset DEF Working
  <2>3. Cardinality(Working') = Cardinality(Working) + 1 /\ Cardinality(Working) \in Nat
    BY <2>1, <2>2, FS_AddElement, FS_CardinalityType
  <2> QED
    BY <1>1, <2>3, LinkBounds
<1> QED
  BY <1>1, <1>6, <1>12, <1>13 DEF LinkInv

\* Each step keeps the invariant.
LEMMA LinkStep ==
    ASSUME LinkInv, [LinkNext]_linkVars
    PROVE  LinkInv'
<1>1. ASSUME NEW l \in Links, check_one_times_out(l) PROVE LinkInv'
  BY <1>1, AnswerKeeps DEF check_one_times_out
<1>2. CASE UNCHANGED linkVars
  BY <1>2 DEF linkVars, LinkInv, LinkTypes, TasksSound, SoundTask, Pinned, Checked, Outside,
              Working, Told
<1> QED
  BY <1>1, <1>2, StartKeeps, EnterKeeps, SendRequestKeeps, FinalStatusKeeps, CheckAllKeeps
     DEF LinkNext

\* The check's requests stay outside, and a link it says nothing about is one that loaded
\* over https (links.py, checks.py).
THEOREM SilentLinksLoaded == LinkSpec => []SilentMeansLoaded
<1>1. LinkInit => LinkInv
  <2> SUFFICES ASSUME LinkInit PROVE LinkInv
    OBVIOUS
  <2>1. NoTask \in Tasked /\ NoTask.at = "none" /\ NoTask.answer = "open"
    BY DEF NoTask, Tasked
  <2>2. LinkTypes /\ TasksSound
    BY <2>1 DEF LinkInit, LinkTypes, TasksSound, SoundTask
  <2>3. Working = {} /\ run = "idle"
    BY <2>1 DEF LinkInit, Working
  <2> QED
    BY <2>2, <2>3, LinkBounds, FS_EmptySet DEF LinkInv
<1>2. LinkInv => SilentMeansLoaded
  BY DEF LinkInv, TasksSound, SoundTask, Pinned, Told, SilentMeansLoaded
<1> QED
  BY <1>1, <1>2, LinkStep, PTL DEF LinkSpec

-----------------------------------------------------------------------------
(* Mailings.                                                               *)

Items == [exists : BOOLEAN, active : BOOLEAN, cadence : {"weekly", "monthly"}, weekday : Int,
          due : Int]
Mailed == Contacts \cup {1}
RunnerRows == [at : {"none", "listed", "claimed", "ended"}, asked : BOOLEAN, due : Int,
               left : SUBSET Mailed, took : SUBSET Mailed, failed : BOOLEAN]
MailingTypes ==
    /\ mailing \in {"report", "roster", "statement"} /\ day \in Nat
    /\ item \in Items
    /\ runner \in [Runners -> RunnerRows]
    /\ edit = NoEdit \/ edit \in [open : {TRUE}, read : Items]
    /\ edit.open => mailing = "report"
    /\ \A r \in Runners : runner[r].asked => mailing = "roster"
    /\ copies \in [Contacts -> [Dues -> Nat]]

\* A scheduled run at work on what was due.
Claimed(r) == runner[r].at = "claimed" /\ ~runner[r].asked

\* There is one at a time, and nothing is moved on under it.
OneClaim == \A r, s \in Runners : Claimed(r) /\ Claimed(s) => r = s
ClaimOfDue ==
    \A r \in Runners : Claimed(r) =>
        /\ runner[r].left \cap runner[r].took = {}
        /\ IF mailing = "statement" THEN runner[r].due = 1 /\ item.due = 2
           ELSE runner[r].due = item.due /\ item.due <= IF mailing = "report" THEN day ELSE Month

\* The due date d is behind: no run will claim it again.
Passed(d) == IF mailing = "statement" THEN item.due = 2 /\ \A r \in Runners : ~Claimed(r)
             ELSE d < item.due

\* The one copy of a due date was taken by the run at work on it, or the date is behind.
CopyAccounted(c, d) ==
    \/ d \in again
    \/ copies[c][d] = 0
    \/ /\ copies[c][d] = 1
       /\ Passed(d) \/ \E r \in Runners : /\ Claimed(r) /\ runner[r].due = d
                                          /\ c \in runner[r].took
CopiesAccounted == \A c \in Contacts, d \in Dues : CopyAccounted(c, d)

\* A DART's next roster is due next month at the latest.
RosterDue == mailing = "roster" => item.due <= Month + 1
MailingsInv == MailingTypes /\ OneClaim /\ ClaimOfDue /\ CopiesAccounted /\ RosterDue

\* The calendar: a month is not over before its last day, and a cadence names a later day.
LEMMA MonthIsNat ==
    ASSUME NEW d \in Nat
    PROVE  /\ d \div MonthDays \in Nat /\ ((d \div MonthDays) + 1) * MonthDays > d
           /\ (d + 1) \div MonthDays >= d \div MonthDays
<1>1. MonthDays \in Nat /\ MonthDays > 0
  BY CalendarLengths
<1> QED
  BY <1>1, SMT

\* The next due date is after the day it is worked out for.
LEMMA NextDueIsLater ==
    ASSUME NEW d \in Nat, NEW cadence \in {"weekly", "monthly"}, NEW weekday \in Int
    PROVE  /\ next_due_after(cadence, weekday, d) \in Int
           /\ next_due_after(cadence, weekday, d) > d
<1>1. CASE cadence = "weekly"
  <2>1. WeekDays \in Nat /\ WeekDays > 0
    BY CalendarLengths
  <2>2. (weekday - d) % WeekDays \in Nat
    BY <2>1, SMT
  <2> DEFINE ahead == (weekday - d) % WeekDays
  <2>3. next_due_after(cadence, weekday, d) = d + IF ahead = 0 THEN WeekDays ELSE ahead
    BY <1>1 DEF next_due_after
  <2> HIDE DEF ahead
  <2> QED
    BY <2>1, <2>2, <2>3 DEF ahead
<1>2. CASE cadence = "monthly"
  <2>1. next_due_after(cadence, weekday, d) = ((d \div MonthDays) + 1) * MonthDays
    BY <1>2 DEF next_due_after
  <2>2. d \div MonthDays \in Nat /\ MonthDays \in Nat
    BY MonthIsNat, CalendarLengths
  <2> QED
    BY <2>1, <2>2, MonthIsNat, SMT
<1> QED
  BY <1>1, <1>2

\* A scheduled report or roster at work is locked.
LEMMA ClaimedHoldsLock ==
    ASSUME NEW r \in Runners, Claimed(r), ~Locked
    PROVE  mailing = "statement"
  BY DEF Claimed, Locked

\* A run that ends or goes on, when no run at work and no date is touched.
LEMMA MailingsElsewhere ==
    ASSUME MailingsInv, MailingTypes', UNCHANGED <<mailing, copies>>,
           day' \in {day, day + 1}, item'.due = item.due, again \subseteq again',
           \A r \in Runners : /\ Claimed(r)' <=> Claimed(r)
                              /\ Claimed(r) => runner'[r] = runner[r]
    PROVE  MailingsInv'
<1>1. OneClaim'
  BY DEF MailingsInv, OneClaim
<1>2. Month \in Int /\ Month' \in Int /\ Month' >= Month
  <2>1. day \in Nat /\ Month = day \div MonthDays /\ Month' = day' \div MonthDays
    BY DEF Month, MailingsInv, MailingTypes
  <2> QED
    BY <2>1, MonthIsNat
<1>3. item.due \in Int /\ day \in Nat /\ day' >= day /\ day' \in Nat
  BY DEF MailingsInv, MailingTypes, Items
<1>4. ClaimOfDue'
  <2> SUFFICES ASSUME NEW r \in Runners, Claimed(r)
               PROVE  /\ runner[r].left \cap runner[r].took = {}
                      /\ IF mailing = "statement" THEN runner[r].due = 1 /\ item.due = 2
                         ELSE /\ runner[r].due = item.due
                              /\ item.due <= IF mailing = "report" THEN day' ELSE Month'
    BY DEF ClaimOfDue
  <2>1. /\ runner[r].left \cap runner[r].took = {}
        /\ IF mailing = "statement" THEN runner[r].due = 1 /\ item.due = 2
           ELSE runner[r].due = item.due /\ item.due <= IF mailing = "report" THEN day ELSE Month
    BY DEF MailingsInv, ClaimOfDue
  <2> QED
    BY <2>1, <1>2, <1>3
<1>5. \A d : Passed(d)' <=> Passed(d)
  BY DEF Passed
<1>6. CopiesAccounted'
  <2> SUFFICES ASSUME NEW c \in Contacts, NEW d \in Dues
               PROVE  CopyAccounted(c, d)'
    BY DEF CopiesAccounted, Dues
  <2>1. CopyAccounted(c, d)
    BY DEF MailingsInv, CopiesAccounted
  <2> QED
    BY <2>1, <1>5 DEF CopyAccounted
<1>7. RosterDue'
  BY <1>2, <1>3 DEF MailingsInv, RosterDue
<1> QED
  BY <1>1, <1>4, <1>6, <1>7 DEF MailingsInv

\* The row of a run that has claimed what is due.
IsClaim(row, asked, due, left) ==
    /\ row = [NoRunner EXCEPT !.at = "claimed", !.asked = asked, !.due = due, !.left = left]
    /\ row.at = "claimed" /\ row.asked = asked /\ row.due = due /\ row.took = {}

\* A claim is a run's row.
LEMMA ClaimRow ==
    ASSUME NEW asked \in BOOLEAN, NEW due \in Int, NEW left \in SUBSET Mailed
    PROVE  \E row \in RunnerRows : IsClaim(row, asked, due, left)
<1> DEFINE row1 == [NoRunner EXCEPT !.at = "claimed"]
           row2 == [row1 EXCEPT !.asked = asked]
           row3 == [row2 EXCEPT !.due = due]
           row4 == [row3 EXCEPT !.left = left]
<1>0. NoRunner \in RunnerRows /\ NoRunner.took = {}
  BY DEF NoRunner, RunnerRows
<1>1. row1 \in RunnerRows /\ row1.at = "claimed" /\ row1.took = {}
  BY <1>0 DEF RunnerRows
<1>2. row2 \in RunnerRows /\ row2.at = "claimed" /\ row2.took = {} /\ row2.asked = asked
  BY <1>1 DEF RunnerRows
<1>3. /\ row3 \in RunnerRows /\ row3.at = "claimed" /\ row3.took = {} /\ row3.asked = asked
      /\ row3.due = due
  BY <1>2 DEF RunnerRows
<1>4. /\ row4 \in RunnerRows /\ row4.at = "claimed" /\ row4.took = {} /\ row4.asked = asked
      /\ row4.due = due
  BY <1>3 DEF RunnerRows
<1>5. row4 = [NoRunner EXCEPT !.at = "claimed", !.asked = asked, !.due = due, !.left = left]
  OBVIOUS
<1> HIDE DEF row4
<1> QED
  BY <1>4, <1>5 DEF IsClaim

\* A listed run claims what is due, alone: what was sent of it before may go out again.
LEMMA ClaimDueKeeps ==
    ASSUME MailingsInv, NEW r \in Runners, ClaimDue(r)
    PROVE  MailingsInv'
<1>1. runner[r].at = "listed" /\ runner[r] \in RunnerRows /\ item \in Items
  BY DEF ClaimDue, MailingsInv, MailingTypes
<1>2. CASE runner' = [runner EXCEPT ![r].at = "ended"] /\ item'.due = item.due /\ item' \in Items
  <2>1. runner' \in [Runners -> RunnerRows] /\ MailingTypes'
    BY <1>1, <1>2 DEF ClaimDue, MailingsInv, MailingTypes, RunnerRows
  <2>2. \A s \in Runners : /\ Claimed(s)' <=> Claimed(s)
                           /\ Claimed(s) => runner'[s] = runner[s]
    BY <1>1, <1>2 DEF Claimed, MailingsInv, MailingTypes, RunnerRows
  <2> QED
    BY <1>2, <2>1, <2>2, MailingsElsewhere DEF ClaimDue, MailingsInv, MailingTypes
<1>3. CASE ~Locked /\ Due /\ Claims(r, FALSE) /\ item' = IF mailing = "statement"
                                                         THEN [item EXCEPT !.due = 2] ELSE item
  <2>1. /\ runner' = [runner EXCEPT ![r] = [NoRunner EXCEPT !.at = "claimed", !.asked = FALSE,
                                            !.due = item.due, !.left = Recipients]]
        /\ UNCHANGED <<mailing, day, permitted, edit, copies, again>>
    BY <1>3 DEF Claims, ClaimDue
  <2>2. PICK row \in RunnerRows : IsClaim(row, FALSE, item.due, Recipients)
    <3>1. Recipients \in SUBSET Mailed /\ item.due \in Int /\ FALSE \in BOOLEAN
      BY <1>1 DEF Recipients, Mailed, Items
    <3> QED
      BY <3>1, ClaimRow, Zenon
  <2>3. /\ runner'[r] = row /\ \A s \in Runners : s # r => runner'[s] = runner[s]
        /\ row.at = "claimed" /\ row.asked = FALSE /\ row.due = item.due /\ row.took = {}
    BY <2>1, <2>2 DEF MailingsInv, MailingTypes, IsClaim
  <2>4. \A s \in Runners : ~Claimed(s)
    <3> SUFFICES ASSUME NEW s \in Runners, Claimed(s) PROVE FALSE
      OBVIOUS
    <3>1. mailing = "statement"
      BY <1>3, ClaimedHoldsLock
    <3>2. item.due = 2 /\ item.due = 1
      BY <1>3, <3>1 DEF MailingsInv, ClaimOfDue, Due
    <3> QED
      BY <3>2
  <2>5. \A s \in Runners : Claimed(s)' <=> s = r
    BY <2>2, <2>3, <2>4 DEF Claimed
  <2>6. item' \in Items
    BY <1>1, <1>3 DEF Items
  <2>7. MailingTypes'
    BY <2>1, <2>2, <2>6 DEF MailingsInv, MailingTypes, IsClaim
  <2>8. OneClaim'
    BY <2>5 DEF OneClaim
  <2>9. IF mailing = "statement" THEN item.due = 1 /\ item'.due = 2
        ELSE item' = item /\ item.due <= IF mailing = "report" THEN day ELSE Month
    BY <1>1, <1>3 DEF Due, Items, MailingsInv, MailingTypes
  <2>10. Month' = Month
    BY <2>1 DEF Month
  <2>11. ClaimOfDue'
    BY <2>1, <2>2, <2>3, <2>5, <2>9, <2>10 DEF ClaimOfDue
  <2>12. CopiesAccounted'
    <3> SUFFICES ASSUME NEW c \in Contacts, NEW d \in Dues, d \notin again, copies[c][d] # 0
                 PROVE  copies[c][d] = 1 /\ Passed(d)'
      BY <2>1 DEF CopiesAccounted, CopyAccounted, Dues
    <3>1. copies[c][d] = 1 /\ Passed(d)
      BY <2>4 DEF MailingsInv, CopiesAccounted, CopyAccounted
    <3>2. mailing # "statement" /\ item' = item
      BY <3>1, <2>9 DEF Passed
    <3> QED
      BY <3>1, <3>2, <2>1 DEF Passed
  <2>13. RosterDue'
    BY <2>1, <2>9, <2>10 DEF MailingsInv, RosterDue
  <2> QED
    BY <2>7, <2>8, <2>11, <2>12, <2>13 DEF MailingsInv
<1>4. [item EXCEPT !.active = FALSE] \in Items /\ [item EXCEPT !.active = FALSE].due = item.due
  BY <1>1 DEF Items
<1> QED
  BY <1>1, <1>2, <1>3, <1>4 DEF ClaimDue, still_due

\* A run that ends without a claim: it is not at work any more.
LEMMA EndedRow ==
    LET row == [NoRunner EXCEPT !.at = "ended"]
    IN  row \in RunnerRows /\ row.at = "ended"
<1>1. NoRunner \in RunnerRows
  BY DEF NoRunner, RunnerRows
<1> QED
  BY <1>1 DEF RunnerRows

\* A run that takes up the rosters it was asked for leaves every claim alone.
LEMMA SendRostersNowKeeps ==
    ASSUME MailingsInv, NEW r \in Runners, send_rosters_now(r)
    PROVE  MailingsInv'
<1>1. /\ runner[r] = NoRunner /\ item \in Items /\ runner \in [Runners -> RunnerRows]
      /\ runner' = [runner EXCEPT ![r] = [NoRunner EXCEPT !.at = "claimed", !.asked = TRUE,
                                          !.due = item.due, !.left = Recipients]]
      /\ UNCHANGED <<mailing, day, item, permitted, edit, copies, again>>
  BY DEF send_rosters_now, Claims, MailingsInv, MailingTypes
<1>2. Recipients \in SUBSET Mailed /\ item.due \in Int /\ TRUE \in BOOLEAN
  BY <1>1 DEF Recipients, Mailed, Items
<1>3. PICK row \in RunnerRows : IsClaim(row, TRUE, item.due, Recipients)
  BY <1>2, ClaimRow, Zenon
<1>4. runner' = [runner EXCEPT ![r] = row] /\ row.asked = TRUE
  BY <1>1, <1>3 DEF IsClaim
<1>5. MailingTypes'
  <2>1. \A s \in Runners : runner'[s].asked => mailing = "roster"
    BY <1>1, <1>4 DEF send_rosters_now, MailingsInv, MailingTypes
  <2>2. runner' \in [Runners -> RunnerRows'] /\ copies' \in [Contacts -> [Dues' -> Nat]]
    BY <1>1, <1>4 DEF MailingsInv, MailingTypes, RunnerRows, Mailed, Dues
  <2> QED
    BY <1>1, <2>1, <2>2 DEF MailingsInv, MailingTypes, NoEdit, Items
<1>6. ~Claimed(r)
  BY <1>1 DEF Claimed, NoRunner
<1>7. \A s \in Runners : /\ Claimed(s)' <=> Claimed(s)
                         /\ Claimed(s) => runner'[s] = runner[s]
  BY <1>1, <1>4, <1>6 DEF Claimed
<1> QED
  BY <1>1, <1>5, <1>7, MailingsElsewhere DEF MailingsInv, MailingTypes

\* A run that lists what is due has claimed nothing.
LEMMA ListKeeps ==
    ASSUME MailingsInv, NEW r \in Runners, run_scheduled(r)
    PROVE  MailingsInv'
<1>1. /\ runner[r] = NoRunner /\ runner \in [Runners -> RunnerRows]
      /\ runner' = [runner EXCEPT ![r].at = "listed"]
      /\ UNCHANGED <<mailing, day, item, permitted, edit, copies, again>>
  BY DEF run_scheduled, MailingsInv, MailingTypes
<1>2. MailingTypes'
  BY <1>1 DEF MailingsInv, MailingTypes, RunnerRows
<1>3. \A s \in Runners : /\ Claimed(s)' <=> Claimed(s)
                         /\ Claimed(s) => runner'[s] = runner[s]
  BY <1>1 DEF Claimed, RunnerRows, NoRunner
<1> QED
  BY <1>1, <1>2, <1>3, MailingsElsewhere DEF MailingsInv, MailingTypes

\* The form, the roles and the calendar leave the runs alone.
LEMMA FormsAndDaysKeep ==
    ASSUME MailingsInv,
           \/ send_subscription_now \/ OpenSubscription \/ DeleteSubscription \/ RolesChange
           \/ MailingDay
    PROVE  MailingsInv'
<1>1. UNCHANGED <<mailing, runner, copies, again>> /\ day' \in {day, day + 1}
  BY DEF send_subscription_now, OpenSubscription, DeleteSubscription, RolesChange, MailingDay
<1>2. item' \in Items /\ item'.due = item.due
  <2>1. item \in Items
    BY DEF MailingsInv, MailingTypes
  <2>2. item' \in {item, [item EXCEPT !.active = FALSE], [item EXCEPT !.exists = FALSE]}
    BY DEF send_subscription_now, OpenSubscription, DeleteSubscription, RolesChange, MailingDay
  <2> QED
    BY <2>1, <2>2 DEF Items
<1>3. /\ edit' = NoEdit \/ edit' \in [open : {TRUE}, read : Items]
      /\ edit'.open => mailing = "report"
  <2>1. CASE OpenSubscription
    <3>1. edit' = [open |-> TRUE, read |-> item] /\ mailing = "report" /\ item \in Items
      BY <2>1 DEF OpenSubscription, MailingsInv, MailingTypes
    <3>2. edit' \in [open : {TRUE}, read : Items]
      BY <3>1
    <3> QED
      BY <3>1, <3>2
  <2>2. CASE edit' = edit
    BY <2>2 DEF MailingsInv, MailingTypes
  <2> QED
    BY <2>1, <2>2 DEF send_subscription_now, DeleteSubscription, RolesChange, MailingDay
<1>4. MailingTypes'
  <2>1. mailing' = mailing /\ runner' = runner /\ copies' = copies /\ day' \in Nat
    BY <1>1 DEF MailingsInv, MailingTypes
  <2>2. copies' \in [Contacts -> [Dues' -> Nat]] /\ runner' \in [Runners -> RunnerRows']
    BY <2>1 DEF MailingsInv, MailingTypes, Dues, RunnerRows, Mailed
  <2> QED
    BY <2>1, <2>2, <1>2, <1>3 DEF MailingsInv, MailingTypes, NoEdit, Items
<1>5. \A s \in Runners : Claimed(s)' <=> Claimed(s)
  BY <1>1 DEF Claimed
<1> QED
  BY <1>1, <1>2, <1>4, <1>5, MailingsElsewhere

\* The run at work sends on: a copy of its due date is either one it took, the first to
\* that recipient, or one that may go out again.
LEMMA ClaimGoesOn ==
    ASSUME MailingsInv, NEW r \in Runners, Claimed(r), NEW row \in RunnerRows,
           runner' = [runner EXCEPT ![r] = row],
           row.at = "claimed", row.asked = FALSE, row.due = runner[r].due,
           row.left \cap row.took = {}, runner[r].took \subseteq row.took,
           UNCHANGED <<mailing, day, item, edit>>, again \subseteq again',
           copies' \in [Contacts -> [Dues -> Nat]],
           \A c \in Contacts, d \in Dues :
              \/ copies'[c][d] = copies[c][d]
              \/ d \in again'
              \/ d = row.due /\ copies'[c][d] = 1 /\ c \in row.took
    PROVE  MailingsInv'
<1>1. /\ runner'[r] = row /\ runner \in [Runners -> RunnerRows]
      /\ \A s \in Runners : s # r => runner'[s] = runner[s]
  BY DEF MailingsInv, MailingTypes
<1>2. \A s \in Runners : Claimed(s)' <=> s = r
  BY <1>1 DEF MailingsInv, OneClaim, Claimed
<1>3. \A s \in Runners : Claimed(s) <=> s = r
  BY <1>1 DEF MailingsInv, OneClaim
<1>4. MailingTypes'
  <2>1. runner' \in [Runners -> RunnerRows'] /\ copies' \in [Contacts -> [Dues' -> Nat]]
    BY <1>1 DEF RunnerRows, Mailed, Dues
  <2>2. \A s \in Runners : runner'[s].asked => mailing = "roster"
    BY <1>1 DEF MailingsInv, MailingTypes
  <2> QED
    BY <2>1, <2>2 DEF MailingsInv, MailingTypes, NoEdit, Items
<1>5. OneClaim' /\ RosterDue'
  BY <1>2 DEF OneClaim, RosterDue, MailingsInv, Month
<1>6. ClaimOfDue'
  BY <1>1, <1>2 DEF ClaimOfDue, MailingsInv, Month
<1>7. \A d : Passed(d)' <=> Passed(d)
  BY <1>2, <1>3 DEF Passed
<1>8. CopiesAccounted'
  <2> SUFFICES ASSUME NEW c \in Contacts, NEW d \in Dues, d \notin again', copies'[c][d] # 0
               PROVE  /\ copies'[c][d] = 1
                      /\ Passed(d)' \/ (row.due = d /\ c \in row.took)
    BY <1>1, <1>2 DEF CopiesAccounted, CopyAccounted, Dues
  <2>1. CASE copies'[c][d] = copies[c][d]
    <3>1. CopyAccounted(c, d) /\ d \notin again
      BY DEF MailingsInv, CopiesAccounted
    <3>2. copies[c][d] = 1 /\ (Passed(d) \/ (runner[r].due = d /\ c \in runner[r].took))
      BY <3>1, <2>1, <1>3 DEF CopyAccounted
    <3> QED
      BY <3>2, <2>1, <1>7
  <2>2. CASE d = row.due /\ copies'[c][d] = 1 /\ c \in row.took
    BY <2>2
  <2> QED
    BY <2>1, <2>2
<1> QED
  BY <1>4, <1>5, <1>6, <1>8 DEF MailingsInv

\* The row of a run after a copy of its list.
LEMMA CopyRow ==
    ASSUME MailingsInv, NEW r \in Runners, NEW c \in Contacts, c \in runner[r].left,
           SendCopy(r, c) \/ CopyFails(r, c)
    PROVE  \E row \in RunnerRows :
              /\ runner' = [runner EXCEPT ![r] = row]
              /\ row.at = runner[r].at /\ row.asked = runner[r].asked
              /\ row.due = runner[r].due /\ row.left = runner[r].left \ {c}
              /\ row.took \in {runner[r].took, runner[r].took \cup {c}}
              /\ SendCopy(r, c) => row.took = runner[r].took \cup {c}
<1>1. /\ runner[r] \in RunnerRows /\ runner \in [Runners -> RunnerRows]
      /\ runner[r].left \in SUBSET Mailed /\ runner[r].took \cup {c} \in SUBSET Mailed
  BY DEF MailingsInv, MailingTypes, RunnerRows, Mailed
<1> DEFINE row1 == [runner[r] EXCEPT !.left = @ \ {c}]
<1>2. /\ row1 \in RunnerRows /\ row1.at = runner[r].at /\ row1.asked = runner[r].asked
      /\ row1.due = runner[r].due /\ row1.left = runner[r].left \ {c}
      /\ row1.took = runner[r].took
  BY <1>1 DEF RunnerRows
<1>3. CASE SendCopy(r, c)
  <2> DEFINE row2 == [row1 EXCEPT !.took = @ \cup {c}]
  <2>1. runner' = [runner EXCEPT ![r] = row2]
    BY <1>1, <1>3 DEF SendCopy, RunnerRows
  <2> HIDE DEF row1
  <2>2. /\ row2 \in RunnerRows /\ row2.at = runner[r].at /\ row2.asked = runner[r].asked
        /\ row2.due = runner[r].due /\ row2.left = runner[r].left \ {c}
        /\ row2.took = runner[r].took \cup {c}
    BY <1>1, <1>2 DEF RunnerRows
  <2> HIDE DEF row2
  <2> QED
    BY <2>1, <2>2
<1>4. CASE CopyFails(r, c) /\ ~SendCopy(r, c)
  <2> DEFINE row2 == [row1 EXCEPT !.failed = TRUE]
  <2>1. runner' = [runner EXCEPT ![r] = row2]
    BY <1>1, <1>4 DEF CopyFails, RunnerRows
  <2> HIDE DEF row1
  <2>2. /\ row2 \in RunnerRows /\ row2.at = runner[r].at /\ row2.asked = runner[r].asked
        /\ row2.due = runner[r].due /\ row2.left = runner[r].left \ {c}
        /\ row2.took = runner[r].took
    BY <1>1, <1>2 DEF RunnerRows
  <2> HIDE DEF row2
  <2> QED
    BY <2>1, <2>2, <1>4
<1> QED
  BY <1>3, <1>4

\* A copy: the mail server takes it, refuses it, or takes it and the answer is lost.
LEMMA CopyKeeps ==
    ASSUME MailingsInv, NEW r \in Runners, NEW c \in Contacts,
           SendCopy(r, c) \/ CopyFails(r, c)
    PROVE  MailingsInv'
<1>1. /\ runner[r].at = "claimed" /\ c \in runner[r].left
      /\ UNCHANGED <<mailing, day, item, edit>> /\ again \subseteq again'
      /\ copies' = copies \/ copies' = Copied(r, c)
      /\ SendCopy(r, c) \/ copies' = copies \/ runner[r].due \in again'
  BY DEF SendCopy, CopyFails
<1>2. PICK row \in RunnerRows :
          /\ runner' = [runner EXCEPT ![r] = row]
          /\ row.at = runner[r].at /\ row.asked = runner[r].asked
          /\ row.due = runner[r].due /\ row.left = runner[r].left \ {c}
          /\ row.took \in {runner[r].took, runner[r].took \cup {c}}
          /\ SendCopy(r, c) => row.took = runner[r].took \cup {c}
  BY <1>1, CopyRow
<1>3. copies \in [Contacts -> [Dues -> Nat]] /\ runner \in [Runners -> RunnerRows]
  BY DEF MailingsInv, MailingTypes
<1>4. CASE runner[r].asked
  <2>1. copies' = copies
    BY <1>1, <1>4 DEF Copied
  <2>2. MailingTypes'
    BY <1>1, <1>2, <1>3, <2>1 DEF MailingsInv, MailingTypes, Dues, RunnerRows, Mailed, NoEdit, Items
  <2>3. \A s \in Runners : /\ Claimed(s)' <=> Claimed(s)
                           /\ Claimed(s) => runner'[s] = runner[s]
    BY <1>2, <1>3, <1>4 DEF Claimed
  <2> QED
    BY <1>1, <2>1, <2>2, <2>3, MailingsElsewhere
<1>5. CASE ~runner[r].asked
  <2>1. Claimed(r) /\ row.asked = FALSE
    BY <1>1, <1>2, <1>3, <1>5 DEF Claimed, RunnerRows
  <2>2. copies' \in [Contacts -> [Dues -> Nat]]
    BY <1>1, <1>3, <1>5 DEF Copied
  <2>3. runner[r].left \cap runner[r].took = {}
    BY <2>1 DEF MailingsInv, ClaimOfDue
  <2>4. ASSUME NEW b \in Contacts, NEW d \in Dues
        PROVE  \/ copies'[b][d] = copies[b][d]
               \/ d \in again'
               \/ d = row.due /\ copies'[b][d] = 1 /\ b \in row.took
    <3>1. CASE b # c \/ d # runner[r].due \/ copies' = copies
      BY <3>1, <1>1, <1>3, <1>5 DEF Copied
    <3>2. CASE b = c /\ d = runner[r].due /\ d \notin again' /\ copies' = Copied(r, c)
      <4>1. copies'[b][d] = copies[c][d] + 1
        BY <3>2, <1>3, <1>5 DEF Copied
      <4>2. ~Passed(d)
        BY <2>1, <3>2 DEF Passed, MailingsInv, ClaimOfDue, MailingTypes, Items
      <4>3. \A s \in Runners : Claimed(s) => c \notin runner[s].took
        BY <1>1, <2>1, <2>3 DEF MailingsInv, OneClaim
      <4>4. copies[c][d] = 0
        BY <3>2, <1>1, <4>2, <4>3 DEF MailingsInv, CopiesAccounted, CopyAccounted
      <4>5. SendCopy(r, c) \/ copies' = copies
        BY <1>1, <3>2
      <4> QED
        BY <4>1, <4>4, <4>5, <3>2, <1>2
    <3> QED
      BY <3>1, <3>2, <1>1
  <2>5. row.left \cap row.took = {} /\ runner[r].took \subseteq row.took
    BY <1>2, <2>3
  <2> QED
    BY <1>1, <1>2, <2>1, <2>2, <2>4, <2>5, ClaimGoesOn
<1> QED
  BY <1>4, <1>5

\* The run at work ends: what it took is behind now, or may go out again.
LEMMA ClaimEnds ==
    ASSUME MailingsInv, MailingTypes', NEW r \in Runners, Claimed(r),
           ~Claimed(r)', \A s \in Runners : s # r => runner'[s] = runner[s],
           UNCHANGED <<mailing, day, copies>>, again \subseteq again', RosterDue',
           mailing # "statement" => item'.due >= item.due,
           \/ runner[r].took = {}
           \/ runner[r].due \in again'
           \/ IF mailing = "statement" THEN item'.due = 2 ELSE item'.due > item.due
    PROVE  MailingsInv'
<1>1. \A s \in Runners : ~Claimed(s)' /\ (Claimed(s) <=> s = r)
  BY DEF MailingsInv, OneClaim, Claimed
<1>2. OneClaim' /\ ClaimOfDue'
  BY <1>1 DEF OneClaim, ClaimOfDue
<1>3. item.due \in Int /\ item'.due \in Int
  BY DEF MailingsInv, MailingTypes, Items
<1>4. ASSUME NEW c \in Contacts, NEW d \in Dues
      PROVE  CopyAccounted(c, d)'
  <2> SUFFICES ASSUME d \notin again', copies[c][d] # 0
               PROVE  copies[c][d] = 1 /\ Passed(d)'
    BY DEF CopyAccounted
  <2>1. copies[c][d] = 1 /\ (Passed(d) \/ (runner[r].due = d /\ c \in runner[r].took))
    <3>1. CopyAccounted(c, d) /\ d \notin again
      BY DEF MailingsInv, CopiesAccounted
    <3> QED
      BY <3>1, <1>1 DEF CopyAccounted
  <2>2. CASE mailing = "statement"
    <3>1. ~Passed(d)
      BY <2>2 DEF Passed
    <3>2. item'.due = 2
      BY <2>1, <2>2, <3>1
    <3> QED
      BY <2>1, <2>2, <3>2, <1>1 DEF Passed
  <2>3. CASE mailing # "statement"
    <3>1. runner[r].due = item.due
      BY <2>3 DEF MailingsInv, ClaimOfDue
    <3>2. d < item'.due
      <4>1. CASE Passed(d)
        <5>1. d < item.due /\ d \in Int
          BY <4>1, <2>3 DEF Passed, Dues
        <5> QED
          BY <5>1, <1>3, <2>3
      <4>2. CASE runner[r].due = d /\ c \in runner[r].took
        BY <4>2, <1>3, <2>3, <3>1
      <4> QED
        BY <2>1, <4>1, <4>2
    <3> QED
      BY <2>1, <2>3, <3>2 DEF Passed
  <2> QED
    BY <2>2, <2>3
<1>5. CopiesAccounted'
  BY <1>4 DEF CopiesAccounted, Dues
<1> QED
  BY <1>2, <1>5 DEF MailingsInv

\* Nobody has a claim: the date moves on, or back over dates that may go out again.
LEMMA UnclaimedKeeps ==
    ASSUME MailingsInv, MailingTypes',
           \A s \in Runners : ~Claimed(s) /\ ~Claimed(s)',
           UNCHANGED <<mailing, day, copies>>, again \subseteq again', RosterDue',
           mailing # "statement", item'.due < item.due => item'.due .. item.due \subseteq again'
    PROVE  MailingsInv'
<1>1. OneClaim' /\ ClaimOfDue'
  BY DEF OneClaim, ClaimOfDue
<1>2. ASSUME NEW c \in Contacts, NEW d \in Dues
      PROVE  CopyAccounted(c, d)'
  <2> SUFFICES ASSUME d \notin again', copies[c][d] # 0
               PROVE  copies[c][d] = 1 /\ Passed(d)'
    BY DEF CopyAccounted
  <2>1. copies[c][d] = 1 /\ Passed(d)
    BY DEF MailingsInv, CopiesAccounted, CopyAccounted
  <2>2. d < item.due /\ item.due \in Int /\ item'.due \in Int /\ d \in Int
    BY <2>1 DEF Passed, MailingsInv, MailingTypes, Items, Dues
  <2>3. d < item'.due
    BY <2>2
  <2> QED
    BY <2>1, <2>3 DEF Passed
<1>3. CopiesAccounted'
  BY <1>2 DEF CopiesAccounted, Dues
<1> QED
  BY <1>1, <1>3 DEF MailingsInv

\* The types after a run ended.
LEMMA EndedTypes ==
    ASSUME MailingsInv, NEW r \in Runners, item' \in Items,
           runner' = [runner EXCEPT ![r] = [NoRunner EXCEPT !.at = "ended"]],
           UNCHANGED <<mailing, day, edit, copies>>
    PROVE  MailingTypes' /\ ~Claimed(r)'
<1>1. PICK row \in RunnerRows : /\ row = [NoRunner EXCEPT !.at = "ended"]
                                /\ row.at = "ended" /\ row.asked = FALSE
  <2>1. NoRunner \in RunnerRows /\ NoRunner.asked = FALSE
    BY DEF NoRunner, RunnerRows
  <2> QED
    BY <2>1, EndedRow DEF RunnerRows
<1>2. runner' = [runner EXCEPT ![r] = row] /\ runner \in [Runners -> RunnerRows]
  BY <1>1 DEF MailingsInv, MailingTypes
<1>3. \A s \in Runners : runner'[s].asked => mailing = "roster"
  <2>1. \A s \in Runners : runner[s].asked => mailing = "roster"
    BY DEF MailingsInv, MailingTypes
  <2>2. runner'[r] = row /\ \A s \in Runners : s # r => runner'[s] = runner[s]
    BY <1>2
  <2> QED
    BY <1>1, <2>1, <2>2
<1>4. runner' \in [Runners -> RunnerRows'] /\ copies' \in [Contacts -> [Dues' -> Nat]]
  <2>1. runner' \in [Runners -> RunnerRows]
    BY <1>2
  <2>2. copies' \in [Contacts -> [Dues -> Nat]]
    BY DEF MailingsInv, MailingTypes
  <2> QED
    BY <2>1, <2>2 DEF RunnerRows, Mailed, Dues
<1>5. MailingTypes'
  BY <1>3, <1>4 DEF MailingsInv, MailingTypes, NoEdit, Items
<1> QED
  BY <1>1, <1>2, <1>5 DEF Claimed

\* A run ends.
LEMMA EndRunKeeps ==
    ASSUME MailingsInv, NEW r \in Runners, EndRun(r)
    PROVE  MailingsInv'
<1>1. /\ item' = Settled(r) /\ runner[r].at = "claimed" /\ (runner[r].asked => ~Locked)
      /\ again' = IF runner[r].failed /\ runner[r].took # {} /\ ~runner[r].asked
                  THEN again \union {runner[r].due} ELSE again
      /\ runner' = [runner EXCEPT ![r] = [NoRunner EXCEPT !.at = "ended"]]
      /\ UNCHANGED <<mailing, day, permitted, edit, copies>>
  BY DEF EndRun
<1>2. /\ item \in Items /\ item.due \in Int /\ day \in Nat /\ item.cadence \in {"weekly", "monthly"}
      /\ item.weekday \in Int /\ Month \in Int /\ mailing \in {"report", "roster", "statement"}
      /\ runner \in [Runners -> RunnerRows]
  BY MonthIsNat DEF MailingsInv, MailingTypes, Items, Month
<1> DEFINE next == next_due_after(item.cadence, item.weekday, day)
<1>3. next \in Int /\ next > day
  BY <1>2, NextDueIsLater
<1> HIDE DEF next
<1>4. /\ item' \in Items
      /\ mailing = "statement" => item'.due = IF runner[r].failed THEN 1 ELSE item.due
      /\ mailing # "statement" /\ runner[r].failed => item'.due = item.due
      /\ mailing = "report" /\ ~runner[r].failed => item'.due = next
      /\ mailing = "roster" /\ ~runner[r].failed => item'.due = Month + 1
  <2>1. /\ item' \in {item, [item EXCEPT !.due = 1], [item EXCEPT !.due = next],
                      [item EXCEPT !.due = Month + 1]}
        /\ mailing = "statement" => item' = IF runner[r].failed THEN [item EXCEPT !.due = 1] ELSE item
        /\ mailing # "statement" /\ runner[r].failed => item' = item
        /\ mailing = "report" /\ ~runner[r].failed => item' = [item EXCEPT !.due = next]
        /\ mailing = "roster" /\ ~runner[r].failed => item' = [item EXCEPT !.due = Month + 1]
    BY <1>1, <1>2 DEF Settled, next
  <2>2. /\ [item EXCEPT !.due = 1] \in Items /\ [item EXCEPT !.due = 1].due = 1
        /\ [item EXCEPT !.due = next] \in Items /\ [item EXCEPT !.due = next].due = next
        /\ [item EXCEPT !.due = Month + 1] \in Items
        /\ [item EXCEPT !.due = Month + 1].due = Month + 1
    BY <1>2, <1>3 DEF Items
  <2> QED
    BY <1>2, <2>1, <2>2
<1>5. MailingTypes' /\ ~Claimed(r)'
  BY <1>1, <1>4, EndedTypes
<1>6. again \subseteq again' /\ Month' = Month
  BY <1>1 DEF Month
<1>7. RosterDue'
  BY <1>1, <1>2, <1>4, <1>6 DEF MailingsInv, RosterDue
<1>8. CASE Claimed(r)
  <2>1. \A s \in Runners : s # r => runner'[s] = runner[s]
    BY <1>1, <1>2
  <2>2. IF mailing = "statement" THEN item.due = 2
        ELSE item.due <= IF mailing = "report" THEN day ELSE Month
    BY <1>8 DEF MailingsInv, ClaimOfDue
  <2>3. mailing # "statement" => item'.due >= item.due
    BY <1>2, <1>3, <1>4, <2>2
  <2>4. \/ runner[r].took = {}
        \/ runner[r].due \in again'
        \/ IF mailing = "statement" THEN item'.due = 2 ELSE item'.due > item.due
    BY <1>1, <1>2, <1>3, <1>4, <1>8, <2>2 DEF Claimed
  <2> QED
    BY <1>1, <1>5, <1>6, <1>7, <1>8, <2>1, <2>3, <2>4, ClaimEnds
<1>9. CASE ~Claimed(r)
  <2>1. mailing = "roster" /\ ~Locked
    BY <1>1, <1>9 DEF Claimed, MailingsInv, MailingTypes
  <2>2. \A s \in Runners : ~Claimed(s)
    BY <2>1, ClaimedHoldsLock
  <2>3. \A s \in Runners : ~Claimed(s)'
    BY <1>1, <1>2, <1>5, <2>2 DEF Claimed
  <2>4. item'.due >= item.due
    BY <1>2, <1>4, <2>1 DEF MailingsInv, RosterDue
  <2>5. item'.due \in Int
    BY <1>4 DEF Items
  <2> QED
    BY <1>1, <1>2, <1>5, <1>6, <1>7, <2>1, <2>2, <2>3, <2>4, <2>5, UnclaimedKeeps
<1> QED
  BY <1>8, <1>9

\* A run dies: the date stays, and what was taken may go out again.
LEMMA CrashKeeps ==
    ASSUME MailingsInv, NEW r \in Runners, Crash(r)
    PROVE  MailingsInv'
<1>1. /\ again' = IF runner[r].took # {} /\ ~runner[r].asked
                  THEN again \union {runner[r].due} ELSE again
      /\ runner' = [runner EXCEPT ![r] = [NoRunner EXCEPT !.at = "ended"]]
      /\ UNCHANGED <<mailing, day, item, permitted, edit, copies>> /\ again \subseteq again'
      /\ item \in Items /\ runner \in [Runners -> RunnerRows]
  BY DEF Crash, MailingsInv, MailingTypes
<1>2. MailingTypes' /\ ~Claimed(r)'
  BY <1>1, EndedTypes
<1>3. \A s \in Runners : s # r => runner'[s] = runner[s]
  BY <1>1
<1>4. CASE Claimed(r)
  <2>1. RosterDue' /\ item.due \in Int
    BY <1>1 DEF MailingsInv, RosterDue, Month, Items
  <2>2. runner[r].took = {} \/ runner[r].due \in again'
    BY <1>1, <1>4 DEF Claimed
  <2> QED
    BY <1>1, <1>2, <1>3, <1>4, <2>1, <2>2, ClaimEnds
<1>5. CASE ~Claimed(r)
  <2>1. \A s \in Runners : /\ Claimed(s)' <=> Claimed(s)
                           /\ Claimed(s) => runner'[s] = runner[s]
    BY <1>2, <1>3, <1>5 DEF Claimed
  <2> QED
    BY <1>1, <1>2, <2>1, MailingsElsewhere
<1> QED
  BY <1>4, <1>5

\* A form is saved: the row as it was read, over no run at work.
LEMMA SaveFormKeeps ==
    ASSUME MailingsInv, NEW cadence \in {"weekly", "monthly"}, NEW active \in BOOLEAN,
           SaveForm(cadence, active)
    PROVE  MailingsInv'
<1>1. /\ edit.open /\ ~Locked /\ mailing = "report"
      /\ item' = Edited(edit.read, cadence, active) /\ edit' = NoEdit
      /\ again' = IF item'.due < item.due THEN again \union (item'.due .. item.due) ELSE again
      /\ UNCHANGED <<mailing, day, permitted, runner, copies>> /\ day \in Nat
  <2>1. (edit.open => mailing = "report") /\ day \in Nat
    BY DEF MailingsInv, MailingTypes
  <2> QED
    BY <2>1 DEF SaveForm
<1>2. edit.read \in Items /\ edit.read.weekday \in Int
  <2>1. edit # NoEdit
    BY <1>1 DEF NoEdit
  <2>2. edit \in [open : {TRUE}, read : Items]
    BY <2>1 DEF MailingsInv, MailingTypes
  <2>3. edit.read \in Items
    BY <2>2
  <2> QED
    BY <2>3 DEF Items
<1>3. next_due_after(cadence, edit.read.weekday, day) \in Int
  BY <1>1, <1>2, NextDueIsLater
<1>4. item' \in Items
  <2> DEFINE row1 == [edit.read EXCEPT !.cadence = cadence]
             row2 == [row1 EXCEPT !.active = active]
             row3 == [row2 EXCEPT !.due = next_due_after(cadence, edit.read.weekday, day)]
  <2>1. row1 \in Items
    BY <1>2 DEF Items
  <2>2. row2 \in Items
    BY <2>1 DEF Items
  <2>3. row3 \in Items
    BY <2>2, <1>3 DEF Items
  <2>4. item' \in {row2, row3}
    BY <1>1, <1>2 DEF Edited, Items
  <2> QED
    BY <2>2, <2>3, <2>4
<1>5. MailingTypes'
  <2>1. runner' \in [Runners -> RunnerRows'] /\ copies' \in [Contacts -> [Dues' -> Nat]]
    BY <1>1 DEF MailingsInv, MailingTypes, RunnerRows, Mailed, Dues
  <2>2. edit' = NoEdit' /\ ~edit'.open
    BY <1>1 DEF NoEdit
  <2> QED
    BY <1>1, <1>4, <2>1, <2>2 DEF MailingsInv, MailingTypes, Items
<1>6. \A s \in Runners : ~Claimed(s) /\ ~Claimed(s)'
  BY <1>1, ClaimedHoldsLock DEF Claimed
<1>7. /\ again \subseteq again' /\ RosterDue'
      /\ item'.due < item.due => item'.due .. item.due \subseteq again'
  BY <1>1 DEF RosterDue
<1> QED
  BY <1>1, <1>5, <1>6, <1>7, UnclaimedKeeps

\* Each step keeps the invariant.
LEMMA MailingsStep ==
    ASSUME MailingsInv, [MailingsNext]_mailingVars
    PROVE  MailingsInv'
<1>1. CASE UNCHANGED mailingVars
  <2>1. MailingTypes'
    BY <1>1 DEF mailingVars, MailingsInv, MailingTypes, RunnerRows, Mailed, Dues, NoEdit, Items
  <2>2. \A r \in Runners : Claimed(r)' <=> Claimed(r)
    BY <1>1 DEF mailingVars, Claimed
  <2> QED
    BY <1>1, <2>1, <2>2, MailingsElsewhere DEF mailingVars
<1> QED
  BY <1>1, ListKeeps, ClaimDueKeeps, SendRostersNowKeeps, EndRunKeeps, CrashKeeps, CopyKeeps,
     FormsAndDaysKeep, SaveFormKeeps
     DEF MailingsNext

\* Nobody gets two scheduled copies for one due date unless a copy failed, a run died or a form
\* put an earlier date back (claim_due_subscription, claim_due_roster, _send_statement).
THEOREM OneCopyADate == MailingsSpec => []MailedOnce
<1>1. MailingsInit => MailingsInv
  <2> SUFFICES ASSUME MailingsInit PROVE MailingsInv
    OBVIOUS
  <2>1. \A r \in Runners : runner[r] = NoRunner
    BY DEF MailingsInit
  <2>2. NoRunner \in RunnerRows /\ NoRunner.at = "none" /\ NoRunner.asked = FALSE
    BY DEF NoRunner, RunnerRows
  <2>3. item \in Items
    <3>1. 0 \in Nat /\ 0 \in Int
      OBVIOUS
    <3>2. \A c \in {"weekly", "monthly"} : next_due_after(c, 0, 0) \in Int
      BY <3>1, NextDueIsLater, Zenon
    <3>3. PICK c \in {"weekly", "monthly"} :
              item = [exists |-> TRUE, active |-> TRUE, cadence |-> c, weekday |-> 0,
                      due |-> IF mailing = "report" THEN next_due_after(c, 0, 0)
                              ELSE IF mailing = "roster" THEN 0 ELSE 1]
      BY DEF MailingsInit
    <3>4. next_due_after(c, 0, 0) \in Int
      BY <3>2
    <3> QED
      BY <3>3, <3>4 DEF Items
  <2>4. mailing = "roster" => item.due = 0
    BY DEF MailingsInit
  <2>5. MailingTypes
    BY <2>1, <2>2, <2>3 DEF MailingsInit, MailingTypes, NoEdit
  <2>6. \A r \in Runners : ~Claimed(r)
    BY <2>1, <2>2 DEF Claimed
  <2>7. Month \in Nat
    BY <2>5, MonthIsNat DEF Month, MailingTypes
  <2>8. OneClaim /\ ClaimOfDue /\ RosterDue
    BY <2>4, <2>6, <2>7 DEF OneClaim, ClaimOfDue, RosterDue
  <2>9. CopiesAccounted
    BY DEF MailingsInit, CopiesAccounted, CopyAccounted
  <2> QED
    BY <2>5, <2>8, <2>9 DEF MailingsInv
<1>2. MailingsInv => MailedOnce
  BY DEF MailingsInv, CopiesAccounted, CopyAccounted, MailedOnce
<1> QED
  BY <1>1, <1>2, MailingsStep, PTL DEF MailingsSpec

-----------------------------------------------------------------------------
(* Notices.                                                                *)

WhereMail == Mailboxes \cup Staff \cup {0, Contact}
StaffRow == [address : WhereMail, is_active : BOOLEAN, role : BOOLEAN]
SubRow == [exists : BOOLEAN, user : Staff \cup {0}, email : WhereMail, wants : BOOLEAN,
           is_active : BOOLEAN]
SubTable == [Subs -> SubRow]
NoticeTypes ==
    /\ staff \in [Staff -> StaffRow] /\ subs \in SubTable
    /\ editing.open => editing.sub \in Subs /\ editing.row \in SubRow
    /\ outbox \in Seq([to : WhereMail, may : BOOLEAN])

\* What was mailed of this event is among the addresses it will not be mailed to again.
NoticeInv ==
    /\ NoticeTypes /\ NoticeToEntitled
    /\ \A p \in posted : p.to \in seen

LEMMA ListOf ==
    ASSUME NEW S, NEW n \in Nat, NEW f \in [1..n -> S]
    PROVE  f \in Seq(S) /\ Len(f) = n
BY IsASeq

\* A row brought up to date is of the account that has its address, if any has.
LEMMA RefreshedRow ==
    ASSUME NoticeTypes, NEW row \in SubRow
    PROVE  /\ refresh_recipient(row) \in SubRow
           /\ LET fresh == refresh_recipient(row)
              IN  IF fresh.user = 0 THEN HolderOf(fresh.email) = {}
                  ELSE fresh.user \in Staff /\ fresh.user \in HolderOf(fresh.email)
<1> DEFINE users == IF row.user # 0 THEN {row.user} ELSE HolderOf(row.email)
           first == CHOOSE u \in users : TRUE
           one == [row EXCEPT !.user = first]
           two == [one EXCEPT !.email = staff[first].address]
<1>1. refresh_recipient(row) = IF users = {} THEN row ELSE two
  BY DEF refresh_recipient
<1>2. users \subseteq Staff
  BY DEF HolderOf, SubRow
<1>3. CASE users = {}
  <2>1. row.user = 0 /\ HolderOf(row.email) = {}
    BY <1>3
  <2> QED
    BY <1>1, <1>3, <2>1
<1>4. CASE users # {}
  <2>1. first \in Staff /\ first # 0
    BY <1>2, <1>4, NoticeRows
  <2> HIDE DEF first, users
  <2>2. one \in SubRow /\ one.user = first
    BY <2>1 DEF SubRow
  <2>3. staff[first].address \in WhereMail
    BY <2>1 DEF NoticeTypes, StaffRow
  <2> HIDE DEF one
  <2>4. two \in SubRow /\ two.user = first /\ two.email = staff[first].address
    BY <2>2, <2>3 DEF SubRow
  <2> HIDE DEF two
  <2>5. first \in HolderOf(two.email)
    BY <2>1, <2>4 DEF HolderOf
  <2> QED
    BY <1>1, <1>4, <2>1, <2>4, <2>5
<1> QED
  BY <1>3, <1>4

LEMMA RowSaved ==
    ASSUME NoticeTypes, NEW s \in Subs, NEW table \in SubTable
    PROVE  save_recipient(s, table) \in SubTable
<1>1. table[s] \in SubRow
  BY DEF SubTable
<1>2. refresh_recipient(table[s]) \in SubRow
  BY <1>1, RefreshedRow
<1> QED
  BY <1>2 DEF save_recipient, SubTable

\* The rows are rows after any number of saves; Saves says a function holds the table after
\* each of the first n.
Saves(order, n, f) ==
    f \in [0..n -> SubTable] /\ f[0] = subs
    /\ \A i \in 1..n : f[i] = save_recipient(order[i], f[i - 1])

LEMMA SavesExist ==
    ASSUME NoticeTypes, NEW last \in Nat, NEW order, \A i \in 1..last : order[i] \in Subs
    PROVE  \E f : Saves(order, last, f)
<1> DEFINE Short == {n \in 0..last : ~ \E f : Saves(order, n, f)}
<1>1. SUFFICES ASSUME Short # {} PROVE FALSE
  BY DEF Short
<1>2. PICK n \in Short : \A m \in Short : ~(m < n)
  <2>1. Short \subseteq Nat
    OBVIOUS
  <2> HIDE DEF Short
  <2>2. PICK n \in Short : \A m \in Short : <<m, n>> \notin OpToRel(<, Nat)
    BY <1>1, <2>1, NatLessThanWellFounded, WFMin
  <2> QED
    BY <2>1, <2>2 DEF OpToRel
<1>3. n \in 0..last /\ ~ \E f : Saves(order, n, f)
  BY <1>2
<1>4. n # 0
  <2>1. CASE n = 0
    <3> DEFINE g == [i \in 0..0 |-> subs]
    <3>1. Saves(order, 0, g)
      BY DEF Saves, NoticeTypes
    <3> QED
      BY <1>3, <2>1, <3>1
  <2> QED
    BY <2>1
<1>5. n - 1 \in 0..last /\ n - 1 < n /\ n \in 1..last
  BY <1>3, <1>4
<1>6. PICK f : Saves(order, n - 1, f)
  BY <1>2, <1>5
<1> DEFINE next == save_recipient(order[n], f[n - 1])
           g == [i \in 0..n |-> IF i = n THEN next ELSE f[i]]
<1>7. f[n - 1] \in SubTable
  BY <1>5, <1>6 DEF Saves
<1>8. next \in SubTable
  BY <1>5, <1>7, RowSaved
<1>9. Saves(order, n, g)
  <2>1. \A i \in 0..n : i # n => i \in 0..n - 1
    BY <1>5
  <2>2. g \in [0..n -> SubTable]
    <3> HIDE DEF next
    <3> QED
      BY <1>6, <1>8, <2>1 DEF Saves
  <2>3. g[0] = subs
    BY <1>4, <1>5, <1>6 DEF Saves
  <2>4. ASSUME NEW i \in 1..n PROVE g[i] = save_recipient(order[i], g[i - 1])
    <3>1. i - 1 \in 0..n /\ i - 1 # n /\ g[i - 1] = f[i - 1]
      BY <1>5
    <3>2. CASE i = n
      <4>1. g[i] = save_recipient(order[n], f[n - 1])
        BY <3>2
      <4> HIDE DEF g
      <4> QED
        BY <3>1, <3>2, <4>1
    <3>3. CASE i # n
      <4>1. i \in 1..n - 1 /\ i \in 0..n
        BY <1>5, <3>3
      <4>2. g[i] = f[i]
        BY <3>3, <4>1
      <4> HIDE DEF g
      <4> QED
        BY <1>6, <3>1, <4>1, <4>2 DEF Saves
    <3> QED
      BY <3>2, <3>3
  <2> HIDE DEF g
  <2> QED
    BY <2>2, <2>3, <2>4 DEF Saves
<1> QED
  BY <1>3, <1>9

LEMMA SavedRows ==
    ASSUME NoticeTypes, NEW order, Len(order) \in Nat,
           \A i \in 1..Len(order) : order[i] \in Subs
    PROVE  SavedRecipients(order) \in SubTable
<1> DEFINE last == Len(order)
           Steps(f) == f = [i \in 0..last |-> IF i = 0 THEN subs
                                              ELSE save_recipient(order[i], f[i - 1])]
           rows == CHOOSE f : Steps(f)
<1>1. \E f : Steps(f)
  <2>1. PICK f : Saves(order, last, f)
    BY SavesExist
  <2>2. \A i \in 0..last : f[i] = IF i = 0 THEN subs ELSE save_recipient(order[i], f[i - 1])
    <3>1. \A i \in 0..last : i = 0 \/ i \in 1..last
      OBVIOUS
    <3> QED
      BY <2>1, <3>1 DEF Saves
  <2>3. f = [i \in 0..last |-> f[i]]
    BY <2>1 DEF Saves
  <2> QED
    BY <2>2, <2>3
<1>2. Steps(rows)
  BY <1>1
<1>3. SavedRecipients(order) = rows[last]
  BY DEF SavedRecipients
<1> HIDE DEF rows
<1>4. \A i \in 0..last : rows[i] = IF i = 0 THEN subs ELSE save_recipient(order[i], rows[i - 1])
  BY <1>2
<1> HIDE DEF Steps
<1>5. \A i \in 0..last : rows[i] \in SubTable
  <2> DEFINE Bad == {i \in 0..last : rows[i] \notin SubTable}
  <2>1. SUFFICES ASSUME Bad # {} PROVE FALSE
    BY DEF Bad
  <2>2. PICK n \in Bad : \A m \in Bad : ~(m < n)
    <3>1. Bad \subseteq Nat
      OBVIOUS
    <3> HIDE DEF Bad
    <3>2. PICK n \in Bad : \A m \in Bad : <<m, n>> \notin OpToRel(<, Nat)
      BY <2>1, <3>1, NatLessThanWellFounded, WFMin
    <3> QED
      BY <3>1, <3>2 DEF OpToRel
  <2>3. n \in 0..last /\ rows[n] \notin SubTable /\ n # 0
    BY <1>4, <2>2 DEF NoticeTypes
  <2>4. n - 1 \in 0..last /\ n - 1 < n /\ n \in 1..last
    BY <2>3
  <2>5. rows[n - 1] \in SubTable
    BY <2>2, <2>4
  <2>6. rows[n] = save_recipient(order[n], rows[n - 1])
    BY <1>4, <2>3
  <2> QED
    BY <2>3, <2>4, <2>5, <2>6, RowSaved
<1> QED
  BY <1>3, <1>5

\* Who is chosen may have the notice, at the address it goes to.
LEMMA ChosenMay ==
    ASSUME NoticeTypes, NEW s \in Chosen
    PROVE  LET to == refresh_recipient(subs[s]).email
           IN  to \in WhereMail /\ Entitled([to |-> to, contact |-> FALSE])
<1> DEFINE row == refresh_recipient(subs[s])
<1>1. s \in Subs /\ recipient_may_receive(row) /\ Audience(row)
  BY DEF Chosen, Subscribed, Rows
<1>2. subs[s] \in SubRow
  BY <1>1 DEF NoticeTypes, SubTable
<1>3. /\ row \in SubRow
      /\ IF row.user = 0 THEN HolderOf(row.email) = {}
         ELSE row.user \in Staff /\ row.user \in HolderOf(row.email)
  BY <1>2, RefreshedRow
<1> HIDE DEF row
<1>4. row.email \in WhereMail
  BY <1>3 DEF SubRow
<1>5. Entitled([to |-> row.email, contact |-> FALSE])
  BY <1>1, <1>3 DEF Entitled, recipient_may_receive, Audience
<1> QED
  BY <1>4, <1>5 DEF row

LEMMA CommitKeeps ==
    ASSUME NoticeInv, Commit
    PROVE  NoticeInv'
<1>0. NoticeTypes /\ UNCHANGED <<staff, editing, seen, posted>>
  BY DEF NoticeInv, Commit
<1>1. IsFiniteSet(Subscribed) /\ Subscribed \subseteq Subs
  BY NoticeRows, FS_Subset DEF Subscribed, Rows
<1>2. IsFiniteSet(Chosen) /\ Chosen \subseteq Subscribed
  BY <1>1, FS_Subset DEF Chosen
<1>3. subs' \in SubTable
  <2>1. PICK order \in InOrder(Subscribed) : subs' = SavedRecipients(order)
    BY DEF Commit
  <2>2. PICK n \in Nat : n = Cardinality(Subscribed)
    BY <1>1, FS_CardinalityType
  <2>3. order \in [1..n -> Subscribed]
    BY <2>2 DEF InOrder
  <2>4. Len(order) = n /\ \A i \in 1..n : order[i] \in Subs
    BY <1>1, <2>2, <2>3
  <2> QED
    BY <1>0, <2>1, <2>2, <2>4, SavedRows
<1>4. PICK order \in InOrder(Chosen) :
         outbox' = LET all == subscribed_recipients(order) \o roster_recipients
                   IN  [i \in 1..Len(all) |-> [to |-> all[i].to, may |-> Entitled(all[i])]]
  BY DEF Commit
<1> DEFINE Copy == [to : WhereMail, contact : BOOLEAN]
           ours == subscribed_recipients(order)
           theirs == roster_recipients
           all == ours \o theirs
<1>5. PICK n \in Nat : n = Cardinality(Chosen) /\ order \in [1..n -> Chosen]
  BY <1>2, <1>4, FS_CardinalityType DEF InOrder
<1>6. \A i \in 1..n : /\ ours[i] \in Copy /\ Entitled(ours[i])
  <2> TAKE i \in 1..n
  <2>1. order[i] \in Chosen /\ DOMAIN order = 1..n
    BY <1>5
  <2> DEFINE to == refresh_recipient(subs[order[i]]).email
  <2>2. to \in WhereMail /\ Entitled([to |-> to, contact |-> FALSE])
    BY <1>0, <2>1, ChosenMay
  <2>3. ours[i] = [to |-> to, contact |-> FALSE]
    BY <2>1 DEF subscribed_recipients
  <2> HIDE DEF to, ours
  <2> QED
    BY <2>2, <2>3
<1>7. ours \in Seq(Copy) /\ Len(ours) = n
  <2>1. ours = [i \in 1..n |-> ours[i]]
    BY <1>5 DEF subscribed_recipients
  <2> HIDE DEF ours
  <2>2. ours \in [1..n -> Copy]
    BY <1>6, <2>1
  <2> HIDE DEF Copy
  <2> QED
    BY <2>2, ListOf
<1>8. /\ theirs \in Seq(Copy)
      /\ \A i \in 1..Len(theirs) : Entitled(theirs[i])
  <2> DEFINE one == [to |-> Contact, contact |-> TRUE]
  <2>1. one \in Copy /\ Entitled(one)
    BY DEF Entitled, WhereMail
  <2>2. theirs = IF event.slug = "signed_up" THEN <<one>> ELSE <<>>
    BY DEF roster_recipients
  <2> HIDE DEF one, theirs, Copy
  <2>3. CASE theirs = <<one>>
    BY <2>1, <2>3
  <2>4. CASE theirs = <<>>
    BY <2>4
  <2> QED
    BY <2>2, <2>3, <2>4
<1> HIDE DEF ours, theirs
<1>9. /\ all \in Seq(Copy) /\ Len(all) \in Nat
      /\ \A i \in 1..Len(all) : Entitled(all[i])
  <2>1. /\ all \in Seq(Copy) /\ Len(all) = Len(ours) + Len(theirs)
        /\ \A i \in 1..Len(all) : all[i] = IF i <= Len(ours) THEN ours[i]
                                                             ELSE theirs[i - Len(ours)]
    BY <1>7, <1>8, ConcatProperties
  <2>2. Len(theirs) \in Nat /\ Len(ours) \in Nat
    BY <1>7, <1>8, LenProperties
  <2> HIDE DEF all
  <2>3. ASSUME NEW i \in 1..Len(all) PROVE Entitled(all[i])
    <3>1. CASE i <= Len(ours)
      BY <1>6, <1>7, <2>1, <2>2, <3>1
    <3>2. CASE ~(i <= Len(ours))
      <4>1. i - Len(ours) \in 1..Len(theirs) /\ all[i] = theirs[i - Len(ours)]
        BY <2>1, <2>2, <3>2
      <4> QED
        BY <1>8, <4>1
    <3> QED
      BY <3>1, <3>2
  <2> QED
    BY <2>1, <2>2, <2>3
<1>10. outbox' = [i \in 1..Len(all) |-> [to |-> all[i].to, may |-> Entitled(all[i])]]
  BY <1>4 DEF ours, theirs
<1>11. /\ outbox' \in [1..Len(all) -> [to : WhereMail, may : BOOLEAN]]
       /\ \A i \in 1..Len(all) : outbox'[i].may
  <2> HIDE DEF all
  <2>1. \A i \in 1..Len(all) : all[i] \in Copy
    BY <1>9, LenProperties
  <2>2. \A i \in 1..Len(all) : all[i].to \in WhereMail
    BY <2>1
  <2>3. ASSUME NEW i \in 1..Len(all)
        PROVE  [to |-> all[i].to, may |-> Entitled(all[i])] = [to |-> all[i].to, may |-> TRUE]
    <3>1. Entitled(all[i]) = TRUE
      <4>1. Entitled(all[i])
        BY <1>9
      <4>2. Entitled(all[i]) \in BOOLEAN
        BY DEF Entitled
      <4> QED
        BY <4>1, <4>2
    <3> QED
      BY <3>1
  <2>4. outbox' = [i \in 1..Len(all) |-> [to |-> all[i].to, may |-> TRUE]]
    BY <1>10, <2>3
  <2> QED
    BY <2>2, <2>4
<1> HIDE DEF all
<1>12. outbox' \in Seq([to : WhereMail, may : BOOLEAN]) /\ Len(outbox') = Len(all)
  BY <1>9, <1>11, ListOf
<1>13. NoticeTypes'
  BY <1>0, <1>3, <1>12 DEF NoticeTypes
<1>14. NoticeToEntitled'
  BY <1>0, <1>11, <1>12 DEF NoticeInv, NoticeToEntitled
<1> QED
  BY <1>0, <1>13, <1>14 DEF NoticeInv

\* One copy is mailed or refused; its address gets no other.
LEMMA NoticeCopyKeeps ==
    ASSUME NoticeInv, NEW taken \in BOOLEAN, send(taken)
    PROVE  NoticeInv'
<1>0. NoticeTypes /\ outbox \in Seq([to : WhereMail, may : BOOLEAN]) /\ outbox # <<>>
  BY DEF NoticeInv, NoticeTypes, send
<1>1. /\ outbox' \in Seq([to : WhereMail, may : BOOLEAN])
      /\ \A i \in 1..Len(outbox') : i + 1 \in 1..Len(outbox) /\ outbox'[i] = outbox[i + 1]
  <2>1. outbox' = Tail(outbox)
    BY DEF send
  <2> QED
    BY <1>0, <2>1, HeadTailProperties
<1>2. \A i \in 1..Len(outbox') : outbox'[i].may
  BY <1>1 DEF NoticeInv, NoticeToEntitled
<1> DEFINE r == Head(outbox)
           copy == [to |-> r.to, left |-> Len(outbox)]
<1>3. /\ seen' = seen \cup {r.to}
      /\ posted' = IF IsNew(r) /\ taken THEN posted \cup {copy} ELSE posted
  BY DEF send
<1>4. copy.to = r.to
  OBVIOUS
<1> HIDE DEF copy
<1>5. \A p \in posted' : p.to \in seen'
  BY <1>3, <1>4 DEF NoticeInv
<1>6. \A p, q \in posted' : p.to = q.to => p = q
  <2>1. \A p \in posted : IsNew(r) => p.to # r.to
    BY DEF NoticeInv, IsNew
  <2> HIDE DEF r
  <2> QED
    BY <1>3, <1>4, <2>1 DEF NoticeInv, NoticeToEntitled
<1>7. NoticeTypes'
  BY <1>0, <1>1 DEF NoticeTypes, send
<1> QED
  BY <1>2, <1>5, <1>6, <1>7 DEF NoticeInv, NoticeToEntitled

\* The subscription forms, and what happens to accounts.
LEMMA OfficeKeeps ==
    ASSUME NoticeInv,
           \/ \E s \in Subs : \/ \E a \in Mailboxes, wants \in BOOLEAN : Subscribe(s, a, wants)
                              \/ OpenForm(s) \/ Delete(s)
           \/ \E wants, active \in BOOLEAN : PatchSubscription(wants, active)
           \/ \E u \in Staff, a \in Mailboxes, active, role \in BOOLEAN :
                 AccountChanges(u, a, active, role)
    PROVE  NoticeInv'
<1>0. NoticeTypes /\ UNCHANGED <<outbox, seen, posted>>
  BY DEF NoticeInv, Subscribe, OpenForm, Delete, PatchSubscription, AccountChanges
<1>1. ASSUME NEW s \in Subs, NEW row \in SubRow, subs' = [subs EXCEPT ![s] = row]
      PROVE  subs' \in SubTable
  BY <1>0, <1>1 DEF NoticeTypes, SubTable
<1>2. \A s \in Subs : subs[s] \in SubRow
  BY <1>0 DEF NoticeTypes, SubTable
<1>3. SUFFICES NoticeTypes'
  BY <1>0 DEF NoticeInv, NoticeToEntitled
<1>4. ASSUME NEW s \in Subs, NEW a \in Mailboxes, NEW wants \in BOOLEAN, Subscribe(s, a, wants)
      PROVE  NoticeTypes'
  <2> DEFINE owner == IF HolderOf(a) = {} THEN 0 ELSE CHOOSE u \in HolderOf(a) : TRUE
             row == [exists |-> TRUE, email |-> a, wants |-> wants, is_active |-> TRUE,
                     user |-> owner]
  <2>1. HolderOf(a) \subseteq Staff
    BY DEF HolderOf
  <2>2. owner \in Staff \cup {0}
    BY <2>1
  <2>3. subs' = [subs EXCEPT ![s] = row] /\ UNCHANGED <<staff, editing>>
    BY <1>4 DEF Subscribe
  <2> HIDE DEF owner
  <2>4. row \in SubRow
    BY <2>2 DEF SubRow, WhereMail
  <2> HIDE DEF row
  <2> QED
    BY <1>0, <1>1, <2>3, <2>4 DEF NoticeTypes
<1>5. ASSUME NEW s \in Subs, OpenForm(s)
      PROVE  NoticeTypes'
  <2> DEFINE fresh == refresh_recipient(subs[s])
             row == IF \E t \in Rows \ {s} : subs[t].email = fresh.email THEN subs[s] ELSE fresh
  <2>1. row \in SubRow
    BY <1>0, <1>2, RefreshedRow
  <2>2. editing' = [open |-> TRUE, sub |-> s, row |-> row] /\ UNCHANGED <<staff, subs>>
    BY <1>5 DEF OpenForm
  <2> HIDE DEF row
  <2>3. editing'.sub = s /\ editing'.row = row
    BY <2>2
  <2> QED
    BY <1>0, <2>1, <2>2, <2>3 DEF NoticeTypes
<1>6. ASSUME NEW s \in Subs, Delete(s)
      PROVE  NoticeTypes'
  <2>1. NoSub \in SubRow
    BY DEF NoSub, SubRow, WhereMail
  <2>2. subs' = [subs EXCEPT ![s] = NoSub] /\ UNCHANGED <<staff, editing>>
    BY <1>6 DEF Delete
  <2> QED
    BY <1>0, <1>1, <2>1, <2>2 DEF NoticeTypes
<1>7. ASSUME NEW wants \in BOOLEAN, NEW active \in BOOLEAN, PatchSubscription(wants, active)
      PROVE  NoticeTypes'
  <2> DEFINE one == [editing.row EXCEPT !.wants = wants]
             row == [one EXCEPT !.is_active = active]
  <2>1. editing.sub \in Subs /\ editing.row \in SubRow
    BY <1>0, <1>7 DEF PatchSubscription, NoticeTypes
  <2>2. \/ subs' = [subs EXCEPT ![editing.sub] = row]
        \/ subs' = subs
    BY <1>7 DEF PatchSubscription
  <2>3. one \in SubRow
    BY <2>1 DEF SubRow
  <2> HIDE DEF one
  <2>4. row \in SubRow
    BY <2>3 DEF SubRow
  <2> HIDE DEF row
  <2>5. ~editing'.open /\ UNCHANGED staff
    BY <1>7 DEF PatchSubscription, NoEditing
  <2>6. subs' \in SubTable
    BY <1>0, <1>1, <2>1, <2>2, <2>4 DEF NoticeTypes
  <2> QED
    BY <1>0, <2>5, <2>6 DEF NoticeTypes
<1>8. ASSUME NEW u \in Staff, NEW a \in Mailboxes, NEW active \in BOOLEAN, NEW role \in BOOLEAN,
             AccountChanges(u, a, active, role)
      PROVE  NoticeTypes'
  <2> DEFINE row == [address |-> a, is_active |-> active, role |-> role]
  <2>1. row \in StaffRow
    BY DEF StaffRow, WhereMail
  <2>2. staff' = [staff EXCEPT ![u] = row] /\ UNCHANGED <<subs, editing>>
    BY <1>8 DEF AccountChanges
  <2> HIDE DEF row
  <2> QED
    BY <1>0, <2>1, <2>2 DEF NoticeTypes
<1> QED
  BY <1>4, <1>5, <1>6, <1>7, <1>8

LEMMA NoticeStep ==
    NoticeInv /\ [NoticeNext]_noticeVars => NoticeInv'
<1> SUFFICES ASSUME NoticeInv, [NoticeNext]_noticeVars PROVE NoticeInv'
  OBVIOUS
<1>1. CASE \E slug \in {"signed_up", "callout_answer"}, audience \in {Staff, {1}} :
              (slug = "signed_up" => audience = Staff) /\ emit(slug, audience)
  BY <1>1 DEF NoticeInv, NoticeTypes, NoticeToEntitled, emit
<1>2. CASE RollBack
  BY <1>2 DEF NoticeInv, NoticeTypes, NoticeToEntitled, RollBack
<1>3. CASE SendEnds
  <2>1. outbox' = <<>> /\ UNCHANGED <<staff, subs, editing, seen, posted>>
    BY <1>3 DEF SendEnds
  <2>2. outbox' \in Seq([to : WhereMail, may : BOOLEAN]) /\ Len(outbox') = 0
    BY <2>1, EmptySeq
  <2>3. NoticeTypes'
    BY <2>1, <2>2 DEF NoticeInv, NoticeTypes
  <2> QED
    BY <2>1, <2>2, <2>3 DEF NoticeInv, NoticeToEntitled
<1>4. CASE UNCHANGED noticeVars
  BY <1>4 DEF noticeVars, NoticeInv, NoticeTypes, NoticeToEntitled
<1> QED
  BY <1>1, <1>2, <1>3, <1>4, CommitKeeps, NoticeCopyKeeps, OfficeKeeps DEF NoticeNext

LEMMA NoticeBegins == NoticeInit => NoticeInv
<1> SUFFICES ASSUME NoticeInit PROVE NoticeInv
  OBVIOUS
<1>1. \A u \in Staff : [address |-> u, is_active |-> TRUE, role |-> TRUE] \in StaffRow
  BY DEF StaffRow, WhereMail
<1>2. NoSub \in SubRow
  BY DEF NoSub, SubRow, WhereMail
<1>3. outbox \in Seq([to : WhereMail, may : BOOLEAN]) /\ Len(outbox) = 0
  BY EmptySeq DEF NoticeInit
<1>4. NoticeTypes
  BY <1>1, <1>2, <1>3 DEF NoticeInit, NoticeTypes, SubTable, NoEditing
<1> QED
  BY <1>3, <1>4 DEF NoticeInit, NoticeInv, NoticeToEntitled

\* A notice goes only to addresses whose holders may have it when the recipients are read,
\* whatever a subscription was made for and however forms and accounts change, and once to
\* each (send, subscribed_recipients, refresh_recipient).
THEOREM NoticesGoToEntitled == NoticeSpec => []NoticeToEntitled
<1>1. NoticeSpec => []NoticeInv
  BY NoticeBegins, NoticeStep, PTL DEF NoticeSpec
<1>2. NoticeInv => NoticeToEntitled
  BY DEF NoticeInv
<1> QED
  BY <1>1, <1>2, PTL
=============================================================================
