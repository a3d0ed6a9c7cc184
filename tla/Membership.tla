------------------------------ MODULE Membership -----------------------------
(***************************************************************************)
(* One account and its membership terms (apps/members: services.py,        *)
(* lifecycle.py, filters.py, models.py): what buys, grants, corrects,      *)
(* suspends and expires a term, what makes a member a friend, and the      *)
(* three places that work out where the account stands: Python for one     *)
(* account, SQL for a list, SQL again for the list's filters.              *)
(*                                                                         *)
(* A service call is one step; the daily job reads who is due to become a  *)
(* friend in one step and writes in another.                               *)
(***************************************************************************)
EXTENDS Integers, FiniteSets, FiniteSetsExt

CONSTANTS Durations,    \* days of the plans on sale; Forever is the lifetime plan
          Forever,      \* stands for no end: later than every day
          Slots,        \* term rows, 1..n
          LastTermDay,      \* bound on the clock
          MaxActs       \* bound on the calls

VARIABLES user,         \* the account row
          terms,        \* its Membership rows
          today,
          acts,         \* calls so far
          due           \* the daily job read this account as due

memberVars == <<user, terms, today, acts, due>>

\* Plans are some days long, D at most but for the lifetime plan, and no end that the
\* calls of a behaviour can reach is as late as the lifetime's.
Fits(D) ==
    /\ \A days \in Durations : days = Forever \/ days <= D
    /\ LastTermDay + MaxActs * D - 1 < Forever
MembershipValues ==
    /\ Durations \subseteq Nat /\ Forever \in Int /\ IsFiniteSet(Slots)
    /\ LastTermDay \in Nat \ {0} /\ MaxActs \in Nat
    /\ \E D \in 1..Forever : Fits(D)

NoDay == 0
NoTerm == [status |-> "none", starts |-> NoDay, ends |-> NoDay]
HeldTerms == {t \in Slots : terms[t].status # "none"}
Having(statuses) == {t \in Slots : terms[t].status \in statuses}

MembershipInit ==
    /\ user \in [kind : {"member", "friend", "donor"}, friend_on : {NoDay}, active : {TRUE},
                 since : {NoDay}]
    /\ terms = [t \in Slots |-> NoTerm]
    /\ today = 1 /\ acts = 0 /\ due = FALSE

-----------------------------------------------------------------------------
(* Where the account stands: services.membership_status.                   *)

MEMBER_MAKING == {"active", "expired", "suspended"}
NOT_PAST == {"canceled", "suspended"}
COVERING == {"active", "suspended"}

HasTerm == \E t \in Having(MEMBER_MAKING) : terms[t].starts <= today
FriendBy == user.friend_on # NoDay /\ user.friend_on <= today

account_kind ==
    IF user.kind # "member" THEN user.kind
    ELSE IF ~FriendBy /\ HasTerm THEN "member" ELSE "friend"

awaits_first_term == user.kind = "member" /\ account_kind = "friend" /\ ~FriendBy

MembershipStatusDict(state, end) ==
    [status |-> state, expires_on |-> IF end = Forever THEN NoDay ELSE end,
     is_lifetime |-> state = "current" /\ end = Forever]

\* The end of the term that runs furthest, of a set of terms.
Furthest(S) == Max({terms[t].ends : t \in S})

\* The terms the account holds today: Membership.covers.
covers(t) == terms[t].status = "active" /\ terms[t].starts <= today /\ terms[t].ends >= today
Current == {t \in Slots : covers(t)}

Following(end) == {t \in Having({"active"}) : terms[t].starts <= end + 1 /\ terms[t].ends > end}
coverage ==
    LET end[n \in 0..Cardinality(Slots)] ==
          IF n = 0 THEN Furthest(Current)
          ELSE LET last == end[n - 1]
               IN  IF Following(last) = {} THEN last ELSE Furthest(Following(last))
    IN  end[Cardinality(Slots)]

Past == {t \in HeldTerms : terms[t].status \notin NOT_PAST /\ terms[t].starts <= today}

membership_status ==
    CASE account_kind = "donor" -> MembershipStatusDict("donor", NoDay)
      [] account_kind = "friend" ->
           MembershipStatusDict(IF awaits_first_term THEN "none" ELSE "friend", NoDay)
      [] account_kind = "member" /\ Current # {} -> MembershipStatusDict("current", coverage)
      [] account_kind = "member" /\ Current = {} /\ Past # {} ->
           MembershipStatusDict("expired", Furthest(Past))
      [] OTHER -> MembershipStatusDict("friend", NoDay)

-----------------------------------------------------------------------------
(* The same for a list: one query's annotations, and what is made of them. *)

effective_kind ==
    IF user.kind # "member" THEN user.kind
    ELSE IF user.friend_on # NoDay /\ user.friend_on <= today THEN "friend"
    ELSE IF ~\E t \in Slots : terms[t].status \in MEMBER_MAKING /\ terms[t].starts <= today
    THEN "friend" ELSE "member"

awaits_annotation ==
    /\ user.kind = "member"
    /\ user.friend_on = NoDay \/ user.friend_on > today
    /\ ~\E t \in Slots : terms[t].status \in MEMBER_MAKING /\ terms[t].starts <= today

covers_today ==
    \E t \in Having({"active"}) : terms[t].starts <= today /\ terms[t].ends >= today

MutFollower(t, f) ==
    /\ terms[f].status = "active"
    /\ terms[f].starts <= terms[t].ends /\ terms[f].ends > terms[t].ends
follower(t, f) ==
    /\ terms[f].status = "active"
    /\ terms[f].starts <= terms[t].ends + 1 /\ terms[f].ends > terms[t].ends

\* The active terms that end, today or later, with nothing after them.
boundaries ==
    {terms[t].ends : t \in {t \in Having({"active"}) :
        terms[t].ends # Forever /\ terms[t].ends >= today /\ ~\E f \in Slots : follower(t, f)}}
coverage_end == IF boundaries = {} THEN Forever ELSE Min(boundaries)

started == {t \in HeldTerms : terms[t].status \notin NOT_PAST /\ terms[t].starts <= today}
past_end == IF started = {} THEN NoDay ELSE Furthest(started)

membership_payload ==
    CASE effective_kind = "donor" -> MembershipStatusDict("donor", NoDay)
      [] effective_kind = "friend" ->
           MembershipStatusDict(IF awaits_annotation THEN "none" ELSE "friend", NoDay)
      [] effective_kind = "member" /\ covers_today -> MembershipStatusDict("current", coverage_end)
      [] effective_kind = "member" /\ ~covers_today /\ started # {} ->
           MembershipStatusDict("expired", past_end)
      [] OTHER -> MembershipStatusDict("friend", NoDay)

effective_expiry ==
    IF effective_kind = "friend" THEN NoDay
    ELSE IF covers_today THEN IF coverage_end = Forever THEN NoDay ELSE coverage_end
    ELSE IF past_end = Forever THEN NoDay ELSE past_end

filter_status(state) ==
    CASE state = "donor" -> effective_kind = "donor"
      [] state = "none" -> awaits_annotation
      [] state = "friend" ->
           \/ effective_kind = "friend" /\ ~awaits_annotation
           \/ effective_kind = "member" /\ ~covers_today /\ started = {}
      [] state = "current" -> effective_kind = "member" /\ covers_today
      [] state = "expired" -> effective_kind = "member" /\ ~covers_today /\ started # {}

filter_expiring_within(days) ==
    /\ effective_kind # "friend" /\ covers_today
    /\ coverage_end # Forever /\ coverage_end <= today + days

\* The kind the members' list shows, and its filter.
listed_kind == IF awaits_annotation THEN "member" ELSE effective_kind
listed_kind_q(kind) ==
    IF kind = "member" THEN effective_kind = "member" \/ awaits_annotation
    ELSE effective_kind = kind /\ ~awaits_annotation

-----------------------------------------------------------------------------
(* Terms.                                                                  *)

Act == acts < MaxActs /\ acts' = acts + 1
Free == {t \in Slots : terms[t].status = "none"}

\* set_kind writes the kind and drops the date on which the member would leave.
set_kind(u, kind) == [u EXCEPT !.kind = kind, !.friend_on = NoDay]

stamp_member_since(u, day) == [u EXCEPT !.since = IF @ = NoDay THEN day ELSE @]

latest_expiry == Max({terms[t].ends : t \in Having(COVERING)} \union {NoDay})

StartOn == IF latest_expiry # Forever /\ latest_expiry >= today
           THEN latest_expiry + 1 ELSE today

activate_term(days, start) ==
    /\ Free # {}
    /\ terms' = [terms EXCEPT ![Min(Free)] =
         [status |-> IF user.active THEN "active" ELSE "suspended", starts |-> start,
          ends |-> IF days = Forever THEN Forever ELSE start + days - 1]]
    /\ user' = LET stamped == stamp_member_since(user, start)
               IN  IF user.kind = "donor" THEN stamped ELSE set_kind(stamped, "member")

\* A payment for a plan settles.
Pay(days) == Act /\ activate_term(days, StartOn) /\ UNCHANGED <<today, due>>

\* An administrator grants a term: from an earlier day, or after the ones held.
grant_term(days, start) ==
    /\ user.kind # "donor" /\ start <= today
    /\ Act /\ activate_term(days, IF start = NoDay THEN StartOn ELSE start)
    /\ UNCHANGED <<today, due>>

WithStatus(S, status) ==
    [t \in Slots |-> IF t \in S THEN [terms[t] EXCEPT !.status = status] ELSE terms[t]]

\* A refund cancels the term it bought.
cancel_term(t) ==
    /\ t \in HeldTerms /\ Act
    /\ terms' = WithStatus({t}, "canceled")
    /\ UNCHANGED <<user, today, due>>

\* MembershipAdminDetailView: a term's status and end are set by hand.
CorrectTerm(t, status, end) ==
    /\ t \in HeldTerms /\ end >= terms[t].starts /\ Act
    /\ terms' = [terms EXCEPT ![t] = [@ EXCEPT !.status = status, !.ends = end]]
    /\ UNCHANGED <<user, today, due>>

\* An account that closes keeps its running terms aside, and has them back as it opens.
suspend_terms ==
    /\ user.active /\ user.kind # "donor" /\ Act
    /\ user' = [user EXCEPT !.active = FALSE]
    /\ terms' = WithStatus({t \in Having({"active"}) : terms[t].ends >= today}, "suspended")
    /\ UNCHANGED <<today, due>>

restore_terms ==
    /\ ~user.active /\ user.kind # "donor" /\ Act
    /\ user' = [user EXCEPT !.active = TRUE]
    /\ terms' = [t \in Slots |->
         IF terms[t].status # "suspended" THEN terms[t]
         ELSE [terms[t] EXCEPT !.status = IF terms[t].ends >= today THEN "active" ELSE "expired"]]
    /\ UNCHANGED <<today, due>>

-----------------------------------------------------------------------------
(* Member or friend.                                                       *)

check_can_become_friend ==
    /\ user.kind = "member" /\ ~FriendBy
    /\ ~membership_status.is_lifetime

\* At once, or the day after the coverage ends.
become_friend ==
    /\ check_can_become_friend /\ Act
    /\ user' = IF membership_status.status = "current"
               THEN [user EXCEPT !.friend_on = membership_status.expires_on + 1]
               ELSE set_kind(user, "friend")
    /\ UNCHANGED <<terms, today, due>>

undo_become_friend ==
    /\ user.friend_on # NoDay /\ account_kind # "friend" /\ Act
    /\ user' = [user EXCEPT !.friend_on = NoDay]
    /\ UNCHANGED <<terms, today, due>>

\* update_account by an administrator; upgrade_donor as a donor registers.
update_account(kind) ==
    /\ user.kind # "donor" /\ kind # user.kind /\ Act
    /\ user' = set_kind(user, kind)
    /\ UNCHANGED <<terms, today, due>>

upgrade_donor(kind) ==
    /\ user.kind = "donor" /\ Act
    /\ user' = set_kind(user, kind)
    /\ UNCHANGED <<terms, today, due>>

-----------------------------------------------------------------------------
(* The daily job.                                                          *)

due_conversions == FriendBy /\ user.kind # "friend"

Expired ==
    WithStatus({t \in Having({"active"}) : terms[t].ends < today}, "expired")

expire_lapsed_memberships ==
    /\ terms' = Expired /\ due' = due_conversions
    /\ terms' # terms \/ due' # due
    /\ UNCHANGED <<user, today, acts>>

convert_due_friends ==
    /\ due /\ due' = FALSE
    /\ user' = IF due_conversions THEN set_kind(user, "friend") ELSE user
    /\ UNCHANGED <<terms, today, acts>>

NextDay ==
    /\ today < LastTermDay /\ today' = today + 1
    /\ UNCHANGED <<user, terms, acts, due>>

MemberStep ==
    \/ \E days \in Durations :
          Pay(days) \/ \E start \in 0..LastTermDay : grant_term(days, start)
    \/ \E t \in Slots :
          \/ cancel_term(t)
          \/ \E status \in MEMBER_MAKING \union NOT_PAST,
                end \in (1..LastTermDay) \union {Forever} :
                CorrectTerm(t, status, end)
    \/ suspend_terms \/ restore_terms
    \/ become_friend \/ undo_become_friend
    \/ \E kind \in {"member", "friend"} : update_account(kind) \/ upgrade_donor(kind)

MembershipNext == MemberStep \/ expire_lapsed_memberships \/ convert_due_friends \/ NextDay

MembershipSpec == MembershipInit /\ [][MembershipNext]_memberVars

-----------------------------------------------------------------------------
\* What an account's own page says, what the members' list says and sorts by, and what
\* the list's filters select are the same, whatever the account's terms and however they
\* follow, overlap or leave gaps (membership_status, membership_annotations with
\* membership_payload, MemberAdminFilterSet).
SameAnswer ==
    LET standing == membership_status IN
    /\ membership_payload = standing
    /\ \A state \in {"donor", "none", "friend", "current", "expired"} :
          filter_status(state) <=> standing.status = state
    /\ user.kind # "donor" => effective_expiry = standing.expires_on
    /\ user.kind # "donor" => \A days \in 0..LastTermDay : filter_expiring_within(days) <=>
          /\ standing.status = "current" /\ ~standing.is_lifetime
          /\ standing.expires_on <= today + days
    /\ \A kind \in {"member", "friend", "donor"} : listed_kind_q(kind) <=> listed_kind = kind
=============================================================================
