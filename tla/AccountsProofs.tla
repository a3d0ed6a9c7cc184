---------------------------- MODULE AccountsProofs ----------------------------
(***************************************************************************)
(* What Roles, SignIn and EmailChange promise, for any number of accounts, *)
(* requests, browsers, addresses and lifetimes of links.                   *)
(***************************************************************************)
EXTENDS SignIn, Roles, EmailChange, TLAPS, FiniteSetTheorems

-----------------------------------------------------------------------------
(* Roles.                                                                  *)

PersonRows == [exists : BOOLEAN, roles : SUBSET ROLE_SLUGS, super : BOOLEAN, active : BOOLEAN,
               blocked : BOOLEAN]
AskKinds == {"none", "roles", "deactivate", "reactivate", "block", "unblock", "new password",
             "reset", "delete"}
AskRows == [at : {"none", "let in", "checked"}, actor : People \cup {0},
            target : People \cup {0}, kind : AskKinds, wanted : SUBSET ROLE_SLUGS,
            flag : BOOLEAN, held : SUBSET ROLE_SLUGS]
RolesTypes ==
    /\ people \in [People -> PersonRows]
    /\ ask \in [Asks -> AskRows]
    /\ \A r \in Asks : ask[r].at # "none" =>
          ask[r].actor \in People /\ ask[r].target \in People /\ ask[r].kind # "none"

\* The superuser flag says who has the role.
FlagsFollowRoles == \A p \in People : people[p].super <=> "system_admin" \in people[p].roles

\* Where a role has nobody left to give it, there is no system administrator either, and no
\* request under way was let in as one's or was checked to give such a role.
GoneStaysGone ==
    /\ gone \subseteq GUARDED_ROLES
    /\ gone # {} => "system_admin" \in gone
    /\ \A r \in Asks : gone # {} /\ ask[r].at # "none" => ~ask[r].flag
    /\ \A r \in Asks : ask[r].at = "checked" /\ ask[r].kind = "roles" => ask[r].wanted \cap gone = {}
RolesInv ==
    RolesTypes /\ FlagsFollowRoles /\ GoneStaysGone /\ NoRoleFromNobody /\ CheckedAsWritten

\* An account's roles, with the flag that follows them.
LEMMA RolesOfPerson ==
    ASSUME RolesInv, NEW p \in People
    PROVE  RolesOf(p) = people[p].roles /\ people[p].roles \in SUBSET ROLE_SLUGS
  BY DEF RolesInv, RolesTypes, PersonRows, FlagsFollowRoles, RolesOf, effective_roles

\* A request is let in: a role nobody could give any more is counted when none is under way.
LEMMA LetInKeeps ==
    ASSUME RolesInv, NEW r \in Asks, NEW a \in People, NEW t \in People,
           NEW kind \in AskKinds \ {"none"}, NEW wanted \in SUBSET ROLE_SLUGS,
           RolePermission(r, a, t, kind, wanted)
    PROVE  RolesInv'
<1> DEFINE row == [at |-> "let in", actor |-> a, target |-> t, kind |-> kind,
                   wanted |-> wanted, flag |-> people[a].super, held |-> {}]
<1>1. /\ ask' = [ask EXCEPT ![r] = row] /\ gone' = gone \union Forgone(ask)
      /\ people' = people /\ people[a].exists
  BY DEF RolePermission
<1>2. row \in AskRows /\ row.at = "let in" /\ row.flag = people[a].super
      /\ row.actor = a /\ row.target = t /\ row.kind = kind
  <2>1. people[a].super \in BOOLEAN
    BY DEF RolesInv, RolesTypes, PersonRows
  <2> QED
    BY <2>1 DEF AskRows
<1> HIDE DEF row
<1>3. ask'[r] = row /\ \A o \in Asks : o # r => ask'[o] = ask[o]
  BY <1>1 DEF RolesInv, RolesTypes
<1>4. RolesTypes'
  BY <1>1, <1>2, <1>3 DEF RolesInv, RolesTypes, PersonRows, AskRows
<1>5. FlagsFollowRoles'
  BY <1>1 DEF RolesInv, FlagsFollowRoles
<1>6. NoRoleFromNobody'
  <2> SUFFICES ASSUME NEW p \in People, people[p].exists, NEW role \in people[p].roles,
                      role \in gone'
               PROVE  FALSE
    BY <1>1 DEF NoRoleFromNobody
  <2>1. role \in Forgone(ask)
    BY <1>1 DEF RolesInv, NoRoleFromNobody
  <2> QED
    BY <2>1, RolesOfPerson DEF Forgone
<1>7. GoneStaysGone'
  <2>1. gone' \subseteq GUARDED_ROLES /\ (gone' # {} => "system_admin" \in gone')
    <3>1. Forgone(ask) # {} => "system_admin" \in Forgone(ask)
      BY DEF Forgone, GUARDED_ROLES
    <3>2. Forgone(ask) \subseteq GUARDED_ROLES
      BY DEF Forgone
    <3> QED
      BY <1>1, <3>1, <3>2 DEF RolesInv, GoneStaysGone
  <2>2. gone' # {} => ~people[a].super
    BY <1>1, <1>6, <2>1 DEF RolesInv, FlagsFollowRoles, NoRoleFromNobody
  <2>3. ASSUME NEW o \in Asks, o # r, ask[o].at # "none" PROVE gone' = gone
    BY <2>3, <1>1 DEF Forgone
  <2>4. \A o \in Asks : gone' # {} /\ ask'[o].at # "none" => ~ask'[o].flag
    BY <1>2, <1>3, <2>2, <2>3 DEF RolesInv, GoneStaysGone
  <2>5. \A o \in Asks : ask'[o].at = "checked" /\ ask'[o].kind = "roles"
                        => ask'[o].wanted \cap gone' = {}
    BY <1>2, <1>3, <2>3 DEF RolesInv, GoneStaysGone
  <2> QED
    BY <2>1, <2>4, <2>5 DEF GoneStaysGone
<1>8. CheckedAsWritten'
  BY <1>1, <1>2, <1>3 DEF RolesInv, CheckedAsWritten, RolesOf
<1> QED
  BY <1>4, <1>5, <1>6, <1>7, <1>8 DEF RolesInv

\* A request's roles, as they are read at its check.
LEMMA ActorsRoles ==
    ASSUME RolesInv, NEW r \in Asks, ask[r].at # "none"
    PROVE  /\ ActorRoles(r) \in SUBSET ROLE_SLUGS
           /\ people[ask[r].actor].exists => ActorRoles(r) \cap gone = {}
<1>1. ask[r].actor \in People /\ ask[r].flag \in BOOLEAN
  BY DEF RolesInv, RolesTypes, AskRows
<1>2. people[ask[r].actor].roles \in SUBSET ROLE_SLUGS
  BY <1>1, RolesOfPerson
<1>3. ActorRoles(r) \in SUBSET ROLE_SLUGS
  BY <1>2 DEF ActorRoles, effective_roles, ROLE_SLUGS, GUARDED_ROLES
<1>4. ASSUME people[ask[r].actor].exists PROVE ActorRoles(r) \cap gone = {}
  <2>1. people[ask[r].actor].roles \cap gone = {}
    BY <1>1, <1>4 DEF RolesInv, NoRoleFromNobody
  <2>2. CASE gone = {}
    BY <2>2
  <2>3. CASE gone # {}
    <3>1. ~ask[r].flag
      BY <2>3 DEF RolesInv, GoneStaysGone
    <3> QED
      BY <2>1, <3>1 DEF ActorRoles, effective_roles
  <2> QED
    BY <2>2, <2>3
<1> QED
  BY <1>3, <1>4

\* A check passes or the request is over.
LEMMA CheckKeeps ==
    ASSUME RolesInv, NEW r \in Asks, Check(r)
    PROVE  RolesInv'
<1>1. /\ ask[r].at = "let in" /\ UNCHANGED <<people, gone>>
      /\ ask \in [Asks -> AskRows] /\ ask[r] \in AskRows
      /\ ask[r].actor \in People /\ ask[r].target \in People
      /\ ask' = [ask EXCEPT ![r] =
           IF people[ask[r].target].exists /\ people[ask[r].actor].exists /\ Passes(r)
           THEN [@ EXCEPT !.at = "checked", !.held = ActorRoles(r)] ELSE NoAsk]
  BY DEF Check, RolesInv, RolesTypes
<1>2. /\ ActorRoles(r) \in SUBSET ROLE_SLUGS
      /\ people[ask[r].actor].exists => ActorRoles(r) \cap gone = {}
  BY <1>1, ActorsRoles
<1>3. NoAsk \in AskRows /\ NoAsk.at = "none"
  BY DEF NoAsk, AskRows, AskKinds
<1> DEFINE row1 == [ask[r] EXCEPT !.at = "checked"]
           row2 == [row1 EXCEPT !.held = ActorRoles(r)]
<1>4. /\ row2 \in AskRows /\ row2.at = "checked" /\ row2.held = ActorRoles(r)
      /\ row2.actor = ask[r].actor /\ row2.target = ask[r].target /\ row2.kind = ask[r].kind
      /\ row2.wanted = ask[r].wanted /\ row2.flag = ask[r].flag
  <2>1. /\ row1 \in AskRows /\ row1.at = "checked"
        /\ row1.actor = ask[r].actor /\ row1.target = ask[r].target /\ row1.kind = ask[r].kind
        /\ row1.wanted = ask[r].wanted /\ row1.flag = ask[r].flag
    BY <1>1 DEF AskRows
  <2> HIDE DEF row1
  <2> QED
    BY <1>2, <2>1 DEF AskRows
<1>5. ask' = [ask EXCEPT ![r] =
           IF people[ask[r].target].exists /\ people[ask[r].actor].exists /\ Passes(r)
           THEN row2 ELSE NoAsk]
  BY <1>1
<1> HIDE DEF row2
<1>6. PICK row \in AskRows : ask' = [ask EXCEPT ![r] = row] /\
          \/ row = NoAsk
          \/ /\ row = row2 /\ Passes(r)
             /\ people[ask[r].target].exists /\ people[ask[r].actor].exists
  BY <1>3, <1>4, <1>5
<1>7. ask'[r] = row /\ \A o \in Asks : o # r => ask'[o] = ask[o]
  BY <1>1, <1>6
<1>8. row.at # "none" => row.actor \in People /\ row.target \in People /\ row.kind # "none"
  BY <1>1, <1>3, <1>4, <1>6 DEF RolesInv, RolesTypes
<1>9. RolesTypes'
  <2>1. ask' \in [Asks -> AskRows] /\ people' \in [People -> PersonRows]
    BY <1>1, <1>6 DEF RolesInv, RolesTypes
  <2> QED
    BY <2>1, <1>7, <1>8 DEF RolesInv, RolesTypes, PersonRows, AskRows
<1>10. FlagsFollowRoles' /\ NoRoleFromNobody'
  BY <1>1 DEF RolesInv, FlagsFollowRoles, NoRoleFromNobody
<1>11. ASSUME row = row2, row.kind = "roles", Passes(r), people[ask[r].target].exists,
              people[ask[r].actor].exists
       PROVE  row.wanted \cap gone = {}
  <2>1. checked_roles(r) /\ ask[r].kind = "roles" /\ row.wanted = ask[r].wanted
    BY <1>4, <1>11 DEF Passes
  <2>2. people[ask[r].target].roles \cap gone = {}
    BY <1>1, <1>11 DEF RolesInv, NoRoleFromNobody
  <2>3. CASE MovedRoles(r) = {}
    BY <2>1, <2>2, <2>3 DEF MovedRoles
  <2>4. CASE MovedRoles(r) \subseteq assignable_roles(r)
    <3>1. CASE gone = {}
      BY <3>1
    <3>2. CASE gone # {}
      <4>1. "system_admin" \in gone /\ gone \subseteq GUARDED_ROLES
        BY <3>2 DEF RolesInv, GoneStaysGone
      <4>2. assignable_roles(r) \cap gone = {}
        BY <4>1, <1>2, <1>11 DEF assignable_roles
      <4> QED
        BY <4>2, <2>1, <2>2, <2>4 DEF MovedRoles
    <3> QED
      BY <3>1, <3>2
  <2> QED
    BY <2>1, <2>3, <2>4 DEF checked_roles
<1>12. GoneStaysGone'
  <2>1. ASSUME NEW o \in Asks, gone # {}, ask'[o].at # "none" PROVE ~ask'[o].flag
    BY <2>1, <1>1, <1>3, <1>4, <1>6, <1>7 DEF RolesInv, GoneStaysGone
  <2>2. ASSUME NEW o \in Asks, ask'[o].at = "checked", ask'[o].kind = "roles"
        PROVE  ask'[o].wanted \cap gone = {}
    BY <2>2, <1>3, <1>6, <1>7, <1>11 DEF RolesInv, GoneStaysGone
  <2> QED
    BY <2>1, <2>2, <1>1 DEF RolesInv, GoneStaysGone
<1>13. CheckedAsWritten'
  <2> SUFFICES ASSUME NEW o \in Asks, ask'[o].at = "checked", "system_admin" \notin ask'[o].held,
                      ask'[o].kind \in {"deactivate", "reactivate", "block", "unblock",
                                        "new password"}
               PROVE  RolesOf(ask'[o].target) \cap GUARDED_ROLES \subseteq ask'[o].held
    BY <1>1 DEF CheckedAsWritten, RolesOf
  <2>1. CASE o # r
    BY <2>1, <1>7 DEF RolesInv, CheckedAsWritten
  <2>2. CASE o = r
    <3>1. row = row2 /\ Passes(r)
      BY <2>2, <1>3, <1>6, <1>7
    <3>2. may_edit_protected_fields(r)
      BY <2>2, <3>1, <1>4, <1>7 DEF Passes, deactivate_account, reactivate_account, check_block
    <3>3. (RolesOf(ask[r].target) \ ActorRoles(r)) \cap GUARDED_ROLES = {}
      BY <2>2, <3>1, <3>2, <1>4, <1>7 DEF may_edit_protected_fields
    <3> QED
      BY <2>2, <3>1, <3>3, <1>4, <1>7
  <2> QED
    BY <2>1, <2>2
<1> QED
  BY <1>9, <1>10, <1>12, <1>13 DEF RolesInv

\* What a request writes: new roles, and the flag that follows them, only if it asked for them.
LEMMA WrittenRow ==
    ASSUME RolesInv, NEW r \in Asks, ask[r].at = "checked"
    PROVE  LET p == people[ask[r].target]
           IN  /\ Written(r) \in PersonRows
               /\ Written(r).exists => p.exists
               /\ Written(r).super <=> "system_admin" \in Written(r).roles
               /\ Written(r).roles = IF ask[r].kind = "roles" THEN ask[r].wanted ELSE p.roles
               /\ ask[r].kind # "roles" => Written(r).super = p.super
<1> DEFINE p == people[ask[r].target]
<1>1. /\ p \in PersonRows /\ (p.super <=> "system_admin" \in p.roles)
      /\ ask[r].wanted \in SUBSET ROLE_SLUGS /\ ask[r].kind \in AskKinds
  <2>1. ask[r] \in AskRows /\ ask[r].target \in People
    BY DEF RolesInv, RolesTypes
  <2> QED
    BY <2>1 DEF RolesInv, RolesTypes, FlagsFollowRoles, AskRows
<1>2. CASE ask[r].kind = "roles"
  <2> DEFINE row1 == [p EXCEPT !.roles = ask[r].wanted]
             flag == IF MovedRoles(r) = {} THEN p.super
                     ELSE sync_django_flags(ask[r].wanted, p.super)
             row2 == [row1 EXCEPT !.super = flag]
  <2>1. Written(r) = row2
    BY <1>1, <1>2 DEF Written, PersonRows
  <2>2. flag \in BOOLEAN /\ (flag <=> "system_admin" \in ask[r].wanted)
    <3>1. MovedRoles(r) = {} => ask[r].wanted = p.roles
      BY DEF MovedRoles
    <3>2. p.super \in BOOLEAN
      BY <1>1 DEF PersonRows
    <3>3. CASE MovedRoles(r) = {}
      <4>1. flag = p.super
        BY <3>3
      <4> HIDE DEF flag
      <4> QED
        BY <4>1, <1>1, <3>1, <3>2, <3>3
    <3>4. CASE MovedRoles(r) # {}
      <4>1. flag = ("system_admin" \in ask[r].wanted)
        BY <3>4 DEF sync_django_flags
      <4> HIDE DEF flag
      <4>2. ("system_admin" \in ask[r].wanted) \in BOOLEAN
        BY SMT
      <4>3. flag \in BOOLEAN
        BY <4>1, <4>2, Zenon
      <4>4. flag <=> "system_admin" \in ask[r].wanted
        BY <4>1, Zenon
      <4> QED
        BY <4>3, <4>4
    <3> QED
      BY <3>3, <3>4
  <2>3. row1 \in PersonRows /\ row1.roles = ask[r].wanted /\ row1.exists = p.exists
    BY <1>1 DEF PersonRows
  <2> HIDE DEF row1, flag
  <2>4. /\ row2 \in PersonRows /\ row2.roles = ask[r].wanted /\ row2.exists = p.exists
        /\ row2.super = flag
    BY <2>2, <2>3 DEF PersonRows
  <2> HIDE DEF row2
  <2> QED
    BY <1>2, <2>1, <2>2, <2>4
<1>3. CASE ask[r].kind = "block"
  <2> DEFINE row1 == [p EXCEPT !.active = FALSE]
             row2 == [row1 EXCEPT !.blocked = TRUE]
  <2>1. Written(r) = row2
    BY <1>1, <1>3 DEF Written, PersonRows
  <2>2. row1 \in PersonRows /\ row1.roles = p.roles /\ row1.exists = p.exists /\ row1.super = p.super
    BY <1>1 DEF PersonRows
  <2> HIDE DEF row1
  <2>3. row2 \in PersonRows /\ row2.roles = p.roles /\ row2.exists = p.exists /\ row2.super = p.super
    BY <2>2 DEF PersonRows
  <2> HIDE DEF row2
  <2> QED
    BY <1>1, <1>3, <2>1, <2>3
<1>4. CASE ask[r].kind = "delete"
  <2> DEFINE row1 == [p EXCEPT !.exists = FALSE]
             row2 == [row1 EXCEPT !.active = FALSE]
  <2>1. Written(r) = row2
    BY <1>1, <1>4 DEF Written, PersonRows
  <2>2. row1 \in PersonRows /\ row1.roles = p.roles /\ ~row1.exists /\ row1.super = p.super
    BY <1>1 DEF PersonRows
  <2> HIDE DEF row1
  <2>3. row2 \in PersonRows /\ row2.roles = p.roles /\ ~row2.exists /\ row2.super = p.super
    BY <2>2 DEF PersonRows
  <2> HIDE DEF row2
  <2> QED
    BY <1>1, <1>4, <2>1, <2>3
<1>5. CASE ask[r].kind \in {"deactivate", "reactivate", "unblock"}
  <2>1. Written(r) \in {[p EXCEPT !.active = FALSE], [p EXCEPT !.active = TRUE],
                        [p EXCEPT !.blocked = FALSE]}
    BY <1>5 DEF Written
  <2>2. \A row \in {[p EXCEPT !.active = FALSE], [p EXCEPT !.active = TRUE],
                    [p EXCEPT !.blocked = FALSE]} :
           row \in PersonRows /\ row.roles = p.roles /\ row.exists = p.exists /\ row.super = p.super
    BY <1>1 DEF PersonRows
  <2> QED
    BY <1>1, <1>5, <2>1, <2>2
<1>6. CASE ask[r].kind \in {"new password", "reset"}
  <2>1. Written(r) = p
    BY <1>6 DEF Written
  <2> QED
    BY <1>1, <1>6, <2>1
<1>7. ask[r].kind # "none"
  BY DEF RolesInv, RolesTypes
<1> QED
  BY <1>1, <1>2, <1>3, <1>4, <1>5, <1>6, <1>7 DEF AskKinds

\* A request writes what it checked, over a row nobody else has checked.
LEMMA WriteKeeps ==
    ASSUME RolesInv, NEW r \in Asks, Write(r)
    PROVE  RolesInv'
<1> DEFINE t == ask[r].target
<1>1. /\ ask[r].at = "checked" /\ locked(r) /\ gone' = gone /\ t \in People
      /\ people' = IF people[t].exists THEN [people EXCEPT ![t] = Written(r)] ELSE people
      /\ ask' = [ask EXCEPT ![r] = NoAsk]
      /\ ask \in [Asks -> AskRows] /\ people \in [People -> PersonRows]
  BY DEF Write, RolesInv, RolesTypes
<1>2. /\ Written(r) \in PersonRows /\ (Written(r).exists => people[t].exists)
      /\ Written(r).super <=> "system_admin" \in Written(r).roles
      /\ Written(r).roles = IF ask[r].kind = "roles" THEN ask[r].wanted ELSE people[t].roles
      /\ ask[r].kind # "roles" => Written(r).super = people[t].super
  BY <1>1, WrittenRow
<1>3. NoAsk \in AskRows /\ NoAsk.at = "none"
  BY DEF NoAsk, AskRows, AskKinds
<1>4. ask'[r] = NoAsk /\ \A o \in Asks : o # r => ask'[o] = ask[o]
  BY <1>1
<1>5. /\ \A p \in People : p # t => people'[p] = people[p]
      /\ people'[t] = IF people[t].exists THEN Written(r) ELSE people[t]
  BY <1>1, <1>2
<1>6. RolesTypes'
  <2>1. ask' \in [Asks -> AskRows] /\ people' \in [People -> PersonRows]
    BY <1>1, <1>2, <1>3
  <2> QED
    BY <2>1, <1>3, <1>4 DEF RolesInv, RolesTypes, PersonRows, AskRows
<1>7. FlagsFollowRoles'
  BY <1>2, <1>5 DEF RolesInv, FlagsFollowRoles
<1>8. GoneStaysGone'
  BY <1>1, <1>3, <1>4 DEF RolesInv, GoneStaysGone
<1>9. NoRoleFromNobody'
  <2>1. Written(r).exists => Written(r).roles \cap gone = {}
    BY <1>1, <1>2 DEF RolesInv, GoneStaysGone, NoRoleFromNobody
  <2> QED
    BY <2>1, <1>1, <1>5 DEF RolesInv, NoRoleFromNobody
<1>10. CheckedAsWritten'
  <2> SUFFICES ASSUME NEW o \in Asks, ask'[o].at = "checked", "system_admin" \notin ask'[o].held,
                      ask'[o].kind \in {"deactivate", "reactivate", "block", "unblock",
                                        "new password"}
               PROVE  RolesOf(ask[o].target)' \cap GUARDED_ROLES \subseteq ask'[o].held
    BY DEF CheckedAsWritten
  <2>1. o # r /\ ask'[o] = ask[o]
    BY <1>3, <1>4
  <2>2. ask[o].target # t /\ ask[o].target \in People
    BY <1>1, <2>1 DEF locked, Unlocked, RolesInv, RolesTypes
  <2>3. people'[ask[o].target] = people[ask[o].target]
    BY <1>5, <2>2
  <2> QED
    BY <2>1, <2>3 DEF RolesInv, CheckedAsWritten, RolesOf
<1> QED
  BY <1>6, <1>7, <1>8, <1>9, <1>10 DEF RolesInv

\* The server's command gives the first role back.
LEMMA CreateAdminKeeps ==
    ASSUME RolesInv, NEW p \in People, CreateAdmin(p)
    PROVE  RolesInv'
<1>1. /\ gone' = {} /\ ask' = ask /\ Unlocked(p, Asks) /\ people[p].exists
      /\ people' = [people EXCEPT ![p] =
           [people[p] EXCEPT !.roles = @ \union {"system_admin"}, !.super = TRUE, !.blocked = FALSE]]
      /\ people \in [People -> PersonRows] /\ people[p] \in PersonRows
  BY DEF CreateAdmin, RolesInv, RolesTypes
<1> DEFINE row1 == [people[p] EXCEPT !.roles = @ \union {"system_admin"}]
           row2 == [row1 EXCEPT !.super = TRUE]
           row3 == [row2 EXCEPT !.blocked = FALSE]
<1>2. people' = [people EXCEPT ![p] = row3]
  BY <1>1
<1>3. row1 \in PersonRows /\ "system_admin" \in row1.roles
  BY <1>1 DEF PersonRows, ROLE_SLUGS, GUARDED_ROLES
<1> HIDE DEF row1
<1>4. row2 \in PersonRows /\ "system_admin" \in row2.roles /\ row2.super = TRUE
  BY <1>3 DEF PersonRows
<1> HIDE DEF row2
<1>5. row3 \in PersonRows /\ "system_admin" \in row3.roles /\ row3.super = TRUE
  BY <1>4 DEF PersonRows
<1> HIDE DEF row3
<1>6. PICK row \in PersonRows :
          /\ people' = [people EXCEPT ![p] = row]
          /\ "system_admin" \in row.roles /\ row.super = TRUE
  BY <1>2, <1>5
<1>7. people'[p] = row /\ \A q \in People : q # p => people'[q] = people[q]
  BY <1>1, <1>6
<1>8. RolesTypes'
  <2>1. people' \in [People -> PersonRows]
    BY <1>1, <1>6
  <2> QED
    BY <1>1, <2>1 DEF RolesInv, RolesTypes, PersonRows, AskRows
<1>9. FlagsFollowRoles'
  BY <1>6, <1>7 DEF RolesInv, FlagsFollowRoles
<1>10. GoneStaysGone' /\ NoRoleFromNobody'
  BY <1>1 DEF GoneStaysGone, NoRoleFromNobody
<1>11. CheckedAsWritten'
  <2> SUFFICES ASSUME NEW o \in Asks, ask[o].at = "checked", "system_admin" \notin ask[o].held,
                      ask[o].kind \in {"deactivate", "reactivate", "block", "unblock",
                                       "new password"}
               PROVE  RolesOf(ask[o].target)' \cap GUARDED_ROLES \subseteq ask[o].held
    BY <1>1 DEF CheckedAsWritten
  <2>1. ask[o].target # p /\ ask[o].target \in People
    BY <1>1 DEF Unlocked, RolesInv, RolesTypes
  <2> QED
    BY <2>1, <1>1, <1>7 DEF RolesInv, CheckedAsWritten, RolesOf
<1> QED
  BY <1>8, <1>9, <1>10, <1>11 DEF RolesInv

\* Each step keeps the invariant.
LEMMA RolesStep ==
    ASSUME RolesInv, [RolesNext]_rolesVars
    PROVE  RolesInv'
<1>1. ASSUME NEW r \in Asks, NEW a \in People, NEW t \in People, NEW kind \in StatusKinds,
             RolePermission(r, a, t, kind, {})
      PROVE  RolesInv'
  <2>1. kind \in AskKinds \ {"none"} /\ {} \in SUBSET ROLE_SLUGS
    BY DEF StatusKinds, AskKinds
  <2> QED
    BY <1>1, <2>1, LetInKeeps
<1>2. ASSUME NEW r \in Asks, NEW a \in People, NEW t \in People, NEW wanted \in SUBSET ROLE_SLUGS,
             RolePermission(r, a, t, "roles", wanted)
      PROVE  RolesInv'
  <2>1. "roles" \in AskKinds \ {"none"}
    BY DEF AskKinds
  <2> QED
    BY <1>2, <2>1, LetInKeeps
<1>3. CASE UNCHANGED rolesVars
  BY <1>3 DEF rolesVars, RolesInv, RolesTypes, PersonRows, AskRows, FlagsFollowRoles,
              GoneStaysGone, NoRoleFromNobody, CheckedAsWritten, RolesOf
<1> QED
  BY <1>1, <1>2, <1>3, CheckKeeps, WriteKeeps, CreateAdminKeeps DEF RolesNext

\* A guarded role nobody could give any more is given by nobody, and what is written to an
\* account was checked against the roles it has then (checked_roles, assignable_roles, the
\* target's row lock).
THEOREM RolesStayGuarded == RolesSpec => []RolesGuarded
<1>1. RolesInit => RolesInv
  <2> SUFFICES ASSUME RolesInit PROVE RolesInv
    OBVIOUS
  <2>1. PICK given \in [People -> SUBSET ROLE_SLUGS] :
            people = [p \in People |-> Person(given[p])]
    BY StaffingRoles DEF RolesInit
  <2>2. \A p \in People : /\ people[p] \in PersonRows
                          /\ people[p].super <=> "system_admin" \in people[p].roles
    <3> SUFFICES ASSUME NEW p \in People
                 PROVE  /\ people[p] \in PersonRows
                        /\ people[p].super <=> "system_admin" \in people[p].roles
      OBVIOUS
    <3> DEFINE roles == given[p]
    <3>1. people[p] = Person(roles) /\ roles \in SUBSET ROLE_SLUGS
      BY <2>1
    <3> HIDE DEF roles
    <3>2. ("system_admin" \in roles) \in BOOLEAN
      BY SMT
    <3>3. Person(roles) \in PersonRows /\ Person(roles).roles = roles
      BY <3>1, <3>2 DEF Person, PersonRows
    <3>4. Person(roles).super <=> "system_admin" \in roles
      BY DEF Person
    <3> QED
      BY <3>1, <3>3, <3>4
  <2>3. NoAsk \in AskRows /\ NoAsk.at = "none"
    BY DEF NoAsk, AskRows, AskKinds
  <2>4. gone = {} /\ ask = [r \in Asks |-> NoAsk]
    BY DEF RolesInit
  <2>5. RolesTypes
    BY <2>1, <2>2, <2>3, <2>4 DEF RolesTypes
  <2> QED
    BY <2>2, <2>3, <2>4, <2>5
       DEF RolesInv, FlagsFollowRoles, GoneStaysGone, NoRoleFromNobody, CheckedAsWritten
<1>2. RolesInv => RolesGuarded
  BY DEF RolesInv, RolesGuarded
<1> QED
  BY <1>1, <1>2, RolesStep, PTL DEF RolesSpec

-----------------------------------------------------------------------------
(* SignIn: sessions and requests.                                          *)

Pendings == [left : Nat, pw : 0..MaxPasswords, tries : Nat, again : BOOLEAN]
Data == [auth : 0..MaxPasswords, mark : BOOLEAN, pending : Pendings, enroll : 0..EnrollTicks,
         proved : 0..MaxPasswords, reopened : BOOLEAN]
CodeKinds == {"mfa", "mfaEnroll", "enroll", "recovery", "disable"}
Typed == [kind : {"wrong"}, step : {-2}] \cup [kind : {"totp"}, step : -2..1]
         \cup [kind : {"backup"}, step : Backups]
RequestRows ==
    [at : {"idle", "arrived", "decided"},
     kind : {"none", "login", "reactivate", "password", "reset"} \cup CodeKinds,
     browser : Browsers \cup {0}, lost : BOOLEAN, data : Data, pw : 0..MaxPasswords,
     given : 0..MaxPasswords, again : BOOLEAN, active : BOOLEAN, code : Typed, good : BOOLEAN]

\* A session that is signed in was opened with the password it is tied to; so was what a
\* request loaded, and the request carries the password that was given for it.
Sound(d) == d.auth # 0 /\ ~d.reopened => d.proved = d.auth
SoundRequest(q) ==
    /\ Sound(q.data)
    /\ q.at # "idle" => q.given = q.pw /\ q.pw # 0 /\ q.browser \in Browsers
    /\ q.at = "decided" => q.kind \in CodeKinds
SessionsInv ==
    /\ sess \in [Browsers -> Data] /\ \A b \in Browsers : Sound(sess[b])
    /\ req \in [Requests -> RequestRows] /\ \A r \in Requests : SoundRequest(req[r])

\* The account's row and its second factor: no step above the last one used was accepted.
AccountRows == [pw : 1..MaxPasswords, usable : BOOLEAN, active : BOOLEAN, blocked : BOOLEAN,
                role : RoleKinds]
AccountInv ==
    /\ acct \in AccountRows
    /\ device \in [on : BOOLEAN, last : -2..1] /\ codes \subseteq Backups
    /\ link \in 0..MaxPasswords
    /\ spent \subseteq Steps /\ \A step \in spent : step <= device.last

\* A request is where it was.
KeptRequest(r) ==
    /\ req'[r].at = req[r].at /\ req'[r].kind = req[r].kind /\ req'[r].good = req[r].good

\* What nothing was done to yet has its type.
LEMMA IdleTypes ==
    /\ IdleRequest \in RequestRows /\ SoundRequest(IdleRequest) /\ IdleRequest.at = "idle"
    /\ Anonymous \in Data /\ Sound(Anonymous) /\ NoPending \in Pendings
<1>1. NoPending \in Pendings
  BY SignInBounds DEF NoPending, Pendings
<1>2. Anonymous \in Data /\ Anonymous.auth = 0
  BY <1>1, SignInBounds DEF Anonymous, Data
<1>3. NoCode \in Typed
  BY DEF NoCode, Typed
<1>4. IdleRequest \in RequestRows /\ IdleRequest.at = "idle" /\ IdleRequest.data = Anonymous
  BY <1>2, <1>3, SignInBounds DEF IdleRequest, RequestRows
<1> QED
  BY <1>1, <1>2, <1>4 DEF Sound, SoundRequest

\* A row that is marked lost is the row it was.
LEMMA LostRow ==
    ASSUME NEW q \in RequestRows, SoundRequest(q)
    PROVE  LET l == [q EXCEPT !.lost = TRUE]
           IN  /\ l \in RequestRows /\ SoundRequest(l) /\ l.at = q.at /\ l.kind = q.kind
               /\ l.good = q.good
  BY DEF RequestRows, SoundRequest

\* Rows are kept, marked lost or over.
LEMMA RowsKept ==
    ASSUME SessionsInv, sess' \in [Browsers -> Data], \A b \in Browsers : Sound(sess'[b]),
           NEW q, DOMAIN q = Requests, q = [o \in Requests |-> q[o]], req' = q,
           \A o \in Requests : q[o] \in {req[o], [req[o] EXCEPT !.lost = TRUE], IdleRequest,
                                         [IdleRequest EXCEPT !.lost = TRUE]}
    PROVE  SessionsInv'
<1>1. \A o \in Requests : q[o] \in RequestRows /\ SoundRequest(q[o])
  BY IdleTypes, LostRow DEF SessionsInv
<1>2. q \in [Requests -> RequestRows]
  BY <1>1
<1> QED
  BY <1>1, <1>2 DEF SessionsInv, RequestRows, Data, Pendings, Typed, Sound, SoundRequest

\* A response saves sound data, under the key it loaded or a fresh one.
LEMMA SaveKeeps ==
    ASSUME SessionsInv, NEW r \in Requests, req[r].at # "idle", NEW data \in Data, Sound(data),
           Save(r, data) \/ SaveCycled(r, data)
    PROVE  /\ SessionsInv'
           /\ req'[r].at = "idle" /\ \A o \in Requests : o # r => KeptRequest(o)
<1> DEFINE b == req[r].browser
<1>1. b \in Browsers /\ sess \in [Browsers -> Data] /\ req \in [Requests -> RequestRows]
  BY DEF SessionsInv, SoundRequest
<1>2. sess' = sess \/ sess' = [sess EXCEPT ![b] = data]
  BY DEF Save, SaveCycled
<1>3. sess' \in [Browsers -> Data] /\ \A c \in Browsers : Sound(sess'[c])
  BY <1>1, <1>2 DEF SessionsInv
<1>4. CASE Save(r, data)
  <2>1. req' = [req EXCEPT ![r] = IdleRequest]
    BY <1>4 DEF Save, Done
  <2>2. req'[r] = IdleRequest /\ \A o \in Requests : o # r => req'[o] = req[o]
    BY <1>1, <2>1
  <2>3. DOMAIN req' = Requests /\ req' = [o \in Requests |-> req'[o]]
    BY <1>1, <2>1
  <2>4. SessionsInv'
    BY <1>3, <2>2, <2>3, RowsKept
  <2> QED
    BY <2>2, <2>4, IdleTypes DEF KeptRequest
<1>5. CASE SaveCycled(r, data)
  <2>1. req' = Orphan(Done(r), b, r)
    BY <1>5 DEF SaveCycled
  <2>2. req' = [o \in Requests |->
            IF o # r /\ Done(r)[o].browser = b THEN [Done(r)[o] EXCEPT !.lost = TRUE]
            ELSE Done(r)[o]]
    BY <2>1 DEF Orphan
  <2>3. Done(r)[r] = IdleRequest /\ \A o \in Requests : o # r => Done(r)[o] = req[o]
    BY <1>1 DEF Done
  <2>4. req'[r] = IdleRequest
    BY <2>2, <2>3
  <2>5. \A o \in Requests : o # r => req'[o] \in {req[o], [req[o] EXCEPT !.lost = TRUE]}
    BY <2>2, <2>3
  <2>6. DOMAIN req' = Requests /\ req' = [o \in Requests |-> req'[o]]
    BY <2>2
  <2>7. SessionsInv'
    BY <1>3, <2>4, <2>5, <2>6, RowsKept
  <2>8. \A o \in Requests : o # r => KeptRequest(o)
    BY <2>5, LostRow DEF KeptRequest, SessionsInv
  <2> QED
    BY <2>4, <2>7, <2>8, IdleTypes
<1> QED
  BY <1>4, <1>5

\* A request that ends without a save.
LEMMA DoneKeeps ==
    ASSUME SessionsInv, NEW r \in Requests, req' = Done(r), sess' = sess
    PROVE  /\ SessionsInv'
           /\ req'[r].at = "idle" /\ \A o \in Requests : o # r => KeptRequest(o)
<1>1. req \in [Requests -> RequestRows] /\ req' = [req EXCEPT ![r] = IdleRequest]
  BY DEF SessionsInv, Done
<1>2. req'[r] = IdleRequest /\ \A o \in Requests : o # r => req'[o] = req[o]
  BY <1>1
<1>3. DOMAIN req' = Requests /\ req' = [o \in Requests |-> req'[o]]
  BY <1>1
<1>4. SessionsInv'
  BY <1>2, <1>3, RowsKept DEF SessionsInv
<1> QED
  BY <1>2, <1>4, IdleTypes DEF KeptRequest

\* Sessions are flushed or ended: what requests loaded under their keys is lost.
LEMMA EndedKeeps ==
    ASSUME SessionsInv, end_sessions \/ (\E b \in Browsers : Flush(b))
    PROVE  SessionsInv' /\ \A o \in Requests : KeptRequest(o)
<1>1. req \in [Requests -> RequestRows] /\ sess \in [Browsers -> Data]
  BY DEF SessionsInv
<1>2. /\ \A o \in Requests : req'[o] \in {req[o], [req[o] EXCEPT !.lost = TRUE]}
      /\ DOMAIN req' = Requests /\ req' = [o \in Requests |-> req'[o]]
  BY <1>1 DEF end_sessions, Flush
<1>3. sess' \in [Browsers -> Data] /\ \A b \in Browsers : sess'[b] \in {sess[b], Anonymous}
  BY <1>1, IdleTypes DEF end_sessions, Flush
<1>4. \A b \in Browsers : Sound(sess'[b])
  BY <1>3, IdleTypes DEF SessionsInv
<1>5. SessionsInv'
  BY <1>2, <1>3, <1>4, RowsKept
<1>6. \A o \in Requests : KeptRequest(o)
  BY <1>2, LostRow DEF KeptRequest, SessionsInv
<1> QED
  BY <1>5, <1>6

\* A request arrives: it carries the password it was given, the account's at that moment.
LEMMA ArriveKeeps ==
    ASSUME SessionsInv, AccountInv, NEW r \in Requests, NEW b \in Browsers,
           NEW kind \in {"login", "reactivate", "password", "reset"} \cup CodeKinds,
           NEW code \in Typed, NEW good \in BOOLEAN, Arrive(r, b, kind, code, good),
           kind \in {"mfa", "mfaEnroll"} => sess[b].pending.pw = acct.pw
    PROVE  /\ SessionsInv' /\ req[r].at = "idle"
           /\ req'[r].at = "arrived" /\ req'[r].kind = kind
           /\ \A o \in Requests : o # r => KeptRequest(o)
<1> DEFINE data == IF good \/ kind \in {"mfa", "mfaEnroll", "enroll", "disable"}
                   THEN sess[b] ELSE Anonymous
           given == IF kind \in {"mfa", "mfaEnroll"} THEN sess[b].pending.pw ELSE acct.pw
           row == [at |-> "arrived", kind |-> kind, browser |-> b, lost |-> FALSE,
                   data |-> data, pw |-> acct.pw, again |-> sess[b].pending.again,
                   given |-> given, active |-> acct.active, code |-> code, good |-> good]
<1>1. /\ req' = [req EXCEPT ![r] = row] /\ sess' = sess /\ req[r].at = "idle"
      /\ req \in [Requests -> RequestRows]
  BY DEF Arrive, SessionsInv
<1>2. data \in Data /\ Sound(data)
  BY IdleTypes DEF SessionsInv
<1>3. /\ given = acct.pw /\ acct.pw \in 0..MaxPasswords /\ acct.pw # 0 /\ acct.active \in BOOLEAN
      /\ sess[b].pending.again \in BOOLEAN
  <2>1. sess[b].pending \in Pendings
    BY DEF SessionsInv, Data
  <2> QED
    BY <2>1, SignInBounds DEF AccountInv, AccountRows, Pendings
<1> HIDE DEF data, given
<1>4. row \in RequestRows /\ SoundRequest(row) /\ row.at = "arrived" /\ row.kind = kind
  BY <1>2, <1>3 DEF RequestRows, SoundRequest
<1> HIDE DEF row
<1>5. req'[r] = row /\ \A o \in Requests : o # r => req'[o] = req[o]
  BY <1>1
<1>6. req' \in [Requests -> RequestRows]
  BY <1>1, <1>4
<1>7. SessionsInv'
  BY <1>1, <1>4, <1>5, <1>6
     DEF SessionsInv, RequestRows, Data, Pendings, Typed, Sound, SoundRequest
<1> QED
  BY <1>1, <1>4, <1>5, <1>7 DEF KeptRequest

\* The codes that are typed.
LEMMA CodesAreTyped == CodesTyped \subseteq Typed
<1>1. NoCode \in Typed
  BY DEF NoCode, Typed
<1>2. TypedSteps \subseteq -2..1
  BY SignInBounds DEF Steps
<1>3. ASSUME NEW code \in [kind : {"totp"}, step : TypedSteps]
      PROVE  code \in [kind : {"totp"}, step : -2..1]
  BY <1>2, <1>3
<1> QED
  BY <1>1, <1>3 DEF CodesTyped, Typed

\* A code is checked: right or wrong, it is forgotten.
LEMMA DecidedKeeps ==
    ASSUME SessionsInv, NEW r \in Requests, NEW good \in BOOLEAN, Decided(r, good),
           req[r].at = "arrived", req[r].kind \in CodeKinds, sess' = sess
    PROVE  /\ SessionsInv'
           /\ req'[r].at = "decided" /\ req'[r].kind = req[r].kind /\ req'[r].good = good
           /\ \A o \in Requests : o # r => KeptRequest(o)
<1>1. req \in [Requests -> RequestRows] /\ req[r] \in RequestRows /\ SoundRequest(req[r])
  BY DEF SessionsInv
<1> DEFINE row1 == [req[r] EXCEPT !.at = "decided"]
           row2 == [row1 EXCEPT !.good = good]
           row3 == [row2 EXCEPT !.code = NoCode]
<1>2. req' = [req EXCEPT ![r] = row3]
  BY <1>1 DEF Decided, RequestRows
<1>3. /\ row1 \in RequestRows /\ row1.at = "decided" /\ row1.kind = req[r].kind
      /\ SoundRequest(row1)
  BY <1>1 DEF RequestRows, SoundRequest
<1> HIDE DEF row1
<1>4. /\ row2 \in RequestRows /\ row2.at = "decided" /\ row2.kind = req[r].kind
      /\ row2.good = good /\ SoundRequest(row2)
  BY <1>3 DEF RequestRows, SoundRequest
<1> HIDE DEF row2
<1>5. NoCode \in Typed
  BY DEF NoCode, Typed
<1>6. /\ row3 \in RequestRows /\ row3.at = "decided" /\ row3.kind = req[r].kind
      /\ row3.good = good /\ SoundRequest(row3)
  BY <1>4, <1>5 DEF RequestRows, SoundRequest
<1> HIDE DEF row3
<1>7. req'[r] = row3 /\ \A o \in Requests : o # r => req'[o] = req[o]
  BY <1>1, <1>2
<1>8. req' \in [Requests -> RequestRows]
  BY <1>1, <1>2, <1>6
<1>9. SessionsInv'
  <2>1. \A o \in Requests : SoundRequest(req'[o])
    BY <1>6, <1>7 DEF SessionsInv
  <2>2. sess' \in [Browsers -> Data] /\ \A b \in Browsers : Sound(sess'[b])
    BY DEF SessionsInv
  <2> QED
    BY <1>8, <2>1, <2>2
       DEF SessionsInv, RequestRows, Data, Pendings, Typed, Sound, SoundRequest
<1> QED
  BY <1>6, <1>7, <1>9 DEF KeptRequest

\* What a request's session becomes when it is signed in.
LEMMA SignedInSound ==
    ASSUME SessionsInv, NEW r \in Requests, req[r].at # "idle", NEW pw \in 0..MaxPasswords,
           NEW passed \in BOOLEAN, NEW reopened \in BOOLEAN, reopened \/ pw = req[r].pw
    PROVE  /\ SignedInData(r, pw, passed, reopened) \in Data
           /\ Sound(SignedInData(r, pw, passed, reopened))
<1>1. /\ req[r].data \in Data /\ req[r].given \in 0..MaxPasswords
      /\ req[r].given = req[r].pw
  BY DEF SessionsInv, RequestRows, SoundRequest
<1> DEFINE d == req[r].data
           d1 == [d EXCEPT !.auth = pw]
           d2 == [d1 EXCEPT !.reopened = reopened]
           d3 == [d2 EXCEPT !.proved = req[r].given]
           d4 == [d3 EXCEPT !.mark = d3.mark \/ passed]
           d5 == [d4 EXCEPT !.pending = NoPending]
           d6 == [d5 EXCEPT !.enroll = IF req[r].kind = "mfaEnroll" THEN 0 ELSE d5.enroll]
<1>2. SignedInData(r, pw, passed, reopened) = d6
  BY <1>1 DEF SignedInData, Data
<1> HIDE DEF d
<1>3. d1 \in Data /\ d1.auth = pw
  BY <1>1 DEF Data, d
<1> HIDE DEF d1
<1>4. d2 \in Data /\ d2.auth = pw /\ d2.reopened = reopened
  BY <1>3 DEF Data
<1> HIDE DEF d2
<1>5. d3 \in Data /\ d3.auth = pw /\ d3.reopened = reopened /\ d3.proved = req[r].given
  BY <1>1, <1>4 DEF Data
<1> HIDE DEF d3
<1>6. (d3.mark \/ passed) \in BOOLEAN
  BY SMT
<1>7. d4 \in Data /\ d4.auth = pw /\ d4.reopened = reopened /\ d4.proved = req[r].given
  BY <1>5, <1>6 DEF Data
<1> HIDE DEF d4
<1>8. d5 \in Data /\ d5.auth = pw /\ d5.reopened = reopened /\ d5.proved = req[r].given
  BY <1>7, IdleTypes DEF Data
<1> HIDE DEF d5
<1>9. (IF req[r].kind = "mfaEnroll" THEN 0 ELSE d5.enroll) \in 0..EnrollTicks
  BY <1>8, SignInBounds DEF Data
<1>10. d6 \in Data /\ d6.auth = pw /\ d6.reopened = reopened /\ d6.proved = req[r].given
  BY <1>8, <1>9 DEF Data
<1> HIDE DEF d6
<1>11. Sound(d6)
  BY <1>1, <1>10 DEF Sound
<1> QED
  BY <1>2, <1>10, <1>11

\* Time ages what sessions wait for, and nothing of who they are.
LEMMA AgedDataSound ==
    ASSUME NEW d \in Data, Sound(d)
    PROVE  AgedData(d) \in Data /\ Sound(AgedData(d))
<1>1. d.pending \in Pendings /\ d.enroll \in 0..EnrollTicks /\ EnrollTicks \in Nat
  BY SignInBounds DEF Data
<1>2. AgedPending(d.pending) \in Pendings
  BY <1>1, IdleTypes DEF AgedPending, Pendings
<1> DEFINE d1 == [d EXCEPT !.pending = AgedPending(d.pending)]
           d2 == [d1 EXCEPT !.enroll = IF d1.enroll = 0 THEN 0 ELSE d1.enroll - 1]
<1>3. AgedData(d) = d2
  BY DEF AgedData, Data
<1>4. /\ d1 \in Data /\ d1.auth = d.auth /\ d1.reopened = d.reopened /\ d1.proved = d.proved
      /\ d1.enroll = d.enroll
  BY <1>2 DEF Data
<1> HIDE DEF d1
<1>5. (IF d1.enroll = 0 THEN 0 ELSE d1.enroll - 1) \in 0..EnrollTicks
  BY <1>1, <1>4
<1>6. d2 \in Data /\ d2.auth = d.auth /\ d2.reopened = d.reopened /\ d2.proved = d.proved
  BY <1>4, <1>5 DEF Data
<1> HIDE DEF d2
<1> QED
  BY <1>3, <1>6 DEF Sound

\* A code that grows older is still a code that can be typed.
LEMMA OlderCodeTyped == ASSUME NEW code \in Typed PROVE OlderCode(code) \in Typed
<1>1. CASE code.kind = "totp"
  <2>1. code \in [kind : {"totp"}, step : -2..1]
    BY <1>1 DEF Typed
  <2>2. OlderStep(code.step) \in -2..1
    BY <2>1 DEF OlderStep
  <2>3. [code EXCEPT !.step = OlderStep(code.step)] \in [kind : {"totp"}, step : -2..1]
    BY <2>1, <2>2
  <2> QED
    BY <1>1, <2>3 DEF OlderCode, Typed
<1>2. CASE code.kind # "totp"
  BY <1>2 DEF OlderCode
<1> QED
  BY <1>1, <1>2

\* Time ages sessions and what requests loaded of them.
LEMMA TickKeepsSessions ==
    ASSUME SessionsInv, Tick
    PROVE  SessionsInv' /\ \A o \in Requests : KeptRequest(o)
<1>1. /\ sess' = [b \in Browsers |-> AgedData(sess[b])]
      /\ req' = [r \in Requests |->
           [req[r] EXCEPT !.data = AgedData(req[r].data), !.code = OlderCode(req[r].code)]]
  BY DEF Tick
<1>2. sess' \in [Browsers -> Data] /\ \A b \in Browsers : Sound(sess'[b])
  BY <1>1, AgedDataSound DEF SessionsInv
<1>3. ASSUME NEW o \in Requests
      PROVE  req'[o] \in RequestRows /\ SoundRequest(req'[o]) /\ KeptRequest(o)
  <2> DEFINE q == req[o]
             q1 == [q EXCEPT !.data = AgedData(q.data)]
             q2 == [q1 EXCEPT !.code = OlderCode(q.code)]
  <2>1. /\ q \in RequestRows /\ SoundRequest(q) /\ q.data \in Data /\ q.code \in Typed
        /\ Sound(q.data)
    BY DEF SessionsInv, RequestRows, SoundRequest
  <2>2. req'[o] = q2
    BY <1>1, <2>1 DEF RequestRows
  <2>3. AgedData(q.data) \in Data /\ Sound(AgedData(q.data)) /\ OlderCode(q.code) \in Typed
    BY <2>1, AgedDataSound, OlderCodeTyped
  <2>4. /\ q1 \in RequestRows /\ SoundRequest(q1)
        /\ q1.at = q.at /\ q1.kind = q.kind /\ q1.good = q.good
    BY <2>1, <2>3 DEF RequestRows, SoundRequest
  <2> HIDE DEF q1
  <2>5. /\ q2 \in RequestRows /\ SoundRequest(q2)
        /\ q2.at = q.at /\ q2.kind = q.kind /\ q2.good = q.good
    BY <2>3, <2>4 DEF RequestRows, SoundRequest
  <2> HIDE DEF q2
  <2> QED
    BY <2>2, <2>5 DEF KeptRequest
<1>4. req' \in [Requests -> RequestRows]
  BY <1>1, <1>3
<1> QED
  BY <1>2, <1>3, <1>4
     DEF SessionsInv, RequestRows, Data, Pendings, Typed, Sound, SoundRequest

-----------------------------------------------------------------------------
(* SignIn: the lockout counters.                                           *)

\* The requests in flight whose failure would be counted, those of them that hold a code,
\* and those whose code was found wrong and is not counted yet.
Guessing ==
    {r \in Requests : req[r].at # "idle" /\ req[r].kind \notin {"password", "reset"}}
CodeTrying == {r \in Requests : req[r].at # "idle" /\ req[r].kind \in CodeKinds}
FoundWrong == {r \in Requests : req[r].at = "decided" /\ ~req[r].good}

\* A count and the requests that may add to it stay within the limit and the requests
\* there are: who arrived was let in below the limit.
FailureRow == [count : Nat, left : Nat]
Within(row, limit, flying) ==
    /\ row.left = 0 => row.count = 0
    /\ row.count + Cardinality(flying) <= limit - 1 + Cardinality(Requests)
CountInv ==
    /\ failures \in [short : FailureRow, code : FailureRow, notice : FailureRow]
    /\ Within(failures.short, ShortLimit, Guessing)
    /\ Within(failures.code, CodeLimit, CodeTrying)
    /\ tried \in Nat /\ tried <= failures.code.count + Cardinality(FoundWrong)
    /\ mails \in 0..1 /\ (failures.notice.left = 0 => mails = 0)
SignInInv == SessionsInv /\ AccountInv /\ CountInv

\* Every set of requests is finite, and no larger than all of them.
LEMMA Sizes ==
    ASSUME NEW T \in SUBSET Requests
    PROVE  /\ IsFiniteSet(T) /\ Cardinality(T) \in Nat /\ Cardinality(Requests) \in Nat
           /\ Cardinality(T) <= Cardinality(Requests)
  BY SignInBounds, FS_Subset, FS_CardinalityType

\* Fewer requests are no more.
LEMMA Shrinks ==
    ASSUME NEW T \in SUBSET Requests, NEW S \in SUBSET T
    PROVE  Cardinality(S) <= Cardinality(T) /\ Cardinality(S) \in Nat
  BY Sizes, FS_Subset, FS_CardinalityType

\* A request leaves.
LEMMA OneOut ==
    ASSUME NEW T \in SUBSET Requests, NEW r \in T
    PROVE  Cardinality(T \ {r}) = Cardinality(T) - 1
  BY Sizes, FS_RemoveElement

\* A request joins, if it was not there.
LEMMA OneIn ==
    ASSUME NEW T \in SUBSET Requests, NEW r \in Requests
    PROVE  Cardinality(T \cup {r}) <= Cardinality(T) + 1 /\ Cardinality(T \cup {r}) \in Nat
<1>1. CASE r \in T
  <2>1. T \cup {r} = T
    BY <1>1
  <2> QED
    BY <2>1, Sizes
<1>2. CASE r \notin T
  <2>1. Cardinality(T \cup {r}) = Cardinality(T) + 1
    BY <1>2, Sizes, FS_AddElement
  <2> QED
    BY <2>1, Sizes
<1> QED
  BY <1>1, <1>2

\* Who holds a code may be guessing, and a code found wrong is held by one who holds it.
LEMMA FlyingSets ==
    /\ Guessing \in SUBSET Requests /\ CodeTrying \in SUBSET Requests
    /\ FoundWrong \in SUBSET Requests /\ CodeTrying \subseteq Guessing
    /\ SessionsInv => FoundWrong \subseteq CodeTrying
  BY DEF Guessing, CodeTrying, FoundWrong, CodeKinds, SessionsInv, SoundRequest

\* A count that shrinks, with fewer requests in flight.
LEMMA WithinShrinks ==
    ASSUME NEW row \in FailureRow, NEW next \in FailureRow, NEW limit \in Nat,
           NEW S \in SUBSET Requests, NEW T \in SUBSET S, Within(row, limit, S),
           next.count <= row.count, next.left = 0 => next.count = 0
    PROVE  Within(next, limit, T)
  BY Sizes, Shrinks DEF Within, FailureRow

\* A failure is counted and its request is over.
LEMMA WithinCounts ==
    ASSUME NEW row \in FailureRow, NEW limit \in Nat, NEW ticks \in Nat \ {0},
           NEW S \in SUBSET Requests, NEW r \in S, NEW T \in SUBSET S, r \notin T,
           Within(row, limit, S)
    PROVE  /\ CountOne(row, ticks) \in FailureRow
           /\ CountOne(row, ticks).count = row.count + 1
           /\ Within(CountOne(row, ticks), limit, T)
<1>1. T \in SUBSET (S \ {r}) /\ S \ {r} \in SUBSET Requests
  OBVIOUS
<1>2. Cardinality(T) <= Cardinality(S) - 1 /\ Cardinality(T) \in Nat /\ Cardinality(S) \in Nat
  BY <1>1, OneOut, Shrinks, Sizes
<1>3. /\ CountOne(row, ticks) \in FailureRow /\ CountOne(row, ticks).left # 0
      /\ CountOne(row, ticks).count = row.count + 1
  BY DEF CountOne, FailureRow, Within
<1>4. Cardinality(Requests) \in Nat
  BY Sizes
<1> QED
  BY <1>2, <1>3, <1>4 DEF Within, FailureRow

\* Rows of failures as they are.
LEMMA FailureFields ==
    ASSUME CountInv
    PROVE  /\ failures.short \in FailureRow /\ failures.code \in FailureRow
           /\ failures.notice \in FailureRow /\ NoRow \in FailureRow
           /\ NoRow.count = 0 /\ NoRow.left = 0
  BY DEF CountInv, NoRow, FailureRow

\* A step that counts nothing: requests stay, or end without a code found wrong.
LEMMA QuietCounts ==
    ASSUME SessionsInv, CountInv,
           failures' \in {failures, [failures EXCEPT !.short = NoRow]},
           UNCHANGED <<tried, mails>>,
           \A o \in Requests : KeptRequest(o) \/ (req'[o].at = "idle" /\ o \notin FoundWrong)
    PROVE  CountInv'
<1>1. Guessing' \in SUBSET Guessing /\ CodeTrying' \in SUBSET CodeTrying /\ FoundWrong' = FoundWrong
  BY DEF Guessing, CodeTrying, FoundWrong, KeptRequest
<1>2. /\ failures'.short \in {failures.short, NoRow} /\ failures'.code = failures.code
      /\ failures'.notice = failures.notice
      /\ failures' \in [short : FailureRow, code : FailureRow, notice : FailureRow]
  BY FailureFields DEF CountInv
<1>3. Within(failures'.short, ShortLimit, Guessing')
  <2>1. failures'.short \in FailureRow /\ failures'.short.count <= failures.short.count
        /\ (failures'.short.left = 0 => failures'.short.count = 0)
    BY <1>2, FailureFields DEF CountInv, Within, FailureRow
  <2> QED
    BY <1>1, <2>1, FailureFields, FlyingSets, WithinShrinks, SignInBounds DEF CountInv
<1>4. Within(failures'.code, CodeLimit, CodeTrying')
  <2>1. failures.code.count <= failures.code.count
    BY FailureFields DEF FailureRow
  <2> QED
    BY <1>1, <1>2, <2>1, FailureFields, FlyingSets, WithinShrinks, SignInBounds DEF CountInv, Within
<1>5. Within(failures.short, ShortLimit, Guessing)' /\ Within(failures.code, CodeLimit, CodeTrying)'
  BY <1>3, <1>4 DEF Within
<1> QED
  BY <1>1, <1>2, <1>5 DEF CountInv, FailureRow

\* A request whose failure would be counted arrives only below the limits.
LEMMA ArriveCounts ==
    ASSUME CountInv, NEW r \in Requests, req[r].at = "idle", req'[r].at = "arrived",
           req'[r].kind \in {"password", "reset"} \/ ~lockout_wait,
           \A o \in Requests : o # r => KeptRequest(o),
           UNCHANGED <<failures, tried, mails>>
    PROVE  CountInv'
<1>1. FoundWrong' = FoundWrong
  BY DEF FoundWrong, KeptRequest
<1>2. CASE req'[r].kind \in {"password", "reset"}
  <2>1. Guessing' = Guessing /\ CodeTrying' = CodeTrying
    BY <1>2 DEF Guessing, CodeTrying, KeptRequest, CodeKinds
  <2> QED
    BY <1>1, <2>1 DEF CountInv, Within, FailureRow
<1>3. CASE ~lockout_wait
  <2>1. failures.short.count <= ShortLimit - 1 /\ failures.code.count <= CodeLimit - 1
    BY <1>3, FailureFields, SignInBounds DEF lockout_wait, Over, CountInv, Within, FailureRow
  <2>2. Guessing' \in SUBSET Requests /\ CodeTrying' \in SUBSET Requests
    BY DEF Guessing, CodeTrying
  <2>3. /\ Cardinality(Guessing') \in Nat /\ Cardinality(Guessing') <= Cardinality(Requests)
        /\ Cardinality(CodeTrying') \in Nat /\ Cardinality(CodeTrying') <= Cardinality(Requests)
        /\ Cardinality(Requests) \in Nat
    BY <2>2, Sizes
  <2>4. /\ Within(failures.short, ShortLimit, Guessing)'
        /\ Within(failures.code, CodeLimit, CodeTrying)'
    BY <2>1, <2>3, FailureFields, SignInBounds DEF CountInv, Within, FailureRow
  <2> QED
    BY <1>1, <2>4 DEF CountInv, FailureRow
<1> QED
  BY <1>2, <1>3

\* A code is found right, or wrong and tried.
LEMMA DecidedCounts ==
    ASSUME CountInv, NEW r \in Requests, req[r].at = "arrived", req[r].kind \in CodeKinds,
           req'[r].at = "decided", req'[r].kind = req[r].kind,
           \A o \in Requests : o # r => KeptRequest(o),
           tried' = IF req'[r].good THEN tried ELSE tried + 1,
           UNCHANGED <<failures, mails>>
    PROVE  CountInv'
<1>1. Guessing' = Guessing /\ CodeTrying' = CodeTrying
  BY DEF Guessing, CodeTrying, KeptRequest, CodeKinds
<1>2. r \notin FoundWrong /\ FoundWrong' = IF req'[r].good THEN FoundWrong ELSE FoundWrong \cup {r}
  BY DEF FoundWrong, KeptRequest
<1>3. tried' \in Nat /\ tried' <= failures.code.count + Cardinality(FoundWrong')
  <2>1. Cardinality(FoundWrong \cup {r}) = Cardinality(FoundWrong) + 1
    BY <1>2, Sizes, FlyingSets, FS_AddElement
  <2>2. Cardinality(FoundWrong) \in Nat
    BY Sizes, FlyingSets
  <2> QED
    BY <1>2, <2>1, <2>2, FailureFields DEF CountInv, FailureRow
<1> QED
  BY <1>1, <1>3 DEF CountInv, Within, FailureRow

\* A failure trips at most both counts.
LEMMA TripsCounted ==
    ASSUME NEW code \in BOOLEAN
    PROVE  Cardinality(Trips(code)) \in Nat
<1>1. IsFiniteSet({"short", "code"})
  <2>1. IsFiniteSet({} \cup {"short"})
    BY FS_EmptySet, FS_AddElement
  <2>2. IsFiniteSet(({} \cup {"short"}) \cup {"code"})
    BY <2>1, FS_AddElement
  <2>3. {"short", "code"} = ({} \cup {"short"}) \cup {"code"}
    OBVIOUS
  <2> QED
    BY <2>2, <2>3
<1>2. Trips(code) \subseteq {"short", "code"}
  BY DEF Trips, Limits
<1> QED
  BY <1>1, <1>2, FS_Subset, FS_CardinalityType

\* A failure is counted, and mails the first of a mark's window.
LEMMA FailureCounts ==
    ASSUME SessionsInv, CountInv, NEW r \in Requests, NEW code \in BOOLEAN, record_failure(code),
           IF code THEN r \in FoundWrong ELSE r \in Guessing /\ r \notin CodeTrying,
           req'[r].at = "idle", \A o \in Requests : o # r => KeptRequest(o), tried' = tried
    PROVE  CountInv'
<1> DEFINE trips == Cardinality(Trips(code))
           short == CountOne(failures.short, ShortTicks)
           byCode == IF code THEN CountOne(failures.code, CodeTicks) ELSE failures.code
           notice == Marked(failures.notice, trips)
<1>1. /\ failures' = [short |-> short, code |-> byCode, notice |-> notice]
      /\ mails' = mails + Notices(failures.notice, trips) /\ trips \in Nat
  BY TripsCounted DEF record_failure, Counted
<1> HIDE DEF trips
<1>2. Guessing' = Guessing \ {r} /\ CodeTrying' = CodeTrying \ {r} /\ FoundWrong' = FoundWrong \ {r}
  BY DEF Guessing, CodeTrying, FoundWrong, KeptRequest
<1>3. r \in Guessing /\ (code => r \in CodeTrying)
  BY FlyingSets
<1>4. /\ short \in FailureRow /\ Within(short, ShortLimit, Guessing')
  BY <1>2, <1>3, FailureFields, FlyingSets, WithinCounts, SignInBounds DEF CountInv
<1>5. /\ byCode \in FailureRow /\ Within(byCode, CodeLimit, CodeTrying')
      /\ tried <= byCode.count + Cardinality(FoundWrong')
  <2>1. CASE code
    <3>1. /\ byCode \in FailureRow /\ Within(byCode, CodeLimit, CodeTrying')
          /\ byCode.count = failures.code.count + 1
      BY <2>1, <1>2, <1>3, FailureFields, FlyingSets, WithinCounts, SignInBounds DEF CountInv
    <3>2. Cardinality(FoundWrong') = Cardinality(FoundWrong) - 1 /\ Cardinality(FoundWrong) \in Nat
      BY <2>1, <1>2, FlyingSets, OneOut, Sizes
    <3> QED
      BY <3>1, <3>2, FailureFields DEF CountInv, FailureRow
  <2>2. CASE ~code
    <3>1. byCode = failures.code /\ CodeTrying' = CodeTrying /\ FoundWrong' = FoundWrong
      BY <2>2, <1>2, FlyingSets
    <3> QED
      BY <3>1, FailureFields DEF CountInv
  <2> QED
    BY <2>1, <2>2
<1> HIDE DEF short, byCode
<1>6. /\ notice \in FailureRow /\ mails' \in 0..1 /\ (notice.left = 0 => mails' = 0)
  BY <1>1, FailureFields, SignInBounds DEF Marked, Notices, CountInv, FailureRow
<1> HIDE DEF notice
<1>7. /\ failures' \in [short : FailureRow, code : FailureRow, notice : FailureRow]
      /\ failures'.short = short /\ failures'.code = byCode /\ failures'.notice = notice
  BY <1>1, <1>4, <1>5, <1>6
<1>8. /\ Within(failures.short, ShortLimit, Guessing)'
      /\ Within(failures.code, CodeLimit, CodeTrying)'
  BY <1>4, <1>5, <1>7 DEF Within
<1>9. tried' \in Nat /\ tried' <= failures'.code.count + Cardinality(FoundWrong)'
  BY <1>5, <1>7 DEF CountInv
<1> QED
  BY <1>6, <1>7, <1>8, <1>9 DEF CountInv, FailureRow

\* A window runs out, or goes on with what it counted.
LEMMA AgedRowFits ==
    ASSUME NEW row \in FailureRow
    PROVE  /\ AgedRow(row) \in FailureRow /\ AgedRow(row).count <= row.count
           /\ AgedRow(row).left = 0 => AgedRow(row).count = 0
           /\ row.left > 1 => AgedRow(row).count = row.count /\ AgedRow(row).left # 0
  BY DEF AgedRow, NoRow, FailureRow

\* Windows that run out forget what was counted in them.
LEMMA TickCounts ==
    ASSUME SessionsInv, CountInv, Tick, \A o \in Requests : KeptRequest(o)
    PROVE  CountInv'
<1>1. Guessing' = Guessing /\ CodeTrying' = CodeTrying /\ FoundWrong' = FoundWrong
  BY DEF Guessing, CodeTrying, FoundWrong, KeptRequest
<1>2. /\ failures' = [short |-> AgedRow(failures.short), code |-> AgedRow(failures.code),
                      notice |-> AgedRow(failures.notice)]
      /\ tried' = IF failures.code.left <= 1 THEN 0 ELSE tried
      /\ mails' = IF failures.notice.left <= 1 THEN 0 ELSE mails
  BY DEF Tick
<1>3. /\ AgedRow(failures.short) \in FailureRow /\ AgedRow(failures.code) \in FailureRow
      /\ AgedRow(failures.notice) \in FailureRow
  BY FailureFields, AgedRowFits
<1>4. /\ failures' \in [short : FailureRow, code : FailureRow, notice : FailureRow]
      /\ failures'.short = AgedRow(failures.short) /\ failures'.code = AgedRow(failures.code)
      /\ failures'.notice = AgedRow(failures.notice)
  BY <1>2, <1>3
<1>5. Within(AgedRow(failures.short), ShortLimit, Guessing)
  BY FailureFields, AgedRowFits, FlyingSets, WithinShrinks, SignInBounds DEF CountInv
<1>6. Within(AgedRow(failures.code), CodeLimit, CodeTrying)
  BY FailureFields, AgedRowFits, FlyingSets, WithinShrinks, SignInBounds DEF CountInv
<1>7. /\ Within(failures.short, ShortLimit, Guessing)'
      /\ Within(failures.code, CodeLimit, CodeTrying)'
  BY <1>1, <1>4, <1>5, <1>6 DEF Within
<1>8. tried' \in Nat /\ tried' <= failures'.code.count + Cardinality(FoundWrong)
  <2>1. Cardinality(FoundWrong) \in Nat /\ failures.code \in FailureRow /\ failures'.code \in FailureRow
    BY <1>3, <1>4, FlyingSets, Sizes, FailureFields
  <2>2. failures.code.left > 1 => failures'.code.count = failures.code.count
    BY <2>1, <1>4, AgedRowFits
  <2> QED
    BY <2>1, <2>2, <1>2 DEF CountInv, FailureRow
<1>9. mails' \in 0..1 /\ (failures'.notice.left = 0 => mails' = 0)
  BY <1>2, <1>4, FailureFields, AgedRowFits DEF CountInv, FailureRow
<1> QED
  BY <1>1, <1>4, <1>7, <1>8, <1>9 DEF CountInv, FailureRow

\* The command that clears the counts forgets what was tried.
LEMMA ClearCounts ==
    ASSUME SessionsInv, CountInv, clear_all_failures
    PROVE  CountInv'
<1>1. Guessing' = Guessing /\ CodeTrying' = CodeTrying /\ FoundWrong' = FoundWrong
  BY DEF Guessing, CodeTrying, FoundWrong, clear_all_failures
<1>2. /\ failures' \in [short : FailureRow, code : FailureRow, notice : FailureRow]
      /\ failures'.short = NoRow /\ failures'.code = NoRow /\ failures'.notice = failures.notice
      /\ tried' = 0 /\ mails' = mails
  BY FailureFields DEF clear_all_failures, CountInv
<1>3. Within(NoRow, ShortLimit, Guessing) /\ Within(NoRow, CodeLimit, CodeTrying)
  <2>1. \A row \in FailureRow : NoRow.count <= row.count
    BY FailureFields DEF FailureRow
  <2> QED
    BY <2>1, FailureFields, FlyingSets, WithinShrinks, SignInBounds DEF CountInv
<1>4. /\ Within(failures.short, ShortLimit, Guessing)'
      /\ Within(failures.code, CodeLimit, CodeTrying)'
  BY <1>1, <1>2, <1>3 DEF Within
<1>5. Cardinality(FoundWrong) \in Nat
  BY FlyingSets, Sizes
<1> QED
  BY <1>1, <1>2, <1>4, <1>5, FailureFields DEF CountInv, FailureRow

-----------------------------------------------------------------------------
(* SignIn: the steps.                                                      *)

Promises == CodeOnce /\ BlockedStaysClosed

\* The account's row is another of its kind, and the second factor stays.
LEMMA AccountKept ==
    ASSUME AccountInv, acct' \in AccountRows, UNCHANGED <<device, codes, spent>>,
           link' \in 0..MaxPasswords
    PROVE  AccountInv'
  BY DEF AccountInv, AccountRows, RoleKinds, Steps

\* A step that checks no code and counts nothing.
LEMMA QuietStep ==
    ASSUME SignInInv, SessionsInv', AccountInv', BlockedStaysClosed,
           failures' \in {failures, [failures EXCEPT !.short = NoRow]},
           UNCHANGED <<tried, mails>>,
           \A o \in Requests : KeptRequest(o) \/ (req'[o].at = "idle" /\ o \notin FoundWrong)
    PROVE  SignInInv' /\ Promises
<1>1. CountInv'
  BY QuietCounts DEF SignInInv
<1>2. CodeOnce
  BY DEF CodeOnce, KeptRequest
<1> QED
  BY <1>1, <1>2 DEF SignInInv, Promises

\* One request ends so.
LEMMA QuietEnd ==
    ASSUME SignInInv, NEW r \in Requests, r \notin FoundWrong, SessionsInv', AccountInv',
           BlockedStaysClosed, failures' \in {failures, [failures EXCEPT !.short = NoRow]},
           UNCHANGED <<tried, mails>>,
           req'[r].at = "idle", \A o \in Requests : o # r => KeptRequest(o)
    PROVE  SignInInv' /\ Promises
  BY QuietStep

\* The account's row, reopened or with another password.
LEMMA AccountEdits ==
    ASSUME AccountInv
    PROVE  /\ acct \in AccountRows /\ acct.pw \in 1..MaxPasswords /\ acct.pw \in 0..MaxPasswords
           /\ [acct EXCEPT !.active = TRUE] \in AccountRows
           /\ [acct EXCEPT !.active = TRUE].blocked = acct.blocked
           /\ link \in 0..MaxPasswords /\ 0 \in 0..MaxPasswords
<1>1. acct \in AccountRows /\ link \in 0..MaxPasswords /\ acct.pw \in 1..MaxPasswords
  BY DEF AccountInv, AccountRows
<1>2. acct.pw \in 0..MaxPasswords /\ 0 \in 0..MaxPasswords
  BY <1>1, SignInBounds
<1>3. /\ [acct EXCEPT !.active = TRUE] \in AccountRows
      /\ [acct EXCEPT !.active = TRUE].blocked = acct.blocked
  BY <1>1 DEF AccountRows
<1> QED
  BY <1>1, <1>2, <1>3

\* A sign-in that succeeds.
LEMMA FinishKeeps ==
    ASSUME SignInInv, NEW r \in Requests, req[r].at # "idle", r \notin FoundWrong,
           NEW pw \in 0..MaxPasswords, NEW passed \in BOOLEAN, NEW reopened \in BOOLEAN,
           reopened \/ pw = req[r].pw, finish_sign_in(r, pw, passed, reopened),
           acct' = acct \/ (Reopens /\ Reopened), UNCHANGED <<device, codes, tried, spent>>
    PROVE  SignInInv' /\ Promises
<1>1. /\ SignedInData(r, pw, passed, reopened) \in Data
      /\ Sound(SignedInData(r, pw, passed, reopened))
  BY SignedInSound DEF SignInInv
<1>2. /\ SaveCycled(r, SignedInData(r, pw, passed, reopened)) /\ link' = 0 /\ mails' = mails
      /\ failures' = [failures EXCEPT !.short = NoRow]
  BY DEF finish_sign_in, clear_failures
<1>3. /\ SessionsInv' /\ req'[r].at = "idle"
      /\ \A o \in Requests : o # r => KeptRequest(o)
  BY <1>1, <1>2, SaveKeeps DEF SignInInv
<1>4. AccountInv' /\ BlockedStaysClosed
  <2>1. acct' \in AccountRows /\ BlockedStaysClosed
    BY AccountEdits DEF SignInInv, Reopens, Reopened, BlockedStaysClosed
  <2> QED
    BY <1>2, <2>1, AccountEdits, AccountKept DEF SignInInv
<1> QED
  BY <1>2, <1>3, <1>4, QuietEnd

\* What a session or a request's copy of it may become without another signing in.
LEMMA DataEdits ==
    ASSUME NEW d \in Data, Sound(d)
    PROVE  /\ \A p \in Pendings : [d EXCEPT !.pending = p] \in Data /\ Sound([d EXCEPT !.pending = p])
           /\ \A n \in 0..EnrollTicks :
                 [d EXCEPT !.enroll = n] \in Data /\ Sound([d EXCEPT !.enroll = n])
           /\ \A m \in BOOLEAN : [d EXCEPT !.mark = m] \in Data /\ Sound([d EXCEPT !.mark = m])
<1>1. \A p \in Pendings : [d EXCEPT !.pending = p] \in Data /\ Sound([d EXCEPT !.pending = p])
  BY DEF Data, Sound
<1>2. \A n \in 0..EnrollTicks : [d EXCEPT !.enroll = n] \in Data /\ Sound([d EXCEPT !.enroll = n])
  BY DEF Data, Sound
<1>3. \A m \in BOOLEAN : [d EXCEPT !.mark = m] \in Data /\ Sound([d EXCEPT !.mark = m])
  BY DEF Data, Sound
<1> QED
  BY <1>1, <1>2, <1>3

\* A password was right and its sign-in waits for a code.
LEMMA BeginPendingKeeps ==
    ASSUME SignInInv, NEW r \in Requests, req[r].at # "idle", r \notin FoundWrong,
           NEW again \in BOOLEAN, begin_pending(r, again),
           UNCHANGED <<acct, device, codes, tried, spent>>
    PROVE  SignInInv' /\ Promises
<1> DEFINE p == [left |-> PendingTicks, pw |-> req[r].pw, tries |-> 0, again |-> again]
           data == [req[r].data EXCEPT !.pending = p]
<1>1. p \in Pendings /\ req[r].data \in Data /\ Sound(req[r].data)
  <2>1. req[r] \in RequestRows /\ SoundRequest(req[r])
    BY DEF SignInInv, SessionsInv
  <2> QED
    BY <2>1, SignInBounds DEF RequestRows, SoundRequest, Pendings
<1> HIDE DEF p
<1>2. data \in Data /\ Sound(data)
  BY <1>1, DataEdits
<1>3. SaveCycled(r, data) /\ UNCHANGED <<failures, mails, link>>
  BY DEF begin_pending, p
<1> HIDE DEF data
<1>4. /\ SessionsInv' /\ req'[r].at = "idle"
      /\ \A o \in Requests : o # r => KeptRequest(o)
  BY <1>2, <1>3, SaveKeeps DEF SignInInv
<1>5. AccountInv' /\ BlockedStaysClosed
  BY <1>3, AccountEdits, AccountKept DEF SignInInv, BlockedStaysClosed
<1> QED
  BY <1>3, <1>4, <1>5, QuietEnd

\* A request that ends with nothing done but what its account's row became.
LEMMA DoneStep ==
    ASSUME SignInInv, NEW r \in Requests, r \notin FoundWrong, req' = Done(r), acct' \in AccountRows,
           BlockedStaysClosed, UNCHANGED <<device, codes, failures, link, sess, tried, spent, mails>>
    PROVE  SignInInv' /\ Promises
<1>1. /\ SessionsInv' /\ req'[r].at = "idle"
      /\ \A o \in Requests : o # r => KeptRequest(o)
  BY DoneKeeps DEF SignInInv
<1>2. AccountInv'
  BY AccountEdits, AccountKept DEF SignInInv
<1> QED
  BY <1>1, <1>2, QuietEnd

\* A wrong password.
LEMMA WrongPassword ==
    ASSUME SignInInv, NEW r \in Requests, req[r].at = "arrived",
           req[r].kind \in {"login", "reactivate"}, record_failure(FALSE), req' = Done(r),
           UNCHANGED <<acct, device, codes, link, sess, tried, spent>>
    PROVE  SignInInv' /\ Promises
<1>1. /\ SessionsInv' /\ req'[r].at = "idle"
      /\ \A o \in Requests : o # r => KeptRequest(o)
  BY DoneKeeps DEF SignInInv
<1>2. r \in Guessing /\ r \notin CodeTrying
  BY DEF Guessing, CodeTrying, CodeKinds
<1>3. CountInv'
  <2>1. FALSE \in BOOLEAN
    OBVIOUS
  <2> QED
    BY <1>1, <1>2, <2>1, FailureCounts DEF SignInInv
<1>4. AccountInv'
  BY AccountEdits, AccountKept DEF SignInInv
<1>5. Promises
  BY <1>1 DEF Promises, CodeOnce, BlockedStaysClosed, KeptRequest
<1> QED
  BY <1>1, <1>3, <1>4, <1>5 DEF SignInInv

\* LoginView.
LEMMA LoginEndsKeeps ==
    ASSUME SignInInv, NEW r \in Requests, LoginEnds(r)
    PROVE  SignInInv' /\ Promises
<1>1. /\ req[r].at = "arrived" /\ req[r].kind = "login" /\ r \notin FoundWrong
      /\ req[r].at # "idle" /\ UNCHANGED <<acct, device, codes, tried, spent>>
  BY DEF LoginEnds, FoundWrong
<1>2. CASE record_failure(FALSE) /\ req' = Done(r) /\ UNCHANGED <<sess, link>>
  BY <1>1, <1>2, WrongPassword
<1>3. CASE begin_pending(r, FALSE)
  <2>1. FALSE \in BOOLEAN
    OBVIOUS
  <2> QED
    BY <1>1, <1>3, <2>1, BeginPendingKeeps
<1>4. CASE finish_sign_in(r, req[r].pw, FALSE, FALSE)
  <2>1. FALSE \in BOOLEAN /\ req[r].pw \in 0..MaxPasswords
    BY DEF SignInInv, SessionsInv, RequestRows
  <2> QED
    BY <1>1, <1>4, <2>1, FinishKeeps
<1> QED
  BY <1>2, <1>3, <1>4 DEF LoginEnds

\* ReactivateView.
LEMMA ReactivateEndsKeeps ==
    ASSUME SignInInv, NEW r \in Requests, ReactivateEnds(r)
    PROVE  SignInInv' /\ Promises
<1>1. /\ req[r].at = "arrived" /\ req[r].kind = "reactivate" /\ r \notin FoundWrong
      /\ req[r].at # "idle" /\ UNCHANGED <<device, codes, tried, spent>>
      /\ TRUE \in BOOLEAN /\ FALSE \in BOOLEAN
  BY DEF ReactivateEnds, FoundWrong
<1>2. CASE record_failure(FALSE) /\ req' = Done(r) /\ UNCHANGED <<acct, sess, link>>
  BY <1>1, <1>2, WrongPassword
<1>3. CASE begin_pending(r, TRUE) /\ UNCHANGED acct
  BY <1>1, <1>3, BeginPendingKeeps
<1>4. CASE Reopens /\ Reopened /\ finish_sign_in(r, acct.pw, FALSE, TRUE)
  <2>1. acct.pw \in 0..MaxPasswords
    BY AccountEdits DEF SignInInv
  <2> QED
    BY <1>1, <1>4, <2>1, FinishKeeps
<1>5. CASE req' = Done(r) /\ UNCHANGED <<acct, sess, failures, mails, link>>
  BY <1>1, <1>5, AccountEdits, DoneStep DEF SignInInv, BlockedStaysClosed
<1> QED
  BY <1>2, <1>3, <1>4, <1>5 DEF ReactivateEnds

\* check_code: what passes is above every step that was accepted, and becomes the last.
LEMMA CheckCodeKeeps ==
    ASSUME SignInInv, NEW r \in Requests, CheckCode(r)
    PROVE  SignInInv' /\ Promises
<1> DEFINE code == req[r].code
           kind == req[r].kind
           totp == device.on /\ MatchingStep(code)
           backup == device.on /\ code.kind = "backup" /\ code.step \in codes
           good == totp \/ backup
           off == kind = "disable" /\ ~mfa_required /\ (totp \/ backup)
<1>1. /\ req[r].at = "arrived" /\ kind \in CodeKinds /\ Decided(r, good)
      /\ device' = IF off THEN [on |-> FALSE, last |-> -2]
                   ELSE IF totp THEN [device EXCEPT !.last = code.step] ELSE device
      /\ codes' = IF off THEN {}
                  ELSE IF kind = "recovery" /\ (totp \/ backup) THEN Backups
                  ELSE IF backup THEN codes \ {code.step} ELSE codes
      /\ spent' = IF off THEN {} ELSE IF totp THEN spent \cup {code.step} ELSE spent
      /\ tried' = IF good THEN tried ELSE tried + 1
      /\ UNCHANGED <<acct, failures, link, sess, mails>>
  BY DEF CheckCode, CodeKinds
<1>2. totp => code.kind = "totp" /\ code.step \in Steps /\ code.step > device.last
  BY DEF MatchingStep
<1>3. good => code.kind # "totp" \/ totp
  OBVIOUS
<1>4. good \in BOOLEAN
  BY SMT
<1> HIDE DEF totp, backup, off, code, kind
<1>5. AccountInv'
  <2>1. device \in [on : BOOLEAN, last : -2..1] /\ codes \subseteq Backups
        /\ spent \subseteq Steps /\ \A step \in spent : step <= device.last
    BY DEF SignInInv, AccountInv
  <2>2. codes' \subseteq Backups
    BY <1>1, <2>1
  <2>3. CASE off
    <3>1. device' \in [on : BOOLEAN, last : -2..1] /\ spent' = {}
      BY <1>1, <2>3
    <3> QED
      BY <1>1, <2>2, <3>1 DEF SignInInv, AccountInv, AccountRows, RoleKinds
  <2>4. CASE ~off /\ totp
    <3>1. device' = [device EXCEPT !.last = code.step] /\ spent' = spent \cup {code.step}
      BY <1>1, <2>4
    <3>2. device' \in [on : BOOLEAN, last : -2..1] /\ device'.last = code.step
      BY <1>2, <2>1, <2>4, <3>1 DEF Steps
    <3>3. spent' \subseteq Steps /\ \A step \in spent' : step <= device'.last
      BY <1>2, <2>1, <2>4, <3>1, <3>2 DEF Steps
    <3> QED
      BY <1>1, <2>2, <3>2, <3>3 DEF SignInInv, AccountInv, AccountRows, RoleKinds
  <2>5. CASE ~off /\ ~totp
    <3>1. device' = device /\ spent' = spent
      BY <1>1, <2>5
    <3> QED
      BY <1>1, <2>1, <2>2, <3>1 DEF SignInInv, AccountInv, AccountRows, RoleKinds
  <2> QED
    BY <2>3, <2>4, <2>5
<1> HIDE DEF good
<1>6. /\ SessionsInv'
      /\ req'[r].at = "decided" /\ req'[r].kind = req[r].kind /\ req'[r].good = good
      /\ \A o \in Requests : o # r => KeptRequest(o)
  BY <1>1, <1>4, DecidedKeeps DEF SignInInv, kind
<1>7. CountInv'
  BY <1>1, <1>6, DecidedCounts DEF SignInInv, kind
<1>8. CodeOnce
  <2>1. \A step \in spent : step \in Steps /\ step <= device.last
    BY DEF SignInInv, AccountInv
  <2>2. device.last \in -2..1
    BY DEF SignInInv, AccountInv
  <2>3. good /\ code.kind = "totp" => code.step \notin spent
    BY <1>2, <1>3, <2>1, <2>2 DEF Steps
  <2> QED
    BY <1>6, <2>3 DEF CodeOnce, KeptRequest, code
<1>9. BlockedStaysClosed
  BY <1>1 DEF BlockedStaysClosed
<1> QED
  BY <1>5, <1>6, <1>7, <1>8, <1>9 DEF SignInInv, Promises

\* confirm_enrollment: a device of its own, whose first step is the one it was confirmed by.
LEMMA ConfirmKeeps ==
    ASSUME SignInInv, NEW r \in Requests, confirm_enrollment(r)
    PROVE  SignInInv' /\ Promises
<1> DEFINE step == req[r].code.step
           good == req[r].code.kind = "totp" /\ step \in Steps
<1>1. /\ req[r].at = "arrived" /\ req[r].kind \in {"mfaEnroll", "enroll"} /\ Decided(r, good)
      /\ device' = (IF good THEN [on |-> TRUE, last |-> step] ELSE device)
      /\ codes' = (IF good THEN Backups ELSE codes)
      /\ spent' = (IF good THEN {step} ELSE spent)
      /\ tried' = (IF good THEN tried ELSE tried + 1)
      /\ UNCHANGED <<acct, failures, link, sess, mails>>
  BY DEF confirm_enrollment
<1>2. good \in BOOLEAN /\ (good => step \in Steps)
  BY SMT
<1> HIDE DEF good, step
<1>3. /\ SessionsInv'
      /\ req'[r].at = "decided" /\ req'[r].kind = req[r].kind /\ req'[r].good = good
      /\ \A o \in Requests : o # r => KeptRequest(o)
  BY <1>1, <1>2, DecidedKeeps DEF SignInInv, CodeKinds
<1>4. CountInv'
  BY <1>1, <1>3, DecidedCounts DEF SignInInv, CodeKinds
<1>5. AccountInv'
  <2>1. CASE good
    <3>1. device' \in [on : BOOLEAN, last : -2..1] /\ device'.last = step
      BY <1>1, <1>2, <2>1 DEF Steps
    <3>2. spent' \subseteq Steps /\ \A s \in spent' : s <= device'.last
      BY <1>1, <1>2, <2>1, <3>1 DEF Steps
    <3> QED
      BY <1>1, <2>1, <3>1, <3>2 DEF SignInInv, AccountInv, AccountRows, RoleKinds
  <2>2. CASE ~good
    BY <1>1, <2>2 DEF SignInInv, AccountInv, AccountRows, RoleKinds
  <2> QED
    BY <2>1, <2>2
<1>6. Promises
  BY <1>1, <1>3 DEF Promises, CodeOnce, BlockedStaysClosed, KeptRequest
<1> QED
  BY <1>3, <1>4, <1>5, <1>6 DEF SignInInv

\* A code is not looked at.
LEMMA NotLookedAtKeeps ==
    ASSUME SignInInv, NEW r \in Requests, NotOn(r) \/ AlreadyOn(r)
    PROVE  SignInInv' /\ Promises
<1>1. /\ r \notin FoundWrong /\ req' = Done(r)
      /\ UNCHANGED <<acct, device, codes, failures, link, sess, tried, spent, mails>>
  BY DEF NotOn, AlreadyOn, FoundWrong
<1>2. acct' \in AccountRows /\ BlockedStaysClosed
  BY <1>1, AccountEdits DEF SignInInv, BlockedStaysClosed
<1> QED
  BY <1>1, <1>2, DoneStep

\* A wrong code is counted for the account, and for the sign-in that waits for it.
LEMMA WrongCodeKeeps ==
    ASSUME SignInInv, NEW r \in Requests, WrongCode(r)
    PROVE  SignInInv' /\ Promises
<1> DEFINE p == req[r].data.pending
           next == IF p = NoPending \/ p.tries + 1 >= PendingTries THEN NoPending
                   ELSE [p EXCEPT !.tries = p.tries + 1]
           data == [req[r].data EXCEPT !.pending = next]
<1>1. req[r].data \in Data /\ Sound(req[r].data) /\ p \in Pendings
  BY DEF SignInInv, SessionsInv, RequestRows, SoundRequest, Data
<1>2. /\ req[r].at = "decided" /\ r \in FoundWrong /\ record_failure(TRUE)
      /\ UNCHANGED <<acct, device, codes, link, tried, spent>>
      /\ Save(r, data) \/ (req' = Done(r) /\ sess' = sess)
  BY DEF WrongCode, FoundWrong
<1>3. next \in Pendings
  BY <1>1, IdleTypes DEF Pendings
<1> HIDE DEF next, p
<1>4. data \in Data /\ Sound(data)
  BY <1>1, <1>3, DataEdits
<1> HIDE DEF data
<1>5. /\ SessionsInv' /\ req'[r].at = "idle"
      /\ \A o \in Requests : o # r => KeptRequest(o)
  BY <1>2, <1>4, SaveKeeps, DoneKeeps DEF SignInInv
<1>6. CountInv'
  <2>1. TRUE \in BOOLEAN
    OBVIOUS
  <2> QED
    BY <1>2, <1>5, <2>1, FailureCounts DEF SignInInv
<1>7. AccountInv'
  BY <1>2, AccountEdits, AccountKept DEF SignInInv
<1>8. Promises
  BY <1>2, <1>5 DEF Promises, CodeOnce, BlockedStaysClosed, KeptRequest
<1> QED
  BY <1>5, <1>6, <1>7, <1>8 DEF SignInInv

\* A response that saves the session it loaded, edited, and does nothing else.
LEMMA SavedKeeps ==
    ASSUME SignInInv, NEW r \in Requests, req[r].at # "idle", r \notin FoundWrong,
           NEW data \in Data, Sound(data), Save(r, data) \/ SaveCycled(r, data),
           acct' \in AccountRows, BlockedStaysClosed,
           UNCHANGED <<device, codes, failures, link, tried, spent, mails>>
    PROVE  SignInInv' /\ Promises
<1>1. /\ SessionsInv' /\ req'[r].at = "idle"
      /\ \A o \in Requests : o # r => KeptRequest(o)
  BY SaveKeeps DEF SignInInv
<1>2. AccountInv'
  BY AccountEdits, AccountKept DEF SignInInv
<1> QED
  BY <1>1, <1>2, QuietEnd

\* _finish.
LEMMA FinishMfaKeeps ==
    ASSUME SignInInv, NEW r \in Requests, FinishMfa(r)
    PROVE  SignInInv' /\ Promises
<1>1. /\ req[r].at # "idle" /\ r \notin FoundWrong /\ UNCHANGED <<device, codes, tried, spent>>
      /\ TRUE \in BOOLEAN /\ FALSE \in BOOLEAN
  BY DEF FinishMfa, FoundWrong
<1>2. CASE Reopens /\ Reopened /\ finish_sign_in(r, acct.pw, TRUE, TRUE)
  <2>1. acct.pw \in 0..MaxPasswords
    BY AccountEdits DEF SignInInv
  <2> QED
    BY <1>1, <1>2, <2>1, FinishKeeps
<1>3. CASE /\ Save(r, [req[r].data EXCEPT !.pending = NoPending])
           /\ UNCHANGED <<acct, failures, mails, link>>
  <2> DEFINE data == [req[r].data EXCEPT !.pending = NoPending]
  <2>1. req[r].data \in Data /\ Sound(req[r].data)
    BY DEF SignInInv, SessionsInv, RequestRows, SoundRequest
  <2>2. data \in Data /\ Sound(data)
    BY <2>1, DataEdits, IdleTypes
  <2>3. Save(r, data)
    BY <1>3
  <2> HIDE DEF data
  <2>4. acct' \in AccountRows /\ BlockedStaysClosed
    BY <1>3, AccountEdits DEF SignInInv, BlockedStaysClosed
  <2> QED
    BY <1>1, <1>3, <2>2, <2>3, <2>4, SavedKeeps
<1>4. CASE finish_sign_in(r, req[r].pw, TRUE, FALSE) /\ UNCHANGED acct
  <2>1. req[r].pw \in 0..MaxPasswords
    BY DEF SignInInv, SessionsInv, RequestRows
  <2> QED
    BY <1>1, <1>4, <2>1, FinishKeeps
<1> QED
  BY <1>2, <1>3, <1>4 DEF FinishMfa

\* The operations of a signed-in session.
LEMMA CodeOperationKeeps ==
    ASSUME SignInInv, NEW r \in Requests, CodeOperationEnds(r)
    PROVE  SignInInv' /\ Promises
<1> DEFINE old == req[r].data
           marked == [old EXCEPT !.mark = TRUE]
           enrolled == [marked EXCEPT !.enroll = 0]
           unmarked == [old EXCEPT !.mark = FALSE]
<1>1. old \in Data /\ Sound(old)
  BY DEF SignInInv, SessionsInv, RequestRows, SoundRequest
<1>2. /\ req[r].at # "idle" /\ r \notin FoundWrong
      /\ UNCHANGED <<acct, device, codes, failures, link, tried, spent, mails>>
      /\ Save(r, enrolled) \/ Save(r, unmarked) \/ (req' = Done(r) /\ sess' = sess)
  BY <1>1 DEF CodeOperationEnds, FoundWrong, Data
<1>3. TRUE \in BOOLEAN /\ FALSE \in BOOLEAN /\ 0 \in 0..EnrollTicks
  BY SignInBounds
<1>4. marked \in Data /\ Sound(marked) /\ unmarked \in Data /\ Sound(unmarked)
  BY <1>1, <1>3, DataEdits
<1> HIDE DEF marked, unmarked
<1>5. enrolled \in Data /\ Sound(enrolled)
  BY <1>3, <1>4, DataEdits
<1> HIDE DEF enrolled
<1>6. acct' \in AccountRows /\ BlockedStaysClosed
  BY <1>2, AccountEdits DEF SignInInv, BlockedStaysClosed
<1> QED
  BY <1>2, <1>4, <1>5, <1>6, SavedKeeps, DoneStep

\* The account's row with the next password.
LEMMA NextPassword ==
    ASSUME AccountInv, acct.pw < MaxPasswords, NEW usable \in BOOLEAN, NEW active \in BOOLEAN
    PROVE  LET row1 == [acct EXCEPT !.pw = acct.pw + 1]
               row2 == [row1 EXCEPT !.usable = usable]
               row3 == [row2 EXCEPT !.active = active]
           IN  /\ row2 \in AccountRows /\ row2.blocked = acct.blocked /\ row2.active = acct.active
               /\ row3 \in AccountRows /\ row3.blocked = acct.blocked /\ row3.active = active
               /\ acct.pw + 1 \in 1..MaxPasswords /\ acct.pw + 1 \in 0..MaxPasswords
<1> DEFINE row1 == [acct EXCEPT !.pw = acct.pw + 1]
           row2 == [row1 EXCEPT !.usable = usable]
           row3 == [row2 EXCEPT !.active = active]
<1>1. acct \in AccountRows /\ acct.pw + 1 \in 1..MaxPasswords /\ acct.pw + 1 \in 0..MaxPasswords
  BY SignInBounds DEF AccountInv, AccountRows
<1>2. row1 \in AccountRows /\ row1.blocked = acct.blocked /\ row1.active = acct.active
  BY <1>1 DEF AccountRows
<1> HIDE DEF row1
<1>3. row2 \in AccountRows /\ row2.blocked = acct.blocked /\ row2.active = acct.active
  BY <1>2 DEF AccountRows
<1> HIDE DEF row2
<1>4. row3 \in AccountRows /\ row3.blocked = acct.blocked /\ row3.active = active
  BY <1>3 DEF AccountRows
<1> HIDE DEF row3
<1>5. /\ row2 \in AccountRows /\ row2.blocked = acct.blocked /\ row2.active = acct.active
      /\ row3 \in AccountRows /\ row3.blocked = acct.blocked /\ row3.active = active
      /\ acct.pw + 1 \in 1..MaxPasswords /\ acct.pw + 1 \in 0..MaxPasswords
  BY <1>1, <1>3, <1>4
<1> QED
  BY <1>5 DEF row1, row2, row3

\* PasswordChangeView: the session goes on with the password it set.
LEMMA PasswordChangeKeeps ==
    ASSUME SignInInv, NEW r \in Requests, PasswordChangeEnds(r)
    PROVE  SignInInv' /\ Promises
<1> DEFINE d == req[r].data
           d1 == [d EXCEPT !.auth = acct.pw + 1]
           d2 == [d1 EXCEPT !.proved = acct.pw + 1]
           row1 == [acct EXCEPT !.pw = acct.pw + 1]
           row2 == [row1 EXCEPT !.usable = TRUE]
<1>1. /\ req[r].at # "idle" /\ r \notin FoundWrong /\ d \in Data /\ acct \in AccountRows
      /\ UNCHANGED <<device, codes, failures, link, tried, spent, mails>>
  BY DEF PasswordChangeEnds, FoundWrong, SignInInv, SessionsInv, RequestRows, AccountInv
<1>2. CASE replace_password(r)
  <2>1. acct.pw < MaxPasswords /\ acct.pw = req[r].pw
    BY <1>2 DEF replace_password
  <2>2. acct' = row2 /\ SaveCycled(r, d2)
    <3>1. /\ acct' = [acct EXCEPT !.pw = acct.pw + 1, !.usable = TRUE]
          /\ SaveCycled(r, [d EXCEPT !.auth = acct.pw + 1, !.proved = acct.pw + 1])
      BY <1>2, <2>1 DEF PasswordChangeEnds
    <3>2. row2 = [acct EXCEPT !.pw = acct.pw + 1, !.usable = TRUE]
      BY <1>1 DEF AccountRows
    <3>3. d2 = [d EXCEPT !.auth = acct.pw + 1, !.proved = acct.pw + 1]
      BY <1>1 DEF Data
    <3> HIDE DEF d, row2, d2
    <3> QED
      BY <3>1, <3>2, <3>3
  <2>3. /\ row2 \in AccountRows /\ row2.blocked = acct.blocked /\ row2.active = acct.active
        /\ acct.pw + 1 \in 0..MaxPasswords
    BY <2>1, NextPassword DEF SignInInv
  <2> HIDE DEF row2
  <2>4. d1 \in Data /\ d1.auth = acct.pw + 1
    BY <1>1, <2>3 DEF Data
  <2> HIDE DEF d1
  <2>5. d2 \in Data /\ Sound(d2)
    BY <2>3, <2>4 DEF Data, Sound
  <2> HIDE DEF d2
  <2>6. acct' \in AccountRows /\ BlockedStaysClosed
    BY <2>2, <2>3 DEF BlockedStaysClosed
  <2> QED
    BY <1>1, <2>2, <2>5, <2>6, SavedKeeps
<1>3. CASE ~replace_password(r)
  <2>1. req' = Done(r) /\ UNCHANGED <<acct, sess>>
    BY <1>3 DEF PasswordChangeEnds
  <2> QED
    BY <1>1, <2>1, DoneStep DEF BlockedStaysClosed
<1> QED
  BY <1>2, <1>3

\* PasswordResetConfirmView: a blocked account stays closed.
LEMMA PasswordResetKeeps ==
    ASSUME SignInInv, NEW r \in Requests, PasswordResetConfirmEnds(r)
    PROVE  SignInInv' /\ Promises
<1> DEFINE active == acct.active \/ ~req[r].active
           row1 == [acct EXCEPT !.pw = acct.pw + 1]
           row2 == [row1 EXCEPT !.usable = TRUE]
           row3 == [row2 EXCEPT !.active = active]
<1>1. /\ r \notin FoundWrong /\ req' = Done(r) /\ acct \in AccountRows
      /\ UNCHANGED <<device, codes, failures, link, sess, tried, spent, mails>>
  BY DEF PasswordResetConfirmEnds, FoundWrong, SignInInv, AccountInv
<1>2. CASE replace_password(r) /\ (req[r].active \/ acct.active \/ Reopens)
  <2>1. acct' = row3
    BY <1>1, <1>2 DEF PasswordResetConfirmEnds, AccountRows
  <2>2. active \in BOOLEAN /\ TRUE \in BOOLEAN
    BY SMT
  <2>3. acct.blocked /\ ~acct.active => ~active
    <3>1. acct.blocked => ~Reopens
      BY DEF Reopens
    <3> QED
      BY <1>2, <3>1
  <2> HIDE DEF active
  <2>4. row3 \in AccountRows /\ row3.active = active
    BY <1>2, <2>2, NextPassword DEF SignInInv, replace_password
  <2> QED
    BY <1>1, <2>1, <2>3, <2>4, DoneStep DEF BlockedStaysClosed
<1>3. CASE ~(replace_password(r) /\ (req[r].active \/ acct.active \/ Reopens))
  <2>1. acct' = acct
    BY <1>3 DEF PasswordResetConfirmEnds
  <2> QED
    BY <1>1, <2>1, DoneStep DEF BlockedStaysClosed
<1> QED
  BY <1>2, <1>3

\* Every step of a request.
LEMMA RequestStepKeeps ==
    ASSUME SignInInv, NEW r \in Requests, RequestStep(r)
    PROVE  SignInInv' /\ Promises
  BY LoginEndsKeeps, ReactivateEndsKeeps, CheckCodeKeeps, ConfirmKeeps, NotLookedAtKeeps,
     WrongCodeKeeps, FinishMfaKeeps, CodeOperationKeeps, PasswordChangeKeeps, PasswordResetKeeps
     DEF RequestStep

\* A request arrives.
LEMMA ArrivalKeeps ==
    ASSUME SignInInv, NEW r \in Requests, NEW b \in Browsers,
           NEW kind \in {"login", "reactivate", "password", "reset"} \cup CodeKinds,
           NEW code \in Typed, NEW good \in BOOLEAN, Arrive(r, b, kind, code, good),
           kind \in {"mfa", "mfaEnroll"} => sess[b].pending.pw = acct.pw,
           kind \in {"password", "reset"} \/ ~lockout_wait
    PROVE  SignInInv' /\ Promises
<1>1. UNCHANGED <<acct, device, codes, failures, link, sess, tried, spent, mails>>
  BY DEF Arrive
<1>2. /\ SessionsInv' /\ req[r].at = "idle"
      /\ req'[r].at = "arrived" /\ req'[r].kind = kind
      /\ \A o \in Requests : o # r => KeptRequest(o)
  BY ArriveKeeps DEF SignInInv
<1>3. CountInv'
  BY <1>1, <1>2, ArriveCounts DEF SignInInv
<1>4. AccountInv'
  BY <1>1, AccountEdits, AccountKept DEF SignInInv
<1>5. Promises
  BY <1>1, <1>2 DEF Promises, CodeOnce, BlockedStaysClosed, KeptRequest
<1> QED
  BY <1>2, <1>3, <1>4, <1>5 DEF SignInInv

\* Every arrival: its guard is the lockout, where a failure would be counted.
LEMMA BrowserStepKeeps ==
    ASSUME SignInInv, NEW r \in Requests, NEW b \in Browsers, BrowserStep(r, b)
    PROVE  SignInInv' /\ Promises
<1>1. /\ NoCode \in Typed /\ CodesTyped \subseteq Typed /\ TRUE \in BOOLEAN /\ FALSE \in BOOLEAN
  BY CodesAreTyped DEF NoCode, Typed
<1>2. ASSUME NEW right \in BOOLEAN, Login(r, b, right) \/ ReactivateView(r, b, right)
      PROVE  SignInInv' /\ Promises
  <2>1. ~lockout_wait
    BY <1>2 DEF Login, ReactivateView
  <2>2. CASE Arrive(r, b, "login", NoCode, right)
    BY <1>1, <2>1, <2>2, ArrivalKeeps
  <2>3. CASE Arrive(r, b, "reactivate", NoCode, right)
    BY <1>1, <2>1, <2>3, ArrivalKeeps
  <2> QED
    BY <1>2, <2>2, <2>3 DEF Login, ReactivateView
<1>3. ASSUME NEW code \in CodesTyped, LoginMfa(r, b, code) \/ LoginMfaEnrollConfirm(r, b, code)
      PROVE  SignInInv' /\ Promises
  <2>1. code \in Typed /\ ~lockout_wait /\ sess[b].pending.pw = acct.pw
    BY <1>1, <1>3 DEF LoginMfa, LoginMfaEnrollConfirm, PendingOk
  <2>2. CASE Arrive(r, b, "mfa", code, FALSE)
    BY <1>1, <2>1, <2>2, ArrivalKeeps DEF CodeKinds
  <2>3. CASE Arrive(r, b, "mfaEnroll", code, FALSE)
    BY <1>1, <2>1, <2>3, ArrivalKeeps DEF CodeKinds
  <2> QED
    BY <1>3, <2>2, <2>3 DEF LoginMfa, LoginMfaEnrollConfirm
<1>4. ASSUME NEW code \in CodesTyped,
             \/ MfaEnrollConfirm(r, b, code) \/ MfaRecoveryCodes(r, b, code)
             \/ MfaDisable(r, b, code)
      PROVE  SignInInv' /\ Promises
  <2>1. code \in Typed /\ ~lockout_wait
    BY <1>1, <1>4 DEF MfaEnrollConfirm, MfaRecoveryCodes, MfaDisable
  <2>2. CASE Arrive(r, b, "enroll", code, FALSE)
    BY <1>1, <2>1, <2>2, ArrivalKeeps DEF CodeKinds
  <2>3. CASE Arrive(r, b, "recovery", code, FALSE)
    BY <1>1, <2>1, <2>3, ArrivalKeeps DEF CodeKinds
  <2>4. CASE Arrive(r, b, "disable", code, FALSE)
    BY <1>1, <2>1, <2>4, ArrivalKeeps DEF CodeKinds
  <2> QED
    BY <1>4, <2>2, <2>3, <2>4 DEF MfaEnrollConfirm, MfaRecoveryCodes, MfaDisable
<1>5. CASE PasswordChangeView(r, b) \/ PasswordResetConfirmView(r, b)
  <2>1. CASE Arrive(r, b, "password", NoCode, TRUE)
    BY <1>1, <2>1, ArrivalKeeps
  <2>2. CASE Arrive(r, b, "reset", NoCode, TRUE)
    BY <1>1, <2>2, ArrivalKeeps
  <2> QED
    BY <1>5, <2>1, <2>2 DEF PasswordChangeView, PasswordResetConfirmView
<1> QED
  BY <1>2, <1>3, <1>4, <1>5 DEF BrowserStep

\* One browser's session changes, and no request.
LEMMA SessionEdited ==
    ASSUME SignInInv, NEW b \in Browsers, NEW d \in Data, Sound(d), sess' = [sess EXCEPT ![b] = d],
           UNCHANGED <<acct, device, codes, failures, link, req, tried, spent, mails>>
    PROVE  SignInInv' /\ Promises
<1>1. SessionsInv'
  <2>1. sess' \in [Browsers -> Data] /\ \A c \in Browsers : Sound(sess'[c])
    BY DEF SignInInv, SessionsInv
  <2>2. req' \in [Requests -> RequestRows] /\ \A r \in Requests : SoundRequest(req'[r])
    BY DEF SignInInv, SessionsInv
  <2> QED
    BY <2>1, <2>2 DEF SessionsInv, RequestRows, Data, Pendings, Typed, Sound, SoundRequest
<1>2. AccountInv' /\ BlockedStaysClosed
  BY AccountEdits, AccountKept DEF SignInInv, BlockedStaysClosed
<1>3. \A o \in Requests : KeptRequest(o)
  BY DEF KeptRequest
<1> QED
  BY <1>1, <1>2, <1>3, QuietStep

\* Sessions that are ended, whatever the account's row becomes.
LEMMA EndedStep ==
    ASSUME SignInInv, end_sessions \/ (\E b \in Browsers : Flush(b)),
           acct' \in AccountRows, BlockedStaysClosed,
           UNCHANGED <<device, codes, failures, link, tried, spent, mails>>
    PROVE  SignInInv' /\ Promises
<1>1. SessionsInv' /\ \A o \in Requests : KeptRequest(o)
  BY EndedKeeps DEF SignInInv
<1>2. AccountInv'
  BY AccountEdits, AccountKept DEF SignInInv
<1> QED
  BY <1>1, <1>2, QuietStep

\* Every step of one browser's session.
LEMMA SessionStepKeeps ==
    ASSUME SignInInv, NEW b \in Browsers, SessionStep(b)
    PROVE  SignInInv' /\ Promises
<1>1. sess[b] \in Data /\ Sound(sess[b]) /\ sess \in [Browsers -> Data]
  BY DEF SignInInv, SessionsInv
<1>2. NoPending \in Pendings /\ EnrollTicks \in 0..EnrollTicks
  BY IdleTypes, SignInBounds
<1>3. CASE DropPending(b)
  <2> DEFINE d == [sess[b] EXCEPT !.pending = NoPending]
  <2>1. d \in Data /\ Sound(d)
    BY <1>1, <1>2, DataEdits
  <2>2. sess' = [sess EXCEPT ![b] = d]
    BY <1>1, <1>3 DEF DropPending
  <2> HIDE DEF d
  <2> QED
    BY <1>3, <2>1, <2>2, SessionEdited DEF DropPending
<1>4. CASE LoginMfaEnroll(b) \/ MfaEnroll(b)
  <2> DEFINE d == [sess[b] EXCEPT !.enroll = EnrollTicks]
  <2>1. d \in Data /\ Sound(d)
    BY <1>1, <1>2, DataEdits
  <2>2. sess' = [sess EXCEPT ![b] = d]
    BY <1>1, <1>4 DEF LoginMfaEnroll, MfaEnroll
  <2> HIDE DEF d
  <2> QED
    BY <1>4, <2>1, <2>2, SessionEdited DEF LoginMfaEnroll, MfaEnroll
<1>5. CASE MfaSessionMiddleware(b) \/ Logout(b)
  <2>1. Flush(b) /\ UNCHANGED <<acct, device, codes, failures, link, tried, spent, mails>>
    BY <1>5 DEF MfaSessionMiddleware, Logout
  <2>2. acct' \in AccountRows /\ BlockedStaysClosed
    BY <2>1, AccountEdits DEF SignInInv, BlockedStaysClosed
  <2> QED
    BY <2>1, <2>2, EndedStep
<1> QED
  BY <1>3, <1>4, <1>5 DEF SessionStep

\* What an administrator or the owner may make of the account's row.
LEMMA RowEdits ==
    ASSUME NEW row \in AccountRows
    PROVE  /\ \A x \in BOOLEAN : [row EXCEPT !.active = x] \in AccountRows
           /\ \A x \in BOOLEAN : [row EXCEPT !.blocked = x] \in AccountRows
           /\ \A x \in RoleKinds : [row EXCEPT !.role = x] \in AccountRows
<1>1. \A x \in BOOLEAN : [row EXCEPT !.active = x] \in AccountRows
  BY DEF AccountRows
<1>2. \A x \in BOOLEAN : [row EXCEPT !.blocked = x] \in AccountRows
  BY DEF AccountRows
<1>3. \A x \in RoleKinds : [row EXCEPT !.role = x] \in AccountRows
  BY DEF AccountRows
<1> QED
  BY <1>1, <1>2, <1>3

\* The account's row is edited, and no session.
LEMMA RowStep ==
    ASSUME SignInInv, acct' \in AccountRows, BlockedStaysClosed, link' \in 0..MaxPasswords,
           UNCHANGED <<device, codes, failures, sess, req, tried, spent, mails>>
    PROVE  SignInInv' /\ Promises
<1>1. SessionsInv' /\ \A o \in Requests : KeptRequest(o)
  BY DEF SignInInv, SessionsInv, RequestRows, Data, Pendings, Typed, Sound, SoundRequest,
         KeptRequest
<1>2. AccountInv'
  BY AccountKept DEF SignInInv
<1> QED
  BY <1>1, <1>2, QuietStep

\* deactivate_for, block_for and the owner's own request end the sessions.
LEMMA ClosingKeeps ==
    ASSUME SignInInv, (\E b \in Browsers : DeactivateView(b)) \/ DeactivateFor \/ BlockFor
    PROVE  SignInInv' /\ Promises
<1> DEFINE closed == [acct EXCEPT !.active = FALSE]
           shut == [closed EXCEPT !.blocked = TRUE]
<1>1. acct \in AccountRows /\ FALSE \in BOOLEAN /\ TRUE \in BOOLEAN /\ link \in 0..MaxPasswords
  BY DEF SignInInv, AccountInv
<1>2. closed \in AccountRows /\ closed.active = FALSE
  BY <1>1, RowEdits DEF AccountRows
<1>3. CASE (\E b \in Browsers : DeactivateView(b)) \/ DeactivateFor
  <2>1. /\ acct' = closed /\ (end_sessions \/ (\E b \in Browsers : Flush(b)))
        /\ UNCHANGED <<device, codes, failures, link, tried, spent, mails>>
    BY <1>3 DEF DeactivateView, DeactivateFor
  <2> QED
    BY <1>2, <2>1, EndedStep DEF BlockedStaysClosed
<1>4. CASE BlockFor
  <2>1. /\ acct' = shut /\ (end_sessions \/ UNCHANGED <<sess, req>>)
        /\ UNCHANGED <<device, codes, failures, link, tried, spent, mails>>
    BY <1>1, <1>4 DEF BlockFor, AccountRows
  <2> HIDE DEF closed
  <2>2. shut \in AccountRows /\ shut.active = FALSE
    BY <1>1, <1>2, RowEdits DEF AccountRows
  <2> HIDE DEF shut
  <2> QED
    BY <1>1, <2>1, <2>2, EndedStep, RowStep DEF BlockedStaysClosed
<1> QED
  BY <1>3, <1>4

\* reactivate_for, unblock_for, set_role and a reset link leave the sessions alone.
LEMMA OpeningKeeps ==
    ASSUME SignInInv, ReactivateFor \/ UnblockFor \/ SetRole \/ send_password_reset_email
    PROVE  SignInInv' /\ Promises
<1>1. /\ acct \in AccountRows /\ FALSE \in BOOLEAN /\ TRUE \in BOOLEAN /\ link \in 0..MaxPasswords
      /\ acct.pw \in 0..MaxPasswords
  BY AccountEdits DEF SignInInv
<1>2. CASE ReactivateFor
  BY <1>1, <1>2, RowEdits, RowStep DEF ReactivateFor, Reopens, Reopened, BlockedStaysClosed
<1>3. CASE UnblockFor
  <2>1. [acct EXCEPT !.blocked = FALSE].blocked = FALSE
    BY <1>1 DEF AccountRows
  <2> QED
    BY <1>1, <1>3, <2>1, RowEdits, RowStep DEF UnblockFor, BlockedStaysClosed
<1>4. CASE SetRole
  <2>1. PICK role \in RoleKinds : acct' = [acct EXCEPT !.role = role]
    BY <1>4 DEF SetRole
  <2>2. acct' \in AccountRows /\ acct'.active = acct.active
    BY <1>1, <2>1, RowEdits DEF AccountRows
  <2> QED
    BY <1>1, <1>4, <2>2, RowStep DEF SetRole, BlockedStaysClosed
<1>5. CASE send_password_reset_email
  BY <1>1, <1>5, RowStep DEF send_password_reset_email, BlockedStaysClosed
<1> QED
  BY <1>2, <1>3, <1>4, <1>5

\* clear_password_and_end_sessions.
LEMMA RequireNewPasswordKeeps ==
    ASSUME SignInInv, RequireNewPasswordFor
    PROVE  SignInInv' /\ Promises
<1> DEFINE row1 == [acct EXCEPT !.pw = acct.pw + 1]
           row2 == [row1 EXCEPT !.usable = FALSE]
<1>1. /\ acct.pw < MaxPasswords /\ acct' = row2 /\ end_sessions
      /\ UNCHANGED <<device, codes, failures, link, tried, spent, mails>>
  BY DEF RequireNewPasswordFor, SignInInv, AccountInv, AccountRows
<1>2. FALSE \in BOOLEAN
  OBVIOUS
<1>3. row2 \in AccountRows /\ row2.blocked = acct.blocked /\ row2.active = acct.active
  BY <1>1, <1>2, NextPassword DEF SignInInv
<1> HIDE DEF row2
<1> QED
  BY <1>1, <1>3, EndedStep DEF BlockedStaysClosed

\* reset_two_factor_for: nothing was spent of the device that comes next.
LEMMA ResetTwoFactorKeeps ==
    ASSUME SignInInv, ResetTwoFactorFor
    PROVE  SignInInv' /\ Promises
<1>1. /\ device' = [on |-> FALSE, last |-> -2] /\ codes' = {} /\ spent' = {} /\ end_sessions
      /\ UNCHANGED <<acct, failures, link, tried, mails>>
  BY DEF ResetTwoFactorFor
<1>2. SessionsInv' /\ \A o \in Requests : KeptRequest(o)
  BY <1>1, EndedKeeps DEF SignInInv
<1>3. AccountInv'
  <2>1. device' \in [on : BOOLEAN, last : -2..1]
    BY <1>1
  <2> QED
    BY <1>1, <2>1 DEF SignInInv, AccountInv, AccountRows, RoleKinds
<1>4. BlockedStaysClosed
  BY <1>1 DEF BlockedStaysClosed
<1> QED
  BY <1>1, <1>2, <1>3, <1>4, QuietStep

\* The clear_lockout command.
LEMMA ClearingKeeps ==
    ASSUME SignInInv, clear_all_failures
    PROVE  SignInInv' /\ Promises
<1>1. UNCHANGED <<acct, device, codes, link, sess, req, spent, mails>>
  BY DEF clear_all_failures
<1>2. CountInv'
  BY ClearCounts DEF SignInInv
<1>3. SessionsInv'
  BY <1>1 DEF SignInInv, SessionsInv, RequestRows, Data, Pendings, Typed, Sound, SoundRequest
<1>4. AccountInv'
  BY <1>1, AccountEdits, AccountKept DEF SignInInv
<1>5. Promises
  BY <1>1 DEF Promises, CodeOnce, BlockedStaysClosed
<1> QED
  BY <1>2, <1>3, <1>4, <1>5 DEF SignInInv

\* Every step of the owner's and of the administrators.
LEMMA OfficeStepKeeps ==
    ASSUME SignInInv, OfficeStep
    PROVE  SignInInv' /\ Promises
  BY ClosingKeeps, OpeningKeeps, RequireNewPasswordKeeps, ResetTwoFactorKeeps, ClearingKeeps
     DEF OfficeStep

\* Time: the steps that were accepted grow older with the device's last.
LEMMA TickKeeps ==
    ASSUME SignInInv, Tick
    PROVE  SignInInv' /\ Promises
<1>1. SessionsInv' /\ \A o \in Requests : KeptRequest(o)
  BY TickKeepsSessions DEF SignInInv
<1>2. CountInv'
  BY <1>1, TickCounts DEF SignInInv
<1>3. /\ device \in [on : BOOLEAN, last : -2..1] /\ spent \subseteq Steps
      /\ \A step \in spent : step <= device.last
  BY DEF SignInInv, AccountInv
<1>4. /\ device' = [device EXCEPT !.last = OlderStep(device.last)]
      /\ spent' = {OlderStep(s) : s \in spent} \ {-2} /\ UNCHANGED <<acct, codes, link>>
  BY <1>3 DEF Tick
<1>5. device' \in [on : BOOLEAN, last : -2..1] /\ device'.last = OlderStep(device.last)
  <2>1. OlderStep(device.last) \in -2..1
    BY <1>3 DEF OlderStep
  <2> QED
    BY <1>3, <1>4, <2>1
<1>6. ASSUME NEW t \in spent'
      PROVE  t \in Steps /\ t <= device'.last
  <2>1. PICK s \in spent : t = OlderStep(s) /\ t # -2
    BY <1>4, <1>6
  <2>2. s \in Steps /\ s <= device.last /\ device.last \in -2..1
    BY <1>3, <2>1
  <2> QED
    BY <1>5, <2>1, <2>2 DEF OlderStep, Steps
<1>7. AccountInv'
  BY <1>4, <1>5, <1>6 DEF SignInInv, AccountInv, AccountRows, RoleKinds, Steps
<1>8. Promises
  BY <1>1, <1>4 DEF Promises, CodeOnce, BlockedStaysClosed, KeptRequest
<1> QED
  BY <1>1, <1>2, <1>7, <1>8 DEF SignInInv

\* Every step keeps the invariant and the promises of single steps.
LEMMA SignInStep ==
    ASSUME SignInInv, [SignInNext]_signInVars
    PROVE  SignInInv' /\ Promises
<1>1. CASE UNCHANGED signInVars
  <2>1. /\ UNCHANGED <<acct, device, codes, failures, link, sess, req, tried, spent, mails>>
        /\ acct' \in AccountRows /\ link' \in 0..MaxPasswords
    BY <1>1 DEF signInVars, SignInInv, AccountInv
  <2> QED
    BY <2>1, RowStep DEF BlockedStaysClosed
<1> QED
  BY <1>1, TickKeeps, RequestStepKeeps, SessionStepKeeps, BrowserStepKeeps, OfficeStepKeeps
     DEF SignInNext

\* At the beginning nothing was counted or spent, and at most a sign-in waits.
LEMMA SignInStart == SignInInit => SignInInv
<1> SUFFICES ASSUME SignInInit PROVE SignInInv
  OBVIOUS
<1>1. Waiting \in Data /\ Sound(Waiting)
  <2> DEFINE p == [left |-> PendingTicks, pw |-> 1, tries |-> 0, again |-> FALSE]
  <2>1. p \in Pendings
    BY SignInBounds DEF Pendings
  <2> HIDE DEF p
  <2>2. Waiting = [Anonymous EXCEPT !.pending = p]
    BY DEF Waiting, p
  <2> QED
    BY <2>1, <2>2, IdleTypes, DataEdits
<1>2. SessionsInv
  <2>1. sess \in [Browsers -> Data] /\ \A b \in Browsers : Sound(sess[b])
    BY <1>1, IdleTypes DEF SignInInit
  <2>2. req \in [Requests -> RequestRows] /\ \A r \in Requests : SoundRequest(req[r])
    BY IdleTypes DEF SignInInit
  <2> QED
    BY <2>1, <2>2 DEF SessionsInv
<1>3. AccountInv
  <2>1. PICK active \in BOOLEAN, blocked \in BOOLEAN, role \in {"member", "staff"} :
           acct = [pw |-> 1, usable |-> TRUE, active |-> active, blocked |-> blocked, role |-> role]
    BY DEF SignInInit
  <2>2. acct \in AccountRows
    BY <2>1, SignInBounds DEF AccountRows, RoleKinds
  <2>3. device \in [on : BOOLEAN, last : -2..1] /\ codes \subseteq Backups /\ link = 0 /\ spent = {}
    BY DEF SignInInit
  <2> QED
    BY <2>2, <2>3, SignInBounds DEF AccountInv
<1>4. CountInv
  <2>1. Guessing = {} /\ CodeTrying = {} /\ FoundWrong = {}
    BY DEF SignInInit, Guessing, CodeTrying, FoundWrong, IdleRequest
  <2>2. Cardinality({}) = 0 /\ Cardinality(Requests) \in Nat
    BY FS_EmptySet, Sizes
  <2>3. NoRow \in FailureRow /\ NoRow.count = 0 /\ NoRow.left = 0
    BY DEF NoRow, FailureRow
  <2>4. /\ failures \in [short : FailureRow, code : FailureRow, notice : FailureRow]
        /\ failures.short = NoRow /\ failures.code = NoRow /\ tried = 0 /\ mails = 0
    BY <2>3 DEF SignInInit
  <2> QED
    BY <2>1, <2>2, <2>3, <2>4, SignInBounds DEF CountInv, Within
<1> QED
  BY <1>2, <1>3, <1>4 DEF SignInInv

\* Whoever can act in a session gave the account's present password.
LEMMA SoundMeansKnown == SignInInv => SessionKnowsPassword
<1> SUFFICES ASSUME SignInInv, NEW b \in Browsers, Usable(b), ~sess[b].reopened
             PROVE  sess[b].proved = acct.pw
  BY DEF SessionKnowsPassword
<1>1. sess[b].auth # 0 /\ sess[b].auth = acct.pw
  BY DEF Usable, SignedIn
<1> QED
  BY <1>1 DEF SignInInv, SessionsInv, Sound

\* The counts stay in their rows.
LEMMA CountsAreBounded == SignInInv => GuessesBounded
<1> SUFFICES ASSUME SignInInv PROVE GuessesBounded
  OBVIOUS
<1>1. /\ Cardinality(Guessing) \in Nat /\ Cardinality(CodeTrying) \in Nat
      /\ Cardinality(FoundWrong) \in Nat /\ Cardinality(FoundWrong) <= Cardinality(CodeTrying)
      /\ Cardinality(Requests) \in Nat
  BY FlyingSets, Sizes, Shrinks DEF SignInInv
<1>2. failures.short \in FailureRow /\ failures.code \in FailureRow
  BY FailureFields DEF SignInInv
<1>3. /\ failures.short.count \in 0..(ShortLimit - 1 + Cardinality(Requests))
      /\ failures.code.count \in 0..(CodeLimit - 1 + Cardinality(Requests))
  BY <1>1, <1>2, SignInBounds DEF SignInInv, CountInv, Within, FailureRow
<1>4. failures.short \in CountRow(ShortLimit) /\ failures.code \in CountRow(CodeLimit)
  BY <1>2, <1>3 DEF CountRow, FailureRow
<1>5. tried <= CodeLimit - 1 + Cardinality(Requests)
  BY <1>1, <1>2, SignInBounds DEF SignInInv, CountInv, Within, FailureRow
<1>6. \A b \in Browsers : sess[b].auth \in 0..MaxPasswords /\ sess[b].enroll \in 0..EnrollTicks
  BY DEF SignInInv, SessionsInv, Data
<1>7. \A r \in Requests : req[r].at \in {"idle", "arrived", "decided"}
  BY DEF SignInInv, SessionsInv, RequestRows
<1>8. SignInTypeOK
  BY <1>4, <1>6, <1>7 DEF SignInTypeOK, SignInInv, AccountInv, AccountRows, CountInv
<1> QED
  BY <1>5, <1>8 DEF GuessesBounded

\* However sign-ins, resets and administrators' edits interleave, whoever can act in a
\* session gave the password the account has now.
THEOREM SessionsKnowThePassword == SignInSpec => []SessionKnowsPassword
<1>1. SignInInv /\ [SignInNext]_signInVars => SignInInv'
  BY SignInStep
<1> QED
  BY <1>1, SignInStart, SoundMeansKnown, PTL DEF SignInSpec

\* However requests interleave, the codes found wrong in one window of the lockout stay
\* within its limit and the requests that were already past it.
THEOREM GuessingIsBounded == SignInSpec => []GuessesBounded
<1>1. SignInInv /\ [SignInNext]_signInVars => SignInInv'
  BY SignInStep
<1> QED
  BY <1>1, SignInStart, CountsAreBounded, PTL DEF SignInSpec

\* No step of an authenticator passes twice, and no half-finished sign-in or reset opens
\* an account that was blocked.
THEOREM CodesAreSpentOnce == SignInSpec => SpentStaysSpent
<1>1. SignInInv /\ [SignInNext]_signInVars => SignInInv'
  BY SignInStep
<1>2. SignInInv /\ [SignInNext]_signInVars => [CodeOnce /\ BlockedStaysClosed]_signInVars
  BY SignInStep DEF Promises
<1> QED
  BY <1>1, <1>2, SignInStart, PTL DEF SignInSpec, SpentStaysSpent

-----------------------------------------------------------------------------
(* Addresses.  OneHolder alone is not inductive: a form checks its address *)
(* when it is opened and writes later, past the unique index only.         *)
(* Reserved says what keeps the address from being set aside for somebody  *)
(* else meanwhile.  WindowHasLink needs the link to last at least as long  *)
(* as the window.  A stale link or form names a password the account no    *)
(* longer has, and passwords are only ever replaced by newer ones.         *)

Row == [kind : {"none", "person", "donor"}, email : Addresses \union {None},
        verified : BOOLEAN, pending : Addresses \union {None},
        recovery : Addresses \union {None}, left : 0..UndoDays,
        pw : 0..MaxPw, active : BOOLEAN, blocked : BOOLEAN]

\* A row, field by field.
Rec(k, e, v, p, y, d, w, c, b) ==
    [kind |-> k, email |-> e, verified |-> v, pending |-> p, recovery |-> y, left |-> d,
     pw |-> w, active |-> c, blocked |-> b]

\* The addresses a row holds.
HeldIn(a) == {a.email, recovery_address(a)} \ {None}

RowOk(a) ==
    /\ a \in Row
    /\ a.kind # "person" => a.pending = None /\ a.left = 0
    /\ a.kind = "none" => a = NoUser

Rows == account = [u \in Users |-> account[u]] /\ \A u \in Users : RowOk(account[u])

Link == [user : Users, email : Addresses \union {None}, to : Addresses, pw : 0..MaxPw,
         left : Int, stale : BOOLEAN]

\* A link was made for a password the account has or had, and a stale one for one it had.
LinksDated ==
    \A l \in links :
        /\ l \in Link /\ l.pw <= account[l.user].pw
        /\ l.stale => l.pw < account[l.user].pw

NoticesNamed ==
    \A n \in notices : /\ n \in [user : Users, from : Addresses, left : Int, fresh : BOOLEAN]
                       /\ Exists(n.user)

MailNamed == /\ \A v \in verifies : v.user \in Users
             /\ \A t \in resets : t.user \in Users /\ t.email \in Addresses \union {None}

\* The form is as dated as a link, and was opened for an account that existed.
FormDated ==
    /\ form \in [kind : {"none", "own", "office", "create", "reset"}, user : Users \union {None},
                 to : Addresses \union {None}, copy : Row, stale : BOOLEAN]
    /\ form.kind # "none" => form.user \in Users
    /\ form.kind \in {"own", "office"} =>
         /\ form.to \in Addresses /\ Exists(form.user)
         /\ form.copy.kind \in {"person", "donor"}
         /\ form.copy.kind = "person" => account[form.user].kind = "person"
         /\ form.copy.pw <= account[form.user].pw
         /\ form.stale => form.copy.pw < account[form.user].pw
    /\ form.kind = "own" => form.copy.kind = "person"
    /\ form.kind = "reset" => account[form.user].kind = "person"
    /\ form.kind = "create" => form.to \in Addresses

\* The form writes its address past the unique index alone.
Unguarded ==
    form.kind = "create" \/ (form.kind \in {"own", "office"} /\ form.copy.kind = "donor")

\* Nobody else has a's address set aside, or can have by a change under way.
Spares(a, address) ==
    recovery_address(a) # address /\ (a.email = address => a.pending = None)

Reserved == Unguarded => \A v \in Users \ {form.user} : Spares(account[v], form.to)

\* The link lasts at least as long as the window.
LinkedFor(u) ==
    \E n \in notices : /\ n.user = u /\ n.from = account[u].recovery
                       /\ n.fresh /\ n.left >= account[u].left
Linked == \A u \in Users : account[u].left > 0 => LinkedFor(u)

EmailInv == /\ Rows /\ LinksDated /\ NoticesNamed /\ MailNamed /\ FormDated
            /\ OneHolder /\ Reserved /\ Linked

-----------------------------------------------------------------------------
(* Rows.                                                                   *)

\* A record of nine fields of the right kinds is a row.
LEMMA RecIsRow ==
    ASSUME NEW k \in {"none", "person", "donor"}, NEW e \in Addresses \union {None},
           NEW v \in BOOLEAN, NEW p \in Addresses \union {None},
           NEW y \in Addresses \union {None}, NEW d \in 0..UndoDays, NEW w \in 0..MaxPw,
           NEW c \in BOOLEAN, NEW b \in BOOLEAN
    PROVE  Rec(k, e, v, p, y, d, w, c, b) \in Row
BY DEF Rec, Row

\* A row is the record of its nine fields.
LEMMA RowIsRec ==
    ASSUME NEW a \in Row
    PROVE  /\ a = Rec(a.kind, a.email, a.verified, a.pending, a.recovery, a.left, a.pw,
                      a.active, a.blocked)
           /\ a.kind \in {"none", "person", "donor"} /\ a.email \in Addresses \union {None}
           /\ a.verified \in BOOLEAN /\ a.pending \in Addresses \union {None}
           /\ a.recovery \in Addresses \union {None} /\ a.left \in 0..UndoDays
           /\ a.pw \in 0..MaxPw /\ a.active \in BOOLEAN /\ a.blocked \in BOOLEAN
BY DEF Rec, Row

\* Rows edited in several fields, one field at a time.
WithReset(a, w, p, v, c) ==
    [a EXCEPT !.pw = w, !.pending = p, !.verified = v, !.active = c]

\* Rows edited in several fields are records again.  A reset writes the password, the
\* pending address, whether the address is verified and whether the account is open.
LEMMA EditWithReset ==
    ASSUME NEW a \in Row, NEW w, NEW p, NEW v, NEW c
    PROVE  WithReset(a, w, p, v, c)
              = Rec(a.kind, a.email, v, p, a.recovery, a.left, w, c, a.blocked)
<1> DEFINE r1 == [a EXCEPT !.pw = w]
           r2 == [r1 EXCEPT !.pending = p]
           r3 == [r2 EXCEPT !.verified = v]
           r4 == [r3 EXCEPT !.active = c]
<1>0. WithReset(a, w, p, v, c) = r4
  BY DEF WithReset
<1>1. r1 = Rec(a.kind, a.email, a.verified, a.pending, a.recovery,
                  a.left, w, a.active, a.blocked)
  BY RowIsRec DEF Rec
<1> HIDE DEF r1
<1>2. r2 = Rec(a.kind, a.email, a.verified, p, a.recovery,
                  a.left, w, a.active, a.blocked)
  BY <1>1 DEF Rec
<1> HIDE DEF r2
<1>3. r3 = Rec(a.kind, a.email, v, p, a.recovery, a.left, w, a.active, a.blocked)
  BY <1>2 DEF Rec
<1> HIDE DEF r3
<1>4. r4 = Rec(a.kind, a.email, v, p, a.recovery, a.left, w, c, a.blocked)
  BY <1>3 DEF Rec
<1> HIDE DEF r4
<1> QED
  BY <1>0, <1>4

WithPassword(a, w, p) ==
    [a EXCEPT !.pw = w, !.pending = p]

\* A new password drops the address that waited.
LEMMA EditWithPassword ==
    ASSUME NEW a \in Row, NEW w, NEW p
    PROVE  WithPassword(a, w, p)
              = Rec(a.kind, a.email, a.verified, p, a.recovery,
                  a.left, w, a.active, a.blocked)
<1> DEFINE r1 == [a EXCEPT !.pw = w]
           r2 == [r1 EXCEPT !.pending = p]
<1>0. WithPassword(a, w, p) = r2
  BY DEF WithPassword
<1>1. r1 = Rec(a.kind, a.email, a.verified, a.pending, a.recovery,
                  a.left, w, a.active, a.blocked)
  BY RowIsRec DEF Rec
<1> HIDE DEF r1
<1>2. r2 = Rec(a.kind, a.email, a.verified, p, a.recovery,
                  a.left, w, a.active, a.blocked)
  BY <1>1 DEF Rec
<1> HIDE DEF r2
<1> QED
  BY <1>0, <1>2

WithStamp(a, v) ==
    [a EXCEPT !.verified = v]

\* A stamp writes whether the address is verified.
LEMMA EditWithStamp ==
    ASSUME NEW a \in Row, NEW v
    PROVE  WithStamp(a, v)
              = Rec(a.kind, a.email, v, a.pending, a.recovery,
                  a.left, a.pw, a.active, a.blocked)
<1> DEFINE r1 == [a EXCEPT !.verified = v]
<1>0. WithStamp(a, v) = r1
  BY DEF WithStamp
<1>1. r1 = Rec(a.kind, a.email, v, a.pending, a.recovery,
                  a.left, a.pw, a.active, a.blocked)
  BY RowIsRec DEF Rec
<1> HIDE DEF r1
<1> QED
  BY <1>0, <1>1

WithOpen(a, c) ==
    [a EXCEPT !.active = c]

\* Reopening writes only whether the account is open.
LEMMA EditWithOpen ==
    ASSUME NEW a \in Row, NEW c
    PROVE  WithOpen(a, c)
              = Rec(a.kind, a.email, a.verified, a.pending, a.recovery,
                  a.left, a.pw, c, a.blocked)
<1> DEFINE r1 == [a EXCEPT !.active = c]
<1>0. WithOpen(a, c) = r1
  BY DEF WithOpen
<1>1. r1 = Rec(a.kind, a.email, a.verified, a.pending, a.recovery,
                  a.left, a.pw, c, a.blocked)
  BY RowIsRec DEF Rec
<1> HIDE DEF r1
<1> QED
  BY <1>0, <1>1

WithActive(a, c, p) ==
    [a EXCEPT !.active = c, !.pending = p]

\* Closing an account drops the address that waited.
LEMMA EditWithActive ==
    ASSUME NEW a \in Row, NEW c, NEW p
    PROVE  WithActive(a, c, p)
              = Rec(a.kind, a.email, a.verified, p, a.recovery, a.left, a.pw, c, a.blocked)
<1> DEFINE r1 == [a EXCEPT !.active = c]
           r2 == [r1 EXCEPT !.pending = p]
<1>0. WithActive(a, c, p) = r2
  BY DEF WithActive
<1>1. r1 = Rec(a.kind, a.email, a.verified, a.pending, a.recovery,
                  a.left, a.pw, c, a.blocked)
  BY RowIsRec DEF Rec
<1> HIDE DEF r1
<1>2. r2 = Rec(a.kind, a.email, a.verified, p, a.recovery, a.left, a.pw, c, a.blocked)
  BY <1>1 DEF Rec
<1> HIDE DEF r2
<1> QED
  BY <1>0, <1>2

WithVerified(a, v, k, w) ==
    [a EXCEPT !.verified = v, !.kind = k, !.pw = w]

\* Verifying an address makes a donor a person, with a password of its own.
LEMMA EditWithVerified ==
    ASSUME NEW a \in Row, NEW v, NEW k, NEW w
    PROVE  WithVerified(a, v, k, w)
              = Rec(k, a.email, v, a.pending, a.recovery, a.left, w, a.active, a.blocked)
<1> DEFINE r1 == [a EXCEPT !.verified = v]
           r2 == [r1 EXCEPT !.kind = k]
           r3 == [r2 EXCEPT !.pw = w]
<1>0. WithVerified(a, v, k, w) = r3
  BY DEF WithVerified
<1>1. r1 = Rec(a.kind, a.email, v, a.pending, a.recovery,
                  a.left, a.pw, a.active, a.blocked)
  BY RowIsRec DEF Rec
<1> HIDE DEF r1
<1>2. r2 = Rec(k, a.email, v, a.pending, a.recovery,
                  a.left, a.pw, a.active, a.blocked)
  BY <1>1 DEF Rec
<1> HIDE DEF r2
<1>3. r3 = Rec(k, a.email, v, a.pending, a.recovery, a.left, w, a.active, a.blocked)
  BY <1>2 DEF Rec
<1> HIDE DEF r3
<1> QED
  BY <1>0, <1>3

WithChange(a, e, p, v, y, d) ==
    [a EXCEPT !.email = e, !.pending = p, !.verified = v, !.recovery = y,
              !.left = d]

\* A completed change writes the address, what it can be taken back to, and for how long.
LEMMA EditWithChange ==
    ASSUME NEW a \in Row, NEW e, NEW p, NEW v, NEW y, NEW d
    PROVE  WithChange(a, e, p, v, y, d)
              = Rec(a.kind, e, v, p, y, d, a.pw, a.active, a.blocked)
<1> DEFINE r1 == [a EXCEPT !.email = e]
           r2 == [r1 EXCEPT !.pending = p]
           r3 == [r2 EXCEPT !.verified = v]
           r4 == [r3 EXCEPT !.recovery = y]
           r5 == [r4 EXCEPT !.left = d]
<1>0. WithChange(a, e, p, v, y, d) = r5
  BY DEF WithChange
<1>1. r1 = Rec(a.kind, e, a.verified, a.pending, a.recovery,
                  a.left, a.pw, a.active, a.blocked)
  BY RowIsRec DEF Rec
<1> HIDE DEF r1
<1>2. r2 = Rec(a.kind, e, a.verified, p, a.recovery,
                  a.left, a.pw, a.active, a.blocked)
  BY <1>1 DEF Rec
<1> HIDE DEF r2
<1>3. r3 = Rec(a.kind, e, v, p, a.recovery, a.left, a.pw, a.active, a.blocked)
  BY <1>2 DEF Rec
<1> HIDE DEF r3
<1>4. r4 = Rec(a.kind, e, v, p, y, a.left, a.pw, a.active, a.blocked)
  BY <1>3 DEF Rec
<1> HIDE DEF r4
<1>5. r5 = Rec(a.kind, e, v, p, y, d, a.pw, a.active, a.blocked)
  BY <1>4 DEF Rec
<1> HIDE DEF r5
<1> QED
  BY <1>0, <1>5

WithUndo(a, c, b, e, v, p, y, d, w) ==
    [a EXCEPT !.active = c, !.blocked = b, !.email = e, !.verified = v,
              !.pending = p, !.recovery = y, !.left = d, !.pw = w]

\* Taking a change back writes everything but the row's kind.
LEMMA EditWithUndo ==
    ASSUME NEW a \in Row, NEW c, NEW b, NEW e, NEW v, NEW p, NEW y, NEW d, NEW w
    PROVE  WithUndo(a, c, b, e, v, p, y, d, w)
              = Rec(a.kind, e, v, p, y, d, w, c, b)
<1> DEFINE r1 == [a EXCEPT !.active = c]
           r2 == [r1 EXCEPT !.blocked = b]
           r3 == [r2 EXCEPT !.email = e]
           r4 == [r3 EXCEPT !.verified = v]
           r5 == [r4 EXCEPT !.pending = p]
           r6 == [r5 EXCEPT !.recovery = y]
           r7 == [r6 EXCEPT !.left = d]
           r8 == [r7 EXCEPT !.pw = w]
<1>0. WithUndo(a, c, b, e, v, p, y, d, w) = r8
  BY DEF WithUndo
<1>1. r1 = Rec(a.kind, a.email, a.verified, a.pending, a.recovery,
                  a.left, a.pw, c, a.blocked)
  BY RowIsRec DEF Rec
<1> HIDE DEF r1
<1>2. r2 = Rec(a.kind, a.email, a.verified, a.pending, a.recovery, a.left, a.pw, c, b)
  BY <1>1 DEF Rec
<1> HIDE DEF r2
<1>3. r3 = Rec(a.kind, e, a.verified, a.pending, a.recovery, a.left, a.pw, c, b)
  BY <1>2 DEF Rec
<1> HIDE DEF r3
<1>4. r4 = Rec(a.kind, e, v, a.pending, a.recovery, a.left, a.pw, c, b)
  BY <1>3 DEF Rec
<1> HIDE DEF r4
<1>5. r5 = Rec(a.kind, e, v, p, a.recovery, a.left, a.pw, c, b)
  BY <1>4 DEF Rec
<1> HIDE DEF r5
<1>6. r6 = Rec(a.kind, e, v, p, y, a.left, a.pw, c, b)
  BY <1>5 DEF Rec
<1> HIDE DEF r6
<1>7. r7 = Rec(a.kind, e, v, p, y, d, a.pw, c, b)
  BY <1>6 DEF Rec
<1> HIDE DEF r7
<1>8. r8 = Rec(a.kind, e, v, p, y, d, w, c, b)
  BY <1>7 DEF Rec
<1> HIDE DEF r8
<1> QED
  BY <1>0, <1>8

\* No row and a new row are as RowOk wants them.
LEMMA FreshRows ==
    /\ RowOk(NoUser) /\ NoUser.left = 0 /\ NoUser.email = None /\ NoUser.pw = 0
    /\ NoUser.kind = "none" /\ NoUser.active = FALSE /\ NoUser.pending = None
    /\ \A kind \in {"person", "donor"}, address \in Addresses :
          NewUser(kind, address)
             = Rec(kind, address, FALSE, None, None, 0, 1, TRUE, FALSE)
<1>1. NoUser = Rec("none", None, FALSE, None, None, 0, 0, FALSE, FALSE)
  BY DEF NoUser, Rec
<1>2. NoUser \in Row
  <2>1. 0 \in 0..UndoDays /\ 0 \in 0..MaxPw
    BY EmailAssumption
  <2> QED
    BY <1>1, <2>1, RecIsRow
<1>3. NoUser.left = 0 /\ NoUser.email = None /\ NoUser.pw = 0 /\ NoUser.kind = "none"
      /\ NoUser.active = FALSE /\ NoUser.pending = None
  BY DEF NoUser
<1>4. \A kind \in {"person", "donor"}, address \in Addresses :
         NewUser(kind, address) = Rec(kind, address, FALSE, None, None, 0, 1, TRUE, FALSE)
  <2> TAKE kind \in {"person", "donor"}, address \in Addresses
  <2> DEFINE k == NoUser
  <2>1. k = Rec("none", None, FALSE, None, None, 0, 0, FALSE, FALSE)
    BY <1>1
  <2>2. NewUser(kind, address) = [k EXCEPT !.kind = kind, !.email = address, !.pw = 1,
                                           !.active = TRUE]
    BY DEF NewUser
  <2> HIDE DEF k
  <2> QED
    BY <2>1, <2>2 DEF Rec
<1> QED
  BY <1>2, <1>3, <1>4 DEF RowOk
-----------------------------------------------------------------------------
(* One row changes.                                                        *)

\* Accounts only ever come to be, become persons, and have newer passwords.
Grows ==
    \A u \in Users : /\ Exists(u) => account'[u].kind # "none"
                     /\ account[u].kind = "person" => account'[u].kind = "person"
                     /\ account[u].pw <= account'[u].pw

ChangeOk(u, r) ==
    /\ RowOk(r) /\ r.kind # "none" /\ r.pw >= account[u].pw
    /\ account[u].kind = "person" => r.kind = "person"
    /\ \A x \in HeldIn(r), v \in Users \ {u} : Exists(v) => x \notin Held(v)

\* A step that changes one row as ChangeOk allows leaves all rows well formed, each
\* address with one holder, and no password older.
LEMMA AddressStep ==
    ASSUME EmailInv, NEW u \in Users, NEW r, ChangeOk(u, r),
           account' = [account EXCEPT ![u] = r]
    PROVE  /\ Rows' /\ OneHolder' /\ Grows
           /\ account'[u] = r /\ \A v \in Users \ {u} : account'[v] = account[v]
<1>1. Rows /\ OneHolder
  BY DEF EmailInv
<1>2. account'[u] = r /\ \A v \in Users \ {u} : account'[v] = account[v]
  BY <1>1 DEF Rows
<1>3. account' = [v \in Users |-> account'[v]]
  BY <1>1 DEF Rows
<1>4. Rows'
  <2>1. \A v \in Users : RowOk(account'[v])
    BY <1>1, <1>2 DEF Rows, ChangeOk
  <2> QED
    BY <1>3, <2>1 DEF Rows
<1>5. OneHolder'
  <2>1. \A v, w \in Users : v # w /\ Exists(v)' /\ Exists(w)' => Held(v)' \cap Held(w)' = {}
    <3> SUFFICES ASSUME NEW v \in Users, NEW w \in Users, v # w, Exists(v)', Exists(w)'
                 PROVE  Held(v)' \cap Held(w)' = {}
      OBVIOUS
    <3>1. \A z \in Users \ {u} : Held(z)' = Held(z) /\ (Exists(z)' <=> Exists(z))
      BY <1>2 DEF Held, recovery_address, Exists
    <3>2. Held(u)' = HeldIn(r)
      BY <1>2 DEF Held, HeldIn, recovery_address
    <3>3. CASE v # u /\ w # u
      BY <1>1, <3>1, <3>3 DEF OneHolder
    <3>4. CASE v = u
      BY <3>1, <3>2, <3>4 DEF ChangeOk
    <3>5. CASE w = u
      BY <3>1, <3>2, <3>5 DEF ChangeOk
    <3> QED
      BY <3>3, <3>4, <3>5
  <2> QED
    BY <2>1 DEF OneHolder
<1>6. Grows
  <2> SUFFICES ASSUME NEW v \in Users
               PROVE  /\ Exists(v) => account'[v].kind # "none"
                      /\ account[v].kind = "person" => account'[v].kind = "person"
                      /\ account[v].pw <= account'[v].pw
    BY DEF Grows
  <2>1. account[v].pw \in 0..MaxPw
    BY <1>1, RowIsRec DEF Rows, RowOk
  <2>2. CASE v = u
    <3>1. r.pw \in 0..MaxPw
      BY RowIsRec DEF ChangeOk, RowOk
    <3> QED
      BY <1>2, <2>1, <2>2, <3>1, EmailAssumption DEF ChangeOk, Exists
  <2>3. CASE v # u
    BY <1>2, <2>1, <2>3, EmailAssumption DEF Exists
  <2> QED
    BY <2>2, <2>3
<1> QED
  BY <1>2, <1>4, <1>5, <1>6

\* What is mailed and what is open stays dated.
LEMMA LinksStayDated ==
    ASSUME EmailInv, Rows', Grows
    PROVE  \A l \in links : /\ l \in Link /\ l.pw <= account'[l.user].pw
                            /\ l.stale => l.pw < account'[l.user].pw
<1> TAKE l \in links
<1>1. l \in Link /\ l.pw <= account[l.user].pw /\ (l.stale => l.pw < account[l.user].pw)
  BY DEF EmailInv, LinksDated
<1>2. l.user \in Users /\ l.pw \in 0..MaxPw
  BY <1>1 DEF Link
<1>3. account[l.user].pw \in 0..MaxPw /\ account'[l.user].pw \in 0..MaxPw
  BY <1>2, RowIsRec DEF EmailInv, Rows, RowOk
<1>4. account[l.user].pw <= account'[l.user].pw
  BY <1>2 DEF Grows
<1> QED
  BY <1>1, <1>2, <1>3, <1>4, EmailAssumption

\* Links stay dated while passwords only get newer.
LEMMA LinksKept ==
    ASSUME EmailInv, Rows', Grows, links' = links
    PROVE  LinksDated'
BY LinksStayDated DEF LinksDated

\* Notices name accounts that still exist, since none is ever removed.
LEMMA NoticesStayNamed ==
    ASSUME EmailInv, Grows
    PROVE  \A n \in notices :
               /\ n \in [user : Users, from : Addresses, left : Int, fresh : BOOLEAN]
               /\ account'[n.user].kind # "none"
BY DEF EmailInv, NoticesNamed, Grows, Exists

\* Notices that did not move stay named.
LEMMA NoticesKept ==
    ASSUME EmailInv, Grows, notices' = notices
    PROVE  NoticesNamed'
BY NoticesStayNamed DEF NoticesNamed, Exists

\* A form that did not move stays dated.
LEMMA FormKept ==
    ASSUME EmailInv, Rows', Grows, form' = form
    PROVE  FormDated'
<1>1. FormDated
  BY DEF EmailInv
<1>2. ASSUME form.kind \in {"own", "office"}
      PROVE  /\ account'[form.user].kind # "none"
             /\ form.copy.kind = "person" => account'[form.user].kind = "person"
             /\ form.copy.pw <= account'[form.user].pw
             /\ form.stale => form.copy.pw < account'[form.user].pw
  <2>1. form.user \in Users
    BY <1>1, <1>2 DEF FormDated
  <2>2. form.copy.pw \in 0..MaxPw
    BY <1>1, RowIsRec DEF FormDated
  <2>3. account[form.user].pw \in 0..MaxPw /\ account'[form.user].pw \in 0..MaxPw
    BY <2>1, RowIsRec DEF EmailInv, Rows, RowOk
  <2>4. account[form.user].pw <= account'[form.user].pw
    BY <2>1 DEF Grows
  <2> QED
    BY <1>1, <1>2, <2>1, <2>2, <2>3, <2>4, EmailAssumption DEF FormDated, Grows
<1>3. form.kind \in {"own", "office"} => Exists(form.user)'
  BY <1>2 DEF Exists
<1>4. form.kind = "reset" => account'[form.user].kind = "person"
  BY <1>1 DEF FormDated, Grows
<1> QED
  BY <1>1, <1>2, <1>3, <1>4 DEF FormDated

\* No form is open: nothing to be dated or to reserve an address.
LEMMA NoFormOk == form' = NoForm => FormDated' /\ Reserved'
<1> SUFFICES ASSUME form' = NoForm PROVE FormDated' /\ Reserved'
  OBVIOUS
<1>1. NoUser \in Row
  BY FreshRows DEF RowOk
<1>2. /\ NoForm.kind = "none" /\ NoForm \in [kind : {"none", "own", "office", "create", "reset"},
        user : Users \union {None}, to : Addresses \union {None}, copy : Row, stale : BOOLEAN]
  BY <1>1 DEF NoForm, None
<1> QED
  BY <1>2 DEF FormDated, Reserved, Unguarded

\* A row may change in ways that set no address aside.
LEMMA ReservedKept ==
    ASSUME EmailInv, NEW u \in Users, NEW r,
           account'[u] = r, \A v \in Users \ {u} : account'[v] = account[v],
           form'.kind = form.kind, form'.user = form.user, form'.to = form.to,
           form'.copy = form.copy,
           u # form.user => \A x \in Addresses : Spares(account[u], x) => Spares(r, x)
    PROVE  Reserved'
<1> SUFFICES ASSUME Unguarded, NEW v \in Users \ {form.user}
             PROVE  Spares(account'[v], form.to)
  BY DEF Reserved, Unguarded, Spares, recovery_address
<1>1. Spares(account[v], form.to)
  BY DEF EmailInv, Reserved
<1>2. form.to \in Addresses
  BY DEF Unguarded, EmailInv, FormDated
<1> QED
  BY <1>1, <1>2

\* The window does not grow.
LEMMA LinkedKept ==
    ASSUME EmailInv, NEW u \in Users, NEW r, RowOk(r),
           account'[u] = r, \A v \in Users \ {u} : account'[v] = account[v],
           notices \subseteq notices',
           r.left > 0 => r.left <= account[u].left /\ r.recovery = account[u].recovery
    PROVE  Linked'
<1> SUFFICES ASSUME NEW v \in Users, account'[v].left > 0
             PROVE  LinkedFor(v)'
  BY DEF Linked
<1>1. account[v].left \in 0..UndoDays /\ account'[v].left \in 0..UndoDays
  BY RowIsRec DEF EmailInv, Rows, RowOk
<1>2. account'[v].left <= account[v].left /\ account'[v].recovery = account[v].recovery
  BY <1>1, EmailAssumption
<1>3. LinkedFor(v)
  BY <1>1, <1>2, EmailAssumption DEF EmailInv, Linked
<1>4. PICK n \in notices : /\ n.user = v /\ n.from = account[v].recovery
                           /\ n.fresh /\ n.left >= account[v].left
  BY <1>3 DEF LinkedFor
<1>5. n.left \in Int
  BY DEF EmailInv, NoticesNamed
<1> QED
  BY <1>1, <1>2, <1>4, <1>5, EmailAssumption DEF LinkedFor

\* A row that neither sets an address aside nor opens a window, nothing else changing.
LEMMA QuietChange ==
    ASSUME EmailInv, NEW u \in Users, NEW r, ChangeOk(u, r),
           account' = [account EXCEPT ![u] = r], MailNamed',
           links' = links, notices' = notices, form' = form,
           u # form.user => \A x \in Addresses : Spares(account[u], x) => Spares(r, x),
           r.left > 0 => r.left <= account[u].left /\ r.recovery = account[u].recovery
    PROVE  EmailInv'
<1>1. /\ Rows' /\ OneHolder' /\ Grows
      /\ account'[u] = r /\ \A v \in Users \ {u} : account'[v] = account[v]
  BY AddressStep
<1>2. LinksDated' /\ NoticesNamed' /\ FormDated'
  BY <1>1, LinksKept, NoticesKept, FormKept
<1>3. Reserved'
  BY <1>1, ReservedKept
<1>4. RowOk(r)
  BY DEF ChangeOk
<1>5. Linked'
  BY <1>1, <1>4, LinkedKept
<1> QED
  BY <1>1, <1>2, <1>3, <1>5 DEF EmailInv

\* Any change of a row that keeps its addresses and its kind, and not its password back.
LEMMA SameHolder ==
    ASSUME EmailInv, NEW u \in Users, NEW r, RowOk(r), Exists(u),
           r.email = account[u].email,
           r.left = 0 \/ (r.left = account[u].left /\ r.recovery = account[u].recovery),
           r.pw >= account[u].pw, r.kind # "none",
           account[u].kind = "person" => r.kind = "person"
    PROVE  /\ ChangeOk(u, r)
           /\ r.left > 0 => r.left <= account[u].left /\ r.recovery = account[u].recovery
           /\ r.pending \in {None, account[u].pending} =>
                \A x \in Addresses : Spares(account[u], x) => Spares(r, x)
<1>1. account[u].left \in 0..UndoDays /\ r.left \in 0..UndoDays
  BY RowIsRec DEF EmailInv, Rows, RowOk
<1>2. recovery_address(r) \in {None, recovery_address(account[u])}
  BY <1>1, EmailAssumption DEF recovery_address
<1>3. HeldIn(r) \subseteq Held(u)
  BY <1>2 DEF HeldIn, Held
<1>4. \A x \in HeldIn(r), v \in Users \ {u} : Exists(v) => x \notin Held(v)
  BY <1>3 DEF EmailInv, OneHolder
<1>5. ChangeOk(u, r)
  BY <1>4 DEF ChangeOk
<1>6. r.left > 0 => r.left <= account[u].left /\ r.recovery = account[u].recovery
  BY <1>1, EmailAssumption
<1>7. r.pending \in {None, account[u].pending} =>
        \A x \in Addresses : Spares(account[u], x) => Spares(r, x)
  BY <1>2, EmailAssumption DEF Spares
<1> QED
  BY <1>5, <1>6, <1>7

\* A new account, of an address nobody holds.
LEMMA CreateOk ==
    ASSUME EmailInv, NEW u \in Users, ~Exists(u), NEW kind \in {"person", "donor"},
           NEW address \in Addresses,
           \A v \in Users \ {u} : Exists(v) => address \notin Held(v)
    PROVE  LET r == NewUser(kind, address)
           IN  ChangeOk(u, r) /\ r.left = 0 /\ \A x \in Addresses : Spares(r, x)
<1> DEFINE r == NewUser(kind, address)
<1>1. r = Rec(kind, address, FALSE, None, None, 0, 1, TRUE, FALSE)
  BY FreshRows
<1> HIDE DEF r
<1>2. r.kind = kind /\ r.email = address /\ r.pending = None /\ r.left = 0 /\ r.pw = 1
  BY <1>1 DEF Rec
<1>3. r \in Row
  <2>1. 0 \in 0..UndoDays /\ 1 \in 0..MaxPw
    BY EmailAssumption
  <2> QED
    BY <1>1, <2>1, RecIsRow
<1>4. RowOk(r)
  BY <1>2, <1>3 DEF RowOk
<1>5. account[u].kind = "none" /\ account[u].pw = 0
  BY FreshRows DEF EmailInv, Rows, RowOk, Exists
<1>6. HeldIn(r) = {address} /\ recovery_address(r) = None
  BY <1>2, EmailAssumption DEF HeldIn, recovery_address
<1>7. ChangeOk(u, r)
  BY <1>2, <1>4, <1>5, <1>6 DEF ChangeOk
<1>8. \A x \in Addresses : Spares(r, x)
  BY <1>2, <1>6, EmailAssumption DEF Spares
<1> QED
  BY <1>2, <1>7, <1>8 DEF r

\* The row an account has, as a record.
LEMMA AccountRow ==
    ASSUME EmailInv, NEW u \in Users
    PROVE  /\ account[u] \in Row /\ RowOk(account[u])
           /\ account[u].active => Exists(u)
<1>1. RowOk(account[u])
  BY DEF EmailInv, Rows
<1>2. account[u].kind = "none" => ~account[u].active
  BY <1>1, FreshRows DEF RowOk
<1> QED
  BY <1>1, <1>2 DEF RowOk, Exists

-----------------------------------------------------------------------------
(* Forms.                                                                  *)

\* Where rows, links and notices do not move, five of the parts carry over.
LEMMA Unmoved ==
    ASSUME EmailInv, account' = account, links' = links, notices' = notices
    PROVE  Rows' /\ LinksDated' /\ NoticesNamed' /\ OneHolder' /\ Linked'
BY DEF EmailInv, Rows, LinksDated, NoticesNamed, Exists, OneHolder, Held, recovery_address,
       Linked, LinkedFor

\* Opening a form copies the row as it stands, so the form is dated.
LEMMA OpenOk ==
    ASSUME EmailInv, NEW kind \in {"own", "office", "create", "reset"}, NEW u \in Users,
           NEW to \in Addresses \union {None}, Open(kind, u, to),
           kind # "reset" => to \in Addresses,
           kind \in {"own", "office"} => Exists(u),
           kind \in {"own", "reset"} => account[u].kind = "person",
           kind \in {"office", "create"} =>
               \A v \in Users \ {u} : Exists(v) => to \notin Held(v)
    PROVE  EmailInv'
<1>1. Rows' /\ LinksDated' /\ NoticesNamed' /\ OneHolder' /\ Linked' /\ MailNamed'
  BY Unmoved DEF Open, EmailInv, MailNamed
<1>2. form' = [kind |-> kind, user |-> u, to |-> to, copy |-> account[u], stale |-> FALSE]
      /\ account' = account
  BY DEF Open
<1>3. account[u] \in Row
  BY AccountRow
<1>4. account[u].kind \in {"none", "person", "donor"} /\ account[u].pw \in 0..MaxPw
  BY <1>3, RowIsRec
<1>5. /\ form'.kind = kind /\ form'.user = u /\ form'.to = to /\ form'.copy = account[u]
      /\ form'.stale = FALSE
  BY <1>2
<1>6. FormDated'
  <2>1. form' \in [kind : {"none", "own", "office", "create", "reset"},
                   user : Users \union {None}, to : Addresses \union {None}, copy : Row,
                   stale : BOOLEAN]
    BY <1>2, <1>3
  <2>2. kind \in {"own", "office"} => /\ account[u].kind \in {"person", "donor"}
                                      /\ account[u].pw <= account[u].pw
    BY <1>4, EmailAssumption DEF Exists
  <2> QED
    BY <1>2, <1>5, <2>1, <2>2 DEF FormDated, Exists
<1>7. Reserved'
  <2> SUFFICES ASSUME Unguarded', NEW v \in Users \ {u}
               PROVE  Spares(account[v], to)
    BY <1>2, <1>5 DEF Reserved, Spares, recovery_address
  <2>1. to \in Addresses /\ kind \in {"office", "create"}
    BY <1>5 DEF Unguarded
  <2>2. CASE Exists(v)
    BY <2>1, <2>2, EmailAssumption DEF Held, Spares
  <2>3. CASE ~Exists(v)
    <3>1. account[v] = NoUser
      BY <2>3, AccountRow DEF Exists, RowOk
    <3> QED
      BY <2>1, <3>1, FreshRows, EmailAssumption DEF Spares, recovery_address
  <2> QED
    BY <2>2, <2>3
<1> QED
  BY <1>1, <1>6, <1>7 DEF EmailInv

\* The four requests that open a form preserve the invariant.
LEMMA OpensKeep ==
    ASSUME EmailInv,
           \/ \E u \in Users, to \in Addresses : EmailChangeView(u, to) \/ UpdateMember(u, to)
           \/ \E to \in Addresses : CreateMember(to)
           \/ \E t \in resets : PasswordResetConfirm(t)
    PROVE  EmailInv'
<1>1. ASSUME NEW u \in Users, NEW to \in Addresses, EmailChangeView(u, to) PROVE EmailInv'
  <2>1. Open("own", u, to) /\ account[u].kind = "person" /\ Exists(u)
    BY <1>1 DEF EmailChangeView, Exists
  <2> QED
    BY <2>1, OpenOk
<1>2. ASSUME NEW u \in Users, NEW to \in Addresses, UpdateMember(u, to) PROVE EmailInv'
  <2>1. /\ Open("office", u, to) /\ Exists(u)
        /\ \A v \in Users \ {u} : Exists(v) => to \notin Held(v)
    BY <1>2 DEF UpdateMember, address_taken
  <2> QED
    BY <2>1, OpenOk
<1>3. ASSUME NEW to \in Addresses, CreateMember(to) PROVE EmailInv'
  <2> DEFINE u == CHOOSE w \in Users : ~Exists(w)
  <2>1. u \in Users /\ Open("create", u, to)
    BY <1>3 DEF CreateMember
  <2>2. \A v \in Users : Exists(v) => to \notin Held(v)
    BY <1>3, EmailAssumption DEF CreateMember, address_taken, None
  <2> HIDE DEF u
  <2> QED
    BY <2>1, <2>2, OpenOk
<1>4. ASSUME NEW t \in resets, PasswordResetConfirm(t) PROVE EmailInv'
  <2>1. Open("reset", t.user, t.email)
    BY <1>4 DEF PasswordResetConfirm
  <2>2. t.user \in Users /\ t.email \in Addresses \union {None} /\ account[t.user].kind = "person"
    BY <1>4 DEF EmailInv, MailNamed, PasswordResetConfirm
  <2> QED
    BY <2>1, <2>2, OpenOk
<1> QED
  BY <1>1, <1>2, <1>3, <1>4

\* A donor's address is written past the unique index; nobody has it set aside.
LEMMA DonorRequestKeeps ==
    ASSUME EmailInv, request_email_change, form.copy.kind = "donor"
    PROVE  EmailInv'
<1> DEFINE u == form.user
           a == account[u]
           r == [a EXCEPT !.email = form.to]
<1>1. u \in Users /\ Exists(u) /\ form.to \in Addresses /\ Unguarded
  BY DEF request_email_change, EmailInv, FormDated, Unguarded
<1>2. /\ form' = NoForm /\ links' = links /\ notices' = notices
      /\ MailNamed'
  BY DEF request_email_change, EmailInv, MailNamed
<1>3. FormDated' /\ Reserved'
  BY <1>2, NoFormOk
<1>4. CASE ~UniqueEmail(form.to, u)
  <2>1. account' = account
    BY <1>4 DEF request_email_change
  <2> QED
    BY <1>2, <1>3, <2>1, Unmoved DEF EmailInv
<1>5. CASE UniqueEmail(form.to, u)
  <2>1. account' = [account EXCEPT ![u] = r]
    BY <1>5 DEF request_email_change
  <2>2. a \in Row /\ RowOk(a)
    BY <1>1, AccountRow
  <2>3. r = Rec(a.kind, form.to, a.verified, a.pending, a.recovery, a.left, a.pw, a.active,
                a.blocked)
    BY <2>2, RowIsRec DEF Rec
  <2> HIDE DEF r
  <2>4. r \in Row
    BY <1>1, <2>2, <2>3, RowIsRec, RecIsRow, ZenonT(60)
  <2>5. /\ r.kind = a.kind /\ r.email = form.to /\ r.pending = a.pending
        /\ r.recovery = a.recovery /\ r.left = a.left /\ r.pw = a.pw
    BY <2>3 DEF Rec
  <2>6. a.pw \in 0..MaxPw /\ a.left \in 0..UndoDays
    BY <2>2, RowIsRec
  <2>7. RowOk(r) /\ r.kind # "none"
    BY <1>1, <2>2, <2>4, <2>5 DEF RowOk, Exists
  <2>8. recovery_address(r) = recovery_address(a)
    BY <2>5 DEF recovery_address
  <2>9. \A x \in HeldIn(r), v \in Users \ {u} : Exists(v) => x \notin Held(v)
    <3> SUFFICES ASSUME NEW x \in HeldIn(r), NEW v \in Users \ {u}, Exists(v)
                 PROVE  x \notin Held(v)
      OBVIOUS
    <3>1. CASE x = form.to
      <4>1. account[v].email # form.to
        BY <1>5 DEF UniqueEmail
      <4>2. recovery_address(account[v]) # form.to
        BY <1>1 DEF EmailInv, Reserved, Spares
      <4> QED
        BY <3>1, <4>1, <4>2 DEF Held
    <3>2. CASE x # form.to
      <4>1. x \in Held(u)
        BY <2>5, <2>8, <3>2 DEF HeldIn, Held
      <4> QED
        BY <1>1, <4>1 DEF EmailInv, OneHolder
    <3> QED
      BY <3>1, <3>2
  <2>10. ChangeOk(u, r)
    BY <2>5, <2>6, <2>7, <2>9, EmailAssumption DEF ChangeOk
  <2> HIDE DEF u
  <2>11. /\ Rows' /\ OneHolder' /\ Grows
         /\ account'[u] = r /\ \A v \in Users \ {u} : account'[v] = account[v]
    BY <1>1, <2>1, <2>10, AddressStep
  <2>12. LinksDated' /\ NoticesNamed'
    BY <1>2, <2>11, LinksKept, NoticesKept
  <2>13. r.left > 0 => r.left <= account[u].left /\ r.recovery = account[u].recovery
    BY <2>5, <2>6, EmailAssumption
  <2>14. Linked'
    BY <1>1, <1>2, <2>7, <2>11, <2>13, LinkedKept
  <2> QED
    BY <1>2, <1>3, <2>11, <2>12, <2>14 DEF EmailInv
<1> QED
  BY <1>4, <1>5

\* Anyone else's waits for the link, which names the password the form was opened with.
LEMMA PersonRequestKeeps ==
    ASSUME EmailInv, request_email_change, form.copy.kind # "donor"
    PROVE  EmailInv'
<1> DEFINE u == form.user
           a == account[u]
           c == form.copy
           r == [a EXCEPT !.pending = form.to]
           new == ChangeLink(u, c, form.to, form.stale)
           from == notice_address(c)
<1>1. /\ u \in Users /\ Exists(u) /\ form.to \in Addresses /\ a.kind = "person"
      /\ c \in Row /\ form.stale \in BOOLEAN
      /\ c.pw <= a.pw /\ (form.stale => c.pw < a.pw)
  BY DEF request_email_change, EmailInv, FormDated
<1>2. /\ form' = NoForm /\ MailNamed' /\ account' = [account EXCEPT ![u] = r]
      /\ links' \subseteq links \union {new}
      /\ notices' = notices \/ (notices' = notices \union {Notice(u, from)} /\ from # None)
  BY DEF request_email_change, send_email_change_link, EmailInv, MailNamed
<1>3. FormDated' /\ Reserved'
  BY <1>2, NoFormOk
<1>4. a \in Row /\ RowOk(a)
  BY <1>1, AccountRow
<1>5. r = Rec(a.kind, a.email, a.verified, form.to, a.recovery, a.left, a.pw, a.active, a.blocked)
  BY <1>4, RowIsRec DEF Rec
<1> HIDE DEF r
<1>6. r \in Row
  BY <1>1, <1>4, <1>5, RowIsRec, RecIsRow
<1>7. /\ r.kind = a.kind /\ r.email = a.email /\ r.recovery = a.recovery /\ r.left = a.left
      /\ r.pw = a.pw
  BY <1>5 DEF Rec
<1>8. a.pw \in 0..MaxPw /\ a.left \in 0..UndoDays /\ c.pw \in 0..MaxPw
      /\ c.email \in Addresses \union {None} /\ c.recovery \in Addresses \union {None}
  BY <1>1, <1>4, RowIsRec
<1>9. RowOk(r) /\ r.kind # "none" /\ r.pw >= a.pw
  BY <1>1, <1>6, <1>7, <1>8, EmailAssumption DEF RowOk
<1>10. /\ ChangeOk(u, r)
       /\ r.left > 0 => r.left <= account[u].left /\ r.recovery = account[u].recovery
  BY <1>1, <1>7, <1>9, SameHolder
<1>11. from \in Addresses \union {None}
  BY <1>8 DEF notice_address, recovery_address
<1> HIDE DEF from
<1>12. /\ Rows' /\ OneHolder' /\ Grows
       /\ account'[u] = r /\ \A v \in Users \ {u} : account'[v] = account[v]
  BY <1>1, <1>2, <1>10, AddressStep
<1>13. LinksDated'
  <2>1. new \in Link
    BY <1>1, <1>8, EmailAssumption DEF ChangeLink, Link
  <2>2. new.user = u /\ new.pw = c.pw /\ new.stale = form.stale
    BY DEF ChangeLink
  <2> HIDE DEF new
  <2>3. new.pw <= account'[new.user].pw /\ (new.stale => new.pw < account'[new.user].pw)
    BY <1>1, <1>7, <1>12, <2>2
  <2> QED
    BY <1>2, <1>12, <2>1, <2>3, LinksStayDated DEF LinksDated
<1>14. NoticesNamed'
  <2> DEFINE n == Notice(u, from)
  <2>1. from # None => n \in [user : Users, from : Addresses, left : Int, fresh : BOOLEAN]
    BY <1>1, <1>11, EmailAssumption DEF Notice
  <2>2. n.user = u
    BY DEF Notice
  <2> HIDE DEF n
  <2>3. account'[n.user].kind # "none"
    BY <1>9, <1>12, <2>2
  <2> QED
    BY <1>2, <1>12, <2>1, <2>3, NoticesStayNamed DEF NoticesNamed, Exists, n
<1>15. Linked'
  BY <1>1, <1>2, <1>9, <1>10, <1>12, LinkedKept
<1> QED
  BY <1>2, <1>3, <1>12, <1>13, <1>14, <1>15 DEF EmailInv

\* create_member writes its new account only if the address is free by then.
LEMMA CreateMemberKeeps ==
    ASSUME EmailInv, create_member
    PROVE  EmailInv'
<1> DEFINE u == form.user
           r == NewUser("person", form.to)
<1>1. u \in Users /\ form.to \in Addresses /\ Unguarded
  BY DEF create_member, EmailInv, FormDated, Unguarded
<1>2. form' = NoForm /\ links' = links /\ notices' = notices
  BY DEF create_member
<1>3. FormDated' /\ Reserved'
  BY <1>2, NoFormOk
<1>4. CASE ~(UniqueEmail(form.to, u) /\ ~Exists(u))
  <2>1. account' = account /\ MailNamed'
    BY <1>4 DEF create_member, EmailInv, MailNamed
  <2> QED
    BY <1>2, <1>3, <2>1, Unmoved DEF EmailInv
<1>5. CASE UniqueEmail(form.to, u) /\ ~Exists(u)
  <2>1. account' = [account EXCEPT ![u] = r] /\ MailNamed'
    <3>1. verifies' = verifies /\ resets' = resets \union {Invitation(u, form.to)}
      BY <1>5 DEF create_member
    <3>2. Invitation(u, form.to).user = u /\ Invitation(u, form.to).email = form.to
      BY DEF Invitation
    <3>3. MailNamed'
      BY <1>1, <3>1, <3>2 DEF EmailInv, MailNamed
    <3> QED
      BY <1>5, <3>3 DEF create_member, create_account
  <2>2. \A v \in Users \ {u} : Exists(v) => form.to \notin Held(v)
    BY <1>1, <1>5 DEF UniqueEmail, EmailInv, Reserved, Spares, Held
  <2>3. ChangeOk(u, r) /\ r.left = 0
    BY <1>1, <1>5, <2>2, CreateOk
  <2> HIDE DEF u, r
  <2>4. /\ Rows' /\ OneHolder' /\ Grows
        /\ account'[u] = r /\ \A v \in Users \ {u} : account'[v] = account[v]
    BY <1>1, <2>1, <2>3, AddressStep
  <2>5. LinksDated' /\ NoticesNamed'
    BY <1>2, <2>4, LinksKept, NoticesKept
  <2>6. RowOk(r)
    BY <2>3 DEF ChangeOk
  <2>7. Linked'
    BY <1>1, <1>2, <2>3, <2>4, <2>6, LinkedKept
  <2> QED
    BY <1>2, <1>3, <2>1, <2>4, <2>5, <2>7 DEF EmailInv
<1> QED
  BY <1>4, <1>5

\* What was asked for before the password was replaced becomes stale.
LEMMA LinksOutdated ==
    ASSUME EmailInv, Rows', Grows, NEW u \in Users, account[u].pw < account'[u].pw,
           links' = {IF l.user = u THEN [l EXCEPT !.stale = TRUE] ELSE l : l \in links}
    PROVE  LinksDated'
<1> SUFFICES ASSUME NEW m \in links'
             PROVE  /\ m \in Link /\ m.pw <= account'[m.user].pw
                    /\ m.stale => m.pw < account'[m.user].pw
  BY DEF LinksDated
<1>1. PICK l \in links : m = IF l.user = u THEN [l EXCEPT !.stale = TRUE] ELSE l
  OBVIOUS
<1>2. /\ l \in Link /\ l.pw <= account'[l.user].pw
      /\ l.stale => l.pw < account'[l.user].pw
  BY LinksStayDated
<1>3. CASE l.user # u
  BY <1>1, <1>2, <1>3
<1>4. CASE l.user = u
  <2>1. m = [l EXCEPT !.stale = TRUE]
    BY <1>1, <1>4
  <2>2. m \in Link /\ m.pw = l.pw /\ m.user = u
    BY <1>2, <1>4, <2>1 DEF Link
  <2>3. l.pw <= account[u].pw /\ l.pw \in 0..MaxPw
    BY <1>2, <1>4 DEF EmailInv, LinksDated, Link
  <2>4. account[u].pw \in 0..MaxPw /\ account'[u].pw \in 0..MaxPw
    BY RowIsRec DEF EmailInv, Rows, RowOk
  <2> QED
    BY <2>2, <2>3, <2>4, EmailAssumption
<1> QED
  BY <1>3, <1>4

\* A step that renews a password marks an open form of that account as stale.
LEMMA FormOutdated ==
    ASSUME EmailInv, Rows', Grows, NEW u \in Users, account[u].pw < account'[u].pw,
           form' = IF form.user = u THEN [form EXCEPT !.stale = TRUE] ELSE form
    PROVE  /\ FormDated'
           /\ form'.kind = form.kind /\ form'.user = form.user /\ form'.to = form.to
           /\ form'.copy = form.copy
<1>1. CASE form.user # u
  BY <1>1, FormKept
<1>2. CASE form.user = u
  <2>1. FormDated
    BY DEF EmailInv
  <2>2. form' = [form EXCEPT !.stale = TRUE]
    BY <1>2
  <2>3. /\ form' \in [kind : {"none", "own", "office", "create", "reset"},
                      user : Users \union {None}, to : Addresses \union {None}, copy : Row,
                      stale : BOOLEAN]
        /\ form'.kind = form.kind /\ form'.user = form.user /\ form'.to = form.to
        /\ form'.copy = form.copy
    BY <2>1, <2>2 DEF FormDated
  <2>4. ASSUME form.kind \in {"own", "office"}
        PROVE  /\ account'[u].kind # "none"
               /\ form.copy.kind = "person" => account'[u].kind = "person"
               /\ form.copy.pw <= account'[u].pw /\ form.copy.pw < account'[u].pw
    <3>1. form.copy.pw \in 0..MaxPw /\ form.copy.pw <= account[u].pw
      BY <1>2, <2>1, <2>4, RowIsRec DEF FormDated
    <3>2. account[u].pw \in 0..MaxPw /\ account'[u].pw \in 0..MaxPw
      BY RowIsRec DEF EmailInv, Rows, RowOk
    <3>3. form.copy.pw <= account'[u].pw /\ form.copy.pw < account'[u].pw
      BY <3>1, <3>2, EmailAssumption
    <3> QED
      BY <1>2, <2>1, <2>4, <3>3 DEF FormDated, Grows
  <2>5. form.kind \in {"own", "office"} => Exists(form.user)'
    BY <1>2, <2>4 DEF Exists
  <2>6. form.kind = "reset" => account'[form.user].kind = "person"
    BY <1>2, <2>1 DEF FormDated, Grows
  <2>7. FormDated'
    BY <1>2, <2>1, <2>3, <2>4, <2>5, <2>6 DEF FormDated
  <2> QED
    BY <2>3, <2>7
<1> QED
  BY <1>1, <1>2

\* A reset writes a new password and drops the address that waited.
LEMMA PasswordResetEndsKeeps ==
    ASSUME EmailInv, PasswordResetEnds
    PROVE  EmailInv'
<1> DEFINE u == form.user
           a == account[u]
           c == form.copy
           good == a.pw = c.pw /\ a.pw < MaxPw /\ (c.active \/ a.active \/ ~a.blocked)
           v == a.verified \/ confirm_email_address(a, c)
           o == a.active \/ ~c.active
           r == WithReset(a, a.pw + 1, None, v, o)
<1>1. u \in Users /\ a.kind = "person" /\ c \in Row /\ form' = NoForm /\ notices' = notices /\ MailNamed'
  BY DEF PasswordResetEnds, EmailInv, FormDated, MailNamed
<1>2. FormDated' /\ Reserved'
  BY <1>1, NoFormOk
<1>3. CASE ~good
  <2>1. account' = account /\ links' = links
    BY <1>3 DEF PasswordResetEnds
  <2> QED
    BY <1>1, <1>2, <2>1, Unmoved DEF EmailInv
<1>4. CASE good
  <2>1. /\ account' = [account EXCEPT ![u] = r]
        /\ links' = {IF l.user = u THEN [l EXCEPT !.stale = TRUE] ELSE l : l \in links}
    BY <1>4 DEF PasswordResetEnds, WithReset
  <2>2. a \in Row /\ RowOk(a)
    BY <1>1, AccountRow
  <2>3. v \in BOOLEAN /\ o \in BOOLEAN
    OBVIOUS
  <2>4. a.pw \in 0..MaxPw /\ a.pw + 1 \in 0..MaxPw /\ a.left \in 0..UndoDays
    BY <1>4, <2>2, RowIsRec, EmailAssumption
  <2> HIDE DEF v, o
  <2>5. r = Rec(a.kind, a.email, v, None, a.recovery, a.left, a.pw + 1, o, a.blocked)
    BY <2>2, EditWithReset
  <2> HIDE DEF r
  <2>6. r \in Row
    BY <2>2, <2>3, <2>4, <2>5, RowIsRec, RecIsRow, ZenonT(60)
  <2>7. /\ r.kind = a.kind /\ r.email = a.email /\ r.pending = None
        /\ r.recovery = a.recovery /\ r.left = a.left /\ r.pw = a.pw + 1
    BY <2>5 DEF Rec
  <2>8. RowOk(r) /\ r.pw >= a.pw /\ a.pw < r.pw /\ Exists(u)
    BY <1>1, <2>4, <2>6, <2>7 DEF RowOk, Exists
  <2>9. /\ ChangeOk(u, r)
        /\ r.left > 0 => r.left <= account[u].left /\ r.recovery = account[u].recovery
    BY <1>1, <2>7, <2>8, SameHolder
  <2> HIDE DEF u
  <2>10. /\ Rows' /\ OneHolder' /\ Grows
         /\ account'[u] = r /\ \A w \in Users \ {u} : account'[w] = account[w]
    BY <1>1, <2>1, <2>9, AddressStep
  <2>11. LinksDated'
    BY <1>1, <2>1, <2>8, <2>10, LinksOutdated
  <2>12. NoticesNamed'
    BY <1>1, <2>10, NoticesKept
  <2>13. Linked'
    BY <1>1, <2>8, <2>9, <2>10, LinkedKept
  <2> QED
    BY <1>1, <1>2, <2>10, <2>11, <2>12, <2>13 DEF EmailInv
<1> QED
  BY <1>3, <1>4

-----------------------------------------------------------------------------
(* Accounts, mail and time.                                                *)

\* Mail alone.
LEMMA MailKeeps ==
    ASSUME EmailInv, UNCHANGED <<account, links, notices, form>>, MailNamed'
    PROVE  EmailInv'
<1>1. Rows' /\ LinksDated' /\ NoticesNamed' /\ OneHolder' /\ Linked'
  BY Unmoved
<1>2. FormDated' /\ Reserved'
  BY DEF EmailInv, FormDated, Exists, Reserved, Unguarded, Spares, recovery_address
<1> QED
  BY <1>1, <1>2 DEF EmailInv

\* A change that waits is mailed again under the password the account has.
LEMMA ResendKeeps ==
    ASSUME EmailInv, NEW u \in Users, account[u].pending # None,
           send_email_change_link(u, account[u], account[u].pending, FALSE),
           UNCHANGED <<account, notices, verifies, resets, form>>
    PROVE  EmailInv'
<1> DEFINE a == account[u]
           new == ChangeLink(u, a, a.pending, FALSE)
<1>1. /\ a.email \in Addresses \union {None} /\ a.pending \in Addresses
      /\ a.pw \in 0..MaxPw
  BY AccountRow, RowIsRec
<1>2. links' \subseteq links \union {new}
  BY DEF send_email_change_link
<1>3. /\ new \in Link /\ new.user = u /\ new.pw = a.pw /\ new.stale = FALSE
  BY <1>1, EmailAssumption DEF ChangeLink, Link
<1> HIDE DEF new
<1>4. new.pw <= account[new.user].pw /\ ~new.stale
  BY <1>1, <1>3
<1>5. LinksDated'
  BY <1>2, <1>3, <1>4 DEF EmailInv, LinksDated
<1>6. Rows' /\ NoticesNamed' /\ OneHolder' /\ Linked'
  BY DEF EmailInv, Rows, NoticesNamed, Exists, OneHolder, Held, recovery_address, Linked,
         LinkedFor
<1>7. MailNamed' /\ FormDated' /\ Reserved'
  BY DEF EmailInv, MailNamed, FormDated, Exists, Reserved, Unguarded, Spares, recovery_address
<1> QED
  BY <1>5, <1>6, <1>7 DEF EmailInv

\* A verification link only adds one of an address the account has now.
LEMMA VerificationKeeps ==
    ASSUME EmailInv, NEW u \in Users, send_email_verification(u)
    PROVE  EmailInv'
<1> DEFINE v == VerificationLink(u, account[u].email, FALSE)
<1>1. /\ UNCHANGED <<account, links, notices, form>>
      /\ verifies' = verifies \union {v} /\ resets' = resets
  BY DEF send_email_verification
<1>2. v.user = u
  BY DEF VerificationLink
<1> HIDE DEF v
<1>3. MailNamed'
  BY <1>1, <1>2 DEF EmailInv, MailNamed
<1> QED
  BY <1>1, <1>3, MailKeeps

\* Sending a link only adds one that carries the row's password as it is now.
LEMMA SendsKeep ==
    ASSUME EmailInv, NEW u \in Users,
           \/ SendEmailVerification(u) \/ AdminUserSendEmailVerification(u)
           \/ SendPasswordReset(u) \/ AdminUserSendPasswordReset(u)
    PROVE  EmailInv'
<1>1. account[u].email \in Addresses \union {None}
  BY AccountRow, RowIsRec
<1>2. CASE SendEmailVerification(u)
  BY <1>2, ResendKeeps, VerificationKeeps DEF SendEmailVerification
<1>3. CASE SendPasswordReset(u)
  <2> DEFINE t == [user |-> u, email |-> account[u].email, pw |-> account[u].pw]
  <2>1. /\ UNCHANGED <<account, links, notices, form>>
        /\ verifies' = verifies /\ resets' = resets \union {t}
    BY <1>3 DEF SendPasswordReset
  <2>2. t.user = u /\ t.email = account[u].email
    OBVIOUS
  <2> HIDE DEF t
  <2>3. MailNamed'
    BY <1>1, <2>1, <2>2 DEF EmailInv, MailNamed
  <2> QED
    BY <2>1, <2>3, MailKeeps
<1>4. CASE AdminUserSendEmailVerification(u)
  BY <1>4, VerificationKeeps DEF AdminUserSendEmailVerification
<1> QED
  BY <1>2, <1>3, <1>4 DEF AdminUserSendPasswordReset

\* A new account outside the form's.
LEMMA CreateKeeps ==
    ASSUME EmailInv, NEW u \in Users, ~Exists(u), form.user # u,
           NEW kind \in {"person", "donor"}, NEW address \in Addresses,
           create_account(u, kind, address), MailNamed', UNCHANGED <<links, notices, form>>,
           \A v \in Users \ {u} : Exists(v) => address \notin Held(v)
    PROVE  EmailInv'
<1> DEFINE r == NewUser(kind, address)
<1>1. ChangeOk(u, r) /\ r.left = 0 /\ \A x \in Addresses : Spares(r, x)
  BY CreateOk
<1>2. account' = [account EXCEPT ![u] = r]
  BY DEF create_account
<1> HIDE DEF r
<1>3. links' = links /\ notices' = notices /\ form' = form
  OBVIOUS
<1>4. ~(r.left > 0)
  BY <1>1
<1> QED
  BY <1>1, <1>2, <1>3, <1>4, QuietChange

\* Registering makes an account for an address nobody holds, or makes none.
LEMMA RegisterMemberKeeps ==
    ASSUME EmailInv, NEW address \in Addresses, RegisterMember(address)
    PROVE  EmailInv'
<1> DEFINE holders == {u \in Users : Exists(u) /\ address \in Held(u)}
           free == {u \in Users : ~Exists(u) /\ form.user # u}
           new == CHOOSE v \in free : TRUE
<1>1. UNCHANGED <<links, notices, resets, form>>
  BY DEF RegisterMember
<1>2. \/ /\ account' = account
         /\ \E u \in holders : verifies' = verifies \union {VerificationLink(u, address, TRUE)}
      \/ /\ holders = {} /\ free # {} /\ create_account(new, "person", address)
         /\ verifies' = verifies \union {VerificationLink(new, address, FALSE)}
  BY DEF RegisterMember
<1>3. \A u, b : VerificationLink(u, address, b).user = u
  BY DEF VerificationLink
<1>4. CASE /\ account' = account
           /\ \E u \in holders : verifies' = verifies \union {VerificationLink(u, address, TRUE)}
  <2>1. PICK u \in Users : verifies' = verifies \union {VerificationLink(u, address, TRUE)}
    BY <1>4
  <2>2. MailNamed'
    <3> DEFINE v == VerificationLink(u, address, TRUE)
    <3>1. verifies' = verifies \union {v} /\ v.user = u
      BY <1>3, <2>1
    <3> HIDE DEF v
    <3> QED
      BY <1>1, <3>1 DEF EmailInv, MailNamed
  <2> QED
    BY <1>1, <1>4, <2>2, MailKeeps
<1>5. CASE /\ holders = {} /\ free # {} /\ create_account(new, "person", address)
           /\ verifies' = verifies \union {VerificationLink(new, address, FALSE)}
  <2>1. new \in Users /\ ~Exists(new) /\ form.user # new
    BY <1>5
  <2>2. \A v \in Users : Exists(v) => address \notin Held(v)
    BY <1>5
  <2> HIDE DEF new
  <2>3. MailNamed'
    BY <1>1, <1>3, <1>5, <2>1, ZenonT(60) DEF EmailInv, MailNamed
  <2> QED
    BY <1>1, <1>5, <2>1, <2>2, <2>3, CreateKeeps
<1> QED
  BY <1>2, <1>4, <1>5

\* A donor's row is made for an address nobody holds.
LEMMA DonorForKeeps ==
    ASSUME EmailInv, NEW address \in Addresses, donor_for(address)
    PROVE  EmailInv'
<1> DEFINE free == {u \in Users : ~Exists(u) /\ form.user # u}
           new == CHOOSE u \in free : TRUE
<1>1. UNCHANGED <<links, notices, form>> /\ MailNamed' /\ create_account(new, "donor", address)
  BY DEF donor_for, EmailInv, MailNamed
<1>2. new \in Users /\ ~Exists(new) /\ form.user # new
  BY DEF donor_for
<1>3. \A v \in Users : Exists(v) => address \notin Held(v)
  BY EmailAssumption DEF donor_for, address_taken, None
<1> HIDE DEF new
<1> QED
  BY <1>1, <1>2, <1>3, CreateKeeps

\* A verification link changes no address.
LEMMA VerifyEmailKeeps ==
    ASSUME EmailInv, NEW v \in verifies, VerifyEmail(v)
    PROVE  EmailInv'
<1> DEFINE u == v.user
           a == account[u]
           w == IF a.kind = "donor" THEN a.pw + 1 ELSE a.pw
           r == WithVerified(a, TRUE, "person", w)
<1>1. u \in Users /\ UNCHANGED <<links, notices, form>> /\ MailNamed'
  BY DEF VerifyEmail, EmailInv, MailNamed
<1>2. account' = [account EXCEPT ![u] = r]
  BY DEF VerifyEmail, WithVerified
<1>3. a \in Row /\ RowOk(a)
  BY <1>1, AccountRow
<1>4. Exists(u)
  BY <1>1, AccountRow DEF VerifyEmail, VerificationTarget
<1>5. w \in 0..MaxPw /\ w >= a.pw /\ a.pw \in 0..MaxPw
  BY <1>3, RowIsRec, EmailAssumption DEF VerifyEmail
<1> HIDE DEF w
<1>6. r = Rec("person", a.email, TRUE, a.pending, a.recovery, a.left, w, a.active, a.blocked)
  BY <1>3, EditWithVerified
<1> HIDE DEF r
<1>7. r \in Row
  BY <1>3, <1>5, <1>6, RowIsRec, RecIsRow
<1>8. /\ r.kind = "person" /\ r.email = a.email /\ r.pending = a.pending
      /\ r.recovery = a.recovery /\ r.left = a.left /\ r.pw = w
  BY <1>6 DEF Rec
<1>9. RowOk(r)
  BY <1>7, <1>8 DEF RowOk
<1>10. /\ ChangeOk(u, r)
       /\ r.left > 0 => r.left <= account[u].left /\ r.recovery = account[u].recovery
       /\ \A x \in Addresses : Spares(account[u], x) => Spares(r, x)
  BY <1>1, <1>4, <1>5, <1>8, <1>9, SameHolder
<1> HIDE DEF u
<1> QED
  BY <1>1, <1>2, <1>10, QuietChange

\* The account's own row, edited where nobody's address is.
LEMMA StateKeeps ==
    ASSUME EmailInv, NEW u \in Users, Deactivate(u) \/ Reactivate(u) \/ WindowEnds(u)
    PROVE  EmailInv'
<1> DEFINE a == account[u]
<1>1. a \in Row /\ RowOk(a)
  BY AccountRow
<1>2. UNCHANGED <<links, notices, form>> /\ MailNamed'
  BY DEF Deactivate, Reactivate, WindowEnds, EmailInv, MailNamed
<1>3. a.kind = "person"
  <2>1. a.kind # "person" => a.left = 0
    BY <1>1 DEF RowOk
  <2> QED
    BY <2>1 DEF Deactivate, Reactivate, WindowEnds
<1>4. PICK r : /\ account' = [account EXCEPT ![u] = r]
               /\ \/ r = WithActive(a, FALSE, None)
                  \/ r = WithOpen(a, TRUE) \/ r = [a EXCEPT !.left = 0]
  BY DEF Deactivate, Reactivate, WindowEnds, WithActive, WithOpen
<1>5. PICK p \in {a.pending, None}, d \in {a.left, 0}, c \in BOOLEAN :
         r = Rec("person", a.email, a.verified, p, a.recovery, d, a.pw, c, a.blocked)
  <2>1. CASE r = WithActive(a, FALSE, None)
    BY <1>1, <1>3, <2>1, EditWithActive
  <2>2. CASE r = WithOpen(a, TRUE)
    BY <1>1, <1>3, <2>2, EditWithOpen
  <2>3. CASE r = [a EXCEPT !.left = 0]
    <3>1. r = Rec("person", a.email, a.verified, a.pending, a.recovery, 0, a.pw, a.active,
                  a.blocked)
      BY <1>1, <1>3, <2>3, RowIsRec DEF Rec
    <3> QED
      BY <1>1, <3>1, RowIsRec
  <2> QED
    BY <1>4, <2>1, <2>2, <2>3
<1>6. /\ r.kind = "person" /\ r.email = a.email /\ r.pending = p /\ r.recovery = a.recovery
      /\ r.left = d /\ r.pw = a.pw
  BY <1>5 DEF Rec
<1>7. r \in Row
  <2>1. d \in 0..UndoDays
    BY <1>1, RowIsRec, EmailAssumption
  <2> QED
    BY <1>1, <1>5, <2>1, RowIsRec, RecIsRow
<1>8. RowOk(r) /\ Exists(u) /\ r.pw >= a.pw
  <2>1. a.pw \in 0..MaxPw
    BY <1>1, RowIsRec
  <2> QED
    BY <1>3, <1>6, <1>7, <2>1, EmailAssumption DEF RowOk, Exists
<1>9. /\ ChangeOk(u, r)
      /\ r.left > 0 => r.left <= account[u].left /\ r.recovery = account[u].recovery
      /\ \A x \in Addresses : Spares(account[u], x) => Spares(r, x)
  BY <1>6, <1>8, SameHolder
<1> QED
  BY <1>2, <1>4, <1>9, QuietChange

\* A new password outdates every link and form of the account.
LEMMA NewPasswordKeeps ==
    ASSUME EmailInv, NEW u \in Users, PasswordChange(u)
    PROVE  EmailInv'
<1> DEFINE a == account[u]
           w == a.pw + 1
           r == WithPassword(a, w, None)
<1>1. /\ account' = [account EXCEPT ![u] = r]
      /\ notices' = notices /\ MailNamed' /\ a.kind = "person" /\ a.pw < MaxPw
      /\ links' = {IF l.user = u THEN [l EXCEPT !.stale = TRUE] ELSE l : l \in links}
      /\ form' = IF form.user = u THEN [form EXCEPT !.stale = TRUE] ELSE form
  BY DEF PasswordChange, WithPassword, Outdate, EmailInv, MailNamed
<1>2. a \in Row
  BY AccountRow
<1>3. a.pw \in 0..MaxPw /\ w \in 0..MaxPw /\ w >= a.pw /\ a.pw < w
  BY <1>1, <1>2, RowIsRec, EmailAssumption
<1> HIDE DEF w
<1>4. r = Rec(a.kind, a.email, a.verified, None, a.recovery, a.left, w, a.active, a.blocked)
  BY <1>2, EditWithPassword
<1> HIDE DEF r
<1>5. r \in Row
  BY <1>2, <1>3, <1>4, RowIsRec, RecIsRow, ZenonT(60)
<1>6. /\ r.kind = a.kind /\ r.email = a.email /\ r.pending = None /\ r.recovery = a.recovery
      /\ r.left = a.left /\ r.pw = w
  BY <1>4 DEF Rec
<1>7. RowOk(r) /\ Exists(u)
  BY <1>1, <1>5, <1>6 DEF RowOk, Exists
<1>8. /\ ChangeOk(u, r)
      /\ r.left > 0 => r.left <= account[u].left /\ r.recovery = account[u].recovery
      /\ \A x \in Addresses : Spares(account[u], x) => Spares(r, x)
  BY <1>1, <1>3, <1>6, <1>7, SameHolder
<1>9. /\ Rows' /\ OneHolder' /\ Grows
      /\ account'[u] = r /\ \A v \in Users \ {u} : account'[v] = account[v]
  BY <1>1, <1>8, AddressStep
<1>10. account[u].pw < account'[u].pw
  BY <1>3, <1>6, <1>9
<1>11. LinksDated'
  BY <1>1, <1>9, <1>10, LinksOutdated
<1>12. /\ FormDated'
       /\ form'.kind = form.kind /\ form'.user = form.user /\ form'.to = form.to
       /\ form'.copy = form.copy
  BY <1>1, <1>9, <1>10, FormOutdated
<1>13. Reserved'
  BY <1>8, <1>9, <1>12, ReservedKept
<1>14. NoticesNamed' /\ Linked'
  BY <1>1, <1>7, <1>8, <1>9, NoticesKept, LinkedKept
<1> QED
  BY <1>1, <1>9, <1>11, <1>12, <1>13, <1>14 DEF EmailInv

\* The address a completed change keeps is one the account holds already.
LEMMA KeptIsOwn ==
    ASSUME EmailInv, NEW u \in Users
    PROVE  /\ KeptAddress(account[u]) \in Addresses \union {None}
           /\ KeptAddress(account[u]) # None => KeptAddress(account[u]) \in Held(u)
           /\ account[u].pending # None =>
                \A x \in Addresses : Spares(account[u], x) => KeptAddress(account[u]) # x
<1> DEFINE a == account[u]
<1>1. a.email \in Addresses \union {None} /\ a.recovery \in Addresses \union {None}
  BY AccountRow, RowIsRec
<1>2. KeptAddress(a) \in {recovery_address(a), a.email, None}
  BY DEF KeptAddress
<1>3. recovery_address(a) \in Addresses \union {None}
  BY <1>1 DEF recovery_address
<1>4. KeptAddress(a) # None => KeptAddress(a) \in Held(u)
  BY <1>2 DEF Held
<1>5. a.pending # None => \A x \in Addresses : Spares(a, x) => KeptAddress(a) # x
  BY <1>2, EmailAssumption DEF Spares
<1> QED
  BY <1>1, <1>2, <1>3, <1>4, <1>5

\* A change completes only onto an address that is still free, and leaves an undo link.
LEMMA CompleteEmailChangeKeeps ==
    ASSUME EmailInv, NEW l \in links, CompleteEmailChange(l)
    PROVE  EmailInv'
<1> DEFINE u == l.user
           a == account[u]
           e == a.pending
           y == KeptAddress(a)
           d == RecoveryWindow(y)
           r == WithChange(a, e, None, TRUE, y, d)
<1>1. u \in Users /\ l.to \in Addresses
  BY DEF EmailInv, LinksDated, Link
<1>2. /\ account' = [account EXCEPT ![u] = r] /\ notices' = notices \union CompletionNotice(u)
      /\ links' = links /\ form' = form /\ MailNamed'
      /\ e \in Addresses /\ ~address_taken(e, u)
  BY <1>1 DEF CompleteEmailChange, LinkGood, WithChange, EmailInv, MailNamed
<1>3. a \in Row /\ RowOk(a) /\ a.kind = "person" /\ Exists(u)
  BY <1>1, <1>2, AccountRow, EmailAssumption DEF RowOk, Exists
<1>4. /\ y \in Addresses \union {None} /\ (y # None => y \in Held(u))
      /\ \A x \in Addresses : Spares(a, x) => y # x
  BY <1>1, <1>2, EmailAssumption, KeptIsOwn
<1>5. d \in 0..UndoDays /\ (d > 0 => y # None /\ d = UndoDays)
  BY EmailAssumption DEF RecoveryWindow
<1>6. CompletionNotice(u) = IF y = None THEN {} ELSE {Notice(u, y)}
  BY DEF CompletionNotice
<1> HIDE DEF y, d, e
<1>7. r = Rec(a.kind, e, TRUE, None, y, d, a.pw, a.active, a.blocked)
  BY <1>3, EditWithChange
<1> HIDE DEF r
<1>8. r \in Row
  BY <1>2, <1>3, <1>4, <1>5, <1>7, RowIsRec, RecIsRow
<1>9. /\ r.kind = "person" /\ r.email = e /\ r.pending = None /\ r.recovery = y /\ r.left = d
      /\ r.pw = a.pw
  BY <1>3, <1>7 DEF Rec
<1>10. RowOk(r)
  BY <1>8, <1>9 DEF RowOk
<1>11. recovery_address(r) \in {y, None}
  BY <1>9 DEF recovery_address
<1>12. ChangeOk(u, r)
  <2>1. \A x \in HeldIn(r), v \in Users \ {u} : Exists(v) => x \notin Held(v)
    <3> SUFFICES ASSUME NEW x \in HeldIn(r), NEW v \in Users \ {u}, Exists(v)
                 PROVE  x \notin Held(v)
      OBVIOUS
    <3>1. x = e \/ x \in Held(u)
      BY <1>4, <1>9, <1>11 DEF HeldIn
    <3>2. e \notin Held(v)
      BY <1>2 DEF address_taken
    <3>3. Held(u) \cap Held(v) = {}
      BY <1>1, <1>3 DEF EmailInv, OneHolder
    <3> QED
      BY <3>1, <3>2, <3>3
  <2>2. r.pw >= account[u].pw
    BY <1>3, <1>9, RowIsRec
  <2> QED
    BY <1>9, <1>10, <2>1, <2>2 DEF ChangeOk
<1>13. \A x \in Addresses : Spares(account[u], x) => Spares(r, x)
  BY <1>4, <1>9, <1>11, EmailAssumption DEF Spares
<1> HIDE DEF u
<1>14. /\ Rows' /\ OneHolder' /\ Grows
       /\ account'[u] = r /\ \A v \in Users \ {u} : account'[v] = account[v]
  BY <1>1, <1>2, <1>12, AddressStep
<1>15. LinksDated' /\ FormDated'
  BY <1>2, <1>14, LinksKept, FormKept
<1>16. Reserved'
  BY <1>1, <1>2, <1>13, <1>14, ReservedKept
<1> DEFINE n == Notice(u, y)
<1>17. /\ n.user = u /\ n.from = y /\ n.left = UndoDays /\ n.fresh = TRUE
       /\ y # None => n \in [user : Users, from : Addresses, left : Int, fresh : BOOLEAN]
  BY <1>1, <1>4, EmailAssumption DEF Notice
<1> HIDE DEF n
<1>18. notices' = IF y = None THEN notices ELSE notices \union {n}
  BY <1>2, <1>6 DEF n
<1>19. NoticesNamed'
  <2>1. account'[n.user].kind # "none"
    BY <1>9, <1>14, <1>17
  <2> QED
    BY <1>14, <1>17, <1>18, <2>1, NoticesStayNamed DEF NoticesNamed, Exists
<1>20. Linked'
  <2> SUFFICES ASSUME NEW v \in Users, account'[v].left > 0
               PROVE  LinkedFor(v)'
    BY DEF Linked
  <2>1. CASE v = u
    <3>1. n \in notices' /\ n.left >= account'[u].left /\ n.from = account'[u].recovery
      BY <1>5, <1>9, <1>14, <1>17, <1>18, <2>1, EmailAssumption
    <3> QED
      BY <1>17, <2>1, <3>1 DEF LinkedFor
  <2>2. CASE v # u
    <3>1. LinkedFor(v) /\ account'[v] = account[v]
      BY <1>14, <2>2 DEF EmailInv, Linked
    <3> QED
      BY <1>18, <3>1 DEF LinkedFor
  <2> QED
    BY <2>1, <2>2
<1> QED
  BY <1>2, <1>14, <1>15, <1>16, <1>19, <1>20 DEF EmailInv

\* Taking back a change returns to the address the row has kept reserved.
LEMMA UndoEmailChangeKeeps ==
    ASSUME EmailInv, NEW n \in notices, UndoEmailChange(n)
    PROVE  EmailInv'
<1> DEFINE u == n.user
           a == account[u]
           moved == a.email # n.from
           taken == moved /\ address_taken(n.from, u)
           restored == moved /\ ~taken
           c == a.active /\ ~taken
           b == a.blocked \/ taken
           e == IF restored THEN n.from ELSE a.email
           v == a.verified \/ restored
           w == a.pw + 1
           r == WithUndo(a, c, b, e, v, None, None, 0, w)
           t == [user |-> u, email |-> n.from, pw |-> a.pw + 1]
<1>1. u \in Users /\ n.from \in Addresses
  BY DEF EmailInv, NoticesNamed
<1>2. /\ account' = [account EXCEPT ![u] = r]
      /\ notices' = {IF m.user = u THEN [m EXCEPT !.fresh = FALSE] ELSE m : m \in notices}
      /\ verifies' = verifies /\ resets' \subseteq resets \union {t}
      /\ links' = {IF l.user = u THEN [l EXCEPT !.stale = TRUE] ELSE l : l \in links}
      /\ form' = IF form.user = u THEN [form EXCEPT !.stale = TRUE] ELSE form
      /\ a.kind = "person" /\ a.pw < MaxPw
  BY DEF UndoEmailChange, UndoWorks, Outdate, Closed, WithUndo
<1>3. a \in Row /\ RowOk(a) /\ Exists(u)
  BY <1>1, <1>2, AccountRow DEF Exists
<1>4. c \in BOOLEAN /\ b \in BOOLEAN /\ v \in BOOLEAN
  OBVIOUS
<1>5. a.pw \in 0..MaxPw /\ w \in 0..MaxPw /\ w >= a.pw /\ a.pw < w /\ 0 \in 0..UndoDays
      /\ e \in Addresses \union {None}
  BY <1>1, <1>2, <1>3, RowIsRec, EmailAssumption
<1>6. e = a.email \/ (e = n.from /\ (moved => ~address_taken(n.from, u)))
  OBVIOUS
<1>7. e = a.email \/ ~address_taken(e, u)
  BY <1>6
<1> HIDE DEF c, b, v, w, e
<1>8. r = Rec(a.kind, e, v, None, None, 0, w, c, b)
  BY <1>3, EditWithUndo
<1> HIDE DEF r
<1>9. r \in Row
  BY <1>3, <1>4, <1>5, <1>8, RowIsRec, RecIsRow
<1>10. r.kind = "person" /\ r.email = e /\ r.pending = None /\ r.left = 0 /\ r.pw = w
  BY <1>2, <1>8 DEF Rec
<1>11. RowOk(r)
  BY <1>9, <1>10 DEF RowOk
<1>12. recovery_address(r) = None
  BY <1>10 DEF recovery_address
<1>13. ChangeOk(u, r)
  <2>1. \A x \in HeldIn(r), z \in Users \ {u} : Exists(z) => x \notin Held(z)
    <3> SUFFICES ASSUME NEW x \in HeldIn(r), NEW z \in Users \ {u}, Exists(z)
                 PROVE  x \notin Held(z)
      OBVIOUS
    <3>1. x = e /\ x # None
      BY <1>10, <1>12 DEF HeldIn
    <3>2. CASE e = a.email
      <4>1. x \in Held(u)
        BY <3>1, <3>2 DEF Held
      <4> QED
        BY <1>1, <1>3, <4>1 DEF EmailInv, OneHolder
    <3>3. CASE ~address_taken(e, u)
      BY <3>1, <3>3 DEF address_taken
    <3> QED
      BY <1>7, <3>2, <3>3
  <2> QED
    BY <1>5, <1>10, <1>11, <2>1 DEF ChangeOk
<1>14. \A x \in Addresses : Spares(r, x)
  BY <1>10, <1>12, EmailAssumption DEF Spares
<1>15. MailNamed'
  <2>1. t.user = u /\ t.email = n.from
    OBVIOUS
  <2> HIDE DEF t
  <2> QED
    BY <1>1, <1>2, <2>1 DEF EmailInv, MailNamed
<1> HIDE DEF u
<1>16. /\ Rows' /\ OneHolder' /\ Grows
       /\ account'[u] = r /\ \A z \in Users \ {u} : account'[z] = account[z]
  BY <1>1, <1>2, <1>13, AddressStep
<1>17. account[u].pw < account'[u].pw
  BY <1>5, <1>10, <1>16
<1>18. LinksDated'
  BY <1>1, <1>2, <1>16, <1>17, LinksOutdated
<1>19. /\ FormDated'
       /\ form'.kind = form.kind /\ form'.user = form.user /\ form'.to = form.to
       /\ form'.copy = form.copy
  BY <1>1, <1>2, <1>16, <1>17, FormOutdated
<1>20. Reserved'
  BY <1>1, <1>14, <1>16, <1>19, ReservedKept
<1>21. NoticesNamed'
  <2> SUFFICES ASSUME NEW m \in notices'
               PROVE  /\ m \in [user : Users, from : Addresses, left : Int, fresh : BOOLEAN]
                      /\ account'[m.user].kind # "none"
    BY DEF NoticesNamed, Exists
  <2>1. PICK k \in notices : m = IF k.user = u THEN [k EXCEPT !.fresh = FALSE] ELSE k
    BY <1>2
  <2>2. /\ k \in [user : Users, from : Addresses, left : Int, fresh : BOOLEAN]
        /\ account'[k.user].kind # "none"
    BY <1>16, NoticesStayNamed
  <2>3. CASE k.user = u
    <3>1. m = [k EXCEPT !.fresh = FALSE]
      BY <2>1, <2>3
    <3>2. m \in [user : Users, from : Addresses, left : Int, fresh : BOOLEAN] /\ m.user = k.user
      BY <2>2, <3>1
    <3> QED
      BY <2>2, <3>2
  <2>4. CASE k.user # u
    BY <2>1, <2>2, <2>4
  <2> QED
    BY <2>3, <2>4
<1>22. Linked'
  <2> SUFFICES ASSUME NEW z \in Users, account'[z].left > 0
               PROVE  LinkedFor(z)'
    BY DEF Linked
  <2>1. z # u
    BY <1>10, <1>16
  <2>2. LinkedFor(z) /\ account'[z] = account[z]
    BY <1>16, <2>1 DEF EmailInv, Linked
  <2>3. PICK k \in notices : /\ k.user = z /\ k.from = account[z].recovery
                             /\ k.fresh /\ k.left >= account[z].left
    BY <2>2 DEF LinkedFor
  <2>4. k \in notices'
    BY <1>2, <2>1, <2>3
  <2> QED
    BY <2>2, <2>3, <2>4 DEF LinkedFor
<1> QED
  BY <1>15, <1>16, <1>18, <1>19, <1>20, <1>21, <1>22 DEF EmailInv

\* A day passes for the windows and for the links alike.
LEMMA NewDayKeeps ==
    ASSUME EmailInv, NewDay
    PROVE  EmailInv'
<1> DEFINE left(u) == IF account[u].left = 0 THEN 0 ELSE account[u].left - 1
<1>1. /\ account' = [u \in Users |-> [account[u] EXCEPT !.left = left(u)]]
      /\ links' = Older(links) /\ notices' = Older(notices) /\ form' = form
      /\ form.kind = "none" /\ MailNamed'
  BY DEF NewDay, EmailInv, MailNamed
<1>2. ASSUME NEW u \in Users
      PROVE  LET a == account[u]
                 r == account'[u]
             IN  /\ RowOk(a) /\ RowOk(r)
                 /\ r.kind = a.kind /\ r.email = a.email /\ r.recovery = a.recovery
                 /\ r.pw = a.pw /\ a.pw \in Nat /\ r.left = left(u)
                 /\ a.left \in Nat
                 /\ recovery_address(r) \in {None, recovery_address(a)}
  <2> DEFINE a == account[u]
             r == account'[u]
             d == left(u)
  <2>1. a \in Row /\ RowOk(a)
    BY AccountRow
  <2>2. r = [a EXCEPT !.left = d]
    BY <1>1
  <2>3. a.left \in 0..UndoDays /\ d \in 0..UndoDays /\ (a.left = 0 => d = 0) /\ (d > 0 => a.left > 0)
    BY <2>1, RowIsRec, EmailAssumption
  <2> HIDE DEF d
  <2>4. r = Rec(a.kind, a.email, a.verified, a.pending, a.recovery, d, a.pw, a.active, a.blocked)
    BY <2>1, <2>2, RowIsRec DEF Rec
  <2>5. r \in Row
    <3>1. Rec(a.kind, a.email, a.verified, a.pending, a.recovery, d, a.pw, a.active, a.blocked)
             \in Row
      <4> HIDE DEF a
      <4> QED
        BY <2>1, <2>3, RowIsRec, RecIsRow
    <3> QED
      BY <2>4, <3>1
  <2>6. /\ r.kind = a.kind /\ r.email = a.email /\ r.pending = a.pending
        /\ r.recovery = a.recovery /\ r.left = d /\ r.pw = a.pw
    BY <2>4 DEF Rec
  <2>7. a.left = 0 => r = a
    BY <2>1, <2>3, <2>4, RowIsRec
  <2>8. RowOk(r)
    BY <2>1, <2>3, <2>5, <2>6, <2>7 DEF RowOk
  <2>9. recovery_address(r) \in {None, recovery_address(a)}
    BY <2>3, <2>6 DEF recovery_address
  <2>10. a.pw \in Nat /\ a.left \in Nat
    BY <2>1, RowIsRec, EmailAssumption
  <2> QED
    BY <2>1, <2>6, <2>8, <2>9, <2>10 DEF d
<1>3. Rows'
  BY <1>1, <1>2 DEF Rows
<1>4. Grows
  BY <1>2 DEF Grows, Exists
<1>5. OneHolder'
  <2>1. \A u \in Users : Held(u)' \subseteq Held(u) /\ (Exists(u)' <=> Exists(u))
    BY <1>2 DEF Held, Exists, recovery_address
  <2> QED
    BY <2>1 DEF EmailInv, OneHolder
<1>6. LinksDated'
  <2> SUFFICES ASSUME NEW m \in links'
               PROVE  /\ m \in Link /\ m.pw <= account'[m.user].pw
                      /\ m.stale => m.pw < account'[m.user].pw
    BY DEF LinksDated
  <2>1. PICK l \in links : m = [l EXCEPT !.left = l.left - 1]
    BY <1>1 DEF Older
  <2>2. /\ l \in Link /\ l.pw <= account'[l.user].pw
        /\ l.stale => l.pw < account'[l.user].pw
    BY <1>3, <1>4, LinksStayDated
  <2>3. m \in Link /\ m.pw = l.pw /\ m.user = l.user /\ m.stale = l.stale
    BY <2>1, <2>2 DEF Link
  <2> QED
    BY <2>2, <2>3
<1>7. NoticesNamed'
  <2> SUFFICES ASSUME NEW m \in notices'
               PROVE  /\ m \in [user : Users, from : Addresses, left : Int, fresh : BOOLEAN]
                      /\ account'[m.user].kind # "none"
    BY DEF NoticesNamed, Exists
  <2>1. PICK n \in notices : m = [n EXCEPT !.left = n.left - 1]
    BY <1>1 DEF Older
  <2>2. /\ n \in [user : Users, from : Addresses, left : Int, fresh : BOOLEAN]
        /\ account'[n.user].kind # "none"
    BY <1>4, NoticesStayNamed
  <2>3. m \in [user : Users, from : Addresses, left : Int, fresh : BOOLEAN] /\ m.user = n.user
    BY <2>1, <2>2
  <2> QED
    BY <2>2, <2>3
<1>8. FormDated' /\ Reserved'
  BY <1>1, <1>3, <1>4, FormKept DEF Reserved, Unguarded
<1>9. Linked'
  <2> SUFFICES ASSUME NEW u \in Users, account'[u].left > 0
               PROVE  LinkedFor(u)'
    BY DEF Linked
  <2>1. /\ account[u].left > 1 /\ account'[u].left = account[u].left - 1
        /\ account[u].left \in Nat /\ account'[u].recovery = account[u].recovery
    BY <1>2
  <2>2. PICK n \in notices : /\ n.user = u /\ n.from = account[u].recovery
                             /\ n.fresh /\ n.left >= account[u].left
    BY <2>1 DEF EmailInv, Linked, LinkedFor
  <2>3. n \in [user : Users, from : Addresses, left : Int, fresh : BOOLEAN]
    BY DEF EmailInv, NoticesNamed
  <2> DEFINE m == [n EXCEPT !.left = n.left - 1]
  <2>4. m \in notices'
    <3>1. n.left > 1
      BY <2>1, <2>2, <2>3
    <3> QED
      BY <1>1, <3>1 DEF Older
  <2>5. m.user = n.user /\ m.from = n.from /\ m.fresh = n.fresh /\ m.left = n.left - 1
    BY <2>3
  <2> HIDE DEF m
  <2>6. m.left >= account'[u].left
    BY <2>1, <2>2, <2>3, <2>5
  <2> QED
    BY <2>1, <2>2, <2>4, <2>5, <2>6 DEF LinkedFor
<1> QED
  BY <1>1, <1>3, <1>5, <1>6, <1>7, <1>8, <1>9 DEF EmailInv

-----------------------------------------------------------------------------
(* The invariant.                                                          *)

\* The accounts there are at the start satisfy the invariant.
LEMMA EmailInitHolds == EmailInit => EmailInv
<1> SUFFICES ASSUME EmailInit PROVE EmailInv
  OBVIOUS
<1>1. PICK b \in BOOLEAN, kind \in {"person", "donor"} :
         account = [u \in Users |-> IF u = 1 THEN [NewUser("person", 1) EXCEPT !.verified = b]
                                    ELSE IF u = 2 THEN NewUser(kind, 2) ELSE NoUser]
  BY DEF EmailInit
<1>2. /\ links = {} /\ notices = {} /\ verifies = {} /\ resets = {} /\ form = NoForm
  BY DEF EmailInit
<1> DEFINE first == [NewUser("person", 1) EXCEPT !.verified = b]
           second == NewUser(kind, 2)
<1>3. /\ first = Rec("person", 1, b, None, None, 0, 1, TRUE, FALSE)
      /\ second = Rec(kind, 2, FALSE, None, None, 0, 1, TRUE, FALSE)
  <2>1. NewUser("person", 1) = Rec("person", 1, FALSE, None, None, 0, 1, TRUE, FALSE)
    BY FreshRows, EmailAssumption
  <2>2. second = Rec(kind, 2, FALSE, None, None, 0, 1, TRUE, FALSE)
    BY FreshRows, EmailAssumption
  <2> DEFINE new == NewUser("person", 1)
  <2>3. first = WithStamp(new, b)
    BY DEF WithStamp
  <2>4. 0 \in 0..UndoDays /\ 1 \in 0..MaxPw /\ 1 \in Addresses
    BY EmailAssumption
  <2>5. new \in Row
    BY <2>1, <2>4, RecIsRow
  <2>6. /\ new.kind = "person" /\ new.email = 1 /\ new.pending = None /\ new.recovery = None
        /\ new.left = 0 /\ new.pw = 1 /\ new.active = TRUE /\ new.blocked = FALSE
    BY <2>1 DEF Rec
  <2> HIDE DEF new
  <2>7. WithStamp(new, b) = Rec("person", 1, b, None, None, 0, 1, TRUE, FALSE)
    BY <2>5, <2>6, EditWithStamp
  <2> QED
    BY <2>2, <2>3, <2>7
<1>4. \A u \in Users : account[u] = IF u = 1 THEN first ELSE IF u = 2 THEN second ELSE NoUser
  BY <1>1
<1>5. account = [u \in Users |-> account[u]]
  BY <1>1
<1> HIDE DEF first, second
<1>6. first \in Row /\ second \in Row
  <2>1. 0 \in 0..UndoDays /\ 1 \in 0..MaxPw /\ 1 \in Addresses /\ 2 \in Addresses
    BY EmailAssumption
  <2> QED
    BY <1>3, <2>1, RecIsRow
<1>7. /\ first.kind = "person" /\ first.email = 1 /\ first.left = 0
      /\ second.kind = kind /\ second.email = 2 /\ second.left = 0 /\ second.pending = None
  BY <1>3 DEF Rec
<1>8. Rows
  BY <1>4, <1>5, <1>6, <1>7, FreshRows DEF Rows, RowOk
<1>9. OneHolder
  <2>1. \A u \in Users : recovery_address(account[u]) = None
    BY <1>4, <1>7, FreshRows DEF recovery_address
  <2>2. \A u \in Users : /\ Exists(u) => u = 1 \/ u = 2
                         /\ Held(u) \subseteq {account[u].email}
                         /\ u = 1 => account[u].email = 1
                         /\ u = 2 => account[u].email = 2
    BY <1>4, <1>7, <2>1, FreshRows DEF Held, Exists
  <2> SUFFICES ASSUME NEW u \in Users, NEW v \in Users, u # v, Exists(u), Exists(v)
               PROVE  Held(u) \cap Held(v) = {}
    BY DEF OneHolder
  <2>3. account[u].email # account[v].email
    BY <2>2
  <2> QED
    BY <2>2, <2>3
<1>10. FormDated /\ Reserved
  <2>1. NoUser \in Row
    BY FreshRows DEF RowOk
  <2>2. /\ form.kind = "none"
        /\ form \in [kind : {"none", "own", "office", "create", "reset"},
                     user : Users \union {None}, to : Addresses \union {None}, copy : Row,
                     stale : BOOLEAN]
    BY <1>2, <2>1 DEF NoForm, None
  <2> QED
    BY <2>2 DEF FormDated, Reserved, Unguarded
<1>11. Linked
  BY <1>4, <1>7, FreshRows DEF Linked
<1> QED
  BY <1>2, <1>8, <1>9, <1>10, <1>11 DEF EmailInv, LinksDated, NoticesNamed, MailNamed

\* Every step keeps the inductive invariant.
LEMMA EmailStep == EmailInv /\ [EmailNext]_emailVars => EmailInv'
<1> SUFFICES ASSUME EmailInv, [EmailNext]_emailVars PROVE EmailInv'
  OBVIOUS
<1>1. CASE FormStep
  <2>1. request_email_change => EmailInv'
    BY DonorRequestKeeps, PersonRequestKeeps
  <2> QED
    BY <1>1, <2>1, OpensKeep, CreateMemberKeeps, PasswordResetEndsKeeps DEF FormStep
<1>2. CASE FollowLink
  BY <1>2, VerifyEmailKeeps, CompleteEmailChangeKeeps, UndoEmailChangeKeeps
  DEF FollowLink, EmailVerify
<1>3. CASE NewDay \/ \E u \in Users : WindowEnds(u)
  BY <1>3, NewDayKeeps, StateKeeps
<1>4. CASE SideStep
  BY <1>4, RegisterMemberKeeps, DonorForKeeps, SendsKeep, NewPasswordKeeps, StateKeeps
  DEF SideStep
<1>5. CASE UNCHANGED emailVars
  <2>1. UNCHANGED <<account, links, notices, form, verifies, resets>>
    BY <1>5 DEF emailVars
  <2>2. MailNamed'
    BY <2>1 DEF EmailInv, MailNamed
  <2> QED
    BY <2>1, <2>2, MailKeeps
<1> QED
  BY <1>1, <1>2, <1>3, <1>4, <1>5 DEF EmailNext

LateNamed == late \subseteq Users

\* Only a form of an account marks it.
LEMMA LateStep == EmailInv /\ LateNamed /\ [EmailNext]_emailVars => LateNamed'
<1> SUFFICES ASSUME EmailInv, LateNamed, [EmailNext]_emailVars PROVE LateNamed'
  OBVIOUS
<1>1. CASE Watched
  <2>1. form.kind \in {"own", "office"} => form.user \in Users
    BY DEF EmailInv, FormDated
  <2> QED
    BY <1>1, <2>1 DEF Watched, LateNamed
<1>2. CASE late' = late
  BY <1>2 DEF LateNamed
<1> QED
  BY <1>1, <1>2 DEF EmailNext, emailVars

\* No address comes to belong to two accounts, and while a change can be taken back the
\* mailbox it was taken from holds a link that works (address_taken, lock_address,
\* complete_email_change and undo_email_change between them).
THEOREM AddressesStayOwned == EmailSpec => []AddressStaysOwned
<1>1. EmailInv /\ LateNamed => AddressStaysOwned
  <2> SUFFICES ASSUME EmailInv, LateNamed PROVE AddressStaysOwned
    OBVIOUS
  <2>1. EmailTypeOK
    <3>1. account \in [Users -> Row]
      BY DEF EmailInv, Rows, RowOk
    <3>2. \A u \in Users : account[u].kind # "person" =>
                              account[u].pending = None /\ account[u].left = 0
      BY DEF EmailInv, Rows, RowOk
    <3>3. \A n \in notices : n.from \in Addresses /\ Exists(n.user)
      BY DEF EmailInv, NoticesNamed
    <3> QED
      BY <3>1, <3>2, <3>3 DEF EmailTypeOK, Row, LateNamed
  <2>2. WindowHasLink
    <3> SUFFICES ASSUME NEW u \in Users, account[u].left > 0
                 PROVE  \E n \in notices : /\ n.user = u /\ n.from = account[u].recovery
                                           /\ UndoWorks(n)
      BY DEF WindowHasLink
    <3>1. PICK n \in notices : /\ n.user = u /\ n.from = account[u].recovery
                               /\ n.fresh /\ n.left >= account[u].left
      BY DEF EmailInv, Linked, LinkedFor
    <3>2. n.left \in Int
      BY DEF EmailInv, NoticesNamed
    <3>3. account[u].left \in 0..UndoDays
      BY AccountRow, RowIsRec
    <3>4. account[u].kind = "person"
      BY <3>3, AccountRow, EmailAssumption DEF RowOk
    <3> QED
      BY <3>1, <3>2, <3>3, <3>4, EmailAssumption DEF UndoWorks, recovery_address
  <2> QED
    BY <2>1, <2>2 DEF EmailInv, AddressStaysOwned
<1>2. EmailInit => LateNamed
  BY DEF EmailInit, LateNamed
<1> QED
  BY <1>1, <1>2, LateStep, EmailInitHolds, EmailStep, PTL DEF EmailSpec

\* A link made before the password was replaced, or before a change was taken back, never
\* completes a change later, and neither does one that a form loaded before then mails
\* afterwards (every link is signed over the password it was made under: _complete).
THEOREM OlderLinksNeverComplete == EmailSpec => OlderLinksDoNothing
<1>1. EmailInv => \A l \in links : CompleteEmailChange(l) => ~l.stale
  <2> SUFFICES ASSUME EmailInv, NEW l \in links, CompleteEmailChange(l)
               PROVE  ~l.stale
    OBVIOUS
  <2>1. l.stale => l.pw < account[l.user].pw
    BY DEF EmailInv, LinksDated
  <2>2. account[l.user].pw = l.pw /\ l.pw \in 0..MaxPw
    BY DEF CompleteEmailChange, LinkGood, EmailInv, LinksDated, Link
  <2> QED
    BY <2>1, <2>2, EmailAssumption
<1> QED
  BY <1>1, EmailInitHolds, EmailStep, PTL DEF EmailSpec, OlderLinksDoNothing
=============================================================================
