-------------------------------- MODULE Roles --------------------------------
(***************************************************************************)
(* Administrators acting on one another's accounts (apps/accounts:         *)
(* services.py, status.py, api/account_actions.py, mfa.py; delete_member   *)
(* of apps/members/services.py).                                           *)
(*                                                                         *)
(* A request is let in by the roles its sender had then, checks the target *)
(* under the target's row lock, and writes in the same transaction.  The   *)
(* sender's own row is not locked, and their superuser flag is the one the *)
(* session loaded.                                                         *)
(***************************************************************************)
EXTENDS Integers, FiniteSets

CONSTANTS People,       \* accounts
          Staffings,    \* who holds which roles at first: a set of functions of People
          Asks,         \* requests that can be in flight at once
          MaxAsked      \* bound on the requests of a behaviour

VARIABLES people,       \* account rows
          ask,          \* the requests in flight
          asked,        \* requests so far
          gone          \* guarded roles that nobody could give any more, for a property

rolesVars == <<people, ask, asked, gone>>

GUARDED_ROLES == {"user_admin", "account_admin", "system_admin"}
ROLE_SLUGS == GUARDED_ROLES \union {"verifier"}

ASSUME StaffingRoles == Staffings \subseteq [People -> SUBSET ROLE_SLUGS]

NoAsk == [at |-> "none", actor |-> 0, target |-> 0, kind |-> "none", wanted |-> {},
          flag |-> FALSE, held |-> {}]
Person(roles) == [exists |-> TRUE, roles |-> roles, super |-> "system_admin" \in roles,
                  active |-> TRUE, blocked |-> FALSE]

RolesInit ==
    /\ people \in {[p \in People |-> Person(given[p])] : given \in Staffings}
    /\ ask = [r \in Asks |-> NoAsk]
    /\ asked = 0
    /\ gone = {}

-----------------------------------------------------------------------------
(* Who may do what.                                                        *)

effective_roles(roles, flag) == roles \union IF flag THEN {"system_admin"} ELSE {}
RolesOf(p) == effective_roles(people[p].roles, people[p].super)

\* The actor's roles are read again at the check; the flag is the session's.
ActorRoles(r) == effective_roles(people[ask[r].actor].roles, ask[r].flag)

user_has_any_role(p, role) == {role, "system_admin"} \cap RolesOf(p) # {}

may_edit_protected_fields(r) ==
    LET held == ActorRoles(r)
    IN  "system_admin" \in held \/ (RolesOf(ask[r].target) \ held) \cap GUARDED_ROLES = {}

assignable_roles(r) ==
    IF ask[r].actor = ask[r].target THEN {}
    ELSE IF "system_admin" \in ActorRoles(r) THEN ROLE_SLUGS
    ELSE (ROLE_SLUGS \ GUARDED_ROLES) \union ActorRoles(r)

MovedRoles(r) ==
    LET held == people[ask[r].target].roles
    IN  (ask[r].wanted \ held) \union (held \ ask[r].wanted)

moves_system_admin(r) ==
    IF "system_admin" \in ask[r].wanted THEN "system_admin" \notin people[ask[r].target].roles
    ELSE "system_admin" \in RolesOf(ask[r].target)

checked_roles(r) ==
    \/ MovedRoles(r) = {}
    \/ /\ ask[r].actor # ask[r].target
       /\ moves_system_admin(r) => "system_admin" \in ActorRoles(r)
       /\ MovedRoles(r) \subseteq assignable_roles(r)

\* status.py's refusals, and mfa.py's for a reset of the second factor.
check_block(r) == ask[r].actor # ask[r].target /\ may_edit_protected_fields(r)
deactivate_account(r) == check_block(r) /\ people[ask[r].target].active
reactivate_account(r) ==
    /\ may_edit_protected_fields(r)
    /\ ~people[ask[r].target].blocked /\ ~people[ask[r].target].active
reset_refusal(r) ==
    \/ ask[r].actor = ask[r].target
    \/ "system_admin" \in RolesOf(ask[r].target) /\ "system_admin" \notin ActorRoles(r)

delete_member(r) ==
    /\ ask[r].actor # ask[r].target
    /\ "system_admin" \in RolesOf(ask[r].target) => "system_admin" \in ActorRoles(r)
    /\ may_edit_protected_fields(r)

Passes(r) ==
    CASE ask[r].kind = "roles" -> checked_roles(r)
      [] ask[r].kind = "deactivate" -> deactivate_account(r)
      [] ask[r].kind = "reactivate" -> reactivate_account(r)
      [] ask[r].kind \in {"block", "unblock", "new password"} -> check_block(r)
      [] ask[r].kind = "reset" -> ~reset_refusal(r)
      [] ask[r].kind = "delete" -> delete_member(r)

-----------------------------------------------------------------------------
(* A request's three steps.                                                *)

\* Nobody holds the role, nobody is a system administrator, no request is under way.
Forgone(q) ==
    {role \in GUARDED_ROLES :
        /\ \A r \in Asks : q[r].at = "none"
        /\ \A p \in People : people[p].exists => {role, "system_admin"} \cap RolesOf(p) = {}}

RolePermission(r, a, t, kind, wanted) ==
    /\ ask[r].at = "none" /\ asked < MaxAsked
    /\ people[a].exists /\ people[a].active /\ people[t].exists
    /\ user_has_any_role(a, IF kind = "delete" THEN "account_admin" ELSE "user_admin")
    /\ ask' = [ask EXCEPT ![r] = [at |-> "let in", actor |-> a, target |-> t, kind |-> kind,
                                  wanted |-> wanted, flag |-> people[a].super, held |-> {}]]
    /\ asked' = asked + 1
    /\ gone' = gone \union Forgone(ask)
    /\ UNCHANGED people

StatusKinds == {"deactivate", "reactivate", "block", "unblock", "new password", "reset", "delete"}

\* select_for_update of the target; delete_member alone checks before it locks.
Unlocked(p, others) ==
    \A o \in others : ask[o].at = "checked" /\ ask[o].kind # "delete" => ask[o].target # p
MutLocked(r) == TRUE
locked(r) == Unlocked(ask[r].target, Asks \ {r})

Check(r) ==
    /\ ask[r].at = "let in"
    /\ ask[r].kind # "delete" => locked(r)
    /\ ask' = [ask EXCEPT ![r] =
         IF people[ask[r].target].exists /\ people[ask[r].actor].exists /\ Passes(r)
         THEN [@ EXCEPT !.at = "checked", !.held = ActorRoles(r)] ELSE NoAsk]
    /\ UNCHANGED <<people, asked, gone>>

sync_django_flags(roles, super) == "system_admin" \in roles

\* block_for closes an account that is open before it marks it blocked.
Written(r) ==
    LET p == people[ask[r].target]
    IN  CASE ask[r].kind = "roles" ->
               [p EXCEPT !.roles = ask[r].wanted,
                         !.super = IF MovedRoles(r) = {} THEN @
                                   ELSE sync_django_flags(ask[r].wanted, @)]
          [] ask[r].kind = "deactivate" -> [p EXCEPT !.active = FALSE]
          [] ask[r].kind = "reactivate" -> [p EXCEPT !.active = TRUE]
          [] ask[r].kind = "block" -> [p EXCEPT !.active = FALSE, !.blocked = TRUE]
          [] ask[r].kind = "unblock" -> [p EXCEPT !.blocked = FALSE]
          [] ask[r].kind \in {"new password", "reset"} -> p
          [] ask[r].kind = "delete" -> [p EXCEPT !.exists = FALSE, !.active = FALSE]

Write(r) ==
    /\ ask[r].at = "checked" /\ locked(r)
    /\ people' = IF people[ask[r].target].exists
                 THEN [people EXCEPT ![ask[r].target] = Written(r)] ELSE people
    /\ ask' = [ask EXCEPT ![r] = NoAsk]
    /\ UNCHANGED <<asked, gone>>

\* The create_admin command, run on the server, gives the first role back.
CreateAdmin(p) ==
    /\ asked < MaxAsked /\ asked' = asked + 1
    /\ people[p].exists /\ "system_admin" \notin people[p].roles /\ Unlocked(p, Asks)
    /\ people' = [people EXCEPT ![p] =
         [people[p] EXCEPT !.roles = @ \union {"system_admin"}, !.super = TRUE, !.blocked = FALSE]]
    /\ gone' = {}
    /\ UNCHANGED ask

RolesNext ==
    \/ \E r \in Asks : Check(r) \/ Write(r)
    \/ \E r \in Asks, a, t \in People :
          \/ \E kind \in StatusKinds : RolePermission(r, a, t, kind, {})
          \/ \E wanted \in SUBSET ROLE_SLUGS : RolePermission(r, a, t, "roles", wanted)
    \/ \E p \in People : CreateAdmin(p)

RolesSpec == RolesInit /\ [][RolesNext]_rolesVars

-----------------------------------------------------------------------------
\* A guarded role that nobody holds, with no system administrator to give it and no
\* request of either under way, is not given by anybody: only the server's command brings
\* it back (checked_roles, assignable_roles).
NoRoleFromNobody ==
    \A p \in People : people[p].exists => people[p].roles \cap gone = {}

\* What is written to an account was checked against the roles the account has as it is
\* written: nobody closes, blocks or signs out an account that has a guarded role they do
\* not, though another administrator may be giving it that role (locked).
CheckedAsWritten ==
    \A r \in Asks :
        /\ ask[r].at = "checked" /\ "system_admin" \notin ask[r].held
        /\ ask[r].kind \in {"deactivate", "reactivate", "block", "unblock", "new password"}
        => RolesOf(ask[r].target) \cap GUARDED_ROLES \subseteq ask[r].held

\* A guarded role nobody could give any more is not given by anybody, and what is written
\* was checked against the roles the target has as it is written.
RolesGuarded == NoRoleFromNobody /\ CheckedAsWritten
=============================================================================
