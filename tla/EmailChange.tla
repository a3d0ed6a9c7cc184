---------------------------- MODULE EmailChange -----------------------------
(***************************************************************************)
(* Who holds an email address: registering, verifying, changing the        *)
(* sign-in address and taking a change back (apps/accounts/email_change.py,*)
(* services.py, api/views.py; register_member and create_member of         *)
(* apps/members/services.py).                                              *)
(*                                                                         *)
(* A link that was mailed is a record that stays until it is too old; any  *)
(* of them may be followed at any time, any number of times.  A form       *)
(* (an edit that checks an address in one transaction and writes in        *)
(* another, or whose mail is made from the account it loaded) is opened    *)
(* and submitted in two steps.  Days are counted down.                     *)
(***************************************************************************)
EXTENDS Integers, FiniteSets

CONSTANTS Users,        \* account rows, some of them not created yet
          Addresses,
          UndoDays,     \* EMAIL_CHANGE_UNDO_TIMEOUT
          LinkDays,     \* EMAIL_VERIFICATION_TIMEOUT
          MaxForms,     \* bound on the forms opened over a behaviour
          MaxPw,        \* bound on the passwords one account has
          MaxSide       \* bound on registrations, mailed links and changes of state

VARIABLES account,   \* account rows
          links,     \* email-change links mailed to the new address
          notices,   \* undo links mailed to the old one
          verifies,  \* verification links: the account and the address they prove
          resets,    \* password reset links
          form,      \* the form that is open
          forms,     \* forms opened so far
          late,      \* accounts whose change was last asked for by an outdated form
          side       \* registrations, mailed links and changes of state so far

emailVars == <<account, links, notices, verifies, resets, form, forms, late, side>>

None == 0

\* No address and no account is None; 1 and 2 hold the first two addresses.
ASSUME EmailAssumption ==
    /\ None \notin Users /\ None \notin Addresses /\ {1, 2} \subseteq Addresses
    /\ UndoDays \in Nat \ {0} /\ LinkDays \in Nat /\ MaxPw \in Nat \ {0}

NoUser == [kind |-> "none", email |-> None, verified |-> FALSE, pending |-> None,
           recovery |-> None, left |-> 0, pw |-> 0, active |-> FALSE, blocked |-> FALSE]
NewUser(kind, address) ==
    [NoUser EXCEPT !.kind = kind, !.email = address, !.pw = 1, !.active = TRUE]
NoForm == [kind |-> "none", user |-> 0, to |-> None, copy |-> NoUser, stale |-> FALSE]

Exists(u) == account[u].kind # "none"

EmailInit ==
    /\ account \in {[u \in Users |-> IF u = 1 THEN [NewUser("person", 1) EXCEPT !.verified = v]
                                  ELSE IF u = 2 THEN NewUser(kind, 2) ELSE NoUser] :
                   v \in BOOLEAN, kind \in {"person", "donor"}}
    /\ links = {} /\ notices = {} /\ verifies = {} /\ resets = {}
    /\ form = NoForm /\ forms = 0 /\ late = {} /\ side = 0

-----------------------------------------------------------------------------
(* Who an address belongs to.                                              *)

recovery_address(a) == IF a.left > 0 THEN a.recovery ELSE None
Held(u) == {account[u].email, recovery_address(account[u])} \ {None}
address_taken(address, u) == \E v \in Users \ {u} : Exists(v) /\ address \in Held(v)

\* The unique index on the email column.
UniqueEmail(address, u) == \A v \in Users \ {u} : account[v].email # address

notice_address(a) ==
    IF recovery_address(a) # None THEN recovery_address(a)
    ELSE IF a.verified THEN a.email ELSE None

\* A link to the address that the account, as it was loaded, waits for.
ChangeLink(u, a, to, stale) ==
    [user |-> u, email |-> a.email, to |-> to, pw |-> a.pw, left |-> LinkDays, stale |-> stale]

\* Nothing is mailed to an address that another account holds.
send_email_change_link(u, a, to, stale) ==
    links' = IF address_taken(to, u) THEN links ELSE links \union {ChangeLink(u, a, to, stale)}

Notice(u, from) == [user |-> u, from |-> from, left |-> UndoDays, fresh |-> TRUE]

\* What a replaced password, or a change taken back, does to what was asked before it.
Outdate(u) ==
    /\ links' = {IF l.user = u THEN [l EXCEPT !.stale = TRUE] ELSE l : l \in links}
    /\ form' = IF form.user = u THEN [form EXCEPT !.stale = TRUE] ELSE form

-----------------------------------------------------------------------------
(* Forms: the change of address, from the portal and from the office; the  *)
(* edit of a donor; the account an administrator makes; the reset page.    *)

Open(kind, u, to) ==
    /\ form = NoForm /\ forms < MaxForms
    /\ form' = [kind |-> kind, user |-> u, to |-> to, copy |-> account[u], stale |-> FALSE]
    /\ forms' = forms + 1
    /\ UNCHANGED <<account, links, notices, verifies, resets>>

\* EmailChangeView: says nothing of a taken address, and refuses a second change while
\* the first can be taken back.
EmailChangeView(u, to) ==
    /\ account[u].kind = "person" /\ account[u].active /\ to # account[u].email
    /\ recovery_address(account[u]) = None
    /\ Open("own", u, to)

\* update_member of an administrator.
UpdateMember(u, to) ==
    /\ Exists(u) /\ to # account[u].email /\ ~address_taken(to, u)
    /\ Open("office", u, to)

\* request_email_change: a donor's address changes at once; anyone else's waits for the
\* link, made from the account as it was loaded.
request_email_change ==
    LET u == form.user
        c == form.copy
        to == form.to
    IN  /\ form.kind \in {"own", "office"}
        /\ form' = NoForm
        /\ IF c.kind = "donor"
           THEN /\ account' = IF UniqueEmail(to, u) THEN [account EXCEPT ![u].email = to] ELSE account
                /\ UNCHANGED <<links, notices>>
           ELSE /\ account' = [account EXCEPT ![u].pending = to]
                /\ send_email_change_link(u, c, to, form.stale)
                /\ notices' = notices \union
                     (IF notice_address(c) = None THEN {} ELSE {Notice(u, notice_address(c))})
        /\ UNCHANGED <<verifies, resets, forms>>

\* The serializer checks the address; the insert comes later.
CreateMember(to) ==
    /\ \E u \in Users : ~Exists(u)
    /\ ~address_taken(to, 0)
    /\ Open("create", CHOOSE u \in Users : ~Exists(u), to)

create_account(u, kind, address) == account' = [account EXCEPT ![u] = NewUser(kind, address)]

\* The invitation carries an ordinary reset link.
Invitation(u, address) == [user |-> u, email |-> address, pw |-> 1]

create_member ==
    LET u == form.user
    IN  /\ form.kind = "create"
        /\ form' = NoForm
        /\ IF UniqueEmail(form.to, u) /\ ~Exists(u)
           THEN /\ create_account(u, "person", form.to)
                /\ resets' = resets \union {Invitation(u, form.to)}
           ELSE UNCHANGED <<account, resets>>
        /\ UNCHANGED <<links, notices, verifies, forms>>

\* The link names the account and the address it holds; a donor's carries the upgrade.
VerificationLink(u, address, upgrade) == [user |-> u, email |-> address, upgrade |-> upgrade]

\* register_member, under the address's lock: a donor is offered the upgrade, a holder
\* is told, anyone else gets an account to verify.
RegisterMember(address) ==
    LET holders == {u \in Users : Exists(u) /\ address \in Held(u)}
        free == {u \in Users : ~Exists(u) /\ form.user # u}
    IN  /\ \/ /\ \E u \in holders :
                   /\ account[u].kind = "donor" /\ account[u].email = address
                   /\ verifies' = verifies \union {VerificationLink(u, address, TRUE)}
              /\ UNCHANGED account
           \/ /\ holders = {} /\ free # {}
              /\ LET u == CHOOSE v \in free : TRUE
                 IN  /\ create_account(u, "person", address)
                     /\ verifies' = verifies \union {VerificationLink(u, address, FALSE)}
        /\ UNCHANGED <<links, notices, resets, form, forms>>

\* donor_for, under the address's lock too: the first gift from an address nobody holds
\* makes a donor of it.
donor_for(address) ==
    LET free == {u \in Users : ~Exists(u) /\ form.user # u}
    IN  /\ ~address_taken(address, 0) /\ free # {}
        /\ create_account(CHOOSE u \in free : TRUE, "donor", address)
        /\ UNCHANGED <<links, notices, verifies, resets, form, forms>>

\* An address that is not verified gets a link that proves it.
send_email_verification(u) ==
    /\ account[u].kind = "person" /\ ~account[u].verified /\ account[u].active
    /\ verifies' = verifies \union {VerificationLink(u, account[u].email, FALSE)}
    /\ UNCHANGED <<account, links, notices, resets, form, forms>>

\* EmailVerifyResendView, of a person who is signed in: while a change waits, its link is
\* made and mailed again, under the password the account has now.
SendEmailVerification(u) ==
    \/ /\ account[u].kind = "person" /\ account[u].active /\ account[u].pending # None
       /\ send_email_change_link(u, account[u], account[u].pending, FALSE)
       /\ UNCHANGED <<account, notices, verifies, resets, form, forms>>
    \/ account[u].pending = None /\ send_email_verification(u)

\* The user administrator's: refused for a donor, a verified address, a closed account.
AdminUserSendEmailVerification(u) == send_email_verification(u)

-----------------------------------------------------------------------------
(* Links.                                                                  *)

VerificationTarget(a, v) == a.active /\ a.email = v.email

VerifyEmail(v) ==
    LET a == account[v.user]
    IN  /\ VerificationTarget(a, v)
        /\ a.kind = "donor" => v.upgrade /\ a.pw < MaxPw
        /\ a.kind = "donor" \/ ~a.verified
        /\ account' = [account EXCEPT ![v.user].verified = TRUE, ![v.user].kind = "person",
                                ![v.user].pw = IF a.kind = "donor" THEN @ + 1 ELSE @]
        /\ UNCHANGED <<links, notices, verifies, resets, form, forms>>

\* _complete: under the account's and the pending address's locks.
MutLinkGood(a, l) ==
    a.email = l.email /\ a.pending = l.to /\ ~address_taken(a.pending, l.user)
LinkGood(a, l) ==
    /\ a.email = l.email /\ a.pending = l.to /\ a.pw = l.pw
    /\ ~address_taken(a.pending, l.user)

KeptAddress(a) ==
    IF recovery_address(a) # None THEN recovery_address(a)
    ELSE IF a.verified THEN a.email ELSE None

\* The notice of a completed change goes to the address that can take it back.
MutCompletionNotice(u) == IF account[u].verified THEN {Notice(u, account[u].email)} ELSE {}
CompletionNotice(u) ==
    IF KeptAddress(account[u]) = None THEN {} ELSE {Notice(u, KeptAddress(account[u]))}

RecoveryWindow(recovery) == IF recovery = None THEN 0 ELSE UndoDays

CompleteEmailChange(l) ==
    LET u == l.user
        a == account[u]
        recovery == KeptAddress(a)
    IN  /\ l.left > 0 /\ a.active /\ LinkGood(a, l)
        /\ account' = [account EXCEPT ![u] =
             [a EXCEPT !.email = a.pending, !.pending = None, !.verified = TRUE,
                       !.recovery = recovery, !.left = RecoveryWindow(recovery)]]
        /\ notices' = notices \union CompletionNotice(u)
        /\ UNCHANGED <<links, verifies, resets, form, forms>>

\* undo_email_change: the address goes back if it can, the account is closed if it
\* cannot, and either way the password, the pending change and every older undo link
\* are finished with.
UndoWorks(n) ==
    /\ n.left > 0 /\ n.fresh /\ account[n.user].kind = "person"
    /\ recovery_address(account[n.user]) \in {None, n.from}
Closed(a, taken) == [a EXCEPT !.active = @ /\ ~taken, !.blocked = @ \/ taken]

UndoEmailChange(n) ==
    LET u == n.user
        a == account[u]
        moved == a.email # n.from
        taken == moved /\ address_taken(n.from, u)
        restored == moved /\ ~taken
    IN  /\ UndoWorks(n) /\ a.pw < MaxPw
        /\ account' = [account EXCEPT ![u] =
             [Closed(a, taken) EXCEPT !.email = IF restored THEN n.from ELSE @,
                                      !.verified = @ \/ restored, !.pending = None,
                                      !.recovery = None, !.left = 0, !.pw = @ + 1]]
        /\ notices' = {IF m.user = u THEN [m EXCEPT !.fresh = FALSE] ELSE m : m \in notices}
        /\ resets' = IF taken \/ a.blocked THEN resets
                     ELSE resets \union {[user |-> u, email |-> n.from, pw |-> a.pw + 1]}
        /\ Outdate(u)
        /\ UNCHANGED <<verifies, forms>>

\* PasswordResetView.
SendPasswordReset(u) ==
    /\ account[u].kind = "person" /\ ~account[u].blocked
    /\ resets' = resets \union {[user |-> u, email |-> account[u].email, pw |-> account[u].pw]}
    /\ UNCHANGED <<account, links, notices, verifies, form, forms>>

\* The user administrator's leaves a closed account closed.
AdminUserSendPasswordReset(u) == account[u].active /\ SendPasswordReset(u)

\* PasswordResetConfirmSerializer: the link is bound to the password and the address.
PasswordResetConfirm(t) ==
    LET a == account[t.user]
    IN  /\ a.kind = "person" /\ a.pw = t.pw /\ a.email = t.email /\ ~a.blocked
        /\ Open("reset", t.user, t.email)

\* replace_password over the hash that was read; the address is confirmed only if the
\* account still signs in with it; a closed account is opened again unless blocked.
confirm_email_address(a, c) == a.email = c.email
PasswordResetEnds ==
    LET u == form.user
        a == account[u]
        c == form.copy
        stamps == confirm_email_address(a, c)
    IN  /\ form.kind = "reset"
        /\ IF a.pw = c.pw /\ a.pw < MaxPw /\ (c.active \/ a.active \/ ~a.blocked)
           THEN /\ account' = [account EXCEPT ![u] =
                     [a EXCEPT !.pw = @ + 1, !.pending = None, !.verified = @ \/ stamps,
                               !.active = @ \/ ~c.active]]
                /\ links' = {IF l.user = u THEN [l EXCEPT !.stale = TRUE] ELSE l : l \in links}
           ELSE UNCHANGED <<account, links>>
        /\ form' = NoForm
        /\ UNCHANGED <<notices, verifies, resets, forms>>

-----------------------------------------------------------------------------
(* The account's state, and time.                                          *)

PasswordChange(u) ==
    /\ account[u].kind = "person" /\ account[u].active /\ account[u].pw < MaxPw
    /\ account' = [account EXCEPT ![u].pw = @ + 1, ![u].pending = None]
    /\ Outdate(u)
    /\ UNCHANGED <<notices, verifies, resets, forms>>

Deactivate(u) ==
    /\ account[u].kind = "person" /\ account[u].active
    /\ account' = [account EXCEPT ![u].active = FALSE, ![u].pending = None]
    /\ UNCHANGED <<links, notices, verifies, resets, form, forms>>

Reactivate(u) ==
    /\ account[u].kind = "person" /\ ~account[u].active /\ ~account[u].blocked
    /\ account' = [account EXCEPT ![u].active = TRUE]
    /\ UNCHANGED <<links, notices, verifies, resets, form, forms>>

\* recovery_until passes; an undo link made moments after the change outlives it.
WindowEnds(u) ==
    /\ account[u].left = 1
    /\ account' = [account EXCEPT ![u].left = 0]
    /\ UNCHANGED <<links, notices, verifies, resets, form, forms>>

Older(s) == {[e EXCEPT !.left = @ - 1] : e \in {x \in s : x.left > 1}}
NewDay ==
    /\ links \union notices # {} \/ \E u \in Users : account[u].left > 0
    /\ account' = [u \in Users |-> [account[u] EXCEPT !.left = IF @ = 0 THEN 0 ELSE @ - 1]]
    /\ links' = Older(links) /\ notices' = Older(notices)
    /\ form.kind = "none"             \* a form is submitted within the day
    /\ UNCHANGED <<verifies, resets, form, forms>>

FormStep ==
    \/ \E u \in Users, to \in Addresses : EmailChangeView(u, to) \/ UpdateMember(u, to)
    \/ \E to \in Addresses : CreateMember(to)
    \/ \E t \in resets : PasswordResetConfirm(t)
    \/ request_email_change \/ create_member \/ PasswordResetEnds

\* Either link opens the same page, whoever holds it.
EmailVerify == (\E v \in verifies : VerifyEmail(v)) \/ (\E l \in links : CompleteEmailChange(l))

FollowLink == EmailVerify \/ \E n \in notices : UndoEmailChange(n)

SideStep ==
    \/ \E to \in Addresses : RegisterMember(to) \/ donor_for(to)
    \/ \E u \in Users :
          \/ SendEmailVerification(u) \/ AdminUserSendEmailVerification(u)
          \/ SendPasswordReset(u) \/ AdminUserSendPasswordReset(u) \/ PasswordChange(u)
          \/ Deactivate(u) \/ Reactivate(u)

\* Which changes were asked for under an older password: only watched, never read.
Watched ==
    late' = IF form'.kind = "none" /\ form.kind \in {"own", "office"}
            THEN IF form.stale THEN late \union {form.user} ELSE late \ {form.user}
            ELSE late

EmailNext ==
    /\ \/ FormStep /\ UNCHANGED side
       \/ FollowLink /\ UNCHANGED side
       \/ (NewDay \/ \E u \in Users : WindowEnds(u)) /\ UNCHANGED side
       \/ SideStep /\ side < MaxSide /\ side' = side + 1
    /\ Watched

EmailSpec == EmailInit /\ [][EmailNext]_emailVars

-----------------------------------------------------------------------------
\* The types of the variables; only an account that exists, and is no donor, has a
\* change pending or an address reserved.
EmailTypeOK ==
    /\ account \in [Users -> [kind : {"none", "person", "donor"}, email : Addresses \union {None},
                           verified : BOOLEAN, pending : Addresses \union {None},
                           recovery : Addresses \union {None}, left : 0..UndoDays,
                           pw : 0..MaxPw, active : BOOLEAN, blocked : BOOLEAN]]
    /\ \A u \in Users : account[u].kind # "person" => account[u].pending = None /\ account[u].left = 0
    /\ \A n \in notices : n.from \in Addresses /\ Exists(n.user)
    /\ late \subseteq Users

\* No address belongs to two accounts: neither as the address they sign in with nor as
\* the one kept for them while a change can be taken back (address_taken, lock_address
\* and the unique index between them).
OneHolder == \A u, v \in Users : u # v /\ Exists(u) /\ Exists(v) => Held(u) \cap Held(v) = {}

\* While a change can be taken back, the mailbox it was taken from holds a link that
\* works: a further change, by an administrator, extends the link with the window.
WindowHasLink ==
    \A u \in Users : account[u].left > 0 =>
        \E n \in notices : n.user = u /\ n.from = account[u].recovery /\ UndoWorks(n)

\* Both of these, and the types.
AddressStaysOwned == EmailTypeOK /\ OneHolder /\ WindowHasLink

\* A link made, or asked for by a form opened, before the password was replaced or the
\* account taken back never completes a change later, even when the same change is asked for
\* again (_complete, password_fingerprint).
OlderLinksDoNothing == [][\A l \in links : CompleteEmailChange(l) => ~l.stale]_emailVars

\* What the docs promise of the change itself: one asked for under an older password, which
\* the new one drops, has no link that completes it (replace_password, request_email_change,
\* EmailVerifyResendView).
LateChangeHasNoLink ==
    \A l \in links : l.user \in late /\ l.left > 0 /\ account[l.user].active
                     => ~LinkGood(account[l.user], l)

=============================================================================
