------------------------------- MODULE SignIn -------------------------------
(***************************************************************************)
(* Signing in to one account: the password, the second factor, the lockout *)
(* counters, the browsers' sessions, and what the account's owner and the  *)
(* administrators do meanwhile (apps/accounts: api/views.py, api/sign_in.py,*)
(* api/mfa_views.py, mfa.py, lockout.py, status.py, middleware.py).        *)
(*                                                                         *)
(* A request that spans several transactions arrives, has its code checked *)
(* and ends in separate steps; it carries the session and the account it   *)
(* loaded when it arrived.  Time is counted down: every deadline is the    *)
(* number of ticks left, and a one-time password is the distance of its    *)
(* 30-second step from the current one.                                    *)
(***************************************************************************)
EXTENDS Integers, FiniteSets

CONSTANTS Browsers,       \* cookie jars, each with one session
          Requests,       \* requests that can be in flight at once
          ShortLimit,     \* LOGIN_LOCKOUT_ATTEMPTS
          ShortTicks,     \* LOGIN_LOCKOUT_SECONDS
          CodeLimit,      \* LOGIN_LOCKOUT_CODE_ATTEMPTS
          CodeTicks,      \* LOGIN_LOCKOUT_CODE_SECONDS
          NoticeTicks,    \* NOTICE_SECONDS
          PendingTicks,   \* PENDING_SECONDS
          PendingTries,   \* PENDING_ATTEMPTS
          EnrollTicks,    \* ENROLLMENT_SECONDS
          Backups,        \* one set of recovery codes
          TypedSteps,     \* the steps whose one-time passwords are typed, some of -1..1
          MaxPasswords,          \* passwords the account has over a behaviour
          MaxVisits,      \* bound on the requests and other people's steps of a behaviour
          MaxOffice       \* bound on the owner's and the administrators' steps

VARIABLES acct,     \* the account's row
          device,   \* its confirmed authenticator: on, and the last step it used
          codes,    \* its unused recovery codes
          failures, \* the SignInFailureCount rows: short, code and notice
          link,     \* the password a reset link was made for, 0 when none works
          sess,     \* each browser's session as the database has it
          req,      \* the requests in flight
          tried,    \* codes that were wrong since the code count opened
          spent,    \* steps of the device's secret that were accepted
          mails,    \* lockout notices sent under the current notice mark
          visits,   \* requests arrived so far
          office    \* steps of the owner's and of administrators so far

signInVars == <<acct, device, codes, failures, link, sess, req, tried, spent, mails, visits, office>>

RoleKinds == {"member", "staff", "system"}
Steps == -1..1                        \* TOTP_DRIFT_STEPS
NoCode == [kind |-> "wrong", step |-> -2]
CodesTyped == {NoCode} \union [kind : {"totp"}, step : TypedSteps]
                       \union [kind : {"backup"}, step : Backups]

NoPending == [left |-> 0, pw |-> 0, tries |-> 0, again |-> FALSE]

\* A session's data.  proved and reopened record, for the properties, the password its
\* opener gave and whether the account was reactivated to open it.
Anonymous == [auth |-> 0, mark |-> FALSE, pending |-> NoPending, enroll |-> 0,
              proved |-> 0, reopened |-> FALSE]

\* A sign-in whose password was right and which waits for its code.
Waiting == [Anonymous EXCEPT !.pending =
               [left |-> PendingTicks, pw |-> 1, tries |-> 0, again |-> FALSE]]

IdleRequest == [at |-> "idle", kind |-> "none", browser |-> 0, lost |-> FALSE,
         data |-> Anonymous, pw |-> 0, given |-> 0, again |-> FALSE, active |-> FALSE, code |-> NoCode, good |-> FALSE]

NoRow == [count |-> 0, left |-> 0]

ASSUME SignInBounds ==
    /\ IsFiniteSet(Requests) /\ TypedSteps \subseteq Steps
    /\ ShortLimit \in Nat \ {0} /\ CodeLimit \in Nat \ {0} /\ MaxPasswords \in Nat \ {0}
    /\ ShortTicks \in Nat \ {0} /\ CodeTicks \in Nat \ {0} /\ NoticeTicks \in Nat \ {0}
    /\ PendingTicks \in Nat /\ PendingTries \in Nat /\ EnrollTicks \in Nat

SignInInit ==
    /\ \E active, blocked \in BOOLEAN, role \in {"member", "staff"} :
          /\ ~(active /\ blocked)
          /\ acct = [pw |-> 1, usable |-> TRUE, active |-> active, blocked |-> blocked,
                     role |-> role]
    /\ device \in [on : BOOLEAN, last : {-2}]
    /\ codes = IF device.on THEN Backups ELSE {}
    /\ failures = [short |-> NoRow, code |-> NoRow, notice |-> NoRow]
    /\ link = 0
    /\ sess \in [Browsers -> {Anonymous} \union (IF device.on THEN {Waiting} ELSE {})]
    /\ req = [r \in Requests |-> IdleRequest]
    /\ tried = 0 /\ spent = {} /\ mails = 0 /\ visits = 0 /\ office = 0

-----------------------------------------------------------------------------
(* The lockout counters.                                                   *)

Over(row, limit) == row.left > 0 /\ row.count >= limit
MutWait == Over(failures.short, ShortLimit)
lockout_wait == Over(failures.short, ShortLimit) \/ Over(failures.code, CodeLimit)

\* A row counts its window's failures; one that has run out starts a window of its own.
CountOne(row, ticks) ==
    IF row.left = 0 THEN [count |-> 1, left |-> ticks] ELSE [row EXCEPT !.count = @ + 1]

Limits(code) == IF code THEN {"short", "code"} ELSE {"short"}

Counted(code) ==
    [short |-> CountOne(failures.short, ShortTicks),
     code |-> IF code THEN CountOne(failures.code, CodeTicks) ELSE failures.code]

\* The counts that reach their limit with this failure.
Trips(code) == {n \in Limits(code) :
    IF n = "short" THEN Counted(code).short.count = ShortLimit
    ELSE Counted(code).code.count = CodeLimit}

\* Each counts itself on the notice mark; the first of a mark's window mails the owner.
Marked(mark, trips) ==
    IF trips = 0 THEN mark
    ELSE [count |-> (IF mark.left = 0 THEN 0 ELSE mark.count) + trips,
          left |-> IF mark.left = 0 THEN NoticeTicks ELSE mark.left]
Notices(mark, trips) == IF trips > 0 /\ mark.left = 0 THEN 1 ELSE 0

record_failure(code) ==
    LET trips == Cardinality(Trips(code))
    IN  /\ failures' = [short |-> Counted(code).short, code |-> Counted(code).code,
                        notice |-> Marked(failures.notice, trips)]
        /\ mails' = mails + Notices(failures.notice, trips)

clear_failures == failures' = [failures EXCEPT !.short = NoRow]

\* The clear_lockout command.
clear_all_failures ==
    /\ failures.short # NoRow \/ failures.code # NoRow
    /\ failures' = [failures EXCEPT !.short = NoRow, !.code = NoRow]
    /\ tried' = 0
    /\ UNCHANGED <<acct, device, codes, link, sess, req, spent, mails>>

-----------------------------------------------------------------------------
(* Sessions.                                                               *)

mfa_required == acct.role # "member"
needs_second_factor == mfa_required \/ device.on

SignedIn(b) == sess[b].auth # 0 /\ sess[b].auth = acct.pw /\ acct.active
session_passed(b) == sess[b].mark
Usable(b) == SignedIn(b) /\ (session_passed(b) \/ ~needs_second_factor)

\* What other requests loaded under a key that is gone cannot be saved any more.
Orphan(q, b, r) ==
    [o \in Requests |-> IF o # r /\ q[o].browser = b THEN [q[o] EXCEPT !.lost = TRUE] ELSE q[o]]
Done(r) == [req EXCEPT ![r] = IdleRequest]

\* The response saves what the request made of the session it loaded.
Save(r, data) ==
    /\ sess' = IF req[r].lost THEN sess ELSE [sess EXCEPT ![req[r].browser] = data]
    /\ req' = Done(r)

\* Under a fresh key (cycle_key): the session always survives, the old key does not.
SaveCycled(r, data) ==
    /\ sess' = [sess EXCEPT ![req[r].browser] = data]
    /\ req' = Orphan(Done(r), req[r].browser, r)

\* Every session signed in to the account is deleted; a sign-in still waiting for its
\* code is not one.
end_sessions ==
    LET ended == {b \in Browsers : sess[b].auth # 0}
    IN  /\ sess' = [b \in Browsers |-> IF b \in ended THEN Anonymous ELSE sess[b]]
        /\ req' = [r \in Requests |->
                     IF req[r].browser \in ended THEN [req[r] EXCEPT !.lost = TRUE] ELSE req[r]]

Flush(b) ==
    /\ sess' = [sess EXCEPT ![b] = Anonymous]
    /\ req' = [r \in Requests |->
                 IF req[r].browser = b THEN [req[r] EXCEPT !.lost = TRUE] ELSE req[r]]

\* login() and what follows it: the session is tied to the password of the user the
\* request has in hand.
SignedInData(r, pw, passed, reopened) ==
    [req[r].data EXCEPT !.auth = pw, !.reopened = reopened,
                        !.proved = req[r].given,
                        !.mark = @ \/ passed, !.pending = NoPending,
                        !.enroll = IF req[r].kind = "mfaEnroll" THEN 0 ELSE @]
finish_sign_in(r, pw, passed, reopened) ==
    /\ SaveCycled(r, SignedInData(r, pw, passed, reopened))
    /\ clear_failures
    /\ link' = 0                      \* last_login is part of a reset link's hash
    /\ UNCHANGED mails

begin_pending(r, again) ==
    /\ SaveCycled(r, [req[r].data EXCEPT
                        !.pending = [left |-> PendingTicks, pw |-> req[r].pw,
                                     tries |-> 0, again |-> again]])
    /\ UNCHANGED <<failures, mails, link>>

Arrive(r, b, kind, code, good) ==
    /\ req[r].at = "idle"
    /\ req' = [req EXCEPT ![r] =
         [at |-> "arrived", kind |-> kind, browser |-> b, lost |-> FALSE,
          data |-> IF good \/ kind \in {"mfa", "mfaEnroll", "enroll", "disable"}
                   THEN sess[b] ELSE Anonymous,
          pw |-> acct.pw, again |-> sess[b].pending.again,
          given |-> IF kind \in {"mfa", "mfaEnroll"} THEN sess[b].pending.pw ELSE acct.pw,
          active |-> acct.active, code |-> code, good |-> good]]
    /\ UNCHANGED <<acct, device, codes, failures, link, sess, tried, spent, mails>>

-----------------------------------------------------------------------------
(* LoginView and ReactivateView.                                           *)

Login(r, b, right) ==
    /\ ~lockout_wait
    /\ right => acct.usable /\ acct.active
    /\ Arrive(r, b, "login", NoCode, right)

LoginEnds(r) ==
    /\ req[r].at = "arrived" /\ req[r].kind = "login"
    /\ IF ~req[r].good THEN record_failure(FALSE) /\ req' = Done(r) /\ UNCHANGED <<sess, link>>
       ELSE IF needs_second_factor THEN begin_pending(r, FALSE)
       ELSE finish_sign_in(r, req[r].pw, FALSE, FALSE)
    /\ UNCHANGED <<acct, device, codes, tried, spent>>

\* deactivated_account: nothing happens for a blocked one, whose owner is told so.
ReactivateView(r, b, right) ==
    /\ ~lockout_wait
    /\ right => acct.usable /\ ~acct.active /\ ~acct.blocked
    /\ Arrive(r, b, "reactivate", NoCode, right)

\* reactivate_own_account, under the row's lock: the request's copy is read again.
Reopens == ~acct.active /\ ~acct.blocked
Reopened == acct' = [acct EXCEPT !.active = TRUE]

ReactivateEnds(r) ==
    /\ req[r].at = "arrived" /\ req[r].kind = "reactivate"
    /\ \/ /\ req[r].good /\ needs_second_factor
          /\ begin_pending(r, TRUE) /\ UNCHANGED acct
       \/ /\ req[r].good /\ ~needs_second_factor /\ Reopens
          /\ Reopened
          /\ finish_sign_in(r, acct.pw, FALSE, TRUE)
       \/ /\ req[r].good /\ ~needs_second_factor /\ ~Reopens /\ ~acct.active
          /\ req' = Done(r) /\ UNCHANGED <<acct, sess, failures, mails, link>>
       \/ /\ ~req[r].good \/ (~needs_second_factor /\ acct.active)
          /\ record_failure(FALSE) /\ req' = Done(r) /\ UNCHANGED <<acct, sess, link>>
    /\ UNCHANGED <<device, codes, tried, spent>>

-----------------------------------------------------------------------------
(* The second factor (mfa.py, mfa_views.py).                               *)

\* pending_sign_in: whose sign-in waits, if it still may go on.
MutPendingOk(d) ==
    /\ d.pending.left > 0 /\ d.pending.tries < PendingTries
    /\ ~acct.blocked /\ (acct.active \/ d.pending.again)
PendingOk(d) ==
    /\ d.pending.left > 0 /\ d.pending.tries < PendingTries
    /\ ~acct.blocked /\ (acct.active \/ d.pending.again)
    /\ d.pending.pw = acct.pw

\* A sign-in that may not go on, or whose account is locked out, is cleared when its
\* browser comes back.
DropPending(b) ==
    /\ sess[b].pending # NoPending
    /\ ~PendingOk(sess[b]) \/ lockout_wait
    /\ sess' = [sess EXCEPT ![b].pending = NoPending]
    /\ UNCHANGED <<acct, device, codes, failures, link, req, tried, spent, mails>>

LoginMfa(r, b, code) ==
    /\ PendingOk(sess[b]) /\ device.on /\ ~lockout_wait
    /\ Arrive(r, b, "mfa", code, FALSE)

LoginMfaEnroll(b) ==
    /\ PendingOk(sess[b]) /\ ~device.on /\ ~lockout_wait
    /\ sess' = [sess EXCEPT ![b].enroll = EnrollTicks]
    /\ UNCHANGED <<acct, device, codes, failures, link, req, tried, spent, mails>>

LoginMfaEnrollConfirm(r, b, code) ==
    /\ PendingOk(sess[b]) /\ ~device.on /\ ~lockout_wait /\ sess[b].enroll > 0
    /\ Arrive(r, b, "mfaEnroll", code, FALSE)

\* The same from inside the portal: the view asks for the password too, where it says so.
MfaEnroll(b) ==
    /\ Usable(b) /\ ~device.on
    /\ sess' = [sess EXCEPT ![b].enroll = EnrollTicks]
    /\ UNCHANGED <<acct, device, codes, failures, link, req, tried, spent, mails>>

MfaEnrollConfirm(r, b, code) ==
    /\ Usable(b) /\ ~lockout_wait /\ sess[b].enroll > 0
    /\ Arrive(r, b, "enroll", code, FALSE)

MfaRecoveryCodes(r, b, code) ==
    Usable(b) /\ ~lockout_wait /\ device.on /\ Arrive(r, b, "recovery", code, FALSE)

MfaDisable(r, b, code) ==
    Usable(b) /\ ~mfa_required /\ ~lockout_wait /\ device.on /\ Arrive(r, b, "disable", code, FALSE)

Decided(r, good) ==
    req' = [req EXCEPT ![r].at = "decided", ![r].good = good, ![r].code = NoCode]

MutMatchingStep(code) == code.kind = "totp" /\ code.step \in Steps
MatchingStep(code) == code.kind = "totp" /\ code.step \in Steps /\ code.step > device.last

\* check_code, under the device's lock, and what the operation does in the same
\* transaction: a fresh step or an unused recovery code passes, once.
CheckCode(r) ==
    LET code == req[r].code
        totp == device.on /\ MatchingStep(code)
        backup == device.on /\ code.kind = "backup" /\ code.step \in codes
        kind == req[r].kind
        off == kind = "disable" /\ ~mfa_required /\ (totp \/ backup)
    IN  /\ req[r].at = "arrived" /\ kind \in {"mfa", "recovery", "disable"}
        /\ kind = "mfa" \/ device.on
        /\ ~(kind = "disable" /\ mfa_required)
        /\ device' = IF off THEN [on |-> FALSE, last |-> -2]
                     ELSE IF totp THEN [device EXCEPT !.last = code.step] ELSE device
        /\ codes' = IF off THEN {}
                    ELSE IF kind = "recovery" /\ (totp \/ backup) THEN Backups
                    ELSE IF backup THEN codes \ {code.step} ELSE codes
        /\ spent' = IF off THEN {} ELSE IF totp THEN spent \union {code.step} ELSE spent
        /\ tried' = IF totp \/ backup THEN tried ELSE tried + 1
        /\ Decided(r, totp \/ backup)
        /\ UNCHANGED <<acct, failures, link, sess, mails>>

\* regenerate_recovery_codes and disable_two_factor answer NOT_ON, or that the role
\* requires the second factor, without looking at the code.
NotOn(r) ==
    /\ req[r].at = "arrived"
    /\ \/ req[r].kind \in {"recovery", "disable"} /\ ~device.on
       \/ req[r].kind = "disable" /\ mfa_required
    /\ req' = Done(r)
    /\ UNCHANGED <<acct, device, codes, failures, link, sess, tried, spent, mails>>

\* confirm_enrollment, under the account's lock.
confirm_enrollment(r) ==
    LET good == req[r].code.kind = "totp" /\ req[r].code.step \in Steps
    IN  /\ req[r].at = "arrived" /\ req[r].kind \in {"mfaEnroll", "enroll"} /\ ~device.on
        /\ device' = IF good THEN [on |-> TRUE, last |-> req[r].code.step] ELSE device
        /\ codes' = IF good THEN Backups ELSE codes
        /\ spent' = IF good THEN {req[r].code.step} ELSE spent
        /\ tried' = IF good THEN tried ELSE tried + 1
        /\ Decided(r, good)
        /\ UNCHANGED <<acct, failures, link, sess, mails>>

AlreadyOn(r) ==
    /\ req[r].at = "arrived" /\ req[r].kind \in {"mfaEnroll", "enroll"} /\ device.on
    /\ req' = Done(r)
    /\ UNCHANGED <<acct, device, codes, failures, link, sess, tried, spent, mails>>

\* _wrong_code: the failure is counted for the account, then for the waiting sign-in.
WrongCode(r) ==
    LET p == req[r].data.pending
        counted == IF p = NoPending \/ p.tries + 1 >= PendingTries THEN NoPending ELSE [p EXCEPT !.tries = @ + 1]
    IN  /\ req[r].at = "decided" /\ ~req[r].good
        /\ record_failure(TRUE)
        /\ IF req[r].kind \in {"mfa", "mfaEnroll"}
           THEN Save(r, [req[r].data EXCEPT !.pending = counted])
           ELSE req' = Done(r) /\ UNCHANGED sess
        /\ UNCHANGED <<acct, device, codes, link, tried, spent>>

\* _finish: an account closed by its owner is opened again first, unless it was blocked
\* meanwhile.
FinishMfa(r) ==
    LET again == req[r].again /\ ~req[r].active
    IN  /\ req[r].at = "decided" /\ req[r].good /\ req[r].kind \in {"mfa", "mfaEnroll"}
        /\ \/ /\ again /\ Reopens
              /\ Reopened
              /\ finish_sign_in(r, acct.pw, TRUE, TRUE)
           \/ /\ again /\ ~acct.active /\ ~Reopens
              /\ Save(r, [req[r].data EXCEPT !.pending = NoPending])
              /\ UNCHANGED <<acct, failures, mails, link>>
           \/ /\ ~again \/ acct.active
              /\ finish_sign_in(r, req[r].pw, TRUE, FALSE)
              /\ UNCHANGED acct
        /\ UNCHANGED <<device, codes, tried, spent>>

\* The operations of a signed-in session end by marking or unmarking it.
CodeOperationEnds(r) ==
    /\ req[r].at = "decided" /\ req[r].good /\ req[r].kind \in {"enroll", "recovery", "disable"}
    /\ CASE req[r].kind = "enroll" -> Save(r, [req[r].data EXCEPT !.mark = TRUE, !.enroll = 0])
         [] req[r].kind = "disable" -> Save(r, [req[r].data EXCEPT !.mark = FALSE])
         [] OTHER -> req' = Done(r) /\ UNCHANGED sess
    /\ UNCHANGED <<acct, device, codes, failures, link, tried, spent, mails>>

\* MfaSessionMiddleware signs out a session that owes the second factor.
MfaSessionMiddleware(b) ==
    /\ SignedIn(b) /\ ~Usable(b)
    /\ Flush(b)
    /\ UNCHANGED <<acct, device, codes, failures, link, tried, spent, mails>>

Logout(b) ==
    /\ sess[b] # Anonymous
    /\ Flush(b)
    /\ UNCHANGED <<acct, device, codes, failures, link, tried, spent, mails>>

-----------------------------------------------------------------------------
(* The password.                                                           *)

PasswordChangeView(r, b) ==
    Usable(b) /\ acct.usable /\ Arrive(r, b, "password", NoCode, TRUE)

\* replace_password writes only over the hash the request read.
replace_password(r) == acct.pw = req[r].pw /\ acct.pw < MaxPasswords

PasswordChangeEnds(r) ==
    /\ req[r].at = "arrived" /\ req[r].kind = "password"
    /\ IF replace_password(r)
       THEN /\ acct' = [acct EXCEPT !.pw = @ + 1, !.usable = TRUE]
            /\ SaveCycled(r, [req[r].data EXCEPT !.auth = acct.pw + 1,
                  !.proved = IF acct.pw = req[r].pw THEN acct.pw + 1 ELSE @])
       ELSE req' = Done(r) /\ UNCHANGED <<acct, sess>>
    /\ UNCHANGED <<device, codes, failures, link, tried, spent, mails>>

send_password_reset_email ==
    /\ ~acct.blocked /\ link # acct.pw
    /\ link' = acct.pw
    /\ UNCHANGED <<acct, device, codes, failures, sess, req, tried, spent, mails>>

PasswordResetConfirmView(r, b) ==
    /\ link = acct.pw /\ ~acct.blocked
    /\ Arrive(r, b, "reset", NoCode, TRUE)

\* One transaction: a block that came meanwhile undoes the new password too.
PasswordResetConfirmEnds(r) ==
    /\ req[r].at = "arrived" /\ req[r].kind = "reset"
    /\ acct' = IF replace_password(r) /\ (req[r].active \/ acct.active \/ Reopens)
               THEN [acct EXCEPT !.pw = @ + 1, !.usable = TRUE, !.active = @ \/ ~req[r].active]
               ELSE acct
    /\ req' = Done(r)
    /\ UNCHANGED <<device, codes, failures, link, sess, tried, spent, mails>>

-----------------------------------------------------------------------------
(* The owner and the administrators.                                       *)

\* DeactivateView: a system administrator is refused.
DeactivateView(b) ==
    /\ Usable(b) /\ acct.usable /\ acct.role # "system"
    /\ acct' = [acct EXCEPT !.active = FALSE]
    /\ Flush(b)
    /\ UNCHANGED <<device, codes, failures, link, tried, spent, mails>>

DeactivateFor ==
    /\ acct.active
    /\ acct' = [acct EXCEPT !.active = FALSE]
    /\ end_sessions
    /\ UNCHANGED <<device, codes, failures, link, tried, spent, mails>>

ReactivateFor ==
    /\ Reopens
    /\ Reopened
    /\ UNCHANGED <<device, codes, failures, link, sess, req, tried, spent, mails>>

BlockFor ==
    /\ ~acct.blocked
    /\ acct' = [acct EXCEPT !.active = FALSE, !.blocked = TRUE]
    /\ IF acct.active THEN end_sessions ELSE UNCHANGED <<sess, req>>
    /\ UNCHANGED <<device, codes, failures, link, tried, spent, mails>>

UnblockFor ==
    /\ acct.blocked
    /\ acct' = [acct EXCEPT !.blocked = FALSE]
    /\ UNCHANGED <<device, codes, failures, link, sess, req, tried, spent, mails>>

\* clear_password_and_end_sessions.
RequireNewPasswordFor ==
    /\ acct.pw < MaxPasswords
    /\ acct' = [acct EXCEPT !.pw = @ + 1, !.usable = FALSE]
    /\ end_sessions
    /\ UNCHANGED <<device, codes, failures, link, tried, spent, mails>>

ResetTwoFactorFor ==
    /\ device.on
    /\ device' = [on |-> FALSE, last |-> -2] /\ codes' = {} /\ spent' = {}
    /\ end_sessions
    /\ UNCHANGED <<acct, failures, link, tried, mails>>

SetRole ==
    /\ \E role \in RoleKinds \ {acct.role} : acct' = [acct EXCEPT !.role = role]
    /\ UNCHANGED <<device, codes, failures, link, sess, req, tried, spent, mails>>

-----------------------------------------------------------------------------
(* Time.                                                                   *)

AgedRow(row) == IF row.left <= 1 THEN NoRow ELSE [row EXCEPT !.left = @ - 1]
AgedPending(p) == IF p.left <= 1 THEN NoPending ELSE [p EXCEPT !.left = @ - 1]
AgedData(d) ==
    [d EXCEPT !.pending = AgedPending(d.pending), !.enroll = IF @ = 0 THEN 0 ELSE @ - 1]
OlderStep(step) == IF step = -2 THEN -2 ELSE step - 1
OlderCode(code) ==
    IF code.kind = "totp" THEN [code EXCEPT !.step = OlderStep(@)] ELSE code

Tick ==
    /\ failures' = [short |-> AgedRow(failures.short), code |-> AgedRow(failures.code),
                    notice |-> AgedRow(failures.notice)]
    /\ sess' = [b \in Browsers |-> AgedData(sess[b])]
    /\ req' = [r \in Requests |->
         [req[r] EXCEPT !.data = AgedData(req[r].data), !.code = OlderCode(req[r].code)]]
    /\ device' = [device EXCEPT !.last = OlderStep(@)]
    /\ spent' = {OlderStep(s) : s \in spent} \ {-2}
    /\ tried' = IF failures.code.left <= 1 THEN 0 ELSE tried
    /\ mails' = IF failures.notice.left <= 1 THEN 0 ELSE mails
    /\ UNCHANGED <<acct, codes, link>>

RequestStep(r) ==
    \/ LoginEnds(r) \/ ReactivateEnds(r) \/ CheckCode(r) \/ NotOn(r) \/ confirm_enrollment(r)
    \/ AlreadyOn(r) \/ WrongCode(r) \/ FinishMfa(r) \/ CodeOperationEnds(r)
    \/ PasswordChangeEnds(r) \/ PasswordResetConfirmEnds(r)

BrowserStep(r, b) ==
    \/ \E right \in BOOLEAN : Login(r, b, right) \/ ReactivateView(r, b, right)
    \/ \E code \in CodesTyped :
          \/ LoginMfa(r, b, code) \/ LoginMfaEnrollConfirm(r, b, code)
          \/ MfaEnrollConfirm(r, b, code) \/ MfaRecoveryCodes(r, b, code) \/ MfaDisable(r, b, code)
    \/ PasswordChangeView(r, b) \/ PasswordResetConfirmView(r, b)

SessionStep(b) ==
    \/ DropPending(b) \/ LoginMfaEnroll(b) \/ MfaEnroll(b) \/ MfaSessionMiddleware(b)
    \/ Logout(b)

OfficeStep ==
    \/ \E b \in Browsers : DeactivateView(b)
    \/ DeactivateFor \/ ReactivateFor \/ BlockFor \/ UnblockFor \/ RequireNewPasswordFor
    \/ ResetTwoFactorFor \/ SetRole \/ clear_all_failures \/ send_password_reset_email

SignInNext ==
    \/ /\ Tick \/ (\E r \in Requests : RequestStep(r)) \/ (\E b \in Browsers : SessionStep(b))
       /\ UNCHANGED <<visits, office>>
    \/ /\ \E r \in Requests, b \in Browsers : BrowserStep(r, b)
       /\ visits + office < MaxVisits /\ visits' = visits + 1 /\ UNCHANGED office
    \/ /\ OfficeStep
       /\ office < MaxOffice /\ visits + office < MaxVisits
       /\ office' = office + 1 /\ UNCHANGED visits

SignInSpec == SignInInit /\ [][SignInNext]_signInVars

-----------------------------------------------------------------------------
CountRow(limit) == [count : 0..(limit - 1 + Cardinality(Requests)), left : Nat]

\* The types of the variables.  A lockout count passes its limit at most by the requests
\* that were already past lockout_wait when it was reached; at most one notice is mailed
\* under a notice mark.
SignInTypeOK ==
    /\ acct \in [pw : 1..MaxPasswords, usable : BOOLEAN, active : BOOLEAN, blocked : BOOLEAN, role : RoleKinds]
    /\ device \in [on : BOOLEAN, last : -2..1]
    /\ codes \subseteq Backups
    /\ failures.short \in CountRow(ShortLimit) /\ failures.code \in CountRow(CodeLimit)
    /\ link \in 0..MaxPasswords
    /\ \A b \in Browsers : sess[b].auth \in 0..MaxPasswords /\ sess[b].enroll \in 0..EnrollTicks
    /\ \A r \in Requests : req[r].at \in {"idle", "arrived", "decided"}
    /\ spent \subseteq Steps /\ mails \in 0..1

\* Whoever can act in a session gave the account's present password to open it (or set
\* it): replacing the password, from the portal, by a reset link or by an administrator,
\* puts out every session and every waiting sign-in opened under the old one, also those
\* of requests that were half way through.  (Not so where opening the session reopened a
\* deactivated account: reactivate reads the row again, new password included.)
SessionKnowsPassword ==
    \A b \in Browsers : Usable(b) /\ ~sess[b].reopened => sess[b].proved = acct.pw

\* A step of the authenticator passes once, whichever browsers and requests present it
\* (check_code's last_used_step, read and written under the device's lock).
CodeOnce ==
    \A r \in Requests :
      /\ req[r].kind \in {"mfa", "recovery", "disable"} /\ req[r].at = "arrived"
      /\ req'[r].at = "decided" /\ req'[r].good /\ req[r].code.kind = "totp"
      => req[r].code.step \notin spent

\* Codes cannot be guessed without end: however sign-ins, successes of the owner's and
\* signed-in operations interleave, the codes found wrong in one window stay within the
\* limit and the requests already past the check (record_failure, lockout_wait); and so
\* do the failures counted, with at most one notice of them (the variables have their
\* types).
GuessesBounded ==
    /\ SignInTypeOK
    /\ tried <= CodeLimit - 1 + Cardinality(Requests)

\* A blocked account that is closed stays closed until it is unblocked: no sign-in half
\* way through its second factor, and no reset link in hand, opens it (reactivate).
BlockedStaysClosed ==
    acct.blocked /\ acct'.blocked /\ ~acct.active => ~acct'.active

\* A step of the authenticator passes once, and a blocked account that is closed stays
\* closed until it is unblocked.
SpentStaysSpent == [][CodeOnce /\ BlockedStaysClosed]_signInVars
=============================================================================
