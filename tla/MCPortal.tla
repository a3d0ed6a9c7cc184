------------------------------- MODULE MCPortal ------------------------------
(***************************************************************************)
(* The models of the portal's parts that keep no state in common, checked  *)
(* in one run: a behaviour is one of the part that focus names, and the    *)
(* variables of the others stay as they are in an initial state of theirs. *)
(* Reminders extends Membership, and so behaviours of either are in its    *)
(* variables; reminders are sent over more days, with fewer plans and      *)
(* calls.                                                                  *)
(***************************************************************************)
EXTENDS EmailChange, Verification, Mandates, SignIn, Roles, Mailings, Notifications,
        Audience, LinkCheck, Reminders, Aircraft

CONSTANTS ReminderDays, ReminderActs

VARIABLE focus

\* Who holds which roles at first: no account administrator in the first staffing, a
\* system administrator in the second.
TwoStaffings ==
    {<<{"user_admin"}, {"user_admin"}, {"verifier"}>>,
     <<{"system_admin"}, {"user_admin", "account_admin"}, {"verifier"}>>}

\* Days before the end of the first reminder and the second, days after it of the third
\* and the last; the office tries to save an invalid schedule too.
FirstSchedule == <<3, 2, 1, 7>>
OfficeSchedules == {<<4, 2, 1, 8>>, <<5, 2, 1, 6>>}
R == INSTANCE Reminders WITH
        Durations <- {1}, LastTermDay <- ReminderDays, MaxActs <- ReminderActs

\* What the theorems on Membership and Reminders ask of the constants holds of these.
ASSUME RecordsValues == MembershipValues /\ ReminderValues /\ R!ReminderValues

portalVars ==
    <<focus, registerVars, emailVars, verificationVars, mandatesVars, signInVars,
      rolesVars, mailingVars, noticeVars, audienceVars, linkVars, memberVars, reminderVars>>

\* The initial states of the parts when they stay there.
EmailIdle == EmailInit /\ ~account[1].verified /\ account[2].kind = "donor"
VerificationIdle == VerificationInit /\ subject = "person"
SignInIdle ==
    /\ SignInInit /\ acct.active /\ acct.role = "member" /\ ~device.on
RolesIdle == RolesInit /\ people[1].super
MailingsIdle == MailingsInit /\ mailing = "statement"
AudienceIdle == AudienceInit /\ author.role = "leader"
MembersIdle == MembershipInit /\ user.kind = "donor" /\ ScansInit
LinkIdle == LinkInit /\ text = [l \in Links |-> "ours"]

PortalInit ==
    /\ focus \in
         {"email", "verification", "mandates", "signin", "roles", "mailings",
          "notifications", "audience", "links", "members", "reminders", "aircraft"}
    /\ MandatesInit /\ NoticeInit /\ RegisterInit
    /\ IF focus = "email" THEN EmailInit ELSE EmailIdle
    /\ IF focus = "verification" THEN VerificationInit ELSE VerificationIdle
    /\ IF focus = "signin" THEN SignInInit ELSE SignInIdle
    /\ IF focus = "roles" THEN RolesInit ELSE RolesIdle
    /\ IF focus = "mailings" THEN MailingsInit ELSE MailingsIdle
    /\ IF focus = "audience" THEN AudienceInit ELSE AudienceIdle
    /\ IF focus = "links" THEN LinkInit ELSE LinkIdle
    /\ \/ focus = "members" /\ MembershipInit /\ ScansInit
       \/ focus = "reminders" /\ R!RemindersInit
       \/ focus \notin {"members", "reminders"} /\ MembersIdle

\* A step is one of the part in focus; the others keep their variables.
Others(name, variables) == focus = name \/ (focus # name /\ UNCHANGED variables)
PortalNext ==
    /\ UNCHANGED focus
    /\ \/ focus = "email" /\ EmailNext
       \/ focus = "verification" /\ VerificationNext
       \/ focus = "mandates" /\ MandatesNext
       \/ focus = "signin" /\ SignInNext
       \/ focus = "roles" /\ RolesNext
       \/ focus = "mailings" /\ MailingsNext
       \/ focus = "notifications" /\ NoticeNext
       \/ focus = "audience" /\ AudienceNext
       \/ focus = "links" /\ LinkNext
       \/ focus = "members" /\ MembershipNext /\ UNCHANGED reminderVars
       \/ focus = "reminders" /\ R!RemindersNext
       \/ focus = "aircraft" /\ RegisterNext
    /\ Others("email", emailVars) /\ Others("verification", verificationVars)
    /\ Others("mandates", mandatesVars) /\ Others("signin", signInVars)
    /\ Others("roles", rolesVars) /\ Others("mailings", mailingVars)
    /\ Others("notifications", noticeVars)
    /\ Others("audience", audienceVars) /\ Others("links", linkVars)
    /\ focus \in {"members", "reminders"}
       \/ (focus \notin {"members", "reminders"} /\ UNCHANGED <<memberVars, reminderVars>>)
    /\ Others("aircraft", registerVars)

PortalSpec == PortalInit /\ [][PortalNext]_portalVars

=============================================================================
