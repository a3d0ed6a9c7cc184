------------------------------ MODULE MCMembers ------------------------------
(***************************************************************************)
(* Members' payments, the days of a renewal, what providers are read for,  *)
(* the mail that reaches members or bounces, and what the screens say of   *)
(* the books, of callouts and of backups, checked in one run: a behaviour  *)
(* is one of Checkout, of RenewalCalendar, of Captures, of Bounces, of     *)
(* MailDns, of Books, of Callouts or of Backups, as focus says.  The       *)
(* variables of Checkout, RenewalCalendar, Captures and Bounces stay in    *)
(* their initial states in the others' behaviours; the others share the    *)
(* variables v1 to v8, and those a part has no use for stay 0.             *)
(***************************************************************************)
EXTENDS Checkout, RenewalCalendar, Captures, Bounces

CONSTANTS
    Payments, Givers, MonthLength, YearLength, LastDate, MaxRefunds,
    LookupLimit, CacheTicks, LastTick, MaxEdits,
    Dumpers, Hands, Instants, Fires, PruneDays, GraceTicks, StaleTicks, LastInstant

VARIABLES focus, v1, v2, v3, v4, v5, v6, v7, v8

B == INSTANCE Books WITH
        date <- v1, ledger <- v2, kindOf <- v3

C == INSTANCE Callouts WITH
        people <- v1, copies <- v2, email <- v3, callout <- v4, clock <- v5, asked <- v6,
        line <- v7, happened <- v8,
        Recipients <- {1, 2}, Leaders <- {1, 2}, MaxRound <- 2, MaxTurns <- 3,
        CalloutAnswerKind <- {"available"}

K == INSTANCE Backups WITH
        clock <- v1, files <- v2, dumper <- v3, jobruns <- v4

\* SPF terms, and the lists of them the From domain (1) and the mail provider (4) publish:
\* ones that name the server, refuse it, name another, include, redirect, go round in
\* circles or cannot be read.
Entry(q, name, covers, to) == [q |-> q, name |-> name, covers |-> covers, to |-> to]
Here(q) == Entry(q, "ip", TRUE, 0)
All(q) == Entry(q, "all", TRUE, 0)
Include(q) == Entry(q, "include", FALSE, 4)
Redirect(d) == Entry("+", "redirect", FALSE, d)
Host == Entry("+", "a", TRUE, 0)
ExistsTerm == Entry("+", "exists", FALSE, 0)
Lists ==
    {<<t, u>> : t \in {Here("+"), Here("-"), Include("+"), ExistsTerm},
                u \in {All("-"), All("+"), Redirect(4)}}
    \cup {<<t, Here("+"), All("-")>> : t \in {Include("+"), Include("-"), ExistsTerm}}
RelayLists ==
    {<<Here("+")>>, <<Here("~"), All("-")>>, <<Entry("+", "ip", FALSE, 0)>>, <<Include("+")>>,
     <<Redirect(1)>>, <<ExistsTerm, Host>>, <<Entry("+", "unknown", FALSE, 0)>>}
D == INSTANCE MailDns WITH
        setup <- v1, zone <- v2, tick <- v3, cache <- v4, check <- v5, shown <- v6,
        edits <- v7

shared == <<v1, v2, v3, v4, v5, v6, v7, v8>>
membersVars == <<focus, shared, vars, calendarVars, captureVars, bounceVars>>

MembersInit ==
    /\ Init /\ CalendarInit /\ CapturesInit /\ BounceInit
    /\ \/ /\ focus = "books" /\ B!Init
          /\ v4 = 0 /\ v5 = 0 /\ v6 = 0 /\ v7 = 0 /\ v8 = 0
       \/ focus = "callouts" /\ C!CalloutsInit
       \/ /\ focus = "backups" /\ K!BackupsInit
          /\ v5 = 0 /\ v6 = 0 /\ v7 = 0 /\ v8 = 0
       \/ focus = "dns" /\ D!Init /\ v8 = 0
       \/ /\ focus \in {"checkout", "calendar", "captures", "bounces"}
          /\ v1 = 0 /\ v2 = 0 /\ v3 = 0 /\ v4 = 0 /\ v5 = 0 /\ v6 = 0 /\ v7 = 0 /\ v8 = 0

MembersNext ==
    /\ UNCHANGED focus
    /\ \/ /\ focus = "books" /\ B!Next
          /\ UNCHANGED <<v4, v5, v6, v7, v8>>
       \/ focus = "callouts" /\ C!CalloutsNext
       \/ focus = "backups" /\ K!BackupsNext /\ UNCHANGED <<v5, v6, v7, v8>>
       \/ focus = "dns" /\ D!Next /\ UNCHANGED v8
       \/ focus = "checkout" /\ Next
       \/ focus = "calendar" /\ CalendarNext
       \/ focus = "captures" /\ CapturesNext
       \/ focus = "bounces" /\ BounceNext
    /\ focus \in {"checkout", "calendar", "captures", "bounces"} => UNCHANGED shared
    /\ focus # "checkout" => UNCHANGED vars
    /\ focus # "calendar" => UNCHANGED calendarVars
    /\ focus # "captures" => UNCHANGED captureVars
    /\ focus # "bounces" => UNCHANGED bounceVars

MembersSpec == MembersInit /\ [][MembersNext]_membersVars

\* What a screen says is so.  Books: what the reports of two periods, the reconciliation and
\* the statements add up to is the money that was taken and given back.  Callouts: a
\* callout's line in the list, its page, what its readers see of their own copies, and the
\* audit line of what was last sent say the same.  Backups: a nightly backup that reads ok
\* left a whole dump, and the runs listed as failed are the ones that failed or stopped.
ScreensAgree ==
    /\ focus = "books" => B!MoneyAddsUp /\ B!StatementsMatchReports
    /\ focus = "callouts" => C!CountsAgree /\ C!RoundsListed /\ C!OwnCopyShown /\ C!LineOfAsked
    /\ focus = "backups" => K!OkMeansDump /\ K!FailedListed

\* MailDns: four passes mean that receivers approve the server's mail.
PassMeansTrusted == focus = "dns" => D!PassMeansTrusted

\* MailDns: a list the check passes is one receivers can evaluate.
PassCanBeEvaluated == focus = "dns" => D!PassCanBeEvaluated
=============================================================================
