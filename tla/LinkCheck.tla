------------------------------ MODULE LinkCheck ------------------------------
(***************************************************************************)
(* The pre-send check of a bulk email's links (apps/bulk_email/checks.py    *)
(* and links.py): the links of the text are tried at the same time, a few   *)
(* behind one gate, each request's address looked up and judged before it   *)
(* is used, until every link has an answer or the run's time is up.         *)
(*                                                                         *)
(* The web is external: a host resolves to any set of addresses, a server   *)
(* answers anything, and neither need say the same thing twice.             *)
(***************************************************************************)
EXTENDS Integers, FiniteSets

CONSTANTS
    Links,          \* the links a text may hold, numbered as they appear
    MaxLinks,       \* MAX_LINKS
    Workers,        \* LINK_WORKERS
    MaxRedirects    \* MAX_REDIRECTS

ASSUME LinkBounds ==
    /\ Links \subseteq Nat /\ IsFiniteSet(Links)
    /\ MaxLinks \in Nat \ {0} /\ Workers \in Nat /\ MaxRedirects \in Nat

VARIABLES
    text,       \* the text's links: "ours" (this site's, or with a token), "http", "https"
                \* or "port" (https on an odd port)
    run,        \* "idle", "starting", "running" or "ended"
    own,        \* this server's own addresses, as far as they were found
    task,       \* what each link's check is doing
    heard,      \* the links whose last request a server answered without an error
    findings    \* the warnings the check gave

linkVars == <<text, run, own, task, heard, findings>>

HostKinds == {"public", "private", "ours"}
NoTask == [at |-> "none", method |-> "HEAD", hop |-> 0, url |-> "web", addr |-> "none",
           answer |-> "open"]

LinkInit ==
    /\ text \in [Links -> {"ours", "http", "https", "port"}]
    /\ run = "idle" /\ own = {} /\ heard = {} /\ findings = {}
    /\ task = [l \in Links |-> NoTask]

-----------------------------------------------------------------------------
\* The links to other sites, and of them the first MaxLinks.
Outside == {l \in Links : text[l] # "ours"}
Checked == {l \in Outside : Cardinality({k \in Outside : k < l}) < MaxLinks}
Url(l) == IF text[l] = "port" THEN "port" ELSE "web"

Working == {l \in Links : task[l].at \in {"request", "wait"}}
Tasks(f) == task' = f /\ UNCHANGED <<text, run, own, findings>>
Answered(t, answer) == [t EXCEPT !.at = "done", !.answer = answer]
Answer(l, answer) == Tasks([task EXCEPT ![l] = Answered(@, answer)])

run_checks ==
    /\ run = "idle"
    /\ run' = IF Checked = {} THEN "ended" ELSE "starting"
    /\ UNCHANGED <<text, own, task, heard, findings>>

\* The server's own addresses are looked up; past the timeout none are known.
own_addresses ==
    /\ run = "starting"
    /\ own' \in {{"ours"}, {}}
    /\ task' = [l \in Links |-> IF l \in Checked THEN [NoTask EXCEPT !.at = "queued"] ELSE NoTask]
    /\ run' = "running"
    /\ UNCHANGED <<text, heard, findings>>

\* A check gets through the gate.
Enter(l) ==
    /\ run = "running" /\ task[l].at = "queued" /\ Cardinality(Working) < Workers
    /\ Tasks([task EXCEPT ![l].at = "request", ![l].url = Url(l)])
    /\ UNCHANGED heard

\* send_request as it would be if only the link's own address were judged.
MutRequest(l) ==
    /\ run = "running" /\ task[l].at = "request"
    /\ \/ task[l].url = "port" /\ Answer(l, "port")
       \/ task[l].url = "other" /\ Answer(l, "unreachable")
       \/ /\ task[l].url = "web"
          /\ \E addresses \in SUBSET HostKinds :
                IF addresses = {} THEN Answer(l, "unreachable")
                ELSE IF task[l].hop = 0 /\ addresses \cap (own \cup {"private"}) # {}
                THEN Answer(l, "private")
                ELSE \E a \in addresses :
                        Tasks([task EXCEPT ![l].at = "wait", ![l].addr = a])
    /\ heard' = heard \ {l}

\* One request, of the link or of where it was sent on to: the port and every address the
\* host resolves to are judged, and the request goes to the address that was judged.
send_request(l) ==
    /\ run = "running" /\ task[l].at = "request"
    /\ \/ task[l].url = "port" /\ Answer(l, "port")
       \/ task[l].url = "other" /\ Answer(l, "unreachable")
       \/ /\ task[l].url = "web"
          /\ \E addresses \in SUBSET HostKinds :
                IF addresses = {} THEN Answer(l, "unreachable")
                ELSE IF addresses \cap (own \cup {"private"}) # {} THEN Answer(l, "private")
                ELSE \E a \in addresses :
                        Tasks([task EXCEPT ![l].at = "wait", ![l].addr = a])
    /\ heard' = heard \ {l}

Again(t, url, hop, method) ==
    [t EXCEPT !.at = "request", !.url = url, !.hop = hop, !.method = method, !.addr = "none"]

\* The server answers: HEAD refused is tried as GET, a redirect is followed so many times.
final_status(l) ==
    /\ run = "running" /\ task[l].at = "wait"
    /\ \/ Answer(l, "fine") /\ heard' = heard \cup {l}
       \/ \E status \in {"client_error", "server_error"} :
            /\ IF task[l].method = "HEAD"
               THEN Tasks([task EXCEPT ![l] = Again(@, Url(l), 0, "GET")])
               ELSE Answer(l, status)
            /\ UNCHANGED heard
       \/ /\ IF task[l].hop < MaxRedirects
             THEN \E url \in {"web", "port", "other"} :
                    Tasks([task EXCEPT ![l] = Again(@, url, @.hop + 1, @.method)])
             ELSE Answer(l, "unreachable")
          /\ UNCHANGED heard
       \/ \E problem \in {"timeout", "unreachable"} : Answer(l, problem) /\ UNCHANGED heard

\* The time for one link is spent, whatever it is waiting for.
check_one_times_out(l) ==
    /\ run = "running" /\ task[l].at \in {"request", "wait"}
    /\ Answer(l, "timeout") /\ UNCHANGED heard

-----------------------------------------------------------------------------
link_findings(tasks) ==
    {<<l, "insecure">> : l \in {k \in Checked : text[k] = "http"}}
    \cup {<<l, tasks[l].answer>> : l \in {k \in Checked : tasks[k].answer # "fine"}}
    \cup {<<0, "skipped">> : l \in Outside \ Checked}

\* Every link is answered, or the run's time is up and what is left is called off.
check_all(timed_out) ==
    /\ run = "running"
    /\ timed_out <=> \E l \in Checked : task[l].at # "done"
    /\ task' = [l \in Links |-> IF l \in Checked /\ task[l].at # "done"
                               THEN Answered(task[l], "not_in_time") ELSE task[l]]
    /\ findings' = link_findings(task')
    /\ run' = "ended"
    /\ UNCHANGED <<text, own, heard>>

LinkNext ==
    \/ run_checks \/ own_addresses
    \/ \E l \in Links : Enter(l) \/ send_request(l) \/ final_status(l) \/ check_one_times_out(l)
    \/ \E timed_out \in BOOLEAN : check_all(timed_out)

LinkSpec == LinkInit /\ [][LinkNext]_linkVars

-----------------------------------------------------------------------------
(***************************************************************************)
(* A request goes to a public address, and not to this server where its     *)
(* addresses were found, however often the link was sent on and whatever    *)
(* the host resolved to before; a link the check is silent about is one it  *)
(* looked at and a server answered without an error, over https; and when   *)
(* the run is over nothing of it still runs (_request, _pinned_address,     *)
(* _check_all, _link_findings).                                             *)
(***************************************************************************)
SilentMeansLoaded ==
    /\ \A l \in Links : task[l].at = "wait" =>
            task[l].addr \in (IF own = {} THEN {"public", "ours"} ELSE {"public"})
    /\ Cardinality(Working) <= Workers
    /\ run = "ended" =>
            /\ Working = {}
            /\ \A l \in Outside :
                   \/ l \in heard /\ text[l] = "https"
                   \/ \E f \in findings : f[1] = IF l \in Checked THEN l ELSE 0
=============================================================================
