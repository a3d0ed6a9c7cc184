------------------------------- MODULE MailDns -------------------------------
(***************************************************************************)
(* The mail delivery check: do the DNS records make receivers trust our     *)
(* mail (apps/mail/dns_check.py).  A zone says what each domain publishes;  *)
(* the SPF list of the envelope's domain is walked term by term, into the   *)
(* lists it includes or redirects to, under one count of lookups.           *)
(*                                                                         *)
(* FromDomain is the domain of the From address, Sub a part of it, Away a   *)
(* domain that is not, Relay the mail provider's.  A term's address part is *)
(* reduced to whether it covers the mail server.                            *)
(***************************************************************************)
EXTENDS Integers, Sequences, FiniteSetsExt

CONSTANTS
    Lists,          \* the SPF lists the domains may publish: sequences of terms
    RelayLists,     \* the ones the mail provider may publish
    LookupLimit,    \* SPF_LOOKUP_LIMIT
    CacheTicks,     \* CACHE_SECONDS
    LastTick,       \* bound: the last tick of the clock
    MaxEdits        \* bound: changes of the settings and of the zone

VARIABLES
    setup,      \* the settings the check reads: the bounce address's domain (0: it has
                \* none), what the mail server's name is, whether a DKIM selector is set
    zone,       \* what is published: [spf, dkim, dmarc, org]
    tick,       \* the clock
    cache,      \* the reports kept, at most one for a setup
    check,      \* the check under way
    shown,      \* the last report the page showed and when it was asked for
    edits       \* changes made so far

dnsVars == <<setup, zone, tick, cache, check, shown, edits>>

FromDomain == 1
Sub == 2
Away == 3
Relay == 4
Domains == {FromDomain, Sub, Away, Relay}

\* covers: the term's addresses hold the mail server's; to: the domain it names.
Term(q, name, covers, to) == [q |-> q, name |-> name, covers |-> covers, to |-> to]
Malformed == <<Term("+", "unknown", FALSE, 0)>>

DmarcPolicies == {"missing", "many", "bad", "none", "reject"}

\* Every domain of ours publishes the lists own, the provider the lists relay.
Zone(own, relay, dmarc, p, sp) ==
    [spf |-> [d \in Domains |-> IF d = Relay THEN relay ELSE own],
     dkim |-> TRUE, dmarc |-> dmarc, org |-> [p |-> p, sp |-> sp]]

Plain == <<Term("+", "ip", TRUE, 0), Term("-", "all", TRUE, 0)>>
Two == {Malformed, Plain}

(***************************************************************************)
(* A zone: the SPF lists (none, one, or two where receivers use neither),   *)
(* whether a key is published, the policy of the From domain and the one    *)
(* its organizational domain publishes for it and for its parts.  Lists of  *)
(* every kind under one policy, and every policy under one list.            *)
(***************************************************************************)
Zones ==
    {Zone(own, relay, "reject", "missing", "missing")
        : own \in {{l} : l \in Lists} \cup {{Malformed}, Two},
          relay \in {{l} : l \in RelayLists} \cup {{}, Two}}
    \cup {Zone({Plain}, {}, dmarc, p, sp)
        : dmarc \in DmarcPolicies, p \in DmarcPolicies, sp \in {"missing", "none", "reject"}}

\* How far the walk has come: still open, nothing matched, or a term that did.
Match(q, all) == [q |-> q, all |-> all]
Open == Match("open", FALSE)
NoMatch == Match("no", FALSE)
NoCheck == [on |-> FALSE, setup |-> 0, stack |-> <<>>, lookups |-> 0, match |-> Open]

Init ==
    /\ zone \in Zones
    /\ setup = [bounce |-> FromDomain, host |-> "server", selector |-> TRUE]
    /\ tick = 0 /\ cache = {} /\ check = NoCheck /\ shown = {} /\ edits = 0

-----------------------------------------------------------------------------
TheOnly(lists) == CHOOSE l \in lists : TRUE

\* The places of a list's terms named name.
Find(list, name) == {i \in DOMAIN list : list[i].name = name}

check_dkim(z, s) ==
    IF ~s.selector THEN "warn" ELSE IF z.dkim THEN "pass" ELSE "fail"

\* Without a policy of its own the From domain is under its organization's.
check_dmarc(z) ==
    LET own == z.dmarc # "missing"
        base == IF own THEN z.dmarc ELSE z.org.p
        policy == IF ~own /\ z.org.sp \in {"none", "reject"} THEN z.org.sp ELSE base
    IN IF base \in {"missing", "many", "bad"} THEN "fail"
       ELSE IF policy = "none" THEN "warn" ELSE "pass"

check_alignment(s) ==
    CASE s.bounce = 0 -> "fail"
      [] s.bounce \in {FromDomain, Sub} -> "pass"
      [] OTHER -> "warn"

\* What the list itself asks of receivers about servers that are not on it.
spf_policy_problem(list) ==
    IF Find(list, "all") = {} THEN Find(list, "redirect") = {}
    ELSE list[Min(Find(list, "all"))].q \notin {"-", "~"}

verdict_problem(match) ==
    CASE match.q = "+" -> "pass"
      [] match.q \in {"~", "?"} /\ ~match.all -> "warn"
      [] OTHER -> "fail"

spf_domain(s) == IF s.bounce # 0 THEN s.bounce ELSE FromDomain

\* A server that is not named, or is this machine, is not looked for in the list.
spf_host_problem(s, match) ==
    CASE s.host \in {"none", "local"} -> "warn"
      [] s.host = "unknown" -> "fail"
      [] OTHER -> verdict_problem(match)

spf_judge(list, s, match) ==
    LET host == spf_host_problem(s, match)
    IN IF host = "fail" THEN "fail"
       ELSE IF host = "warn" \/ spf_policy_problem(list) THEN "warn" ELSE "pass"

-----------------------------------------------------------------------------
\* The report is shown, and kept for the settings it was made for.  The lookups that are
\* left may go unanswered, which fails what they were for.
build_report(spf) ==
    \E answered \in BOOLEAN :
        LET s == check.setup
            report == [of |-> s, at |-> tick, zone |-> zone,
                       spf |-> spf,
                       dkim |-> IF answered \/ ~s.selector THEN check_dkim(zone, s) ELSE "fail",
                       dmarc |-> IF answered THEN check_dmarc(zone) ELSE "fail",
                       alignment |-> check_alignment(s)]
        IN /\ cache' = {r \in cache : r.of # s} \cup {report}
           /\ shown' = {report}
           /\ check' = NoCheck
           /\ UNCHANGED <<setup, zone, tick, edits>>

\* The page is opened: a report kept for these settings is shown, unless asked afresh.
check_mail_dns(refresh) ==
    /\ ~check.on
    /\ LET kept == {r \in cache : r.of = setup /\ tick - r.at < CacheTicks}
       IN IF ~refresh /\ kept # {}
          THEN shown' = kept /\ UNCHANGED check
          ELSE check' = [NoCheck EXCEPT !.on = TRUE, !.setup = setup] /\ UNCHANGED shown
    /\ UNCHANGED <<setup, zone, tick, cache, edits>>

\* The list of the envelope's domain is read; it must be there, alone and well formed.
check_spf ==
    /\ check.on /\ check.stack = <<>> /\ check.match = Open
    /\ LET d == spf_domain(check.setup)
           lists == zone.spf[d]
           usable == Cardinality(lists) = 1 /\ lists # {Malformed}
       IN \/ ~usable /\ build_report("fail")
          \/ /\ usable
             /\ check' = IF check.setup.host = "server"
                         THEN [check EXCEPT !.stack = <<[d |-> d, i |-> 1]>>]
                         ELSE [check EXCEPT !.match = NoMatch]
             /\ UNCHANGED <<setup, zone, tick, cache, shown, edits>>

Top == check.stack[Len(check.stack)]
Below == SubSeq(check.stack, 1, Len(check.stack) - 1)
Walked == TheOnly(zone.spf[Top.d])
Evaluating == check.on /\ check.stack # <<>> /\ check.match = Open
Kept == UNCHANGED <<setup, zone, tick, cache, shown, edits>>

\* The next term does not match.
Passed == [check EXCEPT !.stack = Append(Below, [Top EXCEPT !.i = @ + 1])]
Matched(c, match) == [c EXCEPT !.stack = Below, !.match = match]

\* One more DNS-querying term; past the limit the list is malformed.
count_lookup(c) == [c EXCEPT !.lookups = @ + 1]
PastLimit == check.lookups >= LookupLimit

\* A list reached through include or redirect: not there means no match, malformed ends
\* the whole evaluation.
follow(d, frames) ==
    LET lists == zone.spf[d]
    IN IF PastLimit \/ lists = {Malformed}
       THEN build_report("fail")
       ELSE /\ check' = count_lookup(
                            IF Cardinality(lists) = 1
                            THEN [check EXCEPT !.stack = Append(frames, [d |-> d, i |-> 1])]
                            ELSE [check EXCEPT !.stack = frames, !.match = NoMatch])
            /\ Kept

\* A term that needs no other list is tried: all, an address, a host, one never matched.
matches ==
    /\ Evaluating /\ Top.i <= Len(Walked)
    /\ LET t == Walked[Top.i]
       IN \/ /\ t.name \in {"all", "ip"}
             /\ check' = IF t.name = "all" THEN Matched(check, Match(t.q, TRUE))
                         ELSE IF t.covers THEN Matched(check, Match(t.q, FALSE)) ELSE Passed
             /\ Kept
          \/ /\ t.name \in {"a", "exists"}
             /\ IF PastLimit THEN build_report("fail")
                ELSE /\ check' = count_lookup(IF t.covers THEN Matched(check, Match(t.q, FALSE)) ELSE Passed)
                     /\ Kept
          \/ t.name = "redirect" /\ check' = Passed /\ Kept
          \/ t.name = "include" /\ follow(t.to, check.stack)

\* No term matched: a redirect decides, or nothing does.
evaluate ==
    /\ Evaluating /\ Top.i > Len(Walked)
    /\ LET to == Find(Walked, "redirect")
       IN IF to = {} THEN check' = Matched(check, NoMatch) /\ Kept
          ELSE follow(Walked[Min(to)].to, Below)

\* Included as it would be if an include matched whenever the included list decides.
MutIncluded ==
    /\ check.on /\ check.stack # <<>> /\ check.match # Open
    /\ check' = IF check.match.q # "no" THEN Matched(check, Match(Walked[Top.i].q, FALSE))
                ELSE [Passed EXCEPT !.match = Open]
    /\ Kept

\* An included list is decided: it matches only when its own first match approves.
Included ==
    /\ check.on /\ check.stack # <<>> /\ check.match # Open
    /\ check' = IF check.match.q = "+" THEN Matched(check, Match(Walked[Top.i].q, FALSE))
                ELSE [Passed EXCEPT !.match = Open]
    /\ Kept

Judged ==
    /\ check.on /\ check.stack = <<>> /\ check.match # Open
    /\ build_report(spf_judge(TheOnly(zone.spf[spf_domain(check.setup)]), check.setup,
                              check.match))

\* A lookup times out, or the check's whole budget is spent.
LookupFails == check.on /\ check.match = Open /\ build_report("fail")

-----------------------------------------------------------------------------
Edit == edits < MaxEdits /\ ~check.on /\ edits' = edits + 1

\* The person who runs the server changes a setting; whoever manages the DNS a record.
Configure ==
    /\ Edit
    /\ \/ \E d \in {Sub, Away, 0} : setup' = [setup EXCEPT !.bounce = d]
       \/ \E kind \in {"none", "unknown", "local"} : setup' = [setup EXCEPT !.host = kind]
       \/ setup' = [setup EXCEPT !.selector = FALSE]
    /\ shown' = {}
    /\ UNCHANGED <<zone, tick, cache, check>>
Publish ==
    /\ Edit
    /\ \/ \E d \in {FromDomain, Relay} : zone' = [zone EXCEPT !.spf[d] = {}]
       \/ zone' = [zone EXCEPT !.dkim = FALSE]
       \/ \E p \in DmarcPolicies : zone' = [zone EXCEPT !.dmarc = p]
       \/ zone' = [zone EXCEPT !.org.p = "none", !.org.sp = "missing"]
    /\ UNCHANGED <<setup, tick, cache, check, shown>>
Tick ==
    /\ tick < LastTick /\ ~check.on
    /\ tick' = tick + 1
    /\ shown' = {}
    /\ UNCHANGED <<setup, zone, cache, check, edits>>

Next ==
    \/ \E refresh \in BOOLEAN : check_mail_dns(refresh)
    \/ check_spf \/ matches \/ evaluate \/ Included \/ Judged \/ LookupFails
    \/ Configure \/ Publish \/ Tick

Spec == Init /\ [][Next]_dnsVars

-----------------------------------------------------------------------------
(***************************************************************************)
(* What a receiver that follows RFC 7208 answers under a zone z: by list d   *)
(* from its i-th term on, n lookups into the evaluation.  A list that        *)
(* include or redirect leads to and that is not published exactly once is    *)
(* "unlisted", one that cannot be read or lookups past the limit "unread":   *)
(* a permanent error, of the including list too.  Whether an exists term     *)
(* matches is not in the zone ("unknown").                                   *)
(***************************************************************************)
Receiver(z) ==
    LET Answer(v, n) == [v |-> v, n |-> n]
        Eval[n \in 0..LookupLimit + 1, d \in Domains, i \in 1..4] ==
            LET list == TheOnly(z.spf[d])
                Rest(k) == Eval[k, d, i + 1]
                To(e) == IF Cardinality(z.spf[e]) = 1 THEN Eval[n + 1, e, 1]
                         ELSE Answer(IF n = LookupLimit THEN "unread" ELSE "unlisted", n + 1)
                others == Find(list, "redirect")
            IN CASE n > LookupLimit \/ list = Malformed -> Answer("unread", n)
                 [] i > Len(list) -> IF others = {} THEN Answer("no", n)
                                     ELSE To(list[Min(others)].to)
                 [] list[i].name = "redirect" -> Rest(n)
                 [] list[i].name = "exists" ->
                        Answer(IF n = LookupLimit THEN "unread" ELSE "unknown", n + 1)
                 [] list[i].name = "include" ->
                        LET inner == To(list[i].to)
                        IN IF inner.v = "+" THEN Answer(list[i].q, inner.n)
                           ELSE IF inner.v \in {"-", "~", "?", "no"} THEN Rest(inner.n)
                           ELSE inner
                 [] list[i].name = "a" /\ n = LookupLimit -> Answer("unread", n + 1)
                 [] list[i].covers -> Answer(list[i].q, n)
                 [] OTHER -> Rest(IF list[i].name = "a" THEN n + 1 ELSE n)
    IN [d \in Domains |-> IF Cardinality(z.spf[d]) = 1 THEN Eval[0, d, 1].v ELSE "unlisted"]

\* The policy receivers apply to forged mail from the From domain turns it away.
TurnedAway(z) ==
    \/ z.dmarc = "reject"
    \/ /\ z.dmarc = "missing" /\ z.org.p \in {"none", "reject"}
       /\ z.org.sp = "reject" \/ (z.org.sp = "missing" /\ z.org.p = "reject")

(***************************************************************************)
(* A report shown is about the settings in force and no older than the      *)
(* cache keeps one.  Where its four lines pass, the envelope's domain is    *)
(* the From address's or a part of it, the policy receivers apply turns     *)
(* forged mail away, and a receiver approves the server, unless its answer  *)
(* hangs on a list that is not there exactly once or on an exists term:     *)
(* never on one it cannot read, or too many lookups.  Where the SPF line    *)
(* only warns of a server that can be looked for, a receiver does not       *)
(* refuse it: check_mail_dns, _SpfEvaluator, _check_dmarc.                  *)
(***************************************************************************)
PassMeansTrusted ==
    \A r \in shown :
        LET answer == Receiver(r.zone)[spf_domain(r.of)]
        IN /\ r.of = setup /\ (r.at = tick \/ tick - r.at < CacheTicks)
           /\ {r.spf, r.dkim, r.dmarc, r.alignment} = {"pass"} =>
                  /\ r.of.bounce \in {FromDomain, Sub}
                  /\ r.zone.dkim /\ TurnedAway(r.zone)
           /\ r.of.host = "server" =>
                  /\ r.spf = "pass" => answer \in {"+", "unlisted", "unknown"}
                  /\ r.spf = "warn" => answer \in {"+", "~", "?", "unlisted", "unknown"}

(***************************************************************************)
(* "Terms are evaluated in order and the first one that matches decides, as *)
(* RFC 7208 says" (dns_check.py:30-31): a list the check passes is one that *)
(* receivers can evaluate.                                                  *)
(***************************************************************************)
PassCanBeEvaluated ==
    \A r \in shown :
        r.spf = "pass" /\ r.of.host = "server" =>
            Receiver(r.zone)[spf_domain(r.of)] # "unlisted"

=============================================================================
