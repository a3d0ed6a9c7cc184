-------------------------------- MODULE Books --------------------------------
(***************************************************************************)
(* What the treasurer's screens and the members' statements say of the     *)
(* payments (apps/payments: reports.py, reconciliation.py, receipts.py,    *)
(* statements.py, manual.py, api/report_views.py).                         *)
(*                                                                         *)
(* Each of them selects, dates and adds up the payments and refunds with   *)
(* queries of its own.  The model lets payments settle, be recorded by     *)
(* hand for an earlier day and be refunded days later, and compares what   *)
(* the screens then show.                                                  *)
(***************************************************************************)
EXTENDS Integers, FiniteSets, FiniteSetsExt

CONSTANTS Payments,     \* payments, numbered as they are made
          Givers,       \* accounts
          MonthLength, YearLength, LastDate,
          MaxRefunds    \* bound on the refunds of a behaviour

VARIABLES date,
          ledger,       \* payment rows, each with its refunds
          kindOf        \* accounts: "member" or "donor"

booksVars == <<date, ledger, kindOf>>

RECEIVED_STATUSES == {"succeeded", "partially_refunded", "refunded"}
SETTLED_STATUSES == RECEIVED_STATUSES
PaymentProvider == {"stripe", "manual"}
None == -1
NoPayment == [status |-> "none", user |-> 0, provider |-> "stripe", plan |-> 0, gift |-> 0,
              fee |-> 0, public |-> FALSE, completed |-> None, received |-> None,
              refunds |-> {}]

Init ==
    /\ date = 0
    /\ ledger = [p \in Payments |-> NoPayment]
    /\ kindOf = [u \in Givers |-> IF u = 1 THEN "member" ELSE "donor"]

SumOf(Value(_), ps) == MapThenSumSet(Value, ps)
Amount(p) == ledger[p].plan + ledger[p].gift
Net(p) == Amount(p) - ledger[p].fee
MonthOf(d) == d \div MonthLength
YearOf(d) == d \div YearLength
Months == 0..MonthOf(LastDate)
Years == 0..YearOf(LastDate)

\* A payment's refunds that succeeded; each is [number, cents, status, at].
Refunded(p) == {r \in ledger[p].refunds : r.status = "succeeded"}
refunded_cents(p) == MapThenSumSet(LAMBDA r : r.cents, Refunded(p))

-----------------------------------------------------------------------------
(* How the ledger changes.                                                 *)

create_checkout(p, u, plan, gift, public) ==
    /\ ledger[p] = NoPayment /\ \A q \in Payments : q < p => ledger[q] # NoPayment
    /\ plan + gift > 0 /\ (public => plan = 0)
    /\ ledger' = [ledger EXCEPT ![p] =
         [NoPayment EXCEPT !.status = "pending", !.user = u, !.plan = plan, !.gift = gift,
                           !.public = public]]
    /\ UNCHANGED <<date, kindOf>>

\* The provider's fee is read later.
mark_succeeded(p) ==
    /\ ledger[p].status = "pending"
    /\ ledger' = [ledger EXCEPT ![p].status = "succeeded", ![p].completed = date]
    /\ UNCHANGED <<date, kindOf>>

mark_failed(p) ==
    /\ ledger[p].status = "pending"
    /\ ledger' = [ledger EXCEPT ![p].status = "failed"]
    /\ UNCHANGED <<date, kindOf>>

\* A check or cash that arrived on an earlier day; no fee.
record_manual_payment(p, u, plan, gift, received) ==
    /\ ledger[p] = NoPayment /\ \A q \in Payments : q < p => ledger[q] # NoPayment
    /\ plan + gift > 0 /\ received <= date
    /\ ledger' = [ledger EXCEPT ![p] =
         [NoPayment EXCEPT !.status = "succeeded", !.user = u, !.provider = "manual",
                           !.plan = plan, !.gift = gift, !.completed = date,
                           !.received = received]]
    /\ UNCHANGED <<date, kindOf>>

\* A refund that went through moves the payment's status; one that failed does not.
refund_payment(p, cents, status) ==
    /\ ledger[p].status \in {"succeeded", "partially_refunded"}
    /\ SumOf(LAMBDA q : Cardinality(ledger[q].refunds), Payments) < MaxRefunds
    /\ cents <= Amount(p) - refunded_cents(p)
    /\ ledger' = [ledger EXCEPT
         ![p].refunds = @ \union {[number |-> Cardinality(@), cents |-> cents, status |-> status,
                                   at |-> IF status = "succeeded" THEN date ELSE None]},
         ![p].status = IF status # "succeeded" THEN @
                       ELSE IF cents = Amount(p) - refunded_cents(p) THEN "refunded"
                       ELSE "partially_refunded"]
    /\ UNCHANGED <<date, kindOf>>

backfill_fees(p) ==
    /\ ledger[p].status \in RECEIVED_STATUSES /\ ledger[p].provider # "manual" /\ ledger[p].fee = 0
    /\ ledger' = [ledger EXCEPT ![p].fee = 1]
    /\ UNCHANGED <<date, kindOf>>

\* A donor registers and becomes a member with the same account.
DonorUpgrade(u) ==
    /\ kindOf[u] = "donor"
    /\ kindOf' = [kindOf EXCEPT ![u] = "member"]
    /\ UNCHANGED <<date, ledger>>

NewDate ==
    /\ date < LastDate
    /\ date' = date + 1
    /\ UNCHANGED <<ledger, kindOf>>

Next ==
    \/ \E p \in Payments, u \in Givers, plan, gift \in 0..1 :
          \/ \E public \in BOOLEAN : create_checkout(p, u, plan, gift, public)
          \/ \E d \in 0..LastDate : record_manual_payment(p, u, plan, gift, d)
    \/ \E p \in Payments :
          \/ mark_succeeded(p)
          \/ \E cents \in 1..2, status \in {"succeeded", "failed"} :
                refund_payment(p, cents, status)
          \/ mark_failed(p) \/ backfill_fees(p)
    \/ \E u \in Givers : DonorUpgrade(u)
    \/ NewDate

Spec == Init /\ [][Next]_booksVars

-----------------------------------------------------------------------------
(* The screens.                                                            *)

Made == {p \in Payments : ledger[p] # NoPayment}

\* The reports' date: Coalesce of received_on and completed_at (created_at only dates
\* payments that were not received).
paid_date(p) == IF ledger[p].received # None THEN ledger[p].received
                ELSE ledger[p].completed

\* The payment's own date, which receipts and statements use.
MutPaidOn(p) == ledger[p].completed
paid_on(p) == IF ledger[p].provider = "manual" THEN ledger[p].received ELSE ledger[p].completed

received_payments == {p \in Made : ledger[p].status \in RECEIVED_STATUSES}

PaymentKind == {"membership", "contribution", "both"}
kind_filter(p, kind) ==
    CASE kind = "contribution" -> ledger[p].plan = 0
      [] kind = "membership" -> ledger[p].plan > 0 /\ ledger[p].gift = 0
      [] kind = "both" -> ledger[p].plan > 0 /\ ledger[p].gift > 0

\* What the list may be narrowed by: one of the choices of each column, or nothing.
Queries == [kind : PaymentKind, provider : PaymentProvider, member : Givers]
NoFilters == [kind |-> "any", provider |-> "any", member |-> None]
apply_filters(ps, filters) ==
    {p \in ps : /\ filters.kind = "any" \/ kind_filter(p, filters.kind)
                /\ filters.provider \in {"any", ledger[p].provider}
                /\ filters.member \in {None, ledger[p].user}}

\* The payments list adds up a month's payments; a refund counts in its payment's month.
Listed(m, filters) ==
    apply_filters({p \in received_payments : MonthOf(paid_date(p)) = m}, filters)
Summary(m, filters) ==
    LET ps == Listed(m, filters)
    IN  [count |-> Cardinality(ps), total |-> SumOf(Amount, ps),
         fee |-> SumOf(LAMBDA p : ledger[p].fee, ps), net |-> SumOf(Net, ps),
         by_provider |-> [v \in PaymentProvider |->
                             SumOf(Amount, {p \in ps : ledger[p].provider = v})]]
refunds_by_period(m) ==
    SumOf(refunded_cents, {p \in received_payments : MonthOf(paid_date(p)) = m})

\* Reconciliation: by month or by provider; a refund counts in the month it went back.
Bucket(ps) == [count |-> Cardinality(ps), gross |-> SumOf(Amount, ps),
               fee |-> SumOf(LAMBDA p : ledger[p].fee, ps), net |-> SumOf(Net, ps)]
payment_buckets(m) == Bucket({p \in received_payments : MonthOf(paid_date(p)) = m})
provider_buckets(v) == Bucket({p \in received_payments : ledger[p].provider = v})
AllRefunds == UNION {{[payment |-> p, refund |-> r] : r \in Refunded(p)} : p \in Made}
refund_buckets(m) ==
    MapThenSumSet(LAMBDA x : x.refund.cents, {x \in AllRefunds : MonthOf(x.refund.at) = m})
refund_buckets_by_provider(v) ==
    MapThenSumSet(LAMBDA x : x.refund.cents, {x \in AllRefunds : ledger[x.payment].provider = v})

refunded_contribution_cents(p) ==
    IF refunded_cents(p) < ledger[p].gift THEN refunded_cents(p) ELSE ledger[p].gift
NetGift(p) == ledger[p].gift - refunded_contribution_cents(p)

\* The contributions report, the donors report, and a statement with its two lists.
contribution_rows(u, y) ==
    {p \in received_payments : /\ YearOf(paid_date(p)) = y
                               /\ ledger[p].gift > 0 /\ ledger[p].user = u}
donor_rows(u, y) ==
    {p \in received_payments : /\ kindOf[u] = "donor" /\ YearOf(paid_date(p)) = y
                               /\ ledger[p].gift > 0 /\ ledger[p].user = u}
contribution_payments(u, y) ==
    {p \in Made : /\ ledger[p].user = u /\ ledger[p].status \in SETTLED_STATUSES
                  /\ ledger[p].gift > 0 /\ paid_on(p) # None /\ YearOf(paid_on(p)) = y}
is_public_gift_on_account(p) == ledger[p].public /\ kindOf[ledger[p].user] # "donor"
statement_lines(u, y) == {p \in contribution_payments(u, y) : ~is_public_gift_on_account(p)}
public_gifts(u, y) == {p \in contribution_payments(u, y) : is_public_gift_on_account(p)}

\* The accounts the yearly mailing looks at.
givers_in_year(y) ==
    {ledger[p].user : p \in {q \in received_payments :
        /\ ledger[q].gift > 0
        /\ IF ledger[q].provider = "manual" THEN YearOf(ledger[q].received) = y
           ELSE YearOf(ledger[q].completed) = y}}

\* An account's own page of the treasurer's ledger.
ledger_totals(u) ==
    LET ps == {p \in received_payments : ledger[p].user = u}
    IN  [paid |-> SumOf(Amount, ps), gifts |-> SumOf(LAMBDA p : ledger[p].gift, ps),
         fee |-> SumOf(LAMBDA p : ledger[p].fee, ps), refunded |-> SumOf(refunded_cents, ps)]

-----------------------------------------------------------------------------
\* The payments list and the reconciliation agree on every month's payments, fees and net;
\* narrowed by kind, provider and member, the list's totals add up to what it shows;
\* the months, the providers and the accounts' ledgers all add up to the same money, taken
\* and given back, though the two screens put a refund in different months.
MoneyAddsUp ==
    /\ \A m \in Months :
          LET s == Summary(m, NoFilters)  b == payment_buckets(m)
          IN  /\ <<s.count, s.total, s.fee, s.net>> = <<b.count, b.gross, b.fee, b.net>>
              /\ s.total = SumOf(LAMBDA q : SumOf(Amount, Listed(m, q)), Queries)
              /\ \A v \in PaymentProvider :
                    s.by_provider[v] = SumOf(Amount, Listed(m, [NoFilters EXCEPT !.provider = v]))
    /\ SumOf(LAMBDA m : payment_buckets(m).gross, Months)
          = SumOf(LAMBDA v : provider_buckets(v).gross, PaymentProvider)
    /\ SumOf(LAMBDA m : Summary(m, NoFilters).total, Months)
          = SumOf(LAMBDA u : ledger_totals(u).paid, Givers)
    /\ SumOf(refunds_by_period, Months) = SumOf(refund_buckets, Months)
    /\ SumOf(refund_buckets, Months) = SumOf(refund_buckets_by_provider, PaymentProvider)
    /\ SumOf(refund_buckets, Months) = SumOf(LAMBDA u : ledger_totals(u).refunded, Givers)

\* What a statement says an account gave in a year, the gifts kept apart included, is what
\* the contributions report and the donors report say; and whoever has a line on a
\* statement of a year is among the accounts that year's mailing looks at.
StatementsMatchReports ==
    \A u \in Givers, y \in Years :
        /\ SumOf(NetGift, contribution_rows(u, y))
              = SumOf(NetGift, statement_lines(u, y)) + SumOf(NetGift, public_gifts(u, y))
        /\ kindOf[u] = "donor" =>
              /\ SumOf(NetGift, donor_rows(u, y)) = SumOf(NetGift, statement_lines(u, y))
              /\ public_gifts(u, y) = {}
        /\ u \in givers_in_year(y) <=> contribution_payments(u, y) # {}
=============================================================================
