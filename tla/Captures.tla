------------------------------- MODULE Captures ------------------------------
(***************************************************************************)
(* What CalDART reads out of its providers' records (payments/providers:   *)
(* paypal.py, paypal_orders.py, stripe.py, stripe_intents.py, and the rows *)
(* payments/services.py writes from them): an order and its capture, or a  *)
(* PaymentIntent, is matched to a payment, checked, kept with it, and is   *)
(* what a refund is taken from and the fee is read from.                   *)
(*                                                                         *)
(* The same merchant account may take money for somebody else: those       *)
(* orders carry any amount, and at PayPal a custom_id that may be the      *)
(* number of one of our payments.  A provider says what it said before any *)
(* number of times, and in any order.  A request is two steps, what it     *)
(* reads and what it writes.  How a charge is retried is RenewalCharge's,  *)
(* what a settled payment buys is Checkout's, refunds on file are Refunds'.*)
(***************************************************************************)
EXTENDS Integers

CONSTANTS Bills,     \* payments started with a provider, by their numbers
          Others,    \* orders somebody else takes on the same account
          Workers,   \* requests and scans at work
          MaxChores  \* bound on the office's refunds and questions about fees

ASSUME BillNumbers == Bills \subseteq Nat \ {0} /\ Others \subseteq Nat \ {0}
                      /\ Bills \cap Others = {}

VARIABLES rows,      \* Payment rows
          orders,    \* orders and PaymentIntents at the provider, one for a payment
          inhand,    \* what a worker has read
          given,     \* refunds asked for: payment and order
          chores     \* how many of them so far

captureVars == <<rows, orders, inhand, given, chores>>

Providers == {"paypal", "stripe"}
Price == 1           \* of every payment, in usd
Nobody == 0

NoRow == [status |-> "none", provider |-> "paypal", renewal |-> FALSE, ref |-> 0,
          stored |-> {}, filed |-> {}, fee |-> 0, doubt |-> FALSE]

\* No order: its provider tells nothing.
NoOrder == [state |-> "none", order |-> 0, provider |-> "paypal", names |-> Nobody,
            amount |-> 0, currency |-> "usd"]

Idle == [at |-> "idle"]

CapturesInit ==
    /\ rows = [p \in Bills |-> NoRow]
    /\ orders = [o \in Bills \cup Others |-> NoOrder]
    /\ given = {} /\ chores = 0
    /\ inhand = [w \in Workers |-> Idle]

SETTLED_STATUSES == {"succeeded", "refunded"}
Arrived(p) == rows[p].status \in SETTLED_STATUSES

\* A confirm and a treasurer's settlement hold the row's lock while they ask the provider.
locked(p) == \E w \in Workers : inhand[w].at \in {"confirm", "reference"} /\ inhand[w].bill = p

-----------------------------------------------------------------------------
(* Reading an order.  A body is the order as the provider told it.         *)

\* PayPal's completed captures of a body kept with the payment.
completed_captures(bodies) == {b \in bodies : b.state = "paid"}

captured_cents(body) == IF body.state = "paid" THEN body.amount ELSE 0

\* What a refund is taken from: the stored order's capture first, then the one a
\* notification filed beside it.
capture_id(row) ==
    LET own == completed_captures(row.stored) IN
    {b.order : b \in IF own # {} THEN own ELSE completed_captures(row.filed)}

\* Stripe refunds the PaymentIntent, PayPal the capture.
refund_target(row) == IF row.provider = "stripe" THEN {row.ref} ELSE capture_id(row)

\* Mutant: a custom_id that names the payment is enough.
MutVerify(p, row, body, order) ==
    /\ captured_cents(body) = Price
    /\ body.currency = "usd"
    /\ body.names \in {Nobody, p}

\* Amount, currency, custom_id when there is one, and always the order.
verify_capture(p, row, body, order) ==
    /\ captured_cents(body) = Price
    /\ body.currency = "usd"
    /\ body.names \in {Nobody, p}
    /\ order # 0 /\ order = row.ref

\* Stripe's intent: its metadata, amount and currency.
verify(p, body) == body.names = p /\ body.amount = Price /\ body.currency = "usd"

\* The fee in the body, once the provider has worked it out.
fees_from(body) == {0, body.order}

-----------------------------------------------------------------------------
(* Writing the row: mark_succeeded and mark_failed.                        *)

\* Money that arrived stays as it is recorded; a fee learnt before is not forgotten.
Completed(p, new) ==
    rows' = IF Arrived(p) THEN rows
            ELSE [rows EXCEPT ![p] = [new EXCEPT !.status = "succeeded"]]

WithFee(row, fee) == [row EXCEPT !.fee = IF fee = 0 THEN @ ELSE fee]

Failed(p, bodies) ==
    rows' = IF Arrived(p) THEN rows
            ELSE [rows EXCEPT ![p].status = "failed", ![p].stored = bodies]

-----------------------------------------------------------------------------
(* Starting, and what the giver and the provider do.                       *)

NewOrder(p, provider) ==
    [state |-> "open", order |-> p, provider |-> provider, names |-> p, amount |-> Price,
     currency |-> "usd"]

\* The order is created for the payment and its id kept, or the answer is lost and the
\* view deletes the payment.
start(p, provider) ==
    /\ rows[p].status = "none"
    /\ orders' = [orders EXCEPT ![p] = NewOrder(p, provider)]
    /\ rows' \in {[rows EXCEPT ![p] = [NoRow EXCEPT !.status = "pending", !.provider = provider,
                                                    !.ref = p]],
                  [rows EXCEPT ![p].status = "deleted"]}
    /\ UNCHANGED <<inhand, given, chores>>

\* A renewal's payment is written before its order exists.
renewal_payment(p, provider) ==
    /\ rows[p].status = "none"
    /\ rows' = [rows EXCEPT ![p] = [NoRow EXCEPT !.status = "pending", !.provider = provider,
                                                 !.renewal = TRUE]]
    /\ UNCHANGED <<orders, inhand, given, chores>>

\* The order moves on by itself: approved, paid with a card in the browser, held and then
\* taken or not; a declined PaymentIntent takes another card.
OrderMoves(o) ==
    /\ \/ /\ orders[o].provider = "paypal" /\ o \in Bills
          /\ \/ orders[o].state = "open" /\ orders' = [orders EXCEPT ![o].state = "approved"]
             \/ /\ orders[o].state = "held"
                /\ \E state \in {"paid", "refused"} : orders' = [orders EXCEPT ![o].state = state]
       \/ /\ orders[o].provider = "stripe" /\ orders[o].state \in {"open", "held", "refused"}
          /\ \E state \in {"held", "paid", "refused"} : orders' = [orders EXCEPT ![o].state = state]
    /\ UNCHANGED <<rows, inhand, given, chores>>

\* Somebody else's order on the account.
OtherOrder(o) ==
    /\ orders[o].state = "none"
    /\ \E provider \in Providers, names \in {Nobody} \cup Bills, amount \in {Price, Price + 1},
          currency \in {"usd", "eur"} :
          /\ provider = "stripe" => names = Nobody
          /\ amount = Price \/ currency = "usd"
          /\ orders' = [orders EXCEPT ![o] =
                [state |-> "paid", order |-> o, provider |-> provider, names |-> names,
                 amount |-> amount, currency |-> currency]]
    /\ UNCHANGED <<rows, inhand, given, chores>>

-----------------------------------------------------------------------------
(* The browser comes back: confirm.                                        *)

Take(w, entry) == inhand[w] = Idle /\ inhand' = [inhand EXCEPT ![w] = entry]
Done(w) == inhand' = [inhand EXCEPT ![w] = Idle]

\* confirm_payment, of a pending payment, which has its order; PayPal captures, Stripe is
\* read: also an intent still open or declined, which is in requires_payment_method.
confirm(w, p) ==
    /\ rows[p].status = "pending" /\ rows[p].ref # 0 /\ ~locked(p) /\ ~rows[p].renewal
    /\ LET o == rows[p].ref IN
       /\ orders[o].provider = "paypal" => orders[o].state = "approved"
       /\ \E state \in {"open", "paid", "held", "refused"} :
             /\ IF orders[o].provider = "stripe" THEN state = orders[o].state ELSE state # "open"
             /\ orders' = [orders EXCEPT ![o].state = state]
             /\ Take(w, [at |-> "confirm", bill |-> p, body |-> orders'[o]])
    /\ UNCHANGED <<rows, given, chores>>

\* The answer is checked and written, or the request died and wrote nothing.  The cancel
\* of an intent that may take another card can be refused, so it goes on moving.
ConfirmWrites(w) ==
    LET p == inhand[w].bill  body == inhand[w].body  row == rows[p]  paypal == row.provider = "paypal" IN
    /\ inhand[w].at = "confirm" /\ Done(w)
    /\ \/ /\ body.state = "paid"
          /\ IF paypal THEN verify_capture(p, row, body, body.order) ELSE verify(p, body)
          /\ \E fee \in fees_from(body) :
                Completed(p, WithFee([row EXCEPT !.stored = {body}, !.ref = body.order], fee))
       \/ /\ body.state \in {"open", "refused"} /\ Failed(p, IF paypal THEN row.stored ELSE {body})
       \/ /\ body.state = "held" /\ paypal /\ Failed(p, {body})
       \/ UNCHANGED rows
    /\ UNCHANGED <<orders, given, chores>>

-----------------------------------------------------------------------------
(* The renewal scan: charge_mandate, find_mandate_charge and settling.     *)

\* The order is made under the payment's own request id, so asking again answers the one
\* made before; its id is kept, or the answer never comes, and PayPal's charge is in doubt.
charge_mandate(p) ==
    /\ rows[p].status \in {"pending", "failed"} /\ rows[p].renewal /\ rows[p].ref = 0
    /\ ~rows[p].doubt
    /\ IF orders[p].state # "none" THEN UNCHANGED orders
       ELSE \E state \in {"paid", "held", "refused"} :
              orders' = [orders EXCEPT ![p] = [NewOrder(p, rows[p].provider) EXCEPT !.state = state]]
    /\ rows' \in {[rows EXCEPT ![p].ref = p], [rows EXCEPT ![p].doubt = (rows[p].provider = "paypal")]}
    /\ UNCHANGED <<inhand, given, chores>>

\* The order is read again, by the id kept.
FindCharge(w, p) ==
    /\ rows[p].renewal /\ rows[p].ref # 0 /\ ~Arrived(p)
    /\ Take(w, [at |-> "renewal", bill |-> p, body |-> orders[rows[p].ref]])
    /\ UNCHANGED <<rows, orders, given, chores>>

\* PayPal's is checked before it is believed, Stripe's is the one it was asked for.
settle_renewal(w) ==
    LET p == inhand[w].bill  body == inhand[w].body  row == rows[p] IN
    /\ inhand[w].at = "renewal" /\ Done(w) /\ ~locked(p)
    /\ \/ /\ body.state = "paid"
          /\ row.provider = "paypal" => verify_capture(p, row, body, body.order)
          /\ Completed(p, [row EXCEPT !.stored = {body}, !.ref = body.order])
       \/ body.state = "refused" /\ Failed(p, row.stored)
       \/ UNCHANGED rows
    /\ UNCHANGED <<orders, given, chores>>

\* A treasurer names the capture for a charge in doubt: it is read from PayPal.
ReadReference(w, p, o) ==
    /\ rows[p].doubt /\ ~Arrived(p) /\ ~locked(p) /\ orders[o].provider = "paypal"
    /\ Take(w, [at |-> "reference", bill |-> p, body |-> orders[o]])
    /\ UNCHANGED <<rows, orders, given, chores>>

\* It has to be completed, to name the payment, and to be of its amount and currency; the
\* order is the one the capture names.
record_charge_reference(w) ==
    LET p == inhand[w].bill  body == inhand[w].body IN
    /\ inhand[w].at = "reference" /\ Done(w)
    /\ \/ /\ body.state = "paid" /\ verify(p, body)
          /\ Completed(p, [rows[p] EXCEPT !.filed = {body}, !.ref = body.order, !.doubt = FALSE])
       \/ UNCHANGED rows
    /\ UNCHANGED <<orders, given, chores>>

\* Nothing was taken, the treasurer says: the scan may charge again.
Released(p) ==
    /\ rows[p].doubt /\ ~locked(p) /\ ~Arrived(p)
    /\ rows' = [rows EXCEPT ![p].doubt = FALSE]
    /\ UNCHANGED <<orders, inhand, given, chores>>

-----------------------------------------------------------------------------
(* Notifications, signed by the provider and delivered again at will.      *)

Ours(p, provider) == rows[p].status \notin {"none", "deleted"} /\ rows[p].provider = provider

\* The payment the resource names, or else the one that holds its order.
payment_for_resource(body) ==
    LET named == {p \in Bills : p = body.names /\ Ours(p, body.provider)} IN
    IF named # {} THEN named
    ELSE {p \in Bills : Ours(p, body.provider) /\ rows[p].ref = body.order}

\* A success is told once the money is taken, a refusal also of an order paid since (a
\* declined card before it) or taken back (a PayPal reversal).
Told(o, type) ==
    \/ type = "taken" /\ orders[o].state = "paid"
    \/ type = "refused" /\ orders[o].state \in {"refused", "paid"}

\* PayPal's: filed with the payment, whose row is read; then acted on.  Not every resource
\* names its order.
Delivered(w, o, type) ==
    /\ Told(o, type) /\ orders[o].provider = "paypal"
    /\ \E p \in payment_for_resource(orders[o]), related \in {0, o} :
        /\ ~locked(p)
        /\ Take(w, [at |-> "notice", bill |-> p, body |-> orders[o], type |-> type,
                    related |-> related, ref |-> rows[p].ref, stored |-> rows[p].stored])
    /\ UNCHANGED <<rows, orders, given, chores>>

belongs_to_payment_order(row, order) == row.ref # 0 /\ order = row.ref

\* A capture taken is checked against the row as it was read and filed beside what was
\* stored then; a refusal counts for the payment's own order only.
handle_webhook(w) ==
    LET h == inhand[w]  p == h.bill IN
    /\ h.at = "notice" /\ Done(w) /\ ~locked(p)
    /\ \/ /\ h.type = "taken" /\ verify_capture(p, h, h.body, h.related)
          /\ \E fee \in fees_from(h.body) :
                Completed(p, WithFee([rows[p] EXCEPT !.stored = h.stored, !.filed = {h.body}], fee))
       \/ h.type = "refused" /\ belongs_to_payment_order(h, h.related) /\ Failed(p, {})
       \/ UNCHANGED rows
    /\ UNCHANGED <<orders, given, chores>>

\* Stripe's, in one transaction.
StripeWebhook(o, type) ==
    /\ Told(o, type) /\ orders[o].provider = "stripe"
    /\ \E p \in payment_for_resource(orders[o]) :
        /\ ~locked(p)
        /\ \/ /\ type = "taken" /\ verify(p, orders[o])
              /\ \E fee \in fees_from(orders[o]) :
                    Completed(p, WithFee([rows[p] EXCEPT !.stored = {orders[o]}, !.ref = o], fee))
           \/ type = "refused" /\ Failed(p, {orders[o]})
    /\ UNCHANGED <<orders, inhand, given, chores>>

\* charge.updated: the fee of the payment the charge names, unless it is known.
charge_updated(o) ==
    \E p \in payment_for_resource(orders[o]) :
        /\ orders[o].provider = "stripe" /\ orders[o].state = "paid" /\ ~locked(p)
        /\ rows[p].fee = 0
        /\ rows' = [rows EXCEPT ![p].fee = o]
        /\ UNCHANGED <<orders, inhand, given, chores>>

-----------------------------------------------------------------------------
(* The office.                                                             *)

\* The fee is read from the order the row names.
fetch_fees(p) ==
    /\ Arrived(p) /\ rows[p].ref # 0 /\ ~locked(p) /\ chores < MaxChores
    /\ orders[rows[p].ref].state = "paid"
    /\ rows' = [rows EXCEPT ![p].fee = rows[p].ref] /\ chores' = chores + 1
    /\ UNCHANGED <<orders, inhand, given>>

\* A refund is asked for of what the row says took the money.
refund(p) ==
    /\ Arrived(p) /\ ~locked(p) /\ chores < MaxChores
    /\ \E o \in refund_target(rows[p]) : given' = given \cup {<<p, o>>}
    /\ chores' = chores + 1
    /\ UNCHANGED <<rows, orders, inhand>>

-----------------------------------------------------------------------------
CapturesNext ==
    \/ \E p \in Bills, provider \in Providers : start(p, provider) \/ renewal_payment(p, provider)
    \/ \E o \in Bills \cup Others :
        OrderMoves(o) \/ charge_updated(o)
    \/ \E o \in Others : OtherOrder(o)
    \/ \E p \in Bills : charge_mandate(p) \/ Released(p) \/ fetch_fees(p) \/ refund(p)
    \/ \E w \in Workers, p \in Bills : confirm(w, p) \/ FindCharge(w, p)
    \/ \E w \in Workers, p \in Bills, o \in Bills \cup Others : ReadReference(w, p, o)
    \/ \E w \in Workers :
        ConfirmWrites(w) \/ settle_renewal(w) \/ record_charge_reference(w) \/ handle_webhook(w)
    \/ \E w \in Workers, o \in Bills \cup Others, type \in {"taken", "refused"} : Delivered(w, o, type)
    \/ \E o \in Bills \cup Others, type \in {"taken", "refused"} : StripeWebhook(o, type)

CapturesSpec == CapturesInit /\ [][CapturesNext]_captureVars

-----------------------------------------------------------------------------
\* Money recorded as arrived stands on one order of the payment's provider, which took that
\* amount and is the payment's alone: the reference, the capture a refund is taken from and
\* the fee are all of that order, whichever of the browser, a notification, the scan and a
\* treasurer came first and whatever they found on the row.
StandsOnItsOrder ==
    \A p \in Bills : Arrived(p) =>
        LET row == rows[p]  o == rows[p].ref IN
        /\ refund_target(row) = {o}
        /\ orders[o].state = "paid" /\ orders[o].amount = Price /\ orders[o].currency = "usd"
        /\ orders[o].provider = row.provider /\ orders[o].names \in {Nobody, p}
        /\ row.fee \in {0, o}
        /\ \A q \in Bills : q # p /\ Arrived(q) => rows[q].ref # o
        /\ \A g \in given : g[1] = p => g[2] = o
=============================================================================
