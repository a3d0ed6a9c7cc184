------------------------------- MODULE Checkout ------------------------------
(***************************************************************************)
(* Payments a person makes (apps/payments: services.py, api/views.py,      *)
(* api/donation_views.py, donations.py, manual.py, receipts.py and the     *)
(* providers): started at a checkout, paid at the provider, confirmed by   *)
(* the browser, announced by webhooks that come late, twice or in any      *)
(* order, recorded by hand, handed to a tombstone when the account goes.   *)
(* It implements Purchase.                                                 *)
(*                                                                         *)
(* The row is locked from a confirm's check until the provider answered;   *)
(* everything else a request does to it is one step.  Amounts, plans and   *)
(* what the giver typed are left out, and so are the mandates (Mandates)   *)
(* and refunds (Refunds).                                                  *)
(***************************************************************************)
EXTENDS Integers, FiniteSets

CONSTANTS Pays, Sellers, References   \* rows; providers configured; references of cheques

VARIABLES status, fees, \* of the Payment rows: the status, and whether the fee is known
          pays,       \* and the rest of them
          held,       \* who holds the row's lock: a confirm, and the answer it has
          intent,     \* the PaymentIntent or the order at the provider
          webhooks,   \* notices on their way, kept by the provider until acknowledged
          closing,    \* declined PaymentIntents a webhook is about to cancel
          outbox,     \* receipts to be sent after the commit
          bought,     \* how often each payment was fulfilled
          receipts    \* how often its receipt was sent by itself

vars == <<status, fees, pays, held, intent, webhooks, closing, outbox, bought, receipts>>

\* A life plan, and a gift on the public page; yearly dues and a member's gift take the
\* same steps as these.
Kinds == {"life", "public"}
NoPay == [provider |-> "none", kind |-> "none", owner |-> "none", ref |-> "none"]
Free == "free"

Init ==
    /\ status = [p \in Pays |-> "none"] /\ fees = [p \in Pays |-> FALSE]
    /\ pays = [p \in Pays |-> NoPay]
    /\ held = [p \in Pays |-> Free]
    /\ intent = [p \in Pays |-> "none"]
    /\ webhooks = {} /\ closing = {} /\ outbox = {}
    /\ bought = [p \in Pays |-> 0] /\ receipts = [p \in Pays |-> 0]

Settled(p) == status[p] = "succeeded"

\* PayPal's notice of an untold order does not name it: it is answered unhandled and dropped.
money == [p \in Pays |-> intent[p] \in {"paid", "untold"}]

-----------------------------------------------------------------------------
(* Starting.                                                               *)

\* A life member has no dues to pay.
holds_lifetime_term ==
    \E p \in Pays : pays[p].kind = "life" /\ bought[p] > 0 /\ pays[p].owner = "member"

\* Rows are made in the order of their keys.
NewRow(p) == status[p] = "none" /\ \A q \in Pays : q < p => status[q] # "none"

create_checkout(p, kind, provider) ==
    /\ NewRow(p)
    /\ kind = "life" => ~holds_lifetime_term
    /\ pays' = [pays EXCEPT ![p] = [NoPay EXCEPT !.provider = provider, !.kind = kind,
                                                 !.owner = "member"]]

\* A public gift may be by somebody with an account (donor_for finds the address) or make
\* a donor.
start_donation(p, provider) == create_checkout(p, "public", provider)

\* Provider.start: the PaymentIntent, or the order, is made and kept with the payment.
provider_start(p) == intent' = [intent EXCEPT ![p] = "open"]

\* CheckoutView, DonationCheckoutView: when Provider.start raises, the payment is rolled
\* back.
Start(p, kind, provider) ==
    /\ IF kind = "public" THEN start_donation(p, provider) ELSE create_checkout(p, kind, provider)
    /\ status' = [status EXCEPT ![p] = "pending"] /\ UNCHANGED fees
    /\ provider_start(p)
    /\ UNCHANGED <<held, webhooks, closing, outbox, bought, receipts>>

-----------------------------------------------------------------------------
(* At the provider.  An open PaymentIntent is in requires_payment_method,   *)
(* also after a decline; an open order has not been captured.              *)

Notice(p, type) == [pay |-> p, type |-> type]

StripeStep(p) ==
    /\ pays[p].provider = "stripe"
    /\ \/ /\ intent[p] \in {"open", "processing"}
          /\ intent' = [intent EXCEPT ![p] = "paid"]
          /\ webhooks' = webhooks \cup {Notice(p, "succeeded"), Notice(p, "charge.updated")}
       \/ intent[p] = "open" /\ intent' = [intent EXCEPT ![p] = "processing"]
          /\ UNCHANGED webhooks
       \/ /\ intent[p] \in {"open", "processing"}
          /\ intent' = [intent EXCEPT ![p] = "open"]
          /\ webhooks' = webhooks \cup {Notice(p, "failed")}
    /\ UNCHANGED <<status, fees, pays, held, closing, outbox, bought, receipts>>

PayPalStep(p) ==
    /\ pays[p].provider = "paypal"
    /\ \/ intent[p] = "open" /\ intent' = [intent EXCEPT ![p] = "approved"] /\ UNCHANGED webhooks
       \/ /\ intent[p] = "held"
          /\ \/ intent' = [intent EXCEPT ![p] = "paid"]
                /\ webhooks' = webhooks \cup {Notice(p, "succeeded")}
             \/ intent' = [intent EXCEPT ![p] = "untold"] /\ UNCHANGED webhooks
             \/ intent' = [intent EXCEPT ![p] = "denied"]
                /\ webhooks' \in {webhooks, webhooks \cup {Notice(p, "failed")}}
    /\ UNCHANGED <<status, fees, pays, held, closing, outbox, bought, receipts>>

-----------------------------------------------------------------------------
(* Settling: mark_succeeded, _complete, mark_failed.                       *)

\* A fee stays known; money taken by hand has none.
settled_fees(p, row, known) == fees[p] \/ known \/ row.provider = "manual"

is_tombstone(row) == row.owner = "tombstone"

\* Without the check that the row is settled already.
MutComplete(p, row, known) ==
    /\ status' = [status EXCEPT ![p] = "succeeded"]
    /\ fees' = [fees EXCEPT ![p] = settled_fees(p, row, known)]
    /\ bought' = [bought EXCEPT ![p] = IF is_tombstone(row) THEN @ ELSE @ + 1]
    /\ outbox' = IF is_tombstone(row) THEN outbox ELSE outbox \cup {p}

\* A payment already settled is left alone; a tombstone's buys nothing.
complete(p, row, known) ==
    \/ Settled(p) /\ UNCHANGED <<status, fees, bought, outbox>>
    \/ /\ ~Settled(p)
       /\ status' = [status EXCEPT ![p] = "succeeded"]
       /\ fees' = [fees EXCEPT ![p] = settled_fees(p, row, known)]
       /\ bought' = [bought EXCEPT ![p] = IF is_tombstone(row) THEN @ ELSE @ + 1]
       /\ outbox' = IF is_tombstone(row) THEN outbox ELSE outbox \cup {p}

mark_failed(p) ==
    /\ status' = IF Settled(p) THEN status ELSE [status EXCEPT ![p] = "failed"]
    /\ UNCHANGED <<fees, bought, outbox>>

-----------------------------------------------------------------------------
(* Confirming: confirm_payment and Provider.confirm, under the row's lock. *)

\* The token a public gift was started with proves it, whoever owns it by then.
payment_for_token(p) == pays[p].kind = "public"

\* A pending payment only, of the person's own, or a public gift by its token.
Confirm(p) ==
    /\ held[p] = Free /\ status[p] = "pending"
    /\ pays[p].owner = "member" \/ payment_for_token(p)
    /\ held' = [held EXCEPT ![p] = "confirming"]
    /\ UNCHANGED <<status, fees, pays, intent, webhooks, closing, outbox, bought, receipts>>

\* payment_intents.retrieve, and the cancel of a declined one before the row is committed,
\* which Stripe may refuse: the intent then takes another card.
StripeRetrieve(p) ==
    /\ held[p] = "confirming" /\ pays[p].provider = "stripe"
    /\ held' = [held EXCEPT ![p] = intent[p]]
    /\ UNCHANGED <<status, fees, pays, intent, webhooks, closing, outbox, bought, receipts>>

close_declined_intent(p) ==
    /\ held[p] = "open" /\ pays[p].provider = "stripe"
    /\ held' = [held EXCEPT ![p] = "canceled"]
    /\ intent' \in {intent, [intent EXCEPT ![p] = IF @ = "open" THEN "canceled" ELSE @]}
    /\ UNCHANGED <<status, fees, pays, webhooks, closing, outbox, bought, receipts>>

\* orders/capture: taken, held, or refused; an order captured before is refused too.
PayPalCapture(p) ==
    /\ held[p] = "confirming" /\ pays[p].provider = "paypal"
    /\ \/ /\ intent[p] = "approved"
          /\ \E answer \in {"paid", "untold", "held", "open"} :
                /\ intent' = [intent EXCEPT ![p] = answer]
                /\ held' = [held EXCEPT ![p] = IF answer = "untold" THEN "paid" ELSE answer]
                /\ webhooks' = IF answer = "paid" THEN webhooks \cup {Notice(p, "succeeded")}
                               ELSE webhooks
       \/ /\ intent[p] # "approved"
          /\ held' = [held EXCEPT ![p] = "refused"]
          /\ UNCHANGED <<intent, webhooks>>
    /\ UNCHANGED <<status, fees, pays, closing, outbox, bought, receipts>>

\* The mock provider does as it is told.
MockComplete(p) ==
    /\ held[p] = "confirming" /\ pays[p].provider = "mock"
    /\ \E outcome \in {"paid", "open"} :
          /\ held' = [held EXCEPT ![p] = outcome]
    /\ UNCHANGED <<status, fees, pays, intent, webhooks, closing, outbox, bought, receipts>>

\* The answer is written and the lock released.  Anything else than taken or refused (still
\* processing, no answer) leaves the payment pending; the answer may also be lost.
ConfirmEnds(p) ==
    /\ held[p] \notin {Free, "confirming"}
    /\ held' = [held EXCEPT ![p] = Free]
    /\ intent' = IF held[p] = "paid" /\ pays[p].provider = "mock"
                 THEN [intent EXCEPT ![p] = "paid"] ELSE intent
    /\ \/ held[p] = "paid" /\ \E known \in BOOLEAN : complete(p, pays[p], known)
       \/ /\ held[p] \in {"canceled", "held", "open"}
          /\ held[p] = "open" => pays[p].provider # "stripe"
          /\ mark_failed(p)
       \/ /\ held[p] \in {"processing", "refused"}
          /\ UNCHANGED <<status, fees, bought, outbox>>
    /\ UNCHANGED <<pays, webhooks, closing, receipts>>

\* The provider did not answer, or the process died: nothing is written.
ConfirmLost(p) ==
    /\ held[p] # Free
    /\ held' = [held EXCEPT ![p] = Free]
    /\ UNCHANGED <<status, fees, pays, intent, webhooks, closing, outbox, bought, receipts>>

-----------------------------------------------------------------------------
(* Webhooks: handle_webhook of Stripe and PayPal.                          *)

\* As strict as a confirm is.
MutReceivable(p) == status[p] = "pending"

\* The rows a success settles: one given up too.
Receivable(p) == status[p] # "none"

\* Acknowledged, or delivered again later although it was handled.  A capture of the
\* payment's own order is of its amount, so only one that does not name the order fails
\* verify_capture (money).
Deliver(w) ==
    /\ held[w.pay] = Free
    /\ webhooks' \in {webhooks, webhooks \ {w}}
    /\ \/ /\ w.type = "succeeded" /\ UNCHANGED closing
          /\ \/ /\ Receivable(w.pay)
                /\ \E known \in BOOLEAN : complete(w.pay, pays[w.pay], known)
             \/ ~Receivable(w.pay) /\ UNCHANGED <<status, fees, bought, outbox>>
       \/ /\ w.type = "failed" /\ mark_failed(w.pay)
          /\ closing' = IF ~Settled(w.pay) /\ pays[w.pay].provider = "stripe"
                        THEN closing \cup {w.pay} ELSE closing
    /\ UNCHANGED <<pays, held, intent, receipts>>

\* charge.updated: the fee, unless it is known or still cannot be read.
handle_charge_updated(w) ==
    /\ w.type = "charge.updated" /\ held[w.pay] = Free
    /\ webhooks' = webhooks \ {w}
    /\ fees' \in {fees, [fees EXCEPT ![w.pay] = TRUE]}
    /\ UNCHANGED <<status, pays, held, intent, closing, outbox, bought, receipts>>

\* The webhook's own cancel, which Stripe refuses once the intent moved on.
WebhookCloses(p) ==
    /\ p \in closing /\ closing' = closing \ {p}
    /\ intent' \in {intent, [intent EXCEPT ![p] = IF @ = "open" THEN "canceled" ELSE @]}
    /\ UNCHANGED <<status, fees, pays, held, webhooks, outbox, bought, receipts>>

-----------------------------------------------------------------------------
(* The office.                                                             *)

backfill_fees(p) ==
    /\ Settled(p) /\ pays[p].provider # "manual" /\ held[p] = Free
    /\ fees' = [fees EXCEPT ![p] = TRUE]
    /\ UNCHANGED <<status, pays, held, intent, webhooks, closing, outbox, bought, receipts>>

reference_taken(ref) == \E p \in Pays : pays[p].provider = "manual" /\ pays[p].ref = ref

record_manual_payment(p, kind, ref) ==
    LET row == [NoPay EXCEPT !.provider = "manual", !.kind = kind, !.owner = "member",
                             !.ref = ref] IN
    /\ NewRow(p) /\ ~reference_taken(ref)
    /\ kind = "life" => ~holds_lifetime_term
    /\ pays' = [pays EXCEPT ![p] = row]
    /\ complete(p, row, FALSE)
    /\ intent' = [intent EXCEPT ![p] = "paid"]
    /\ UNCHANGED <<held, webhooks, closing, receipts>>

\* After the commit; the mail server may refuse it or the process die first.
send_receipt(p) ==
    /\ p \in outbox /\ outbox' = outbox \ {p}
    /\ receipts' \in {receipts, [receipts EXCEPT ![p] = @ + 1]}
    /\ UNCHANGED <<status, fees, pays, held, intent, webhooks, closing, bought>>

\* delete_member: every payment moves to a tombstone, once nobody holds its row.
hand_over_payments ==
    LET own == {p \in Pays : pays[p].owner = "member"} IN
    /\ own # {} /\ \A p \in own : held[p] = Free
    /\ pays' = [p \in Pays |-> IF p \in own THEN [pays[p] EXCEPT !.owner = "tombstone"]
                               ELSE pays[p]]
    /\ UNCHANGED <<status, fees, held, intent, webhooks, closing, outbox, bought, receipts>>

-----------------------------------------------------------------------------
ConfirmStep(p) ==
    \/ Confirm(p) \/ StripeRetrieve(p) \/ close_declined_intent(p) \/ PayPalCapture(p)
    \/ MockComplete(p) \/ ConfirmEnds(p) \/ ConfirmLost(p)

Next ==
    \/ \E p \in Pays :
        \/ \E kind \in Kinds, provider \in Sellers : Start(p, kind, provider)
        \/ \E kind \in Kinds, ref \in References : record_manual_payment(p, kind, ref)
        \/ StripeStep(p) \/ PayPalStep(p) \/ ConfirmStep(p)
        \/ WebhookCloses(p) \/ backfill_fees(p) \/ send_receipt(p)
    \/ \E w \in webhooks : Deliver(w) \/ handle_charge_updated(w)
    \/ hand_over_payments

Spec == Init /\ [][Next]_vars

-----------------------------------------------------------------------------
\* Money taken for a payment that is not marked as received is still announced, unless the
\* provider's own notice was one the code cannot match to the order: a success notice the
\* code will act on is on its way.  No order of confirms, declines, cancels and lost answers
\* leaves the office without it.
MoneyIsAnnounced ==
    \A p \in Pays : intent[p] = "paid" /\ ~Settled(p) => Notice(p, "succeeded") \in webhooks

\* The money a payment moved is what the provider has of it; the rest keeps its name.
Purchased == INSTANCE Purchase WITH money <- money

\* Every step of the checkout is one that Purchase allows: received once, with the money
\* there, bought once, the fee never forgotten, one receipt.
ImplementsPurchase == Purchased!Spec
=============================================================================
