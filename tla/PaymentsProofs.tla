---------------------------- MODULE PaymentsProofs ----------------------------
(****************************************************************************)
(* Checkout: for any number of payments and any providers, it implements   *)
(* Purchase, and money taken is announced until it is received.            *)
(*                                                                         *)
(* RenewalCalendar: no term is renewed automatically twice, for any        *)
(* lengths of terms, notice, catching up and ladder, and any bounds.  The  *)
(* argument is about the attempts alone, whichever term the calendar       *)
(* picks: at most one is waiting, and none waits for a term that was       *)
(* charged for already.                                                    *)
(*                                                                         *)
(* Captures: money that arrived stands on one order of its own, for any    *)
(* number of payments, other orders and workers.  The argument: a payment  *)
(* refers to an order that names it and keeps to it, whatever it files is  *)
(* of that order, and what a worker has read of an order that was paid is  *)
(* still so when it writes.                                                *)
(****************************************************************************)
EXTENDS Checkout, RenewalCalendar, Captures, SequenceTheorems, TLAPS

-----------------------------------------------------------------------------
(* Checkout.                                                               *)

Intents == {"none", "open", "processing", "approved", "held", "denied", "canceled",
            "paid", "untold"}
Answers == Intents \cup {Free, "confirming", "refused"}

Rows == [provider : Sellers \cup {"none", "manual"}, kind : Kinds \cup {"none"},
         owner : {"none", "member", "tombstone"}, ref : References \cup {"none"}]

\* What the variables hold.
Types ==
    /\ status \in [Pays -> {"none", "pending", "failed", "succeeded"}]
    /\ fees \in [Pays -> BOOLEAN]
    /\ pays \in [Pays -> Rows]
    /\ held \in [Pays -> Answers]
    /\ intent \in [Pays -> Intents]
    /\ webhooks \subseteq [pay : Pays, type : {"succeeded", "failed", "charge.updated"}]
    /\ closing \subseteq Pays /\ outbox \subseteq Pays
    /\ bought \in [Pays -> 0..1] /\ receipts \in [Pays -> 0..1]

\* A row not made yet has nothing at the provider.
Unmade == \A p \in Pays : status[p] = "none" =>
             intent[p] = "none" /\ pays[p].provider = "none" /\ bought[p] = 0

\* Received means the money is there; bought means received.
Paid == \A p \in Pays : /\ Settled(p) => money[p]
                        /\ bought[p] = 1 => Settled(p)
                        /\ bought[p] = 0 => receipts[p] = 0

\* A row that is locked is pending, and an answer that the money was taken is true.
Locked == \A p \in Pays : /\ held[p] # Free => status[p] = "pending"
                          /\ held[p] = "paid" /\ pays[p].provider # "mock" => money[p]

\* A notice is about a row that was made, and true.
Noticed == \A w \in webhooks : /\ status[w.pay] # "none"
                               /\ w.type # "failed" => intent[w.pay] = "paid"

\* A receipt to be sent has not been sent.
Unsent == \A p \in outbox : bought[p] = 1 /\ receipts[p] = 0

IInv == Types /\ Unmade /\ Paid /\ Locked /\ Noticed /\ Unsent /\ MoneyIsAnnounced

\* Nothing has been asked for, sold or sent at the start.
LEMMA InitHolds == ASSUME Init PROVE IInv
<1>1. Types
  <2>1. NoPay \in Rows
    BY DEF NoPay, Rows, Kinds
  <2> QED
    BY <2>1 DEF Init, Types, Intents, Answers, Free
<1>2. Unmade /\ Paid /\ Locked
  BY DEF Init, Unmade, Paid, Locked, NoPay, Settled, Free
<1>3. Noticed /\ Unsent /\ MoneyIsAnnounced
  BY DEF Init, Noticed, Unsent, MoneyIsAnnounced, money, Settled
<1> QED
  BY <1>1, <1>2, <1>3 DEF IInv

\* start_checkout and start_donation write a pending row with an open intent.
LEMMA StartKeeps ==
    ASSUME IInv, NEW p \in Pays, NEW kind \in Kinds, NEW provider \in Sellers,
           Start(p, kind, provider)
    PROVE  IInv'
<1> USE DEF Start, start_donation, provider_start, create_checkout, NewRow, NoPay
<1>1. Types'
  <2>1. create_checkout(p, kind, provider)
    BY DEF Kinds
  <2>2. pays' \in [Pays -> Rows]
    <3>1. [NoPay EXCEPT !.provider = provider, !.kind = kind, !.owner = "member"] \in Rows
      BY DEF Rows
    <3> QED
      BY <2>1, <3>1 DEF IInv, Types
  <2>3. intent' \in [Pays -> Intents] /\ status' \in [Pays -> {"none", "pending", "failed", "succeeded"}]
    BY DEF IInv, Types, Intents
  <2> QED
    BY <2>2, <2>3 DEF IInv, Types
<1>2. Unmade' /\ Paid'
  BY DEF IInv, Types, Unmade, Paid, money, Locked, Noticed, Unsent, Settled, Free, Rows, Intents
<1>3. Locked'
  BY DEF IInv, Types, Unmade, Paid, money, Locked, Settled, Free, Rows, Intents
<1>4. Noticed' /\ Unsent'
  BY DEF IInv, Types, Unmade, Paid, money, Locked, Noticed, Unsent, Settled, Free, Rows, Intents
<1>5. MoneyIsAnnounced'
  BY DEF IInv, Types, Unmade, Paid, Locked, Noticed, MoneyIsAnnounced, money, Notice,
     Settled, Free, Rows, Intents
<1> QED
  BY <1>1, <1>2, <1>3, <1>4, <1>5 DEF IInv

\* At Stripe an intent settles, waits or is declined; the notices it sends are true.
LEMMA StripeStepKeeps == ASSUME IInv, NEW p \in Pays, StripeStep(p) PROVE IInv'
<1> USE DEF StripeStep, Notice
<1>1. Types'
  <2>1. intent' \in [Pays -> Intents]
    BY DEF IInv, Types, Intents
  <2>2. webhooks' \subseteq [pay : Pays, type : {"succeeded", "failed", "charge.updated"}]
    BY DEF IInv, Types
  <2> QED
    BY <2>1, <2>2 DEF IInv, Types
<1>2. Unmade' /\ Paid'
  BY DEF IInv, Types, Unmade, Paid, money, Locked, Noticed, Unsent, Settled, Free, Rows, Intents
<1>3. Locked'
  BY DEF IInv, Types, Unmade, Paid, money, Locked, Settled, Free, Rows, Intents
<1>4. Noticed' /\ Unsent'
  BY DEF IInv, Types, Unmade, Paid, money, Locked, Noticed, Unsent, Settled, Free, Rows, Intents
<1>5. MoneyIsAnnounced'
  BY DEF IInv, Types, Unmade, Paid, Locked, Noticed, MoneyIsAnnounced, money, Notice,
     Settled, Free, Rows, Intents
<1> QED
  BY <1>1, <1>2, <1>3, <1>4, <1>5 DEF IInv

\* At PayPal an order is approved, or a held capture decided; the notices are true.
LEMMA PayPalStepKeeps == ASSUME IInv, NEW p \in Pays, PayPalStep(p) PROVE IInv'
<1> USE DEF PayPalStep, Notice
<1>1. Types'
  BY DEF IInv, Types, Rows, Intents, Answers, Free, Kinds, Unmade, Paid, Locked, Settled
<1>2. Unmade' /\ Paid'
  <2>1. UNCHANGED <<status, pays, held, outbox, bought, receipts>> /\ intent[p] \in {"open", "held"}
    BY DEF PayPalStep
  <2>2. \A q \in Pays : money[q] => money'[q]
    BY DEF IInv, Types, money
  <2>3. Paid'
    BY <2>1, <2>2 DEF IInv, Paid, Settled
  <2>4. \A q \in Pays : intent[q] = "none" => intent'[q] = "none"
    BY <2>1 DEF IInv, Types
  <2>5. Unmade'
    BY <2>1, <2>4 DEF IInv, Unmade
  <2> QED BY <2>3, <2>5
<1>3. Locked'
  BY DEF IInv, Types, Unmade, Paid, money, Locked, Settled, Free, Rows, Intents
<1>4. Noticed' /\ Unsent'
  BY DEF IInv, Types, Unmade, Paid, money, Locked, Noticed, Unsent, Settled, Free, Rows, Intents
<1>5. MoneyIsAnnounced'
  BY DEF IInv, Types, Unmade, Paid, Locked, Noticed, MoneyIsAnnounced, money, Notice,
     Settled, Free, Rows, Intents
<1> QED
  BY <1>1, <1>2, <1>3, <1>4, <1>5 DEF IInv

\* A confirm locks a pending row.
LEMMA ConfirmKeeps == ASSUME IInv, NEW p \in Pays, Confirm(p) PROVE IInv'
<1> USE DEF Confirm
<1>1. Types'
  BY DEF IInv, Types, Rows, Intents, Answers, Free, Kinds, Unmade, Paid, Locked, Settled
<1>2. Unmade' /\ Paid'
  BY DEF IInv, Types, Unmade, Paid, money, Locked, Noticed, Unsent, Settled, Free, Rows, Intents
<1>3. Locked'
  BY DEF IInv, Types, Unmade, Paid, money, Locked, Settled, Free, Rows, Intents
<1>4. Noticed' /\ Unsent'
  BY DEF IInv, Types, Unmade, Paid, money, Locked, Noticed, Unsent, Settled, Free, Rows, Intents
<1>5. MoneyIsAnnounced'
  BY DEF IInv, Types, Unmade, Paid, Locked, Noticed, MoneyIsAnnounced, money, Notice,
     Settled, Free, Rows, Intents
<1> QED
  BY <1>1, <1>2, <1>3, <1>4, <1>5 DEF IInv

\* Stripe's answer is the intent as it is; one that is paid stays paid.
LEMMA StripeRetrieveKeeps ==
    ASSUME IInv, NEW p \in Pays, StripeRetrieve(p)
    PROVE  IInv'
<1> USE DEF StripeRetrieve
<1>1. Types'
  BY DEF IInv, Types, Rows, Intents, Answers, Free, Kinds, Unmade, Paid, Locked, Settled
<1>2. Unmade' /\ Paid'
  BY DEF IInv, Types, Unmade, Paid, money, Locked, Noticed, Unsent, Settled, Free, Rows, Intents
<1>3. Locked'
  BY DEF IInv, Types, Unmade, Paid, money, Locked, Settled, Free, Rows, Intents
<1>4. Noticed' /\ Unsent'
  BY DEF IInv, Types, Unmade, Paid, money, Locked, Noticed, Unsent, Settled, Free, Rows, Intents
<1>5. MoneyIsAnnounced'
  BY DEF IInv, Types, Unmade, Paid, Locked, Noticed, MoneyIsAnnounced, money, Notice,
     Settled, Free, Rows, Intents
<1> QED
  BY <1>1, <1>2, <1>3, <1>4, <1>5 DEF IInv

\* A declined intent is canceled unless it moved on; the answer held says canceled.
LEMMA close_declined_intentKeeps ==
    ASSUME IInv, NEW p \in Pays, close_declined_intent(p)
    PROVE  IInv'
<1> USE DEF close_declined_intent
<1>1. Types'
  BY DEF IInv, Types, Rows, Intents, Answers, Free, Kinds, Unmade, Paid, Locked, Settled
<1>2. Unmade' /\ Paid'
  BY DEF IInv, Types, Unmade, Paid, money, Locked, Noticed, Unsent, Settled, Free, Rows, Intents
<1>3. Locked'
  BY DEF IInv, Types, Unmade, Paid, money, Locked, Settled, Free, Rows, Intents
<1>4. Noticed' /\ Unsent'
  BY DEF IInv, Types, Unmade, Paid, money, Locked, Noticed, Unsent, Settled, Free, Rows, Intents
<1>5. MoneyIsAnnounced'
  BY DEF IInv, Types, Unmade, Paid, Locked, Noticed, MoneyIsAnnounced, money, Notice,
     Settled, Free, Rows, Intents
<1> QED
  BY <1>1, <1>2, <1>3, <1>4, <1>5 DEF IInv

\* A capture that is answered paid has taken the money, and announced it.
LEMMA PayPalCaptureKeeps ==
    ASSUME IInv, NEW p \in Pays, PayPalCapture(p)
    PROVE  IInv'
<1> USE DEF PayPalCapture, Notice
<1>1. Types'
  <2>1. intent' \in [Pays -> Intents]
    BY DEF IInv, Types, Intents
  <2>2. held' \in [Pays -> Answers]
    BY DEF IInv, Types, Answers, Intents
  <2>3. webhooks' \subseteq [pay : Pays, type : {"succeeded", "failed", "charge.updated"}]
    BY DEF IInv, Types
  <2> QED
    BY <2>1, <2>2, <2>3 DEF IInv, Types
<1>2. Unmade' /\ Paid'
  BY DEF IInv, Types, Unmade, Paid, money, Locked, Noticed, Unsent, Settled, Free, Rows, Intents
<1>3. Locked'
  <2>1. \A q \in Pays : money[q] => money'[q]
    BY DEF IInv, Types, money
  <2>2. held'[p] = "paid" => money'[p]
    BY DEF IInv, Types, money
  <2>3. \A q \in Pays \ {p} : held'[q] = held[q]
    BY DEF IInv, Types
  <2>4. status[p] = "pending"
    BY DEF IInv, Locked, Free
  <2> QED BY <2>1, <2>2, <2>3, <2>4 DEF IInv, Locked
<1>4. Noticed' /\ Unsent'
  BY DEF IInv, Types, Unmade, Paid, money, Locked, Noticed, Unsent, Settled, Free, Rows, Intents
<1>5. MoneyIsAnnounced'
  BY DEF IInv, Types, Unmade, Paid, Locked, Noticed, MoneyIsAnnounced, money, Notice,
     Settled, Free, Rows, Intents
<1> QED
  BY <1>1, <1>2, <1>3, <1>4, <1>5 DEF IInv

\* The mock provider answers as it is told.
LEMMA MockCompleteKeeps ==
    ASSUME IInv, NEW p \in Pays, MockComplete(p)
    PROVE  IInv'
<1> USE DEF MockComplete
<1>1. Types'
  BY DEF IInv, Types, Rows, Intents, Answers, Free, Kinds, Unmade, Paid, Locked, Settled
<1>2. Unmade' /\ Paid'
  BY DEF IInv, Types, Unmade, Paid, money, Locked, Noticed, Unsent, Settled, Free, Rows, Intents
<1>3. Locked'
  BY DEF IInv, Types, Unmade, Paid, money, Locked, Settled, Free, Rows, Intents
<1>4. Noticed' /\ Unsent'
  BY DEF IInv, Types, Unmade, Paid, money, Locked, Noticed, Unsent, Settled, Free, Rows, Intents
<1>5. MoneyIsAnnounced'
  BY DEF IInv, Types, Unmade, Paid, Locked, Noticed, MoneyIsAnnounced, money, Notice,
     Settled, Free, Rows, Intents
<1> QED
  BY <1>1, <1>2, <1>3, <1>4, <1>5 DEF IInv

\* An answer settles its payment: the row, what it bought and its receipt go together.
LEMMA ConfirmEndsKeeps ==
    ASSUME IInv, NEW p \in Pays, ConfirmEnds(p)
    PROVE  IInv'
<1> USE DEF ConfirmEnds, complete, mark_failed, settled_fees, is_tombstone
<1>1. Types'
  <2>1. bought' \in [Pays -> 0..1]
    BY DEF IInv, Types, Paid, Unmade, Settled
  <2>2. status' \in [Pays -> {"none", "pending", "failed", "succeeded"}]
    BY DEF IInv, Types
  <2>3. fees' \in [Pays -> BOOLEAN]
    BY DEF IInv, Types
  <2>4. outbox' \subseteq Pays
    BY DEF IInv, Types
  <2>5. held' \in [Pays -> Answers] /\ intent' \in [Pays -> Intents]
    BY DEF IInv, Types, Answers, Intents, Free
  <2> QED
    BY <2>1, <2>2, <2>3, <2>4, <2>5 DEF IInv, Types
<1>2. Unmade' /\ Paid'
  <2>1. Unmade'
    BY DEF IInv, Types, Unmade, Locked, Settled, Free, Rows, Intents
  <2>2. \A q \in Pays : money[q] => money'[q]
    BY DEF IInv, Types, Unmade, money
  <2>3. status'[p] = "succeeded" => money'[p]
    BY <2>2 DEF IInv, Types, Paid, Locked, Noticed, Settled, money, Free
  <2>4. Paid'
    BY <2>2, <2>3 DEF IInv, Types, Unmade, Paid, Unsent, Settled, Free, Rows
  <2> QED BY <2>1, <2>4
<1>3. Locked'
  BY DEF IInv, Types, Unmade, Paid, money, Locked, Settled, Free, Rows, Intents
<1>4. Noticed' /\ Unsent'
  BY DEF IInv, Types, Unmade, Paid, money, Locked, Noticed, Unsent, Settled, Free, Rows, Intents
<1>5. MoneyIsAnnounced'
  BY DEF IInv, Types, Unmade, Paid, Locked, Noticed, MoneyIsAnnounced, money, Notice,
     Settled, Free, Rows, Intents
<1> QED
  BY <1>1, <1>2, <1>3, <1>4, <1>5 DEF IInv

\* A confirm that is lost changes no row.
LEMMA ConfirmLostKeeps ==
    ASSUME IInv, NEW p \in Pays, ConfirmLost(p)
    PROVE  IInv'
<1> USE DEF ConfirmLost
<1>1. Types'
  BY DEF IInv, Types, Rows, Intents, Answers, Free, Kinds, Unmade, Paid, Locked, Settled
<1>2. Unmade' /\ Paid'
  BY DEF IInv, Types, Unmade, Paid, money, Locked, Noticed, Unsent, Settled, Free, Rows, Intents
<1>3. Locked'
  BY DEF IInv, Types, Unmade, Paid, money, Locked, Settled, Free, Rows, Intents
<1>4. Noticed' /\ Unsent'
  BY DEF IInv, Types, Unmade, Paid, money, Locked, Noticed, Unsent, Settled, Free, Rows, Intents
<1>5. MoneyIsAnnounced'
  BY DEF IInv, Types, Unmade, Paid, Locked, Noticed, MoneyIsAnnounced, money, Notice,
     Settled, Free, Rows, Intents
<1> QED
  BY <1>1, <1>2, <1>3, <1>4, <1>5 DEF IInv

\* A success notice settles the payment it names, also one given up.
LEMMA DeliverKeeps == ASSUME IInv, NEW w \in webhooks, Deliver(w) PROVE IInv'
<1> USE DEF Deliver, complete, mark_failed, settled_fees, is_tombstone, Receivable
<1>1. Types'
  <2>1. bought' \in [Pays -> 0..1]
    BY DEF IInv, Types, Paid, Unmade, Settled
  <2>2. status' \in [Pays -> {"none", "pending", "failed", "succeeded"}]
    BY DEF IInv, Types
  <2>3. fees' \in [Pays -> BOOLEAN]
    BY DEF IInv, Types
  <2>4. outbox' \subseteq Pays
    BY DEF IInv, Types
  <2>5. closing' \subseteq Pays /\ webhooks' \subseteq webhooks
    BY DEF IInv, Types
  <2> QED
    BY <2>1, <2>2, <2>3, <2>4, <2>5 DEF IInv, Types
<1>2. Unmade' /\ Paid'
  <2>1. Unmade'
    BY DEF IInv, Types, Unmade, Locked, Settled, Free, Rows, Intents
  <2>2. \A q \in Pays : money[q] => money'[q]
    BY DEF IInv, Types, Unmade, money
  <2>3. status'[w.pay] = "succeeded" => money'[w.pay]
    BY <2>2 DEF IInv, Types, Paid, Locked, Noticed, Settled, money, Free
  <2>4. Paid'
    BY <2>2, <2>3 DEF IInv, Types, Unmade, Paid, Unsent, Settled, Free, Rows
  <2> QED BY <2>1, <2>4
<1>3. Locked'
  BY DEF IInv, Types, Unmade, Paid, money, Locked, Settled, Free, Rows, Intents
<1>4. Noticed' /\ Unsent'
  BY DEF IInv, Types, Unmade, Paid, money, Locked, Noticed, Unsent, Settled, Free, Rows, Intents
<1>5. MoneyIsAnnounced'
  BY DEF IInv, Types, Unmade, Paid, Locked, Noticed, MoneyIsAnnounced, money, Notice,
     Settled, Free, Rows, Intents
<1> QED
  BY <1>1, <1>2, <1>3, <1>4, <1>5 DEF IInv

\* A charge.updated notice writes a fee, and no other state.
LEMMA handle_charge_updatedKeeps ==
    ASSUME IInv, NEW w \in webhooks, handle_charge_updated(w)
    PROVE  IInv'
<1> USE DEF handle_charge_updated
<1>1. Types'
  BY ZenonT(60) DEF IInv, Types, Rows, Intents, Answers, Free, Kinds, Unmade, Paid, Locked,
     Settled
<1>2. Unmade' /\ Paid'
  BY DEF IInv, Types, Unmade, Paid, money, Locked, Noticed, Unsent, Settled, Free, Rows, Intents
<1>3. Locked'
  BY DEF IInv, Types, Unmade, Paid, money, Locked, Settled, Free, Rows, Intents
<1>4. Noticed' /\ Unsent'
  BY DEF IInv, Types, Unmade, Paid, money, Locked, Noticed, Unsent, Settled, Free, Rows, Intents
<1>5. MoneyIsAnnounced'
  BY DEF IInv, Types, Unmade, Paid, Locked, Noticed, MoneyIsAnnounced, money, Notice,
     Settled, Free, Rows, Intents
<1> QED
  BY <1>1, <1>2, <1>3, <1>4, <1>5 DEF IInv

\* The webhook's cancel closes an intent that is still open, and no other.
LEMMA WebhookClosesKeeps ==
    ASSUME IInv, NEW p \in Pays, WebhookCloses(p)
    PROVE  IInv'
<1> USE DEF WebhookCloses
<1>1. Types'
  BY DEF IInv, Types, Rows, Intents, Answers, Free, Kinds, Unmade, Paid, Locked, Settled
<1>2. Unmade' /\ Paid'
  BY DEF IInv, Types, Unmade, Paid, money, Locked, Noticed, Unsent, Settled, Free, Rows, Intents
<1>3. Locked'
  BY DEF IInv, Types, Unmade, Paid, money, Locked, Settled, Free, Rows, Intents
<1>4. Noticed' /\ Unsent'
  BY DEF IInv, Types, Unmade, Paid, money, Locked, Noticed, Unsent, Settled, Free, Rows, Intents
<1>5. MoneyIsAnnounced'
  BY DEF IInv, Types, Unmade, Paid, Locked, Noticed, MoneyIsAnnounced, money, Notice,
     Settled, Free, Rows, Intents
<1> QED
  BY <1>1, <1>2, <1>3, <1>4, <1>5 DEF IInv

\* The sweep over missing fees writes a fee only where money was received.
LEMMA backfill_feesKeeps ==
    ASSUME IInv, NEW p \in Pays, backfill_fees(p)
    PROVE  IInv'
<1> USE DEF backfill_fees
<1>1. Types'
  BY DEF IInv, Types, Rows, Intents, Answers, Free, Kinds, Unmade, Paid, Locked, Settled
<1>2. Unmade' /\ Paid'
  BY DEF IInv, Types, Unmade, Paid, money, Locked, Noticed, Unsent, Settled, Free, Rows, Intents
<1>3. Locked'
  BY DEF IInv, Types, Unmade, Paid, money, Locked, Settled, Free, Rows, Intents
<1>4. Noticed' /\ Unsent'
  BY DEF IInv, Types, Unmade, Paid, money, Locked, Noticed, Unsent, Settled, Free, Rows, Intents
<1>5. MoneyIsAnnounced'
  BY DEF IInv, Types, Unmade, Paid, Locked, Noticed, MoneyIsAnnounced, money, Notice,
     Settled, Free, Rows, Intents
<1> QED
  BY <1>1, <1>2, <1>3, <1>4, <1>5 DEF IInv

\* A cheque is recorded as paid in the step that makes its row.
LEMMA record_manual_paymentKeeps ==
    ASSUME IInv, NEW p \in Pays, NEW kind \in Kinds, NEW ref \in References,
           record_manual_payment(p, kind, ref)
    PROVE  IInv'
<1> USE DEF record_manual_payment, NewRow, complete, settled_fees, is_tombstone, NoPay
<1>1. Types'
  <2>1. bought' \in [Pays -> 0..1]
    BY DEF IInv, Types, Paid, Unmade, Settled
  <2>2. status' \in [Pays -> {"none", "pending", "failed", "succeeded"}]
    BY DEF IInv, Types
  <2>3. fees' \in [Pays -> BOOLEAN]
    BY DEF IInv, Types
  <2>4. outbox' \subseteq Pays
    BY DEF IInv, Types
  <2>5. pays' \in [Pays -> Rows]
    BY DEF IInv, Types, Rows, Kinds
  <2>6. intent' \in [Pays -> Intents]
    BY DEF IInv, Types, Intents
  <2> QED
    BY <2>1, <2>2, <2>3, <2>4, <2>5, <2>6 DEF IInv, Types
<1>2. Unmade' /\ Paid'
  <2>1. Unmade'
    BY DEF IInv, Types, Unmade, Locked, Settled, Free, Rows, Intents
  <2>2. \A q \in Pays : money[q] => money'[q]
    BY DEF IInv, Types, Unmade, money
  <2>3. status'[p] = "succeeded" => money'[p]
    BY <2>2 DEF IInv, Types, Paid, Locked, Noticed, Settled, money, Free
  <2>4. Paid'
    BY <2>2, <2>3 DEF IInv, Types, Unmade, Paid, Unsent, Settled, Free, Rows
  <2> QED BY <2>1, <2>4
<1>3. Locked'
  BY DEF IInv, Types, Unmade, Paid, money, Locked, Settled, Free, Rows, Intents
<1>4. Noticed' /\ Unsent'
  BY DEF IInv, Types, Unmade, Paid, money, Locked, Noticed, Unsent, Settled, Free, Rows, Intents
<1>5. MoneyIsAnnounced'
  BY DEF IInv, Types, Unmade, Paid, Locked, Noticed, MoneyIsAnnounced, money, Notice,
     Settled, Free, Rows, Intents
<1> QED
  BY <1>1, <1>2, <1>3, <1>4, <1>5 DEF IInv

\* A receipt leaves only for a payment that was announced.
LEMMA send_receiptKeeps ==
    ASSUME IInv, NEW p \in Pays, send_receipt(p)
    PROVE  IInv'
<1> USE DEF send_receipt
<1>1. Types'
  <2>1. p \in outbox /\ receipts[p] = 0
    BY DEF IInv, Unsent
  <2>2. receipts' \in [Pays -> 0..1]
    BY <2>1 DEF IInv, Types
  <2> QED
    BY <2>2 DEF IInv, Types
<1>2. Unmade' /\ Paid'
  BY DEF IInv, Types, Unmade, Paid, money, Locked, Noticed, Unsent, Settled, Free, Rows, Intents
<1>3. Locked'
  BY DEF IInv, Types, Unmade, Paid, money, Locked, Settled, Free, Rows, Intents
<1>4. Noticed' /\ Unsent'
  BY DEF IInv, Types, Unmade, Paid, money, Locked, Noticed, Unsent, Settled, Free, Rows, Intents
<1>5. MoneyIsAnnounced'
  BY DEF IInv, Types, Unmade, Paid, Locked, Noticed, MoneyIsAnnounced, money, Notice,
     Settled, Free, Rows, Intents
<1> QED
  BY <1>1, <1>2, <1>3, <1>4, <1>5 DEF IInv

\* Deleting a member moves the payments to a tombstone; none of them changes its state.
LEMMA hand_over_paymentsKeeps == ASSUME IInv, hand_over_payments PROVE IInv'
<1> USE DEF hand_over_payments
<1>1. Types'
  <2>1. \A p \in Pays : [pays[p] EXCEPT !.owner = "tombstone"] \in Rows
    BY DEF IInv, Types, Rows
  <2>2. pays' \in [Pays -> Rows]
    BY <2>1 DEF IInv, Types
  <2> QED
    BY <2>2 DEF IInv, Types
<1>2. Unmade' /\ Paid'
  BY DEF IInv, Types, Unmade, Paid, money, Locked, Noticed, Unsent, Settled, Free, Rows, Intents
<1>3. Locked'
  BY DEF IInv, Types, Unmade, Paid, money, Locked, Settled, Free, Rows, Intents
<1>4. Noticed' /\ Unsent'
  BY DEF IInv, Types, Unmade, Paid, money, Locked, Noticed, Unsent, Settled, Free, Rows, Intents
<1>5. MoneyIsAnnounced'
  BY DEF IInv, Types, Unmade, Paid, Locked, Noticed, MoneyIsAnnounced, money, Notice,
     Settled, Free, Rows, Intents
<1> QED
  BY <1>1, <1>2, <1>3, <1>4, <1>5 DEF IInv

\* The invariant is inductive.
LEMMA StepHolds == ASSUME IInv, [Next]_vars PROVE IInv'
<1>1. ASSUME UNCHANGED vars PROVE IInv'
  BY <1>1 DEF vars, IInv, Types, Unmade, Paid, Locked, Noticed, Unsent, MoneyIsAnnounced,
     money,
              Settled
<1>2. ASSUME Next PROVE IInv'
  <2>1. ASSUME NEW p \in Pays, ConfirmStep(p) PROVE IInv'
    BY <2>1, ConfirmKeeps, StripeRetrieveKeeps, close_declined_intentKeeps, PayPalCaptureKeeps,
       MockCompleteKeeps, ConfirmEndsKeeps, ConfirmLostKeeps DEF ConfirmStep
  <2> QED
    BY <1>2, <2>1, StartKeeps, record_manual_paymentKeeps, StripeStepKeeps, PayPalStepKeeps,
       WebhookClosesKeeps, backfill_feesKeeps, send_receiptKeeps, DeliverKeeps,
       handle_charge_updatedKeeps, hand_over_paymentsKeeps DEF Next
<1> QED
  BY <1>1, <1>2

\* A payment that is received is one that Purchase may receive.
LEMMA CompleteReceives ==
  ASSUME IInv, NEW p \in Pays, NEW row \in Rows, NEW known \in BOOLEAN, ~Settled(p),
         complete(p, row, known), money' = [money EXCEPT ![p] = TRUE], UNCHANGED receipts
  PROVE Purchased!Receive(p)
<1>1. bought[p] = 0
  BY DEF IInv, Types, Paid
<1>2. \E n \in 0..1 : bought' = [bought EXCEPT ![p] = n]
  <2>1. bought' = [bought EXCEPT ![p] = IF is_tombstone(row) THEN 0 ELSE 1]
    BY <1>1 DEF complete, IInv, Types
  <2>2. (IF is_tombstone(row) THEN 0 ELSE 1) \in 0..1
    OBVIOUS
  <2> QED
    BY <2>1, <2>2
<1>3. \E k \in BOOLEAN : fees' = [fees EXCEPT ![p] = fees[p] \/ k]
  <2>1. fees' = [fees EXCEPT ![p] = fees[p] \/ (known \/ row.provider = "manual")]
    BY DEF complete, settled_fees
  <2>2. CASE known \/ row.provider = "manual"
    <3>1. fees' = [fees EXCEPT ![p] = fees[p] \/ TRUE]
      BY <2>1, <2>2
    <3> QED
      BY <3>1
  <2>3. CASE ~(known \/ row.provider = "manual")
    <3>1. fees' = [fees EXCEPT ![p] = fees[p] \/ FALSE]
      BY <2>1, <2>3
    <3> QED
      BY <3>1
  <2> QED
    BY <2>2, <2>3
<1> QED
  BY <1>2, <1>3 DEF complete, Settled, Purchased!Receive

\* A payment marked as failed is given up, or it already was, or it was received.
LEMMA FailedGivesUp ==
  ASSUME IInv, NEW p \in Pays, status[p] # "none", mark_failed(p), UNCHANGED <<money, receipts>>
  PROVE Purchased!GiveUp(p) \/ UNCHANGED Purchased!purchaseVars
  BY DEF IInv, Types, mark_failed, Settled, Purchased!GiveUp, Purchased!purchaseVars

\* An answer written is a step of Purchase, or none.
LEMMA ConfirmEndsMaps ==
  ASSUME IInv, NEW p \in Pays, ConfirmEnds(p) PROVE [Purchased!Next]_Purchased!purchaseVars
<1>1. status[p] = "pending" /\ pays[p] \in Rows
  BY DEF ConfirmEnds, IInv, Types, Locked
<1>2. CASE held[p] = "paid"
  <2>1. \/ intent' = [intent EXCEPT ![p] = "paid"]
        \/ intent' = intent /\ money[p]
    BY <1>2 DEF ConfirmEnds, IInv, Types, Locked
  <2>2. money' = [money EXCEPT ![p] = TRUE]
    <3>1. \A q \in Pays : money'[q] = (IF q = p THEN TRUE ELSE money[q])
      BY <2>1 DEF money, IInv, Types
    <3> QED BY <3>1 DEF money
  <2>3. PICK known \in BOOLEAN : complete(p, pays[p], known)
    BY <1>2 DEF ConfirmEnds
  <2>4. UNCHANGED receipts
    BY DEF ConfirmEnds
  <2> QED
    BY <1>1, <2>2, <2>3, <2>4, CompleteReceives DEF Settled, Purchased!Next
<1>3. CASE held[p] # "paid"
  <2>1. UNCHANGED <<money, receipts>>
    BY <1>3 DEF ConfirmEnds, money
  <2>2. mark_failed(p) \/ UNCHANGED <<status, fees, bought, outbox>>
    BY <1>3 DEF ConfirmEnds
  <2> QED
    BY <1>1, <2>1, <2>2, FailedGivesUp DEF Purchased!Next, Purchased!purchaseVars
<1> QED
  BY <1>2, <1>3

\* A notice acted on is a step of Purchase, or none.
LEMMA DeliverMaps ==
  ASSUME IInv, NEW w \in webhooks, Deliver(w) PROVE [Purchased!Next]_Purchased!purchaseVars
<1> DEFINE p == w.pay
<1>1. p \in Pays /\ status[p] # "none" /\ pays[p] \in Rows
  BY DEF IInv, Types, Noticed
<1>2. UNCHANGED <<money, receipts>>
  BY DEF Deliver, money
<1>3. CASE w.type = "failed"
  <2>1. mark_failed(p)
    BY <1>3 DEF Deliver
  <2> QED
    BY <1>1, <1>2, <2>1, FailedGivesUp DEF Purchased!Next
<1>4. CASE w.type = "succeeded"
  <2>1. PICK known \in BOOLEAN : complete(p, pays[p], known)
    BY <1>1, <1>4 DEF Deliver, Receivable
  <2>2. CASE Settled(p)
    BY <1>2, <2>1, <2>2 DEF complete, Purchased!purchaseVars
  <2>3. CASE ~Settled(p)
    <3>1. money[p]
      BY <1>1, <1>4 DEF IInv, Noticed, money
    <3>2. money' = [money EXCEPT ![p] = TRUE]
      BY <1>1, <1>2, <3>1 DEF money
    <3> QED
      BY <1>1, <1>2, <2>1, <2>3, <3>2, CompleteReceives DEF Purchased!Next
  <2> QED
    BY <2>2, <2>3
<1> QED
  BY <1>3, <1>4 DEF Deliver

\* Money recorded by hand is one step of Purchase.
LEMMA ManualMaps ==
  ASSUME IInv, NEW p \in Pays, NEW kind \in Kinds, NEW ref \in References,
         record_manual_payment(p, kind, ref)
  PROVE [Purchased!Next]_Purchased!purchaseVars
<1> DEFINE row == [NoPay EXCEPT !.provider = "manual", !.kind = kind, !.owner = "member",
                                !.ref = ref]
<1>1. row \in Rows /\ ~Settled(p) /\ complete(p, row, FALSE)
  BY DEF record_manual_payment, NewRow, NoPay, Rows, Settled
<1>2. money' = [money EXCEPT ![p] = TRUE] /\ UNCHANGED receipts
  BY DEF record_manual_payment, money, IInv, Types
<1> QED
  BY <1>1, <1>2, CompleteReceives DEF Purchased!Next

\* Money that moves at a provider.
LEMMA TakesMoney ==
  ASSUME IInv, NEW p \in Pays, status[p] # "none", intent[p] \notin {"paid", "untold"},
         NEW taken \in {"paid", "untold"}, intent' = [intent EXCEPT ![p] = taken],
         UNCHANGED <<status, fees, bought, receipts>>
  PROVE [Purchased!Next]_Purchased!purchaseVars
<1>1. money' = [money EXCEPT ![p] = TRUE] /\ ~money[p]
  <2>1. \A q \in Pays : money'[q] = (IF q = p THEN TRUE ELSE money[q])
    BY DEF money, IInv, Types
  <2>2. ~money[p]
    BY DEF money
  <2> QED BY <2>1, <2>2 DEF money
<1>2. status[p] \in {"pending", "failed"}
  <2>1. status[p] # "succeeded"
    BY <1>1 DEF IInv, Paid, Settled
  <2> QED BY <2>1 DEF IInv, Types
<1> QED
  BY <1>1, <1>2 DEF Purchased!Next, Purchased!Take

\* What happens at the provider is a step of Purchase, or none.
LEMMA ProviderMaps ==
  ASSUME IInv, NEW p \in Pays, StripeStep(p) \/ PayPalStep(p) \/ PayPalCapture(p)
  PROVE [Purchased!Next]_Purchased!purchaseVars
<1>1. status[p] # "none"
  BY DEF IInv, Unmade, Locked, StripeStep, PayPalStep, PayPalCapture, Free
<1>2. UNCHANGED <<status, fees, bought, receipts>>
  BY DEF StripeStep, PayPalStep, PayPalCapture
<1>3. \/ /\ intent[p] \notin {"paid", "untold"}
         /\ \E taken \in {"paid", "untold"} : intent' = [intent EXCEPT ![p] = taken]
      \/ UNCHANGED money
  <2>1. \/ intent' = intent
        \/ /\ intent[p] \notin {"paid", "untold"}
           /\ \E state \in Intents : intent' = [intent EXCEPT ![p] = state]
    BY DEF StripeStep, PayPalStep, PayPalCapture, Intents
  <2>2. ASSUME NEW state \in Intents, intent' = [intent EXCEPT ![p] = state],
               state \notin {"paid", "untold"}, intent[p] \notin {"paid", "untold"}
        PROVE  UNCHANGED money
    <3>1. \A q \in Pays : money'[q] = money[q]
      BY <2>2 DEF money, IInv, Types
    <3> QED BY <3>1 DEF money
  <2>3. intent' = intent => UNCHANGED money
    BY DEF money
  <2> QED BY <2>1, <2>2, <2>3
<1> QED
  BY <1>1, <1>2, <1>3, TakesMoney DEF Purchased!purchaseVars

\* Every step is one of Purchase, or changes nothing that Purchase speaks of.
LEMMA StepMaps ==
    ASSUME IInv, [Next]_vars
    PROVE  [Purchased!Next]_Purchased!purchaseVars
<1>1. CASE UNCHANGED vars
  BY <1>1 DEF vars, Purchased!purchaseVars, money
<1>2. ASSUME NEW p \in Pays, NEW kind \in Kinds, NEW provider \in Sellers,
             Start(p, kind, provider)
      PROVE [Purchased!Next]_Purchased!purchaseVars
  <2>1. UNCHANGED money
    BY <1>2 DEF Start, start_donation, provider_start, create_checkout, NewRow, money, IInv,
       Types, Unmade
  <2> QED
    BY <1>2, <2>1 DEF Start, start_donation, provider_start, create_checkout, NewRow,
       Purchased!Next, Purchased!Start
<1>3. ASSUME NEW p \in Pays, ConfirmStep(p) PROVE [Purchased!Next]_Purchased!purchaseVars
  <2>1. CASE PayPalCapture(p) \/ ConfirmEnds(p)
    BY <2>1, ProviderMaps, ConfirmEndsMaps
  <2>2. CASE Confirm(p) \/ StripeRetrieve(p) \/ MockComplete(p) \/ ConfirmLost(p)
    BY <2>2 DEF Confirm, StripeRetrieve, MockComplete, ConfirmLost, Purchased!purchaseVars,
       money
  <2>3. CASE close_declined_intent(p)
    BY <2>3 DEF close_declined_intent, Purchased!purchaseVars, money, IInv, Types
  <2> QED
    BY <1>3, <2>1, <2>2, <2>3 DEF ConfirmStep
<1>4. ASSUME NEW p \in Pays, WebhookCloses(p) PROVE [Purchased!Next]_Purchased!purchaseVars
  BY <1>4 DEF WebhookCloses, Purchased!purchaseVars, money, IInv, Types
<1>5. ASSUME NEW p \in Pays, backfill_fees(p) PROVE [Purchased!Next]_Purchased!purchaseVars
  <2>1. money[p] /\ UNCHANGED money
    BY <1>5 DEF backfill_fees, money, IInv, Paid
  <2> QED
    BY <1>5, <2>1 DEF backfill_fees, Purchased!Next, Purchased!RecordFees
<1>6. ASSUME NEW p \in Pays, send_receipt(p) PROVE [Purchased!Next]_Purchased!purchaseVars
  <2>1. bought[p] = 1 /\ receipts[p] = 0 /\ UNCHANGED money
    BY <1>6 DEF send_receipt, money, IInv, Unsent
  <2> QED
    BY <1>6, <2>1 DEF send_receipt, Purchased!Next, Purchased!Receipt, Purchased!purchaseVars
<1>7. ASSUME NEW w \in webhooks, handle_charge_updated(w)
      PROVE [Purchased!Next]_Purchased!purchaseVars
  <2>1. w.pay \in Pays /\ money[w.pay] /\ UNCHANGED money
    BY <1>7 DEF handle_charge_updated, money, IInv, Types, Noticed
  <2> QED
    BY <1>7, <2>1 DEF handle_charge_updated, Purchased!Next, Purchased!RecordFees,
                      Purchased!purchaseVars
<1>8. CASE hand_over_payments
  BY <1>8 DEF hand_over_payments, Purchased!purchaseVars, money
<1> QED
  BY <1>1, <1>2, <1>3, <1>4, <1>5, <1>6, <1>7, <1>8, ProviderMaps, ManualMaps,
     DeliverMaps DEF Next

\* Checkout implements Purchase, whatever the confirms, webhooks and declines of however
\* many payments do: received once and only with the money there, bought once, the fee not
\* forgotten, one receipt (mark_succeeded, mark_failed, record_fees, send_receipt).
THEOREM CheckoutImplementsPurchase == Spec => ImplementsPurchase
<1>1. Init => Purchased!Init
  <2>1. ASSUME Init PROVE money = [p \in Pays |-> FALSE]
    <3>1. \A p \in Pays : intent[p] \notin {"paid", "untold"}
      BY <2>1 DEF Init
    <3>2. \A p \in Pays : (intent[p] \in {"paid", "untold"}) = FALSE
      BY <3>1
    <3> QED BY <3>2, Zenon DEF money
  <2> QED BY <2>1 DEF Init, Purchased!Init
<1>2. IInv /\ [Next]_vars => [Purchased!Next]_Purchased!purchaseVars
  BY StepMaps
<1>3. Init => IInv
  BY InitHolds
<1>4. IInv /\ [Next]_vars => IInv'
  BY StepHolds
<1> QED
  BY <1>1, <1>2, <1>3, <1>4, PTL DEF Spec, ImplementsPurchase, Purchased!Spec

\* Money that was taken and is not recorded yet always has its success notice under way
\* (handle_webhook, confirm_payment).
THEOREM TakenMoneyIsAnnounced == Spec => []MoneyIsAnnounced
<1>1. IInv => MoneyIsAnnounced
  BY DEF IInv
<1>2. Init => IInv
  BY InitHolds
<1>3. IInv /\ [Next]_vars => IInv'
  BY StepHolds
<1> QED
  BY <1>1, <1>2, <1>3, PTL DEF Spec

-----------------------------------------------------------------------------
(* RenewalCalendar.                                                        *)

IsList(as) == \E S : as \in Seq(S)
IsAttempt(a) == a = [term |-> a.term, on |-> a.on, outcome |-> a.outcome, sent |-> a.sent]
Rowed(as) == IsList(as) /\ \A i \in DOMAIN as : IsAttempt(as[i])

Scheduled(as, i) == as[i].outcome = "scheduled"
Taken(as, i) == as[i].outcome = "succeeded"

\* At most one attempt is waiting.
OneWaiting(as) == \A i, j \in DOMAIN as : Scheduled(as, i) /\ Scheduled(as, j) => i = j

\* No attempt waits for a term an automatic charge was taken for.
NoneTwice(as) ==
    \A i, j \in DOMAIN as : Scheduled(as, i) /\ Taken(as, j) => as[i].term # as[j].term

OneTaken(as) ==
    \A i, j \in DOMAIN as : Taken(as, i) /\ Taken(as, j) /\ as[i].term = as[j].term => i = j

AttemptsOk(as) == Rowed(as) /\ OneWaiting(as) /\ NoneTwice(as) /\ OneTaken(as)

CalendarInv == AttemptsOk(attempts)

\* The calendar as one record, as State gives it.
IsState(s) == s = [terms |-> s.terms, mandate |-> s.mandate, attempts |-> s.attempts]

-----------------------------------------------------------------------------
(* What happens to the list of attempts.                                   *)

\* A list has a length, and its positions are the numbers up to it.
LEMMA ListFacts ==
    ASSUME NEW as, IsList(as)
    PROVE  Len(as) \in Nat /\ DOMAIN as = 1..Len(as)
<1>1. PICK S : as \in Seq(S)
  BY DEF IsList
<1> QED
  BY <1>1, LenProperties

\* The numbers up to n + 1 are those up to n and n + 1.
LEMMA OneMore ==
    ASSUME NEW n \in Nat
    PROVE  1..n + 1 = 1..n \cup {n + 1} /\ n + 1 \notin 1..n
<1>1. n + 1 \notin 1..n
  OBVIOUS
<1>2. \A x \in 1..n + 1 : x \in 1..n \cup {n + 1}
  OBVIOUS
<1>3. \A x \in 1..n \cup {n + 1} : x \in 1..n + 1
  OBVIOUS
<1> QED
  BY <1>1, <1>2, <1>3

\* Appending adds one position and moves no other.
LEMMA AppendFacts ==
    ASSUME NEW as, IsList(as), NEW e
    PROVE  /\ IsList(Append(as, e))
           /\ DOMAIN Append(as, e) = DOMAIN as \cup {Len(as) + 1}
           /\ Len(as) + 1 \notin DOMAIN as
           /\ Append(as, e)[Len(as) + 1] = e
           /\ \A i \in DOMAIN as : Append(as, e)[i] = as[i]
<1>1. PICK S : as \in Seq(S)
  BY DEF IsList
<1>2. Len(as) \in Nat /\ DOMAIN as = 1..Len(as)
  BY ListFacts
<1> DEFINE T == S \cup {e}
<1>3. as \in Seq(T) /\ e \in T
  BY <1>1, SeqMonotonic
<1> DEFINE bs == Append(as, e)
<1> HIDE DEF T
<1>4. /\ bs \in Seq(T) /\ Len(bs) = Len(as) + 1
      /\ \A i \in 1..Len(as) : bs[i] = as[i]
      /\ bs[Len(as) + 1] = e
  <2>1. bs \in Seq(T)
    BY <1>3, AppendProperties
  <2>2. Len(bs) = Len(as) + 1
    BY <1>3, AppendProperties
  <2>3. \A i \in 1..Len(as) : bs[i] = as[i]
    BY <1>3, AppendProperties
  <2>4. bs[Len(as) + 1] = e
    BY <1>3, AppendProperties
  <2> QED
    BY <2>1, <2>2, <2>3, <2>4
<1> HIDE DEF bs
<1>5. IsList(bs)
  BY <1>4 DEF IsList
<1>6. DOMAIN bs = 1..Len(as) + 1
  BY <1>4, LenProperties
<1>7. 1..Len(as) + 1 = 1..Len(as) \cup {Len(as) + 1} /\ Len(as) + 1 \notin 1..Len(as)
  BY <1>2, OneMore
<1> QED
  BY <1>2, <1>4, <1>5, <1>6, <1>7 DEF bs

\* Attempts keep their order and number when one of them is rewritten.
LEMMA RewrittenList ==
    ASSUME NEW as, IsList(as), NEW bs, DOMAIN bs = DOMAIN as, bs = [i \in DOMAIN as |-> bs[i]]
    PROVE  IsList(bs)
<1>1. Len(as) \in Nat /\ DOMAIN as = 1..Len(as)
  BY ListFacts
<1> DEFINE S == {bs[i] : i \in 1..Len(as)}
<1>2. bs \in [1..Len(as) -> S]
  BY <1>1
<1>3. bs \in Seq(S)
  BY <1>1, <1>2, SeqDef
<1> QED
  BY <1>3 DEF IsList

\* Nothing goes wrong when attempts only stop waiting.
LEMMA FewerOk ==
    ASSUME NEW as, NEW bs, DOMAIN bs = DOMAIN as,
           \A j \in DOMAIN as : bs[j].term = as[j].term,
           \A j \in DOMAIN as : Scheduled(bs, j) => Scheduled(as, j),
           \A j \in DOMAIN as : Taken(bs, j) => Taken(as, j),
           OneWaiting(as), NoneTwice(as), OneTaken(as)
    PROVE  OneWaiting(bs) /\ NoneTwice(bs) /\ OneTaken(bs)
<1>1. OneWaiting(bs)
  BY DEF OneWaiting
<1>2. NoneTwice(bs)
  BY DEF NoneTwice
<1>3. OneTaken(bs)
  BY DEF OneTaken
<1> QED
  BY <1>1, <1>2, <1>3

\* A charge may be scheduled when none waits and none was taken for the term.
LEMMA ScheduleOk ==
    ASSUME NEW as, AttemptsOk(as), NEW t, NEW day,
           \A i \in DOMAIN as : ~Scheduled(as, i),
           \A i \in DOMAIN as : Taken(as, i) => as[i].term # t
    PROVE  AttemptsOk(Append(as, [term |-> t, on |-> day, outcome |-> "scheduled",
                                  sent |-> FALSE]))
<1> DEFINE a == [term |-> t, on |-> day, outcome |-> "scheduled", sent |-> FALSE]
           bs == Append(as, a)
           n == Len(as) + 1
<1>1. /\ IsList(bs) /\ DOMAIN bs = DOMAIN as \cup {n} /\ n \notin DOMAIN as
      /\ bs[n] = a /\ \A i \in DOMAIN as : bs[i] = as[i]
  <2>1. IsList(as)
    BY DEF AttemptsOk, Rowed
  <2> HIDE DEF a
  <2> QED
    BY <2>1, AppendFacts
<1>2. a.term = t /\ a.outcome = "scheduled" /\ IsAttempt(a)
  BY DEF IsAttempt
<1> HIDE DEF a, bs, n
<1>3. Rowed(bs)
  BY <1>1, <1>2 DEF AttemptsOk, Rowed
<1>4. OneWaiting(bs) /\ NoneTwice(bs) /\ OneTaken(bs)
  BY <1>1, <1>2 DEF AttemptsOk, OneWaiting, NoneTwice, OneTaken, Scheduled, Taken
<1> QED
  BY <1>3, <1>4 DEF AttemptsOk, bs, a

\* A waiting attempt may be closed, as taken too: then nothing waits any more.
LEMMA CloseOk ==
    ASSUME NEW as, AttemptsOk(as), NEW i \in DOMAIN as, Scheduled(as, i),
           NEW outcome \in {"skipped", "failed", "succeeded"},
           NEW bs, bs = [as EXCEPT ![i].outcome = outcome]
    PROVE  /\ AttemptsOk(bs) /\ DOMAIN bs = DOMAIN as
           /\ \A j \in DOMAIN as : bs[j].term = as[j].term /\ ~Scheduled(bs, j)
           /\ \A j \in DOMAIN as : Taken(bs, j) => Taken(as, j) \/ (j = i /\ outcome = "succeeded")
<1> DEFINE cs == [as EXCEPT ![i].outcome = outcome]
<1>1. DOMAIN cs = DOMAIN as /\ cs = [j \in DOMAIN as |-> cs[j]]
  OBVIOUS
<1>2. \A j \in DOMAIN as : j # i => cs[j] = as[j]
  OBVIOUS
<1>3. IsAttempt(as[i])
  BY DEF AttemptsOk, Rowed
<1>4. cs[i] = [as[i] EXCEPT !.outcome = outcome]
  OBVIOUS
<1>5. cs[i] = [term |-> as[i].term, on |-> as[i].on, outcome |-> outcome, sent |-> as[i].sent]
  BY <1>3, <1>4 DEF IsAttempt
<1>6. cs[i].term = as[i].term /\ cs[i].outcome = outcome /\ IsAttempt(cs[i])
  BY <1>5 DEF IsAttempt
<1> HIDE DEF cs
<1>7. IsList(cs)
  BY <1>1, RewrittenList DEF AttemptsOk, Rowed
<1>8. Rowed(cs)
  BY <1>1, <1>2, <1>6, <1>7 DEF AttemptsOk, Rowed
<1>9. \A j \in DOMAIN as : cs[j].term = as[j].term /\ ~Scheduled(cs, j)
  BY <1>2, <1>6 DEF AttemptsOk, OneWaiting, Scheduled
<1>10. \A j \in DOMAIN as : Taken(cs, j) => Taken(as, j) \/ (j = i /\ outcome = "succeeded")
  <2> TAKE j \in DOMAIN as
  <2>1. CASE j = i
    BY <2>1, <1>6 DEF Taken
  <2>2. CASE j # i
    BY <2>2, <1>2 DEF Taken
  <2> QED
    BY <2>1, <2>2
<1>11. OneTaken(cs)
  <2> SUFFICES ASSUME NEW j \in DOMAIN as, NEW k \in DOMAIN as, Taken(cs, j), Taken(cs, k),
                      as[j].term = as[k].term
               PROVE  j = k
    BY <1>1, <1>9 DEF OneTaken
  <2>1. OneTaken(as) /\ NoneTwice(as)
    BY DEF AttemptsOk
  <2>2. CASE Taken(as, j) /\ Taken(as, k)
    BY <2>1, <2>2 DEF OneTaken
  <2>3. CASE j = i
    BY <1>10, <2>1, <2>3 DEF NoneTwice
  <2>4. CASE k = i
    BY <1>10, <2>1, <2>4 DEF NoneTwice
  <2> QED
    BY <1>10, <2>2, <2>3, <2>4
<1>12. OneWaiting(cs) /\ NoneTwice(cs)
  BY <1>1, <1>9 DEF OneWaiting, NoneTwice
<1>13. bs = cs
  BY DEF cs
<1> QED
  BY <1>1, <1>8, <1>9, <1>10, <1>11, <1>12, <1>13 DEF AttemptsOk

\* Sending a charge changes no outcome.
LEMMA SendOk ==
    ASSUME NEW as, AttemptsOk(as), NEW i \in DOMAIN as
    PROVE  AttemptsOk([as EXCEPT ![i].sent = TRUE])
<1> DEFINE bs == [as EXCEPT ![i].sent = TRUE]
<1>1. DOMAIN bs = DOMAIN as /\ bs = [j \in DOMAIN as |-> bs[j]]
  OBVIOUS
<1>2. bs[i] = [as[i] EXCEPT !.sent = TRUE] /\ \A j \in DOMAIN as : j # i => bs[j] = as[j]
  OBVIOUS
<1>3. IsAttempt(as[i])
  BY DEF AttemptsOk, Rowed
<1>4. bs[i] = [term |-> as[i].term, on |-> as[i].on, outcome |-> as[i].outcome, sent |-> TRUE]
  BY <1>2, <1>3 DEF IsAttempt
<1>5. bs[i].term = as[i].term /\ bs[i].outcome = as[i].outcome /\ IsAttempt(bs[i])
  BY <1>4 DEF IsAttempt
<1> HIDE DEF bs
<1>6. Rowed(bs)
  BY <1>1, <1>2, <1>5, RewrittenList DEF AttemptsOk, Rowed
<1>7. \A j \in DOMAIN as : bs[j].term = as[j].term /\ bs[j].outcome = as[j].outcome
  BY <1>2, <1>5
<1>8. OneWaiting(bs) /\ NoneTwice(bs) /\ OneTaken(bs)
  BY <1>1, <1>7, FewerOk DEF AttemptsOk, Scheduled, Taken
<1> QED
  BY <1>6, <1>8 DEF AttemptsOk, bs

\* Canceling skips the waiting attempts that were not sent.
LEMMA CancelOk ==
    ASSUME NEW as, AttemptsOk(as), NEW W,
           \A j \in W : j \in DOMAIN as /\ Scheduled(as, j)
    PROVE  AttemptsOk([i \in DOMAIN as |-> IF i \in W /\ ~as[i].sent
                          THEN [as[i] EXCEPT !.outcome = "skipped"] ELSE as[i]])
<1> DEFINE bs == [i \in DOMAIN as |-> IF i \in W /\ ~as[i].sent
                     THEN [as[i] EXCEPT !.outcome = "skipped"] ELSE as[i]]
<1>1. DOMAIN bs = DOMAIN as /\ bs = [j \in DOMAIN as |-> bs[j]]
  OBVIOUS
<1>2. ASSUME NEW j \in DOMAIN as
      PROVE  /\ IsAttempt(bs[j]) /\ bs[j].term = as[j].term
             /\ bs[j].outcome = as[j].outcome \/ bs[j].outcome = "skipped"
  <2>1. IsAttempt(as[j])
    BY DEF AttemptsOk, Rowed
  <2>2. CASE j \in W /\ ~as[j].sent
    <3>1. bs[j] = [as[j] EXCEPT !.outcome = "skipped"]
      BY <2>2
    <3>2. bs[j] = [term |-> as[j].term, on |-> as[j].on, outcome |-> "skipped",
                   sent |-> as[j].sent]
      BY <2>1, <3>1 DEF IsAttempt
    <3> QED
      BY <3>2 DEF IsAttempt
  <2>3. CASE ~(j \in W /\ ~as[j].sent)
    <3>1. bs[j] = as[j]
      BY <2>3
    <3> QED
      BY <2>1, <3>1
  <2> QED
    BY <2>2, <2>3
<1> HIDE DEF bs
<1>3. Rowed(bs)
  BY <1>1, <1>2, RewrittenList DEF AttemptsOk, Rowed
<1>4. OneWaiting(bs) /\ NoneTwice(bs) /\ OneTaken(bs)
  BY <1>1, <1>2, FewerOk DEF AttemptsOk, Scheduled, Taken
<1> QED
  BY <1>3, <1>4 DEF AttemptsOk, bs

-----------------------------------------------------------------------------
(* What happens to the calendar.                                           *)

OkState(s) == IsState(s) /\ AttemptsOk(s.attempts)
SameAttempts(s, r) == IsState(r) /\ r.attempts = s.attempts

\* Rewriting the terms or the mandate leaves the attempts as they were.
LEMMA FieldRewritten ==
    ASSUME NEW s, IsState(s), NEW x
    PROVE  /\ SameAttempts(s, [s EXCEPT !.terms = x])
           /\ SameAttempts(s, [s EXCEPT !.mandate = x])
           /\ IsState([s EXCEPT !.attempts = x]) /\ [s EXCEPT !.attempts = x].attempts = x
<1>1. [s EXCEPT !.terms = x] = [terms |-> x, mandate |-> s.mandate, attempts |-> s.attempts]
  BY DEF IsState
<1>2. [s EXCEPT !.mandate = x] = [terms |-> s.terms, mandate |-> x, attempts |-> s.attempts]
  BY DEF IsState
<1>3. [s EXCEPT !.attempts = x] = [terms |-> s.terms, mandate |-> s.mandate, attempts |-> x]
  BY DEF IsState
<1> QED
  BY <1>1, <1>2, <1>3 DEF IsState, SameAttempts

\* What a payment does to terms and mandate leaves the attempts alone.
LEMMA CompleteKeeps ==
    ASSUME NEW s, IsState(s), NEW saves, NEW days, NEW covered
    PROVE  /\ SameAttempts(s, activate_term(s, days))
           /\ SameAttempts(s, roll_charge_date_past(s, covered))
           /\ SameAttempts(s, activate_pending_mandate(s, saves))
           /\ SameAttempts(s, abandon(s))
<1>1. SameAttempts(s, activate_term(s, days))
  BY FieldRewritten DEF activate_term
<1>2. SameAttempts(s, roll_charge_date_past(s, covered))
  <2> DEFINE r == roll_charge_date_past(s, covered)
  <2>1. r = s \/ \E x : r = [s EXCEPT !.mandate = [s.mandate EXCEPT !.next = x]]
    BY DEF roll_charge_date_past
  <2>2. SameAttempts(s, s)
    BY DEF SameAttempts
  <2> HIDE DEF r
  <2> QED
    BY <2>1, <2>2, FieldRewritten, ZenonT(60) DEF r
<1>3. SameAttempts(s, activate_pending_mandate(s, saves))
  <2> DEFINE r == activate_pending_mandate(s, saves)
  <2>1. r = s \/ \E x : r = [s EXCEPT !.mandate = x]
    BY DEF activate_pending_mandate
  <2>2. SameAttempts(s, s)
    BY DEF SameAttempts
  <2> HIDE DEF r
  <2> QED
    BY <2>1, <2>2, FieldRewritten DEF r
<1>4. SameAttempts(s, abandon(s))
  BY FieldRewritten DEF abandon
<1> QED
  BY <1>1, <1>2, <1>3, <1>4

\* A payment that settles adds a term and moves the charge day; the attempts stay.
LEMMA PaymentKeeps ==
    ASSUME NEW s, IsState(s), NEW saves
    PROVE  SameAttempts(s, Complete(s, saves))
<1> DEFINE t == term_to_renew(s)
           covered == IF t = 0 THEN -1 ELSE s.terms[t].ends
           renewed == activate_term(s, TermDays)
           rolled == roll_charge_date_past(renewed, covered)
<1>1. Complete(s, saves) = activate_pending_mandate(rolled, saves)
  BY DEF Complete
<1> HIDE DEF covered, t
<1>2. SameAttempts(s, renewed)
  BY CompleteKeeps
<1> HIDE DEF renewed
<1>3. SameAttempts(renewed, rolled)
  BY <1>2, CompleteKeeps DEF SameAttempts
<1> HIDE DEF rolled
<1>4. SameAttempts(rolled, activate_pending_mandate(rolled, saves))
  BY <1>3, CompleteKeeps DEF SameAttempts
<1> QED
  BY <1>1, <1>2, <1>3, <1>4 DEF SameAttempts

\* A charge is scheduled only when none waits.
LEMMA ScheduleKeeps ==
    ASSUME NEW s, OkState(s), NEW t, NEW day,
           \A j \in DOMAIN s.attempts : Taken(s.attempts, j) => s.attempts[j].term # t
    PROVE  OkState(schedule_attempt(s, t, day))
<1>1. CASE Waiting(s) # {}
  BY <1>1 DEF schedule_attempt
<1>2. CASE Waiting(s) = {}
  <2> DEFINE a == [term |-> t, on |-> day, outcome |-> "scheduled", sent |-> FALSE]
             bs == Append(s.attempts, a)
  <2>1. \A j \in DOMAIN s.attempts : ~Scheduled(s.attempts, j)
    BY <1>2 DEF Waiting, Scheduled
  <2>2. AttemptsOk(bs)
    BY <2>1, ScheduleOk DEF OkState
  <2>3. schedule_attempt(s, t, day) = [s EXCEPT !.attempts = bs]
    BY <1>2 DEF schedule_attempt
  <2> HIDE DEF bs
  <2> QED
    BY <2>2, <2>3, FieldRewritten DEF OkState
<1> QED
  BY <1>1, <1>2

\* An attempt is scheduled only for a term that none was taken for.
LEMMA ScheduleWithinNoticeKeeps ==
    ASSUME NEW s, OkState(s), NEW t,
           \A j \in DOMAIN s.attempts : Taken(s.attempts, j) => s.attempts[j].term # t
    PROVE  OkState(ScheduleWithinNotice(s, t))
<1> DEFINE day == charge_date(s)
<1>1. \/ ScheduleWithinNotice(s, t) = s
      \/ ScheduleWithinNotice(s, t) = schedule_attempt(s, t, day)
  BY DEF ScheduleWithinNotice
<1> HIDE DEF day
<1> QED
  BY <1>1, ScheduleKeeps

\* The scan's notice step schedules for a term that was not charged for.
LEMMA NoticeKeeps ==
    ASSUME NEW s, OkState(s)
    PROVE  OkState(notice(s))
<1>1. OkState(abandon(s))
  BY CompleteKeeps DEF OkState, SameAttempts
<1>2. ASSUME NEW t, ~HasAttempt(s, t, {"succeeded"})
      PROVE  OkState(ScheduleWithinNotice(s, t))
  BY <1>2, ScheduleWithinNoticeKeeps DEF HasAttempt, Taken
<1>3. OkState(catch_up(s))
  <2> DEFINE t == lapsed_term_to_renew(s)
  <2>1. \/ catch_up(s) \in {s, abandon(s)}
        \/ /\ catch_up(s) = ScheduleWithinNotice(s, t)
           /\ ~HasAttempt(s, t, {"scheduled", "succeeded", "failed", "skipped"})
    BY DEF catch_up
  <2> HIDE DEF t
  <2>2. HasAttempt(s, t, {"succeeded"})
           => HasAttempt(s, t, {"scheduled", "succeeded", "failed", "skipped"})
    BY DEF HasAttempt
  <2> QED
    BY <1>1, <1>2, <2>1, <2>2
<1> DEFINE t == term_to_renew(s)
<1>4. \/ notice(s) \in {s, catch_up(s)}
      \/ notice(s) = ScheduleWithinNotice(s, t) /\ ~HasAttempt(s, t, {"succeeded"})
  BY DEF notice, AlreadyTaken
<1> HIDE DEF t
<1> QED
  BY <1>2, <1>3, <1>4

\* Whatever charging a waiting attempt comes to.
LEMMA ChargeKeeps ==
    ASSUME NEW s, OkState(s), NEW i \in DOMAIN s.attempts, Scheduled(s.attempts, i),
           NEW r \in charge(s, i)
    PROVE  OkState(r)
<1>1. ASSUME NEW q, SameAttempts(s, q), NEW outcome \in {"skipped", "failed", "succeeded"}
      PROVE  LET bs == Closed(q, i, outcome).attempts
             IN  /\ OkState(Closed(q, i, outcome))
                 /\ DOMAIN bs = DOMAIN s.attempts
                 /\ \A j \in DOMAIN s.attempts : bs[j].term = s.attempts[j].term
                 /\ outcome # "succeeded" =>
                      \A j \in DOMAIN s.attempts : Taken(bs, j) => Taken(s.attempts, j)
  <2> DEFINE bs == [q.attempts EXCEPT ![i].outcome = outcome]
  <2>1. Closed(q, i, outcome) = [q EXCEPT !.attempts = bs]
    BY DEF Closed
  <2>2. q.attempts = s.attempts
    BY <1>1 DEF SameAttempts
  <2>3. /\ AttemptsOk(bs) /\ DOMAIN bs = DOMAIN s.attempts
        /\ \A j \in DOMAIN s.attempts : bs[j].term = s.attempts[j].term
        /\ outcome # "succeeded" =>
             \A j \in DOMAIN s.attempts : Taken(bs, j) => Taken(s.attempts, j)
    <3>1. AttemptsOk(s.attempts) /\ bs = [s.attempts EXCEPT ![i].outcome = outcome]
      BY <2>2 DEF OkState
    <3> HIDE DEF bs
    <3> QED
      BY <3>1, CloseOk
  <2> HIDE DEF bs
  <2>4. IsState(Closed(q, i, outcome)) /\ Closed(q, i, outcome).attempts = bs
    <3>1. IsState(q)
      BY <1>1 DEF SameAttempts
    <3>2. IsState([q EXCEPT !.attempts = bs]) /\ [q EXCEPT !.attempts = bs].attempts = bs
      BY <3>1, FieldRewritten
    <3> QED
      BY <2>1, <3>2
  <2> QED
    BY <2>3, <2>4 DEF OkState
<1>2. SameAttempts(s, s)
  BY DEF OkState, SameAttempts
<1>3. OkState(skip(s, i))
  <2> DEFINE closed == Closed(s, i, "skipped")
             covered == s.terms[s.attempts[i].term].ends
  <2>1. skip(s, i) = closed \/ skip(s, i) = roll_charge_date_past(closed, covered)
    BY DEF skip
  <2>2. OkState(closed)
    BY <1>1, <1>2
  <2> HIDE DEF closed, covered
  <2> QED
    BY <2>1, <2>2, CompleteKeeps DEF OkState, SameAttempts
<1>4. ASSUME NEW saves
      PROVE  OkState(record_success(s, i, saves))
  <2> DEFINE q == Complete(s, saves)
             paid == Closed(q, i, "succeeded")
  <2>1. SameAttempts(s, q)
    BY PaymentKeeps DEF OkState
  <2> HIDE DEF q
  <2>2. OkState(paid)
    BY <1>1, <2>1
  <2>3. PICK x : record_success(s, i, saves) = [paid EXCEPT !.mandate = x]
    BY DEF record_success, q
  <2> HIDE DEF paid
  <2>4. IsState(paid) /\ AttemptsOk(paid.attempts)
    BY <2>2 DEF OkState
  <2>5. SameAttempts(paid, [paid EXCEPT !.mandate = x])
    BY <2>4, FieldRewritten
  <2> QED
    BY <2>3, <2>4, <2>5 DEF OkState, SameAttempts
<1>5. OkState(record_failure(s, i))
  <2> DEFINE closed == Closed(s, i, "failed")
             count == s.mandate.failures + 1
             counted == [closed EXCEPT !.mandate = [closed.mandate EXCEPT !.failures = count]]
             day == today + RETRY_OFFSETS[count]
             t == s.attempts[i].term
  <2>1. \/ record_failure(s, i) = closed
        \/ \E x : record_failure(s, i) = [closed EXCEPT !.mandate = x]
        \/ record_failure(s, i) = schedule_attempt(counted, t, day)
    BY DEF record_failure
  <2>2. /\ OkState(closed)
        /\ DOMAIN closed.attempts = DOMAIN s.attempts
        /\ \A j \in DOMAIN s.attempts : closed.attempts[j].term = s.attempts[j].term
        /\ \A j \in DOMAIN s.attempts : Taken(closed.attempts, j) => Taken(s.attempts, j)
    BY <1>1, <1>2
  <2> HIDE DEF closed, day
  <2>3. \A x : OkState([closed EXCEPT !.mandate = x])
    BY <2>2, FieldRewritten DEF OkState, SameAttempts
  <2>4. OkState(counted) /\ counted.attempts = closed.attempts
    BY <2>2, <2>3, FieldRewritten DEF OkState, SameAttempts
  <2> HIDE DEF counted
  <2>5. \A j \in DOMAIN counted.attempts :
           Taken(counted.attempts, j) => counted.attempts[j].term # t
    BY <2>2, <2>4 DEF OkState, AttemptsOk, NoneTwice
  <2> HIDE DEF t, count
  <2>6. OkState(schedule_attempt(counted, t, day))
    BY <2>4, <2>5, ScheduleKeeps
  <2> HIDE DEF OkState
  <2> QED
    BY <2>1, <2>2, <2>3, <2>6
<1>6. OkState([s EXCEPT !.attempts[i].sent = TRUE])
  <2> DEFINE bs == [s.attempts EXCEPT ![i].sent = TRUE]
  <2>1. AttemptsOk(bs)
    BY SendOk DEF OkState
  <2> HIDE DEF bs
  <2>2. OkState([s EXCEPT !.attempts = bs])
    BY <2>1, FieldRewritten DEF OkState
  <2> QED
    BY <2>2 DEF bs
<1> HIDE DEF OkState
<1>7. \/ \E saves \in BOOLEAN : r = record_success(s, i, saves)
      \/ r = record_failure(s, i) \/ r = skip(s, i) \/ r = s
      \/ r = [s EXCEPT !.attempts[i].sent = TRUE]
  BY DEF charge
<1> QED
  BY <1>3, <1>4, <1>5, <1>6, <1>7

-----------------------------------------------------------------------------
(* The invariant.                                                          *)

\* The variables as one record satisfy what the steps on records need.
LEMMA StateOk ==
    ASSUME CalendarInv
    PROVE  OkState(State) /\ State.attempts = attempts
BY DEF CalendarInv, OkState, IsState, State

\* A step that ends in a good record keeps the invariant.
LEMMA BecomesOk ==
    ASSUME NEW r, OkState(r), Becomes(r)
    PROVE  CalendarInv'
BY DEF CalendarInv, OkState, Becomes

\* There are no attempts at the start.
LEMMA CalendarInitHolds == CalendarInit => CalendarInv
<1> SUFFICES ASSUME CalendarInit PROVE CalendarInv
  OBVIOUS
<1>1. attempts = <<>> /\ attempts \in Seq({}) /\ DOMAIN attempts = {}
  BY EmptySeq DEF CalendarInit
<1>2. Rowed(attempts)
  BY <1>1 DEF Rowed, IsList
<1> QED
  BY <1>1, <1>2 DEF CalendarInv, AttemptsOk, OneWaiting, NoneTwice, OneTaken

\* A scan is notice, catching up, abandoning and charging, one after the other.
LEMMA ScanKeeps ==
    ASSUME CalendarInv, Scan
    PROVE  CalendarInv'
<1> DEFINE s == notice(State)
<1>1. OkState(s)
  BY StateOk, NoticeKeeps
<1>2. \/ Becomes(s)
      \/ \E i \in due_attempts(s) : \E r \in charge(s, i) : Becomes(r)
  BY DEF Scan
<1> HIDE DEF s
<1>3. CASE Becomes(s)
  BY <1>1, <1>3, BecomesOk
<1>4. CASE \E i \in due_attempts(s) : \E r \in charge(s, i) : Becomes(r)
  <2> PICK i \in due_attempts(s) : \E r \in charge(s, i) : Becomes(r)
    BY <1>4
  <2>1. PICK r \in charge(s, i) : Becomes(r)
    OBVIOUS
  <2>2. i \in DOMAIN s.attempts /\ Scheduled(s.attempts, i)
    BY DEF due_attempts, Waiting, Scheduled
  <2>3. OkState(r)
    BY <1>1, <2>2, ChargeKeeps
  <2> QED
    BY <2>1, <2>3, BecomesOk
<1> QED
  BY <1>2, <1>3, <1>4

\* Turning renewal off closes the attempts that wait and takes none.
LEMMA CancelMandateKeeps ==
    ASSUME CalendarInv, cancel_mandate
    PROVE  CalendarInv'
<1>1. \A j \in Waiting(State) : j \in DOMAIN attempts /\ Scheduled(attempts, j)
  BY DEF Waiting, Scheduled, State
<1> DEFINE W == Waiting(State)
<1>2. attempts' = [i \in DOMAIN attempts |-> IF i \in W /\ ~attempts[i].sent
                      THEN [attempts[i] EXCEPT !.outcome = "skipped"] ELSE attempts[i]]
  BY DEF cancel_mandate
<1> HIDE DEF W
<1>3. AttemptsOk([i \in DOMAIN attempts |-> IF i \in W /\ ~attempts[i].sent
                     THEN [attempts[i] EXCEPT !.outcome = "skipped"] ELSE attempts[i]])
  BY <1>1, CancelOk DEF CalendarInv, W
<1> QED
  BY <1>2, <1>3 DEF CalendarInv

\* Every step keeps the inductive invariant.
LEMMA CalendarInductiveStep == CalendarInv /\ [CalendarNext]_calendarVars => CalendarInv'
<1> SUFFICES ASSUME CalendarInv, [CalendarNext]_calendarVars PROVE CalendarInv'
  OBVIOUS
<1>1. ASSUME UNCHANGED attempts PROVE CalendarInv'
  BY <1>1 DEF CalendarInv
<1>2. CASE Scan
  BY <1>2, ScanKeeps
<1>3. CASE MemberStep
  <2>1. ASSUME NEW day \in ChargeDays \cup {-1}, begin_mandate(day) PROVE CalendarInv'
    BY <1>1, <2>1 DEF begin_mandate
  <2>2. CASE save_method
    BY <1>1, <2>2 DEF save_method
  <2>3. CASE cancel_mandate
    BY <2>3, CancelMandateKeeps
  <2>4. ASSUME NEW day \in ChargeDays, Patch(day) PROVE CalendarInv'
    BY <1>1, <2>4 DEF Patch
  <2>5. ASSUME NEW saves \in BOOLEAN, RenewByHand(saves) PROVE CalendarInv'
    <3>1. SameAttempts(State, Complete(State, saves))
      BY StateOk, PaymentKeeps DEF OkState
    <3>2. Becomes(Complete(State, saves))
      BY <2>5 DEF RenewByHand
    <3>3. UNCHANGED attempts
      BY <3>1, <3>2, StateOk DEF SameAttempts, Becomes
    <3> QED
      BY <1>1, <3>3
  <2> QED
    BY <1>3, <2>1, <2>2, <2>3, <2>4, <2>5 DEF MemberStep
<1>4. CASE OfficeStep
  <2>1. ASSUME NEW days \in {TermDays, Forever}, grant_term(days) PROVE CalendarInv'
    <3>1. SameAttempts(State, activate_term(State, days))
      BY StateOk, CompleteKeeps DEF OkState
    <3>2. Becomes(activate_term(State, days))
      BY <2>1 DEF grant_term
    <3>3. UNCHANGED attempts
      BY <3>1, <3>2, StateOk DEF SameAttempts, Becomes
    <3> QED
      BY <1>1, <3>3
  <2>2. ASSUME NEW t \in DOMAIN terms, cancel_term(t) PROVE CalendarInv'
    BY <1>1, <2>2 DEF cancel_term
  <2>3. ASSUME NEW i \in DOMAIN attempts, close_unpaid(i) PROVE CalendarInv'
    <3>1. /\ Scheduled(attempts, i)
          /\ attempts' = [attempts EXCEPT ![i].outcome = "failed"]
      BY <2>3 DEF close_unpaid, Scheduled
    <3>2. AttemptsOk(attempts)
      BY DEF CalendarInv
    <3> DEFINE outcome == "failed"
    <3>3. /\ outcome \in {"skipped", "failed", "succeeded"}
          /\ attempts' = [attempts EXCEPT ![i].outcome = outcome]
      BY <3>1
    <3> HIDE DEF outcome
    <3>4. AttemptsOk(attempts')
      BY <3>1, <3>2, <3>3, CloseOk
    <3> QED
      BY <3>4 DEF CalendarInv
  <2> QED
    BY <1>4, <2>1, <2>2, <2>3 DEF OfficeStep
<1>5. CASE NewDay
  BY <1>1, <1>5 DEF NewDay
<1>6. CASE UNCHANGED calendarVars
  BY <1>1, <1>6 DEF calendarVars
<1> QED
  BY <1>2, <1>3, <1>4, <1>5, <1>6 DEF CalendarNext

\* No term is renewed automatically twice, however the member, the office and the provider
\* act between the scans (_notice, _catch_up, _record_failure).
THEOREM NoTermRenewedTwice == CalendarSpec => []OneRenewalPerTerm
<1>1. CalendarInv => OneRenewalPerTerm
  BY DEF CalendarInv, AttemptsOk, OneTaken, Taken, OneRenewalPerTerm
<1> QED
  BY <1>1, CalendarInitHolds, CalendarInductiveStep, PTL DEF CalendarSpec

-----------------------------------------------------------------------------
(* Captures.                                                               *)

Ids == Bills \cup Others

\* What a provider tells of an order, and what a payment row holds.
Bodies == [state : {"none", "open", "approved", "held", "paid", "refused"},
           order : Ids \cup {0}, provider : Providers, names : Bills \cup {Nobody},
           amount : {0, Price, Price + 1}, currency : {"usd", "eur"}]

Gone == {"none", "deleted"}

PaymentRows ==
    [status : Gone \cup {"pending", "failed", "succeeded"}, provider : Providers,
     renewal : BOOLEAN, ref : Ids \cup {0}, stored : SUBSET Bodies, filed : SUBSET Bodies,
     fee : Ids \cup {0}, doubt : BOOLEAN]

\* A payment's own order is as it was started; Stripe's other intents name no payment.
OrderSound(o) ==
    /\ orders[o] \in Bodies
    /\ orders[o].state # "none" => orders[o].order = o
    /\ orders[o].state # "none" /\ o \in Bills =>
          orders[o].names = o /\ orders[o].amount = Price /\ orders[o].currency = "usd"
    /\ orders[o].provider = "stripe" /\ o \in Others => orders[o].names = Nobody

OrdersSound == orders \in [Ids -> Bodies] /\ \A o \in Ids : OrderSound(o)

\* What was kept of a payment is of the order it refers to.
OfItsOrder(bodies, ref) == \A b \in bodies : b.state = "paid" => b.order # 0 /\ b.order = ref

\* A payment refers to an order that names it, and whatever it keeps is of that order.
RowSound(p) ==
    LET row == rows[p] IN
    /\ row.status \in Gone => row.ref = 0 /\ ~row.doubt /\ ~row.renewal
    /\ row.status = "none" => orders[p].state = "none"
    /\ row.status \notin Gone /\ orders[p].state # "none" => orders[p].provider = row.provider
    /\ row.ref # 0 =>
          orders[row.ref].state # "none" /\ orders[row.ref].names = p
          /\ orders[row.ref].provider = row.provider
    /\ row.doubt => row.ref = 0 /\ row.provider = "paypal"
    /\ row.provider = "stripe" => row.fee \in {0, p} /\ row.ref \in {0, p}
    /\ row.provider = "paypal" =>
          /\ row.fee \in {0, row.ref}
          /\ OfItsOrder(row.stored, row.ref) /\ OfItsOrder(row.filed, row.ref)
    /\ Arrived(p) =>
          /\ row.ref # 0 /\ orders[row.ref].state = "paid"
          /\ orders[row.ref].amount = Price /\ orders[row.ref].currency = "usd"
          /\ row.provider = "paypal" => \E b \in row.stored \cup row.filed : b.state = "paid"

RowsSound == rows \in [Bills -> PaymentRows] /\ \A p \in Bills : RowSound(p)

\* What a worker has read is still so: an order that was paid stays paid, and a payment
\* keeps the order it refers to.
BodySound(b) ==
    /\ b \in Bodies
    /\ b.state # "none" => b.order \in Ids
    /\ b.state = "paid" => orders[b.order] = b

Hands == {Idle} \cup
    [at : {"confirm", "renewal", "reference"}, bill : Bills, body : Bodies] \cup
    [at : {"notice"}, bill : Bills, body : Bodies, type : {"taken", "refused"},
     related : Ids \cup {0}, ref : Ids \cup {0}, stored : SUBSET Bodies]

HandSound(h) ==
    h.at # "idle" =>
        LET row == rows[h.bill] IN
        /\ row.status \notin Gone /\ BodySound(h.body)
        /\ h.at \in {"confirm", "renewal"} => row.ref # 0 /\ row.ref = h.body.order
        /\ h.at = "reference" => row.doubt /\ h.body.provider = "paypal"
        /\ h.at = "notice" =>
              /\ row.provider = "paypal" /\ h.related \in {0, h.body.order}
              /\ h.ref # 0 => row.ref = h.ref
              /\ OfItsOrder(h.stored, h.ref)

HandsSound == inhand \in [Workers -> Hands] /\ \A w \in Workers : HandSound(inhand[w])

\* One worker at a time holds a payment's lock.
Holds(h, p) == h.at \in {"confirm", "reference"} /\ h.bill = p
OneHolder ==
    \A v, w \in Workers, p \in Bills : Holds(inhand[v], p) /\ Holds(inhand[w], p) => v = w

\* A refund is of money that arrived, from the order that took it.
GivenSound == \A g \in given : g[1] \in Bills => Arrived(g[1]) /\ g[2] = rows[g[1]].ref

CapturesInv == OrdersSound /\ RowsSound /\ HandsSound /\ OneHolder /\ GivenSound

-----------------------------------------------------------------------------
(* Rows.                                                                   *)

\* Orders move on without touching what was paid, and without changing whose they are.
OrdersLater ==
    \A o \in Ids : orders[o].state # "none" =>
        /\ orders'[o].state # "none" /\ orders'[o].names = orders[o].names
        /\ orders'[o].provider = orders[o].provider
        /\ orders[o].state = "paid" => orders'[o] = orders[o]

\* A payment's order is made by its own provider, once there is a payment.
OwnProvider ==
    \A p \in Bills : orders'[p].state # "none" /\ orders[p].state = "none" =>
        /\ rows'[p].status # "none"
        /\ rows[p].status \notin Gone => orders'[p].provider = rows[p].provider

\* Nobody holds the payment but a worker that is done with it.
Unheld(p) == \A w \in Workers : inhand'[w] = inhand[w] => ~Holds(inhand[w], p)

\* A row keeps its order, its provider and its money; a lock keeps a charge in doubt.
RowLater(p) ==
    /\ rows[p].status \notin Gone =>
          rows'[p].status \notin Gone /\ rows'[p].provider = rows[p].provider
    /\ rows[p].ref # 0 => rows'[p].ref = rows[p].ref
    /\ Arrived(p) => Arrived(p)'
    /\ rows[p].doubt => rows'[p].doubt \/ Unheld(p)

LEMMA FieldsKept ==
    ASSUME NEW row \in PaymentRows, NEW next \in Gone \cup {"pending", "failed", "succeeded"},
           NEW ref \in Ids \cup {0}, NEW stored \in SUBSET Bodies, NEW filed \in SUBSET Bodies,
           NEW fee \in Ids \cup {0}, NEW doubt \in BOOLEAN
    PROVE  /\ [row EXCEPT !.status = next] \in PaymentRows
           /\ [row EXCEPT !.ref = ref] \in PaymentRows
           /\ [row EXCEPT !.stored = stored] \in PaymentRows
           /\ [row EXCEPT !.filed = filed] \in PaymentRows
           /\ [row EXCEPT !.fee = fee] \in PaymentRows
           /\ [row EXCEPT !.doubt = doubt] \in PaymentRows
BY DEF PaymentRows

\* A worker changed its hands: it took up what it has read, under the lock if it locks, or
\* it is done.
HandMoves(w) ==
    /\ inhand' \in [Workers -> Hands]
    /\ \A v \in Workers : v # w => inhand'[v] = inhand[v]
    /\ \/ inhand'[w] = Idle
       \/ HandSound(inhand[w])' /\ \A p \in Bills : Holds(inhand'[w], p) => ~locked(p)

\* The invariant survives a step whose orders and rows are sound and later ones.
LEMMA StillSound ==
    ASSUME CapturesInv, OrdersLater, OrdersSound', RowsSound', \A p \in Bills : RowLater(p),
           inhand' = inhand \/ \E w \in Workers : HandMoves(w),
           \A g \in given' : g \notin given /\ g[1] \in Bills =>
                Arrived(g[1])' /\ g[2] = rows'[g[1]].ref
    PROVE  CapturesInv'
<1>1. inhand' \in [Workers -> Hands]
  BY DEF CapturesInv, HandsSound, HandMoves
<1>2. ASSUME NEW w \in Workers, inhand'[w] = inhand[w]
      PROVE  HandSound(inhand[w])'
  <2>1. CASE inhand[w].at = "idle"
    BY <2>1, <1>2 DEF HandSound
  <2>2. CASE inhand[w].at # "idle"
    <3> DEFINE h == inhand[w]
    <3>1. h \in Hands /\ HandSound(h) /\ h.bill \in Bills /\ h.body \in Bodies
      BY <2>2 DEF CapturesInv, HandsSound, Hands, Idle
    <3>2. BodySound(h.body)'
      BY <3>1, <2>2, <1>2 DEF HandSound, BodySound, OrdersLater, Bodies
    <3>3. RowLater(h.bill)
      BY <3>1
    <3>4. rows[h.bill].doubt /\ h.at = "reference" => rows'[h.bill].doubt
      BY <3>1, <3>3, <1>2 DEF RowLater, Unheld, Holds
    <3>5. h.at = "notice" /\ h.ref # 0 => rows'[h.bill].ref = h.ref
      <4> HAVE h.at = "notice" /\ h.ref # 0
      <4>1. rows[h.bill].ref = h.ref
        BY <3>1, <2>2 DEF HandSound
      <4>2. rows[h.bill].ref # 0
        BY <4>1
      <4> QED BY <4>1, <4>2, <3>3 DEF RowLater
    <3>6. rows[h.bill].ref # 0 => rows'[h.bill].ref = rows[h.bill].ref
      BY <3>3 DEF RowLater
    <3>7. rows'[h.bill].status \notin Gone /\ rows'[h.bill].provider = rows[h.bill].provider
      BY <3>1, <3>3, <2>2 DEF RowLater, HandSound
    <3> QED BY <1>2, <2>2, <3>1, <3>2, <3>4, <3>5, <3>6, <3>7 DEF HandSound
  <2> QED BY <2>1, <2>2
<1>3. HandsSound'
  <2>1. ASSUME NEW w \in Workers, inhand'[w] = Idle
        PROVE  HandSound(inhand[w])'
    BY <2>1 DEF HandSound, Idle
  <2> QED BY <1>1, <1>2, <2>1 DEF HandsSound, HandMoves
<1>4. OneHolder'
  <2>1. CASE inhand' = inhand
    BY <2>1 DEF CapturesInv, OneHolder
  <2>2. ASSUME NEW w \in Workers, HandMoves(w)
        PROVE  OneHolder'
    <3>1. ASSUME NEW p \in Bills, Holds(inhand'[w], p)
          PROVE  \A v \in Workers : v # w => ~Holds(inhand[v], p)
      BY <3>1, <2>2 DEF HandMoves, Holds, locked, Idle
    <3> QED BY <3>1, <2>2 DEF CapturesInv, OneHolder, HandMoves
  <2> QED BY <2>1, <2>2
<1>5. GivenSound'
  <2>1. ASSUME NEW g \in given, g[1] \in Bills
        PROVE  Arrived(g[1])' /\ g[2] = rows'[g[1]].ref
    <3>1. Arrived(g[1]) /\ g[2] = rows[g[1]].ref /\ RowLater(g[1]) /\ RowSound(g[1])
      BY <2>1 DEF CapturesInv, GivenSound, RowsSound
    <3>2. rows[g[1]].ref # 0
      BY <3>1 DEF RowSound
    <3> QED BY <3>1, <3>2 DEF RowLater
  <2> QED BY <2>1 DEF GivenSound
<1> QED BY <1>3, <1>4, <1>5 DEF CapturesInv

\* A row that stays is still sound when orders move on.
LEMMA RowStays ==
    ASSUME CapturesInv, OrdersLater, OwnProvider, NEW p \in Bills, rows'[p] = rows[p]
    PROVE  RowSound(p)' /\ RowLater(p)
<1>1. RowSound(p) /\ rows[p] \in PaymentRows
  BY DEF CapturesInv, RowsSound
<1>2. rows[p].ref \in Ids \cup {0} /\ p \in Ids
  BY <1>1 DEF PaymentRows, Ids
<1>3. rows[p].status \notin Gone /\ orders'[p].state # "none" =>
          orders'[p].provider = rows[p].provider
  BY <1>1, <1>2 DEF RowSound, OrdersLater, OwnProvider
<1>4. rows[p].ref # 0 =>
          orders'[rows[p].ref].state # "none" /\ orders'[rows[p].ref].names = p
          /\ orders'[rows[p].ref].provider = rows[p].provider
  BY <1>1, <1>2 DEF RowSound, OrdersLater
<1>5. Arrived(p) => orders'[rows[p].ref] = orders[rows[p].ref]
  BY <1>1, <1>2 DEF RowSound, OrdersLater
<1>6. rows[p].status = "none" => orders'[p].state = "none"
  BY <1>1 DEF RowSound, OwnProvider
<1>7. RowSound(p)'
  BY <1>1, <1>3, <1>4, <1>5, <1>6 DEF RowSound, Arrived
<1>8. RowLater(p)
  BY DEF RowLater, Arrived
<1> QED BY <1>7, <1>8

LEMMA RowsStay ==
    ASSUME CapturesInv, OrdersLater, OwnProvider, rows' = rows
    PROVE  RowsSound' /\ \A p \in Bills : RowLater(p)
BY RowStays DEF CapturesInv, RowsSound

\* One row is written.
LEMMA RowWritten ==
    ASSUME CapturesInv, OrdersLater, OwnProvider, NEW p \in Bills, NEW new \in PaymentRows,
           rows' = [rows EXCEPT ![p] = new], RowSound(p)', RowLater(p)
    PROVE  RowsSound' /\ \A q \in Bills : RowLater(q)
<1>1. rows \in [Bills -> PaymentRows]
  BY DEF CapturesInv, RowsSound
<1>2. rows' \in [Bills -> PaymentRows]
  BY <1>1
<1>3. ASSUME NEW q \in Bills, q # p
      PROVE  RowSound(q)' /\ RowLater(q)
  BY <1>1, <1>3, RowStays
<1> QED BY <1>2, <1>3 DEF RowsSound

\* Orders stay.
LEMMA OrdersStay ==
    ASSUME CapturesInv, orders' = orders
    PROVE  OrdersLater /\ OwnProvider /\ OrdersSound'
BY DEF CapturesInv, OrdersLater, OwnProvider, OrdersSound, OrderSound

\* What a body of an order that was paid says of it.
LEMMA PaidOrder ==
    ASSUME CapturesInv, NEW b, BodySound(b), b.state = "paid"
    PROVE  b.order \in Ids /\ b.order # 0 /\ orders[b.order] = b
BY BillNumbers DEF BodySound, Ids

\* An order that was read tells what it is.
LEMMA ReadOrder ==
    ASSUME CapturesInv, NEW o \in Ids
    PROVE  BodySound(orders[o]) /\ (orders[o].state # "none" => orders[o].order = o)
BY DEF CapturesInv, OrdersSound, OrderSound, BodySound

LEMMA Settles ==
    ASSUME CapturesInv, orders' = orders, NEW p \in Bills, NEW new \in PaymentRows,
           Completed(p, new), rows[p].status \notin Gone, ~new.doubt,
           rows[p].doubt => Unheld(p), new.provider = rows[p].provider, new.ref # 0,
           rows[p].ref # 0 => new.ref = rows[p].ref,
           orders[new.ref].state = "paid", orders[new.ref].names = p,
           orders[new.ref].amount = Price, orders[new.ref].currency = "usd",
           orders[new.ref].provider = new.provider,
           new.provider = "stripe" => new.ref = p /\ new.fee \in {0, p},
           new.provider = "paypal" =>
                /\ new.fee \in {0, new.ref}
                /\ OfItsOrder(new.stored, new.ref) /\ OfItsOrder(new.filed, new.ref)
                /\ \E b \in new.stored \cup new.filed : b.state = "paid"
    PROVE  RowsSound' /\ \A q \in Bills : RowLater(q)
<1>1. CASE Arrived(p)
  BY <1>1, RowsStay, OrdersStay DEF Completed
<1>2. CASE ~Arrived(p)
  <2> DEFINE row == [new EXCEPT !.status = "succeeded"]
  <2>1. row \in PaymentRows
    BY FieldsKept
  <2>2. /\ row.status = "succeeded" /\ row.provider = new.provider /\ row.ref = new.ref
        /\ row.stored = new.stored /\ row.filed = new.filed /\ row.fee = new.fee
        /\ row.doubt = new.doubt
    BY DEF PaymentRows
  <2>3. rows \in [Bills -> PaymentRows] /\ RowSound(p) /\ rows' = [rows EXCEPT ![p] = row]
    BY <1>2 DEF Completed, CapturesInv, RowsSound
  <2> HIDE DEF row
  <2>4. rows'[p] = row
    BY <2>3
  <2>5. RowLater(p)
    BY <1>2, <2>2, <2>4 DEF RowLater, Gone
  <2>6. RowSound(p)'
    BY <2>2, <2>3, <2>4 DEF RowSound, Gone
  <2> QED BY <2>1, <2>3, <2>5, <2>6, RowWritten, OrdersStay
<1> QED BY <1>1, <1>2

LEMMA Fails ==
    ASSUME CapturesInv, orders' = orders, NEW p \in Bills, NEW bodies \in SUBSET Bodies,
           Failed(p, bodies), rows[p].status \notin Gone,
           rows[p].provider = "paypal" => OfItsOrder(bodies, rows[p].ref)
    PROVE  RowsSound' /\ \A q \in Bills : RowLater(q)
<1>1. CASE Arrived(p)
  BY <1>1, RowsStay, OrdersStay DEF Failed
<1>2. CASE ~Arrived(p)
  <2> DEFINE row == [[rows[p] EXCEPT !.status = "failed"] EXCEPT !.stored = bodies]
  <2>1. rows \in [Bills -> PaymentRows] /\ RowSound(p) /\ rows[p] \in PaymentRows
    BY DEF CapturesInv, RowsSound
  <2>2. row \in PaymentRows
    BY <2>1, FieldsKept
  <2>3. /\ row.status = "failed" /\ row.provider = rows[p].provider /\ row.ref = rows[p].ref
        /\ row.stored = bodies /\ row.filed = rows[p].filed /\ row.fee = rows[p].fee
        /\ row.doubt = rows[p].doubt
    BY <2>1 DEF PaymentRows
  <2>4. rows' = [rows EXCEPT ![p] = row]
    BY <1>2, <2>1 DEF Failed
  <2> HIDE DEF row
  <2>5. rows'[p] = row
    BY <2>1, <2>4
  <2>6. RowLater(p)
    BY <1>2, <2>3, <2>5 DEF RowLater, Gone, Arrived
  <2>7. RowSound(p)'
    BY <1>2, <2>1, <2>3, <2>5 DEF RowSound, Gone, Arrived, SETTLED_STATUSES
  <2> QED BY <2>2, <2>4, <2>6, <2>7, RowWritten, OrdersStay
<1> QED BY <1>1, <1>2

\* A worker puts down what it had in hand.
LEMMA HandsDone ==
    ASSUME CapturesInv, NEW w \in Workers, Done(w)
    PROVE  HandMoves(w)
BY DEF CapturesInv, HandsSound, HandMoves, Done, Hands

-----------------------------------------------------------------------------
(* Starting, and the orders' own steps.                                    *)

\* An order that is made, or moves on, keeps to what orders are.
LEMMA OrderMade ==
    ASSUME CapturesInv, NEW o \in Ids, NEW body \in Bodies, orders' = [orders EXCEPT ![o] = body],
           orders[o].state = "none" =>
                /\ body.order = o /\ (body.provider = "stripe" /\ o \in Others => body.names = Nobody)
                /\ o \in Bills => body.names = o /\ body.amount = Price /\ body.currency = "usd",
           orders[o].state # "none" =>
                /\ body.state # "none" /\ body.order = o /\ body.names = orders[o].names
                /\ body.provider = orders[o].provider /\ body.amount = orders[o].amount
                /\ body.currency = orders[o].currency,
           orders[o].state = "paid" => body = orders[o]
    PROVE  OrdersLater /\ OrdersSound'
<1>1. orders \in [Ids -> Bodies] /\ \A q \in Ids : OrderSound(q)
  BY DEF CapturesInv, OrdersSound
<1>2. orders'[o] = body /\ \A q \in Ids : q # o => orders'[q] = orders[q]
  BY <1>1
<1>3. OrdersLater
  BY <1>1, <1>2 DEF OrdersLater
<1>4. OrderSound(o)'
  BY <1>1, <1>2 DEF OrderSound
<1>5. ASSUME NEW q \in Ids, q # o
      PROVE  OrderSound(q)'
  BY <1>1, <1>2, <1>5 DEF OrderSound
<1> QED BY <1>1, <1>3, <1>4, <1>5 DEF OrdersSound

LEMMA OrderState ==
    ASSUME CapturesInv, NEW o \in Ids,
           NEW state \in {"open", "approved", "held", "paid", "refused"},
           orders[o].state \notin {"none", "paid"}, orders' = [orders EXCEPT ![o].state = state]
    PROVE  OrdersLater /\ OrdersSound' /\ OwnProvider
<1> DEFINE body == [orders[o] EXCEPT !.state = state]
<1>1. orders \in [Ids -> Bodies] /\ OrderSound(o) /\ orders[o] \in Bodies
  BY DEF CapturesInv, OrdersSound
<1>2. body \in Bodies /\ body.state = state /\ body.order = orders[o].order
      /\ body.names = orders[o].names /\ body.provider = orders[o].provider
      /\ body.amount = orders[o].amount /\ body.currency = orders[o].currency
  BY <1>1 DEF Bodies
<1>3. orders' = [orders EXCEPT ![o] = body]
  BY <1>1
<1> HIDE DEF body
<1>4. OrdersLater /\ OrdersSound'
  <2>1. orders[o].state # "none" /\ orders[o].state # "paid" /\ body.state # "none"
    BY <1>2
  <2>2. body.order = o
    BY <1>1, <1>2, <2>1 DEF OrderSound
  <2> QED BY <1>2, <1>3, <2>1, <2>2, OrderMade
<1>5. OwnProvider
  BY <1>1, <1>3 DEF OwnProvider, Ids
<1> QED BY <1>4, <1>5

LEMMA Starts ==
    ASSUME CapturesInv, NEW p \in Bills, NEW provider \in Providers, start(p, provider)
    PROVE  CapturesInv'
<1> DEFINE new == [[[NoRow EXCEPT !.status = "pending"] EXCEPT !.provider = provider] EXCEPT !.ref = p]
<1> DEFINE gone == [rows[p] EXCEPT !.status = "deleted"]
<1> DEFINE order == NewOrder(p, provider)
<1>1. rows \in [Bills -> PaymentRows] /\ p \in Ids /\ RowSound(p) /\ rows[p] \in PaymentRows
  BY DEF CapturesInv, RowsSound, Ids
<1>2. order \in Bodies /\ order.state = "open" /\ order.order = p /\ order.provider = provider
      /\ order.names = p /\ order.amount = Price /\ order.currency = "usd"
  BY <1>1 DEF NewOrder, Bodies, Price
<1>3. new \in PaymentRows /\ new.status = "pending" /\ new.provider = provider /\ new.ref = p
      /\ new.stored = {} /\ new.filed = {} /\ new.fee = 0 /\ new.doubt = FALSE /\ p # 0
  BY <1>1, BillNumbers DEF NoRow, PaymentRows, Providers
<1>4. gone \in PaymentRows /\ gone.status = "deleted" /\ gone.provider = rows[p].provider
      /\ gone.ref = rows[p].ref /\ gone.stored = rows[p].stored /\ gone.filed = rows[p].filed
      /\ gone.fee = rows[p].fee /\ gone.doubt = rows[p].doubt /\ gone.renewal = rows[p].renewal
  BY <1>1 DEF PaymentRows, Gone
<1>5. orders' = [orders EXCEPT ![p] = order] /\ inhand' = inhand /\ given' = given
      /\ rows[p].status = "none"
      /\ (rows' = [rows EXCEPT ![p] = new] \/ rows' = [rows EXCEPT ![p] = gone])
  BY <1>1 DEF start
<1> HIDE DEF new, order, gone
<1>6. orders[p].state = "none" /\ ~rows[p].doubt /\ rows[p].ref = 0 /\ ~rows[p].renewal
  BY <1>1, <1>5 DEF RowSound, Gone
<1>7. OrdersLater /\ OrdersSound'
  BY <1>1, <1>2, <1>5, <1>6, OrderMade, BillNumbers
<1>8. orders'[p] = order /\ (rows'[p] = new \/ rows'[p] = gone)
      /\ \A q \in Bills : q # p => orders'[q] = orders[q]
  BY <1>1, <1>5 DEF CapturesInv, OrdersSound
<1>9. OwnProvider
  BY <1>3, <1>4, <1>5, <1>8 DEF OwnProvider, Gone
<1>10. RowLater(p)
  BY <1>5, <1>6 DEF RowLater, Gone, Arrived, SETTLED_STATUSES
<1>11. CASE rows' = [rows EXCEPT ![p] = new]
  <2>0. rows'[p] = new
    BY <1>11, <1>1
  <2>1. RowSound(p)'
    BY <2>0, <1>2, <1>3, <1>8, <1>11 DEF RowSound, Gone, Arrived, SETTLED_STATUSES, OfItsOrder
  <2>2. RowsSound' /\ \A q \in Bills : RowLater(q)
    BY <1>3, <1>7, <1>9, <1>10, <1>11, <2>1, RowWritten
  <2> QED BY <2>2, <1>5, <1>7, StillSound
<1>12. CASE rows' = [rows EXCEPT ![p] = gone]
  <2>0. rows'[p] = gone
    BY <1>12, <1>1
  <2>1. RowSound(p)'
    BY <2>0, <1>1, <1>4, <1>6, <1>8, <1>12 DEF RowSound, Gone, Arrived, SETTLED_STATUSES, OfItsOrder
  <2>2. RowsSound' /\ \A q \in Bills : RowLater(q)
    BY <1>4, <1>7, <1>9, <1>10, <1>12, <2>1, RowWritten
  <2> QED BY <2>2, <1>5, <1>7, StillSound
<1> QED BY <1>5, <1>11, <1>12

LEMMA RenewalStarts ==
    ASSUME CapturesInv, NEW p \in Bills, NEW provider \in Providers, renewal_payment(p, provider)
    PROVE  CapturesInv'
<1> DEFINE new == [[[NoRow EXCEPT !.status = "pending"] EXCEPT !.provider = provider]
                        EXCEPT !.renewal = TRUE]
<1>1. rows \in [Bills -> PaymentRows] /\ p \in Ids /\ RowSound(p) /\ rows[p] \in PaymentRows
  BY DEF CapturesInv, RowsSound, Ids
<1>3. new \in PaymentRows /\ new.status = "pending" /\ new.provider = provider /\ new.ref = 0
      /\ new.stored = {} /\ new.filed = {} /\ new.fee = 0 /\ new.doubt = FALSE
  BY <1>1 DEF NoRow, PaymentRows, Providers
<1>4. rows' = [rows EXCEPT ![p] = new] /\ orders' = orders /\ inhand' = inhand /\ given' = given
      /\ rows[p].status = "none"
  BY DEF renewal_payment
<1> HIDE DEF new
<1>5. orders[p].state = "none" /\ ~rows[p].doubt /\ rows[p].ref = 0 /\ rows'[p] = new
  BY <1>1, <1>4 DEF RowSound, Gone
<1>6. RowLater(p)
  BY <1>4, <1>5 DEF RowLater, Gone, Arrived, SETTLED_STATUSES
<1>7. RowSound(p)'
  BY <1>3, <1>4, <1>5 DEF RowSound, Gone, Arrived, SETTLED_STATUSES, OfItsOrder
<1>8. RowsSound' /\ \A q \in Bills : RowLater(q)
  BY <1>3, <1>4, <1>6, <1>7, RowWritten, OrdersStay
<1> QED BY <1>4, <1>8, StillSound, OrdersStay

LEMMA OrdersMove ==
    ASSUME CapturesInv, NEW o \in Ids, OrderMoves(o)
    PROVE  CapturesInv'
<1>1. PICK state \in {"open", "approved", "held", "paid", "refused"} :
        orders[o].state \notin {"none", "paid"} /\ orders' = [orders EXCEPT ![o].state = state]
  BY DEF OrderMoves
<1>2. rows' = rows /\ inhand' = inhand /\ given' = given
  BY DEF OrderMoves
<1>3. OrdersLater /\ OrdersSound' /\ OwnProvider
  BY <1>1, OrderState
<1> QED BY <1>2, <1>3, RowsStay, StillSound

LEMMA OthersPaid ==
    ASSUME CapturesInv, NEW o \in Others, OtherOrder(o)
    PROVE  CapturesInv'
<1>1. PICK provider \in Providers, names \in {Nobody} \cup Bills, amount \in {Price, Price + 1},
           currency \in {"usd", "eur"} :
        /\ provider = "stripe" => names = Nobody
        /\ orders' = [orders EXCEPT ![o] =
                [state |-> "paid", order |-> o, provider |-> provider, names |-> names,
                 amount |-> amount, currency |-> currency]]
  BY DEF OtherOrder
<1>2. orders[o].state = "none" /\ rows' = rows /\ inhand' = inhand /\ given' = given
  BY DEF OtherOrder
<1> DEFINE body == [state |-> "paid", order |-> o, provider |-> provider, names |-> names,
                    amount |-> amount, currency |-> currency]
<1>3. o \in Ids /\ body \in Bodies /\ o \notin Bills
  BY <1>1, BillNumbers DEF Ids, Bodies
<1>4. body.state = "paid" /\ body.order = o /\ body.names = names /\ body.provider = provider
  OBVIOUS
<1>5. orders' = [orders EXCEPT ![o] = body]
  BY <1>1
<1> HIDE DEF body
<1>6. OrdersLater /\ OrdersSound'
  BY <1>1, <1>2, <1>3, <1>4, <1>5, OrderMade
<1>7. OwnProvider
  BY <1>3, <1>5 DEF OwnProvider, Ids, CapturesInv, OrdersSound
<1> QED BY <1>2, <1>6, <1>7, RowsStay, StillSound

-----------------------------------------------------------------------------
(* A worker reads.                                                         *)

\* What has been read is kept, and nothing else is touched.
LEMMA TakenUp ==
    ASSUME CapturesInv, NEW w \in Workers, \A v \in Workers : v # w => inhand'[v] = inhand[v],
           inhand' \in [Workers -> Hands], HandSound(inhand[w])',
           \A p \in Bills : Holds(inhand'[w], p) => ~locked(p)
    PROVE  HandMoves(w)
BY DEF HandMoves

LEMMA ReadsRenewal ==
    ASSUME CapturesInv, NEW w \in Workers, NEW p \in Bills, FindCharge(w, p)
    PROVE  CapturesInv'
<1> DEFINE o == rows[p].ref  h == [at |-> "renewal", bill |-> p, body |-> orders[o]]
<1>1. RowSound(p) /\ rows[p] \in PaymentRows /\ orders \in [Ids -> Bodies] /\ o # 0
      /\ rows[p].renewal
  BY DEF CapturesInv, RowsSound, OrdersSound, FindCharge
<1>2. o \in Ids /\ rows[p].status \notin Gone /\ orders[o].state # "none"
  BY <1>1 DEF RowSound, PaymentRows
<1>3. BodySound(orders[o]) /\ orders[o].order = o
  BY <1>2, ReadOrder
<1>4. h \in Hands /\ h.at = "renewal" /\ h.bill = p /\ h.body = orders[o]
  BY <1>1, <1>2 DEF Hands
<1>5. Take(w, h) /\ rows' = rows /\ orders' = orders /\ given' = given
  BY DEF FindCharge
<1>5a. inhand'[w] = h /\ inhand' \in [Workers -> Hands]
      /\ \A v \in Workers : v # w => inhand'[v] = inhand[v]
  BY <1>4, <1>5 DEF Take, CapturesInv, HandsSound
<1> HIDE DEF h
<1>6. HandSound(inhand[w])'
  BY <1>1, <1>2, <1>3, <1>4, <1>5, <1>5a DEF HandSound, BodySound
<1>7. HandMoves(w)
  BY <1>4, <1>5a, <1>6, TakenUp DEF Holds
<1> QED BY <1>5, <1>7, RowsStay, OrdersStay, StillSound

LEMMA ReadsReference ==
    ASSUME CapturesInv, NEW w \in Workers, NEW p \in Bills, NEW o \in Ids, ReadReference(w, p, o)
    PROVE  CapturesInv'
<1> DEFINE h == [at |-> "reference", bill |-> p, body |-> orders[o]]
<1>1. RowSound(p) /\ rows[p] \in PaymentRows /\ orders \in [Ids -> Bodies] /\ rows[p].doubt
      /\ ~locked(p) /\ orders[o].provider = "paypal"
  BY DEF CapturesInv, RowsSound, OrdersSound, ReadReference
<1>2. rows[p].status \notin Gone
  BY <1>1 DEF RowSound
<1>3. BodySound(orders[o])
  BY ReadOrder
<1>4. h \in Hands /\ h.at = "reference" /\ h.bill = p /\ h.body = orders[o]
  BY <1>1 DEF Hands
<1>5. Take(w, h) /\ rows' = rows /\ orders' = orders /\ given' = given
  BY DEF ReadReference
<1>5a. inhand'[w] = h /\ inhand' \in [Workers -> Hands]
      /\ \A v \in Workers : v # w => inhand'[v] = inhand[v]
  BY <1>4, <1>5 DEF Take, CapturesInv, HandsSound
<1> HIDE DEF h
<1>6. HandSound(inhand[w])'
  BY <1>1, <1>2, <1>3, <1>4, <1>5, <1>5a DEF HandSound, BodySound
<1>7. HandMoves(w)
  BY <1>1, <1>4, <1>5a, <1>6, TakenUp DEF Holds
<1> QED BY <1>5, <1>7, RowsStay, OrdersStay, StillSound

LEMMA NoticeDelivered ==
    ASSUME CapturesInv, NEW w \in Workers, NEW o \in Ids, NEW type \in {"taken", "refused"},
           Delivered(w, o, type)
    PROVE  CapturesInv'
<1>1. PICK p \in payment_for_resource(orders[o]), related \in {0, o} :
        /\ ~locked(p)
        /\ Take(w, [at |-> "notice", bill |-> p, body |-> orders[o], type |-> type,
                    related |-> related, ref |-> rows[p].ref, stored |-> rows[p].stored])
  BY DEF Delivered
<1> DEFINE h == [at |-> "notice", bill |-> p, body |-> orders[o], type |-> type,
                 related |-> related, ref |-> rows[p].ref, stored |-> rows[p].stored]
<1>2. /\ orders[o].provider = "paypal" /\ orders[o].state # "none"
      /\ rows' = rows /\ orders' = orders /\ given' = given
  BY DEF Delivered, Told
<1>3. p \in Bills /\ rows[p].status \notin Gone /\ rows[p].provider = "paypal"
  BY <1>2 DEF payment_for_resource, Ours, Gone
<1>4. RowSound(p) /\ rows[p] \in PaymentRows /\ orders \in [Ids -> Bodies]
  BY <1>3 DEF CapturesInv, RowsSound, OrdersSound
<1>5. BodySound(orders[o]) /\ orders[o].order = o
  BY <1>2, ReadOrder
<1>6. h \in Hands /\ h.at = "notice" /\ h.bill = p /\ h.body = orders[o] /\ h.related = related
      /\ h.ref = rows[p].ref /\ h.stored = rows[p].stored
  BY <1>3, <1>4 DEF Hands, PaymentRows
<1>7. Take(w, h)
  BY <1>1
<1>7a. inhand'[w] = h /\ inhand' \in [Workers -> Hands]
      /\ \A v \in Workers : v # w => inhand'[v] = inhand[v]
  BY <1>6, <1>7 DEF Take, CapturesInv, HandsSound
<1> HIDE DEF h
<1>8. HandSound(inhand[w])'
  BY <1>2, <1>3, <1>4, <1>5, <1>6, <1>7a DEF HandSound, BodySound, RowSound
<1>9. HandMoves(w)
  BY <1>6, <1>7a, <1>8, TakenUp DEF Holds
<1> QED BY <1>2, <1>9, RowsStay, OrdersStay, StillSound

LEMMA Confirms ==
    ASSUME CapturesInv, NEW w \in Workers, NEW p \in Bills, confirm(w, p)
    PROVE  CapturesInv'
<1> DEFINE o == rows[p].ref
<1>1. RowSound(p) /\ rows[p] \in PaymentRows /\ orders \in [Ids -> Bodies] /\ o # 0
      /\ rows[p].status = "pending" /\ ~locked(p)
  BY DEF CapturesInv, RowsSound, OrdersSound, confirm
<1>2. o \in Ids /\ rows[p].status \notin Gone /\ orders[o].state # "none" /\ orders[o] \in Bodies
  BY <1>1 DEF RowSound, PaymentRows, Gone
<1>3. PICK state \in {"open", "paid", "held", "refused"} :
        /\ orders[o].provider = "paypal" => orders[o].state = "approved"
        /\ orders[o].provider = "stripe" => state = orders[o].state
        /\ orders' = [orders EXCEPT ![o].state = state]
        /\ Take(w, [at |-> "confirm", bill |-> p, body |-> orders'[o]])
  BY DEF confirm
<1>4. rows' = rows /\ given' = given
  BY DEF confirm
<1>5. OrdersLater /\ OrdersSound' /\ OwnProvider
  <2>1. CASE orders[o].state = "paid"
    <3>1. state = "paid"
      BY <1>2, <1>3, <2>1 DEF Bodies, Providers
    <3>2. orders' = orders
      BY <1>1, <1>2, <1>3, <2>1, <3>1 DEF Bodies
    <3> QED BY <3>2, OrdersStay
  <2>2. CASE orders[o].state # "paid"
    BY <1>2, <1>3, <2>2, OrderState
  <2> QED BY <2>1, <2>2
<1>6. orders'[o] \in Bodies /\ orders'[o].order = o /\ orders'[o].state # "none"
  BY <1>2, <1>5 DEF OrdersSound, OrderSound, OrdersLater
<1>7. orders'[o].state = "paid" => orders'[orders'[o].order] = orders'[o]
  BY <1>6
<1>8. PICK h \in Hands : h.at = "confirm" /\ h.bill = p /\ h.body = orders'[o] /\ Take(w, h)
  <2> DEFINE k == [at |-> "confirm", bill |-> p, body |-> orders'[o]]
  <2>1. k \in Hands /\ k.at = "confirm" /\ k.bill = p /\ k.body = orders'[o]
    BY <1>6 DEF Hands
  <2>2. Take(w, k)
    BY <1>3
  <2> QED BY <2>1, <2>2
<1>9. inhand'[w] = h /\ inhand' \in [Workers -> Hands]
      /\ \A v \in Workers : v # w => inhand'[v] = inhand[v]
  BY <1>8 DEF Take, CapturesInv, HandsSound
<1>10. HandSound(inhand[w])'
  BY <1>1, <1>2, <1>4, <1>6, <1>7, <1>8, <1>9 DEF HandSound, BodySound
<1>11. HandMoves(w)
  BY <1>1, <1>8, <1>9, <1>10, TakenUp DEF Holds
<1> QED BY <1>4, <1>5, <1>11, RowsStay, StillSound

-----------------------------------------------------------------------------
(* A worker writes, or a notification does.                                *)

\* A row written under a new fee, or under none.
LEMMA FeeKept ==
    ASSUME NEW row \in PaymentRows, NEW fee \in Ids \cup {0}
    PROVE  LET new == WithFee(row, fee) IN
           /\ new \in PaymentRows /\ new.status = row.status /\ new.provider = row.provider
           /\ new.ref = row.ref /\ new.stored = row.stored /\ new.filed = row.filed
           /\ new.doubt = row.doubt /\ new.fee \in {row.fee, fee}
BY DEF WithFee, PaymentRows

\* What is in a worker's hands.
LEMMA InHand ==
    ASSUME CapturesInv, NEW w \in Workers, inhand[w].at # "idle"
    PROVE  /\ inhand[w].bill \in Bills /\ inhand[w].body \in Bodies
           /\ BodySound(inhand[w].body) /\ rows[inhand[w].bill] \in PaymentRows
           /\ rows[inhand[w].bill].status \notin Gone /\ RowSound(inhand[w].bill)
           /\ HandSound(inhand[w]) /\ inhand[w] \in Hands
BY DEF CapturesInv, HandsSound, HandSound, Hands, Idle, RowsSound

\* A row that has its order is settled with what was read of that order.
LEMMA SettledWith ==
    ASSUME CapturesInv, orders' = orders, NEW p \in Bills, NEW body \in Bodies,
           NEW fee \in {0, body.order}, rows[p].status \notin Gone, BodySound(body),
           body.state = "paid", rows[p].ref = body.order,
           rows[p].provider = "paypal" => body.amount = Price /\ body.currency = "usd",
           Completed(p, WithFee([rows[p] EXCEPT !.stored = {body}, !.ref = body.order], fee))
    PROVE  RowsSound' /\ \A q \in Bills : RowLater(q)
<1> DEFINE row == [[rows[p] EXCEPT !.stored = {body}] EXCEPT !.ref = body.order]
<1> DEFINE new == WithFee(row, fee)
<1>1. RowSound(p) /\ rows[p] \in PaymentRows
  BY DEF CapturesInv, RowsSound
<1>2. body.order \in Ids /\ body.order # 0 /\ orders[body.order] = body
  BY PaidOrder
<1>3. /\ row \in PaymentRows /\ row.stored = {body} /\ row.ref = body.order
      /\ row.provider = rows[p].provider /\ row.filed = rows[p].filed /\ row.fee = rows[p].fee
      /\ row.doubt = rows[p].doubt
  BY <1>1, <1>2 DEF PaymentRows
<1> HIDE DEF row
<1>4. /\ new \in PaymentRows /\ new.provider = row.provider
      /\ new.ref = row.ref /\ new.stored = row.stored /\ new.filed = row.filed
      /\ new.doubt = row.doubt /\ new.fee \in {row.fee, fee}
  BY <1>2, <1>3, FeeKept
<1>5. Completed(p, new)
  BY DEF row
<1> HIDE DEF new
<1>6. ~rows[p].doubt /\ body.names = p /\ body.provider = rows[p].provider
  BY <1>1, <1>2 DEF RowSound
<1>7. rows[p].provider = "stripe" => rows[p].ref = p /\ rows[p].fee \in {0, p}
  BY <1>1, <1>2 DEF RowSound
<1>8. rows[p].provider = "stripe" => body.amount = Price /\ body.currency = "usd"
  BY <1>2, <1>7 DEF CapturesInv, OrdersSound, OrderSound, Ids
<1>9. rows[p].provider \in {"paypal", "stripe"}
  BY <1>1 DEF PaymentRows, Providers
<1>10. new.provider = "paypal" =>
          /\ new.fee \in {0, new.ref}
          /\ OfItsOrder(new.stored, new.ref) /\ OfItsOrder(new.filed, new.ref)
          /\ \E b \in new.stored \cup new.filed : b.state = "paid"
  BY <1>1, <1>2, <1>3, <1>4 DEF RowSound, OfItsOrder
<1>11. new.provider = "stripe" => new.ref = p /\ new.fee \in {0, p}
  BY <1>3, <1>4, <1>7
<1>12. /\ ~new.doubt /\ new.provider = rows[p].provider /\ new.ref # 0
       /\ new.ref = rows[p].ref /\ new.ref = body.order /\ ~rows[p].doubt
       /\ body.amount = Price /\ body.currency = "usd"
  BY <1>2, <1>3, <1>4, <1>6, <1>8, <1>9
<1> QED BY <1>2, <1>4, <1>5, <1>6, <1>10, <1>11, <1>12, Settles

LEMMA ConfirmWritten ==
    ASSUME CapturesInv, NEW w \in Workers, ConfirmWrites(w)
    PROVE  CapturesInv'
<1> DEFINE p == inhand[w].bill  body == inhand[w].body  row == rows[p]
           paypal == row.provider = "paypal"
<1>1. inhand[w].at = "confirm" /\ Done(w) /\ orders' = orders /\ given' = given
  BY DEF ConfirmWrites
<1>2. /\ p \in Bills /\ body \in Bodies /\ BodySound(body) /\ row \in PaymentRows
      /\ row.status \notin Gone /\ RowSound(p) /\ HandSound(inhand[w])
  BY <1>1, InHand
<1>3. row.ref # 0 /\ row.ref = body.order
  BY <1>1, <1>2 DEF HandSound
<1>4. \/ /\ body.state = "paid" /\ (paypal => body.amount = Price /\ body.currency = "usd")
         /\ \E fee \in fees_from(body) :
                Completed(p, WithFee([row EXCEPT !.stored = {body}, !.ref = body.order], fee))
      \/ body.state \in {"open", "refused"} /\ Failed(p, IF paypal THEN row.stored ELSE {body})
      \/ body.state = "held" /\ paypal /\ Failed(p, {body})
      \/ rows' = rows
  BY DEF ConfirmWrites, verify_capture, verify, captured_cents
<1> HIDE DEF p, body, row, paypal
<1>5. RowsSound' /\ \A q \in Bills : RowLater(q)
  <2>1. ASSUME NEW fee \in fees_from(body), body.state = "paid",
               paypal => body.amount = Price /\ body.currency = "usd",
               Completed(p, WithFee([row EXCEPT !.stored = {body}, !.ref = body.order], fee))
        PROVE  RowsSound' /\ \A q \in Bills : RowLater(q)
    <3>1. fee \in {0, body.order}
      BY DEF fees_from
    <3> QED BY <2>1, <3>1, <1>1, <1>2, <1>3, SettledWith DEF row, paypal
  <2>2. ASSUME body.state \in {"open", "refused"},
               Failed(p, IF paypal THEN row.stored ELSE {body})
        PROVE  RowsSound' /\ \A q \in Bills : RowLater(q)
    <3>1. (IF paypal THEN row.stored ELSE {body}) \in SUBSET Bodies
      BY <1>2 DEF PaymentRows
    <3>2. paypal => OfItsOrder(row.stored, row.ref)
      BY <1>2 DEF RowSound, row, paypal
    <3> QED BY <2>2, <3>1, <3>2, <1>1, <1>2, Fails DEF row, paypal
  <2>3. ASSUME body.state = "held", Failed(p, {body})
        PROVE  RowsSound' /\ \A q \in Bills : RowLater(q)
    BY <2>3, <1>1, <1>2, Fails DEF row, OfItsOrder
  <2>4. CASE rows' = rows
    BY <2>4, <1>1, RowsStay, OrdersStay
  <2> QED BY <1>4, <2>1, <2>2, <2>3, <2>4
<1> QED BY <1>1, <1>5, HandsDone, OrdersStay, StillSound

LEMMA RenewalSettled ==
    ASSUME CapturesInv, NEW w \in Workers, settle_renewal(w)
    PROVE  CapturesInv'
<1> DEFINE p == inhand[w].bill  body == inhand[w].body  row == rows[p]
<1>1. inhand[w].at = "renewal" /\ Done(w) /\ orders' = orders /\ given' = given
  BY DEF settle_renewal
<1>2. /\ p \in Bills /\ body \in Bodies /\ BodySound(body) /\ row \in PaymentRows
      /\ row.status \notin Gone /\ RowSound(p) /\ HandSound(inhand[w])
  BY <1>1, InHand
<1>3. row.ref # 0 /\ row.ref = body.order
  BY <1>1, <1>2 DEF HandSound
<1>4. \/ /\ body.state = "paid"
         /\ row.provider = "paypal" => body.amount = Price /\ body.currency = "usd"
         /\ Completed(p, [row EXCEPT !.stored = {body}, !.ref = body.order])
      \/ Failed(p, row.stored)
      \/ rows' = rows
  BY DEF settle_renewal, verify_capture, captured_cents
<1> HIDE DEF p, body, row
<1>5. RowsSound' /\ \A q \in Bills : RowLater(q)
  <2>1. ASSUME body.state = "paid",
               row.provider = "paypal" => body.amount = Price /\ body.currency = "usd",
               Completed(p, [row EXCEPT !.stored = {body}, !.ref = body.order])
        PROVE  RowsSound' /\ \A q \in Bills : RowLater(q)
    <3> DEFINE new == [row EXCEPT !.stored = {body}, !.ref = body.order]
    <3>1. new = WithFee(new, 0)
      <4>0. body.order \in Ids \cup {0} /\ {body} \in SUBSET Bodies
        BY <1>2 DEF Bodies
      <4>1. new \in PaymentRows
        BY <1>2, <4>0 DEF PaymentRows
      <4> HIDE DEF new
      <4>2. [new EXCEPT !.fee = new.fee] = new
        BY <4>1 DEF PaymentRows
      <4> QED BY <4>2 DEF WithFee
    <3>2. Completed(p, WithFee(new, 0))
      BY <2>1, <3>1
    <3> QED BY <2>1, <3>2, <1>1, <1>2, <1>3, SettledWith DEF row
  <2>2. CASE Failed(p, row.stored)
    BY <2>2, <1>1, <1>2, Fails DEF row, RowSound, PaymentRows
  <2>3. CASE rows' = rows
    BY <2>3, <1>1, RowsStay, OrdersStay
  <2> QED BY <1>4, <2>1, <2>2, <2>3
<1> QED BY <1>1, <1>5, HandsDone, OrdersStay, StillSound

LEMMA ReferenceRecorded ==
    ASSUME CapturesInv, NEW w \in Workers, record_charge_reference(w)
    PROVE  CapturesInv'
<1> DEFINE p == inhand[w].bill  body == inhand[w].body  row == rows[p]
<1> DEFINE new == [[[row EXCEPT !.filed = {body}] EXCEPT !.ref = body.order] EXCEPT !.doubt = FALSE]
<1>1. inhand[w].at = "reference" /\ Done(w) /\ orders' = orders /\ given' = given
  BY DEF record_charge_reference
<1>2. /\ p \in Bills /\ body \in Bodies /\ BodySound(body) /\ row \in PaymentRows
      /\ row.status \notin Gone /\ RowSound(p) /\ HandSound(inhand[w])
  BY <1>1, InHand
<1>3. row.doubt /\ body.provider = "paypal"
  BY <1>1, <1>2 DEF HandSound
<1>4. CASE /\ body.state = "paid" /\ verify(p, body)
           /\ Completed(p, [row EXCEPT !.filed = {body}, !.ref = body.order, !.doubt = FALSE])
  <2>1. body.order \in Ids /\ body.order # 0 /\ orders[body.order] = body
    BY <1>2, <1>4, PaidOrder
  <2>2. /\ new \in PaymentRows /\ new.filed = {body} /\ new.ref = body.order
        /\ new.provider = row.provider /\ new.stored = row.stored /\ new.fee = row.fee
        /\ new.doubt = FALSE
    BY <1>2, <2>1 DEF PaymentRows
  <2>3. Completed(p, new)
    BY <1>4
  <2> HIDE DEF p, body, row, new
  <2>4. body.names = p /\ body.amount = Price /\ body.currency = "usd"
    BY <1>4 DEF verify
  <2>5. Unheld(p)
    BY <1>1, <1>2 DEF Unheld, Done, CapturesInv, OneHolder, Holds, p, HandsSound, Idle
  <2>6. row.ref = 0 /\ row.provider = "paypal" /\ row.fee = 0 /\ OfItsOrder(row.stored, 0)
    BY <1>2, <1>3 DEF RowSound, row
  <2>7. /\ new.fee \in {0, new.ref}
        /\ OfItsOrder(new.stored, new.ref) /\ OfItsOrder(new.filed, new.ref)
        /\ \E b \in new.stored \cup new.filed : b.state = "paid"
    BY <1>4, <2>1, <2>2, <2>6 DEF OfItsOrder
  <2>8. RowsSound' /\ \A q \in Bills : RowLater(q)
    <3>1. rows[p] = row /\ row.provider # "stripe"
      BY <2>6 DEF row
    <3>2. /\ orders[new.ref].state = "paid" /\ orders[new.ref].names = p
          /\ orders[new.ref].amount = Price /\ orders[new.ref].currency = "usd"
          /\ orders[new.ref].provider = new.provider
      BY <1>3, <1>4, <2>1, <2>2, <2>4, <2>6
    <3> QED
      BY <1>1, <1>2, <2>1, <2>2, <2>3, <2>5, <2>6, <2>7, <3>1, <3>2, Settles
  <2> QED BY <1>1, <2>8, HandsDone, OrdersStay, StillSound
<1>5. CASE rows' = rows
  BY <1>1, <1>5, HandsDone, RowsStay, OrdersStay, StillSound
<1> QED BY <1>4, <1>5 DEF record_charge_reference

LEMMA NoticeWritten ==
    ASSUME CapturesInv, NEW w \in Workers, handle_webhook(w)
    PROVE  CapturesInv'
<1> DEFINE h == inhand[w]  p == h.bill  body == h.body  row == rows[p]
<1>1. h.at = "notice" /\ Done(w) /\ orders' = orders /\ given' = given
  BY DEF handle_webhook
<1>2. /\ p \in Bills /\ body \in Bodies /\ BodySound(body) /\ row \in PaymentRows
      /\ row.status \notin Gone /\ RowSound(p) /\ HandSound(h) /\ h \in Hands
  BY <1>1, InHand
<1>3. /\ row.provider = "paypal" /\ h.related \in {0, body.order} /\ (h.ref # 0 => row.ref = h.ref)
      /\ OfItsOrder(h.stored, h.ref) /\ h.stored \in SUBSET Bodies
  BY <1>1, <1>2 DEF HandSound, Hands, Idle
<1>3a. \/ /\ verify_capture(p, h, body, h.related)
          /\ \E fee \in fees_from(body) :
                Completed(p, WithFee([row EXCEPT !.stored = h.stored, !.filed = {body}], fee))
       \/ Failed(p, {})
       \/ rows' = rows
  BY DEF handle_webhook
<1> HIDE DEF h, p, body, row
<1>4. ASSUME NEW fee \in fees_from(body), verify_capture(p, h, body, h.related),
             Completed(p, WithFee([row EXCEPT !.stored = h.stored, !.filed = {body}], fee))
      PROVE  RowsSound' /\ \A q \in Bills : RowLater(q)
  <2> DEFINE kept == [[row EXCEPT !.stored = h.stored] EXCEPT !.filed = {body}]
  <2> DEFINE new == WithFee(kept, fee)
  <2>1. /\ body.state = "paid" /\ body.amount = Price /\ body.currency = "usd"
        /\ h.related # 0 /\ h.related = h.ref
    BY <1>4 DEF verify_capture, captured_cents, Price
  <2>2. body.order \in Ids /\ body.order # 0 /\ orders[body.order] = body /\ row.ref = body.order
        /\ h.ref = body.order
    BY <1>2, <1>3, <2>1, PaidOrder
  <2>3. /\ kept \in PaymentRows /\ kept.filed = {body} /\ kept.stored = h.stored
        /\ kept.ref = row.ref /\ kept.provider = row.provider /\ kept.fee = row.fee
        /\ kept.doubt = row.doubt
    BY <1>2, <1>3 DEF PaymentRows
  <2> HIDE DEF kept
  <2>4. fee \in {0, body.order}
    BY DEF fees_from
  <2>5. /\ new \in PaymentRows /\ new.provider = kept.provider
        /\ new.ref = kept.ref /\ new.stored = kept.stored /\ new.filed = kept.filed
        /\ new.doubt = kept.doubt /\ new.fee \in {kept.fee, fee}
    BY <2>2, <2>3, <2>4, FeeKept
  <2>6. Completed(p, new)
    BY <1>4 DEF kept
  <2> HIDE DEF new
  <2>7. ~row.doubt /\ body.names = p /\ body.provider = row.provider /\ row.fee \in {0, row.ref}
    BY <1>2, <1>3, <2>2 DEF RowSound, row
  <2>8. /\ new.fee \in {0, new.ref}
        /\ OfItsOrder(new.stored, new.ref) /\ OfItsOrder(new.filed, new.ref)
        /\ \E b \in new.stored \cup new.filed : b.state = "paid"
    BY <1>3, <2>1, <2>2, <2>3, <2>4, <2>5, <2>7 DEF OfItsOrder
  <2>9. /\ ~new.doubt /\ new.provider = rows[p].provider /\ new.provider = "paypal" /\ new.ref # 0
        /\ new.ref = rows[p].ref /\ new.ref = body.order /\ rows[p].status \notin Gone
        /\ ~rows[p].doubt
    BY <1>2, <1>3, <2>2, <2>3, <2>5, <2>7 DEF row
  <2> QED BY <1>1, <1>2, <2>1, <2>2, <2>5, <2>6, <2>7, <2>8, <2>9, Settles DEF row
<1>5. ASSUME Failed(p, {})
      PROVE  RowsSound' /\ \A q \in Bills : RowLater(q)
  BY <1>1, <1>2, <1>5, Fails DEF OfItsOrder, row
<1>6. ASSUME rows' = rows
      PROVE  RowsSound' /\ \A q \in Bills : RowLater(q)
  BY <1>1, <1>6, RowsStay, OrdersStay
<1>7. RowsSound' /\ \A q \in Bills : RowLater(q)
  BY <1>3a, <1>4, <1>5, <1>6
<1> QED BY <1>1, <1>7, HandsDone, OrdersStay, StillSound

LEMMA StripeNotice ==
    ASSUME CapturesInv, NEW o \in Ids, NEW type \in {"taken", "refused"}, StripeWebhook(o, type)
    PROVE  CapturesInv'
<1> DEFINE body == orders[o]
<1>1. /\ body.provider = "stripe" /\ body.state # "none" /\ orders' = orders /\ inhand' = inhand
      /\ given' = given /\ (type = "taken" => body.state = "paid")
  BY DEF StripeWebhook, Told
<1>2. PICK p \in payment_for_resource(body) :
        \/ /\ type = "taken" /\ verify(p, body)
           /\ \E fee \in fees_from(body) :
                 Completed(p, WithFee([rows[p] EXCEPT !.stored = {body}, !.ref = o], fee))
        \/ type = "refused" /\ Failed(p, {body})
  BY DEF StripeWebhook
<1>3. p \in Bills /\ rows[p].status \notin Gone /\ rows[p].provider = "stripe"
  BY <1>1 DEF payment_for_resource, Ours, Gone
<1>4. /\ RowSound(p) /\ rows[p] \in PaymentRows /\ body \in Bodies /\ BodySound(body)
      /\ body.order = o /\ OrderSound(o) /\ p # 0 /\ p \in Ids
  BY <1>1, <1>3, ReadOrder, BillNumbers DEF CapturesInv, RowsSound, OrdersSound, Ids
<1> HIDE DEF body
<1>5. CASE type = "refused" /\ Failed(p, {body})
  <2>1. RowsSound' /\ \A q \in Bills : RowLater(q)
    BY <1>1, <1>3, <1>4, <1>5, Fails
  <2> QED BY <1>1, <2>1, OrdersStay, StillSound
<1>6. ASSUME NEW fee \in fees_from(body), type = "taken", verify(p, body),
             Completed(p, WithFee([rows[p] EXCEPT !.stored = {body}, !.ref = o], fee))
      PROVE  CapturesInv'
  <2> DEFINE row == [[rows[p] EXCEPT !.stored = {body}] EXCEPT !.ref = o]
  <2> DEFINE new == WithFee(row, fee)
  <2>1. o = p
    BY <1>1, <1>4, <1>6 DEF OrderSound, verify, body, Ids, Nobody
  <2>2. /\ row \in PaymentRows /\ row.ref = o /\ row.provider = rows[p].provider
        /\ row.fee = rows[p].fee /\ row.doubt = rows[p].doubt
    BY <1>4 DEF PaymentRows
  <2> HIDE DEF row
  <2>3. fee \in {0, o}
    BY <1>4, <1>6 DEF fees_from
  <2>4. /\ new \in PaymentRows /\ new.provider = row.provider /\ new.ref = row.ref
        /\ new.doubt = row.doubt /\ new.fee \in {row.fee, fee}
    BY <2>2, <2>3, FeeKept
  <2>5. Completed(p, new)
    BY <1>6 DEF row
  <2> HIDE DEF new
  <2>6. ~rows[p].doubt /\ rows[p].fee \in {0, p} /\ rows[p].ref \in {0, p}
    BY <1>3, <1>4 DEF RowSound
  <2>7. RowsSound' /\ \A q \in Bills : RowLater(q)
    BY <1>1, <1>3, <1>4, <1>6, <2>1, <2>2, <2>3, <2>4, <2>5, <2>6, Settles DEF verify, body
  <2> QED BY <1>1, <2>7, OrdersStay, StillSound
<1> QED BY <1>2, <1>5, <1>6

-----------------------------------------------------------------------------
(* The scan's charges, the treasurer's answers and the office.             *)

LEMMA Charges ==
    ASSUME CapturesInv, NEW p \in Bills, charge_mandate(p)
    PROVE  CapturesInv'
<1> DEFINE referred == [rows[p] EXCEPT !.ref = p]
           doubted == [rows[p] EXCEPT !.doubt = (rows[p].provider = "paypal")]
<1>1. /\ rows[p].status \in {"pending", "failed"} /\ rows[p].ref = 0 /\ ~rows[p].doubt
      /\ inhand' = inhand /\ given' = given
  BY DEF charge_mandate
<1>2. /\ rows \in [Bills -> PaymentRows] /\ RowSound(p) /\ rows[p] \in PaymentRows /\ p \in Ids /\ p # 0
      /\ orders \in [Ids -> Bodies] /\ OrderSound(p)
  BY BillNumbers DEF CapturesInv, RowsSound, OrdersSound, Ids
<1>3. /\ OrdersLater /\ OrdersSound' /\ OwnProvider /\ orders'[p].state # "none"
      /\ orders'[p].provider = rows[p].provider
  <2>1. CASE orders[p].state # "none"
    BY <1>1, <1>2, <2>1, OrdersStay DEF charge_mandate, RowSound, Gone
  <2>2. CASE orders[p].state = "none"
    <3>1. PICK state \in {"paid", "held", "refused"} :
            orders' = [orders EXCEPT ![p] = [NewOrder(p, rows[p].provider) EXCEPT !.state = state]]
      BY <2>2 DEF charge_mandate
    <3> DEFINE body == [NewOrder(p, rows[p].provider) EXCEPT !.state = state]
    <3>2. body \in Bodies /\ body.state = state /\ body.order = p /\ body.names = p
          /\ body.provider = rows[p].provider /\ body.amount = Price /\ body.currency = "usd"
      BY <1>2 DEF NewOrder, Bodies, Price, PaymentRows
    <3>3. orders' = [orders EXCEPT ![p] = body]
      BY <3>1
    <3> HIDE DEF body
    <3>4. OrdersLater /\ OrdersSound'
      BY <1>2, <2>2, <3>2, <3>3, OrderMade, BillNumbers
    <3>5. orders'[p] = body /\ \A q \in Bills : q # p => orders'[q] = orders[q]
      BY <1>2, <3>3
    <3>6. OwnProvider
      <4>1. rows'[p].status # "none"
        BY <1>1, <1>2 DEF charge_mandate, PaymentRows
      <4> QED BY <3>2, <3>5, <4>1 DEF OwnProvider
    <3> QED BY <3>2, <3>4, <3>5, <3>6
  <2> QED BY <2>1, <2>2
<1>4. /\ referred \in PaymentRows /\ referred.status = rows[p].status /\ referred.ref = p
      /\ referred.provider = rows[p].provider /\ referred.stored = rows[p].stored
      /\ referred.filed = rows[p].filed /\ referred.fee = rows[p].fee
      /\ referred.doubt = rows[p].doubt
  BY <1>2 DEF PaymentRows
<1>5. /\ doubted \in PaymentRows /\ doubted.status = rows[p].status /\ doubted.ref = rows[p].ref
      /\ doubted.provider = rows[p].provider /\ doubted.stored = rows[p].stored
      /\ doubted.filed = rows[p].filed /\ doubted.fee = rows[p].fee
      /\ doubted.doubt = (rows[p].provider = "paypal")
  BY <1>2 DEF PaymentRows
<1>6. rows' = [rows EXCEPT ![p] = referred] \/ rows' = [rows EXCEPT ![p] = doubted]
  BY <1>2 DEF charge_mandate
<1> HIDE DEF referred, doubted
<1>7. orders'[p].names = p
  BY <1>2, <1>3 DEF OrdersSound, OrderSound
<1>8. ASSUME rows' = [rows EXCEPT ![p] = referred]
      PROVE  RowsSound' /\ \A q \in Bills : RowLater(q)
  <2>0. rows'[p] = referred
    BY <1>2, <1>8
  <2>1. RowLater(p)
    BY <1>1, <1>4, <2>0 DEF RowLater, Gone, Arrived
  <2>2. rows[p].provider = "paypal" => OfItsOrder(rows[p].stored, p) /\ OfItsOrder(rows[p].filed, p)
    BY <1>1, <1>2 DEF RowSound, OfItsOrder, PaymentRows, Providers
  <2>3. RowSound(p)'
    BY <1>1, <1>2, <1>3, <1>4, <1>7, <2>0, <2>2 DEF RowSound, Gone, Arrived, SETTLED_STATUSES
  <2> QED BY <1>3, <1>4, <1>8, <2>1, <2>3, RowWritten
<1>9. ASSUME rows' = [rows EXCEPT ![p] = doubted]
      PROVE  RowsSound' /\ \A q \in Bills : RowLater(q)
  <2>0. rows'[p] = doubted
    BY <1>2, <1>9
  <2>1. RowLater(p)
    BY <1>1, <1>5, <2>0 DEF RowLater, Gone, Arrived
  <2>3. RowSound(p)'
    BY <1>1, <1>2, <1>3, <1>5, <2>0 DEF RowSound, Gone, Arrived, SETTLED_STATUSES
  <2> QED BY <1>3, <1>5, <1>9, <2>1, <2>3, RowWritten
<1> QED BY <1>1, <1>3, <1>6, <1>8, <1>9, StillSound

LEMMA Releases ==
    ASSUME CapturesInv, NEW p \in Bills, Released(p)
    PROVE  CapturesInv'
<1> DEFINE new == [rows[p] EXCEPT !.doubt = FALSE]
<1>1. ~locked(p) /\ orders' = orders /\ inhand' = inhand /\ given' = given
      /\ rows' = [rows EXCEPT ![p] = new]
  BY DEF Released
<1>2. rows \in [Bills -> PaymentRows] /\ RowSound(p) /\ rows[p] \in PaymentRows
  BY DEF CapturesInv, RowsSound
<1>3. /\ new \in PaymentRows /\ new.status = rows[p].status /\ new.ref = rows[p].ref
      /\ new.provider = rows[p].provider /\ new.stored = rows[p].stored /\ new.filed = rows[p].filed
      /\ new.fee = rows[p].fee /\ new.doubt = FALSE /\ new.renewal = rows[p].renewal
  BY <1>2 DEF PaymentRows
<1> HIDE DEF new
<1>4. rows'[p] = new
  BY <1>1, <1>2
<1>5. RowLater(p)
  BY <1>1, <1>3, <1>4 DEF RowLater, Arrived, Unheld, Holds, locked
<1>6. RowSound(p)'
  BY <1>1, <1>2, <1>3, <1>4 DEF RowSound, Arrived
<1>7. RowsSound' /\ \A q \in Bills : RowLater(q)
  BY <1>1, <1>3, <1>5, <1>6, RowWritten, OrdersStay
<1> QED BY <1>1, <1>7, StillSound, OrdersStay

\* A fee is written, of the payment's own order.
LEMMA FeeWritten ==
    ASSUME CapturesInv, NEW p \in Bills, NEW fee \in Ids, orders' = orders,
           rows' = [rows EXCEPT ![p].fee = fee], rows[p].status \notin Gone,
           rows[p].provider = "stripe" => fee = p,
           rows[p].provider = "paypal" => fee = rows[p].ref
    PROVE  RowsSound' /\ \A q \in Bills : RowLater(q)
<1> DEFINE new == [rows[p] EXCEPT !.fee = fee]
<1>1. rows' = [rows EXCEPT ![p] = new]
  OBVIOUS
<1>2. rows \in [Bills -> PaymentRows] /\ RowSound(p) /\ rows[p] \in PaymentRows
  BY DEF CapturesInv, RowsSound
<1>3. /\ new \in PaymentRows /\ new.status = rows[p].status /\ new.ref = rows[p].ref
      /\ new.provider = rows[p].provider /\ new.stored = rows[p].stored /\ new.filed = rows[p].filed
      /\ new.fee = fee /\ new.doubt = rows[p].doubt /\ new.renewal = rows[p].renewal
  BY <1>2 DEF PaymentRows
<1> HIDE DEF new
<1>4. rows'[p] = new
  BY <1>1, <1>2
<1>5. RowLater(p)
  BY <1>3, <1>4 DEF RowLater, Arrived
<1>6. RowSound(p)'
  BY <1>2, <1>3, <1>4 DEF RowSound, Arrived
<1> QED BY <1>1, <1>3, <1>5, <1>6, RowWritten, OrdersStay

LEMMA FeesLearnt ==
    ASSUME CapturesInv, NEW o \in Ids, charge_updated(o)
    PROVE  CapturesInv'
<1>1. PICK p \in payment_for_resource(orders[o]) : rows' = [rows EXCEPT ![p].fee = o]
  BY DEF charge_updated
<1>2. /\ orders[o].provider = "stripe" /\ orders[o].state = "paid" /\ orders' = orders
      /\ inhand' = inhand /\ given' = given
  BY DEF charge_updated
<1>3. p \in Bills /\ rows[p].status \notin Gone /\ rows[p].provider = "stripe"
      /\ (p = orders[o].names \/ rows[p].ref = orders[o].order)
  BY <1>2 DEF payment_for_resource, Ours, Gone
<1>4. /\ RowSound(p) /\ orders[o].order = o /\ OrderSound(o) /\ p # 0 /\ o # 0
  BY <1>2, <1>3, ReadOrder, BillNumbers DEF CapturesInv, RowsSound, OrdersSound, Ids
<1>5. o = p
  BY <1>2, <1>3, <1>4 DEF OrderSound, RowSound, Ids, Nobody
<1>6. RowsSound' /\ \A q \in Bills : RowLater(q)
  BY <1>1, <1>2, <1>3, <1>5, FeeWritten
<1> QED BY <1>2, <1>6, StillSound, OrdersStay

LEMMA FeesFetched ==
    ASSUME CapturesInv, NEW p \in Bills, fetch_fees(p)
    PROVE  CapturesInv'
<1>1. /\ Arrived(p) /\ rows' = [rows EXCEPT ![p].fee = rows[p].ref] /\ orders' = orders
      /\ inhand' = inhand /\ given' = given
  BY DEF fetch_fees
<1>2. RowSound(p) /\ rows[p] \in PaymentRows
  BY DEF CapturesInv, RowsSound
<1>3. rows[p].ref \in Ids /\ rows[p].status \notin Gone /\ (rows[p].provider = "stripe" => rows[p].ref = p)
  BY <1>1, <1>2 DEF RowSound, PaymentRows, Arrived, Gone, SETTLED_STATUSES
<1>4. RowsSound' /\ \A q \in Bills : RowLater(q)
  BY <1>1, <1>3, FeeWritten
<1> QED BY <1>1, <1>4, StillSound, OrdersStay

\* The money stands on one order: a refund is taken from it.
LEMMA OneTarget ==
    ASSUME CapturesInv, NEW p \in Bills, Arrived(p)
    PROVE  refund_target(rows[p]) = {rows[p].ref}
<1>1. RowSound(p) /\ rows[p] \in PaymentRows
  BY DEF CapturesInv, RowsSound
<1>2. CASE rows[p].provider = "stripe"
  BY <1>2 DEF refund_target
<1>3. CASE rows[p].provider = "paypal"
  <2>1. PICK b \in rows[p].stored \cup rows[p].filed : b.state = "paid"
    BY <1>1, <1>3 DEF RowSound
  <2>2. OfItsOrder(rows[p].stored, rows[p].ref) /\ OfItsOrder(rows[p].filed, rows[p].ref)
    BY <1>1, <1>3 DEF RowSound
  <2>3. capture_id(rows[p]) = {rows[p].ref}
    BY <2>1, <2>2 DEF capture_id, completed_captures, OfItsOrder
  <2> QED BY <1>3, <2>3 DEF refund_target
<1> QED BY <1>1, <1>2, <1>3 DEF PaymentRows, Providers

LEMMA Refunded ==
    ASSUME CapturesInv, NEW p \in Bills, refund(p)
    PROVE  CapturesInv'
<1>1. PICK o \in refund_target(rows[p]) : given' = given \cup {<<p, o>>}
  BY DEF refund
<1>2. Arrived(p) /\ rows' = rows /\ orders' = orders /\ inhand' = inhand
  BY DEF refund
<1>3. o = rows[p].ref
  BY <1>1, <1>2, OneTarget
<1>4. \A g \in given' : g \notin given /\ g[1] \in Bills => Arrived(g[1])' /\ g[2] = rows'[g[1]].ref
  BY <1>1, <1>2, <1>3 DEF Arrived
<1> QED BY <1>2, <1>4, RowsStay, OrdersStay, StillSound

-----------------------------------------------------------------------------
LEMMA CapturesStart == CapturesInit => CapturesInv
<1> SUFFICES ASSUME CapturesInit PROVE CapturesInv
  OBVIOUS
<1>1. NoRow \in PaymentRows /\ NoOrder \in Bodies
  BY DEF NoRow, NoOrder, PaymentRows, Bodies, Gone, Providers, Nobody
<1>2. OrdersSound
  BY <1>1 DEF CapturesInit, OrdersSound, OrderSound, NoOrder, Ids
<1>3. RowsSound
  BY <1>1 DEF CapturesInit, RowsSound, RowSound, NoRow, NoOrder, Gone, Arrived, SETTLED_STATUSES, OfItsOrder, Ids
<1>4. HandsSound /\ OneHolder
  BY DEF CapturesInit, HandsSound, HandSound, Hands, Idle, OneHolder, Holds
<1>5. GivenSound
  BY DEF CapturesInit, GivenSound
<1> QED BY <1>2, <1>3, <1>4, <1>5 DEF CapturesInv

LEMMA CapturesStep == CapturesInv /\ [CapturesNext]_captureVars => CapturesInv'
<1> SUFFICES ASSUME CapturesInv, [CapturesNext]_captureVars PROVE CapturesInv'
  OBVIOUS
<1> USE DEF Ids
<1>1. CASE \E p \in Bills, provider \in Providers : start(p, provider) \/ renewal_payment(p, provider)
  BY <1>1, Starts, RenewalStarts
<1>2. CASE \E o \in Bills \cup Others : OrderMoves(o) \/ charge_updated(o)
  BY <1>2, OrdersMove, FeesLearnt
<1>3. CASE \E o \in Others : OtherOrder(o)
  BY <1>3, OthersPaid
<1>4. CASE \E p \in Bills : charge_mandate(p) \/ Released(p) \/ fetch_fees(p) \/ refund(p)
  BY <1>4, Charges, Releases, FeesFetched, Refunded
<1>5. CASE \E w \in Workers, p \in Bills : confirm(w, p) \/ FindCharge(w, p)
  BY <1>5, Confirms, ReadsRenewal
<1>6. CASE \E w \in Workers, p \in Bills, o \in Bills \cup Others : ReadReference(w, p, o)
  BY <1>6, ReadsReference
<1>7. CASE \E w \in Workers :
        ConfirmWrites(w) \/ settle_renewal(w) \/ record_charge_reference(w) \/ handle_webhook(w)
  BY <1>7, ConfirmWritten, RenewalSettled, ReferenceRecorded, NoticeWritten
<1>8. CASE \E w \in Workers, o \in Bills \cup Others, type \in {"taken", "refused"} : Delivered(w, o, type)
  BY <1>8, NoticeDelivered
<1>9. CASE \E o \in Bills \cup Others, type \in {"taken", "refused"} : StripeWebhook(o, type)
  BY <1>9, StripeNotice
<1>10. CASE UNCHANGED captureVars
  BY <1>10, RowsStay, OrdersStay, StillSound DEF captureVars
<1> QED BY <1>1, <1>2, <1>3, <1>4, <1>5, <1>6, <1>7, <1>8, <1>9, <1>10 DEF CapturesNext

LEMMA CapturesHold == CapturesInv => StandsOnItsOrder
<1> SUFFICES ASSUME CapturesInv, NEW p \in Bills, Arrived(p)
             PROVE  LET row == rows[p]  o == rows[p].ref IN
                    /\ refund_target(row) = {o}
                    /\ orders[o].state = "paid" /\ orders[o].amount = Price /\ orders[o].currency = "usd"
                    /\ orders[o].provider = row.provider /\ orders[o].names \in {Nobody, p}
                    /\ row.fee \in {0, o}
                    /\ \A q \in Bills : q # p /\ Arrived(q) => rows[q].ref # o
                    /\ \A g \in given : g[1] = p => g[2] = o
  BY DEF StandsOnItsOrder
<1>1. \A q \in Bills : RowSound(q) /\ rows[q] \in PaymentRows
  BY DEF CapturesInv, RowsSound
<1>2. refund_target(rows[p]) = {rows[p].ref}
  BY OneTarget
<1>3. \A q \in Bills : Arrived(q) => orders[rows[q].ref].names = q
  BY <1>1 DEF RowSound
<1>4. rows[p].fee \in {0, rows[p].ref}
  <2>1. rows[p].provider \in {"paypal", "stripe"}
    BY <1>1 DEF PaymentRows, Providers
  <2> QED BY <1>1, <2>1 DEF RowSound
<1>5. /\ orders[rows[p].ref].state = "paid" /\ orders[rows[p].ref].amount = Price
      /\ orders[rows[p].ref].currency = "usd" /\ orders[rows[p].ref].provider = rows[p].provider
  BY <1>1 DEF RowSound
<1>6. \A g \in given : g[1] = p => g[2] = rows[p].ref
  BY DEF CapturesInv, GivenSound
<1> QED BY <1>2, <1>3, <1>4, <1>5, <1>6

\* Captures: whichever of the browser, a notification, the scan and a treasurer comes first,
\* money recorded as arrived stands on one order of its own.
THEOREM MoneyStandsOnItsOrder == CapturesSpec => []StandsOnItsOrder
<1> QED BY CapturesStart, CapturesStep, CapturesHold, PTL DEF CapturesSpec
=============================================================================
