------------------------------- MODULE Purchase ------------------------------
(***************************************************************************)
(* What the payment lifecycle promises of each payment (the docstrings of  *)
(* mark_succeeded, mark_failed, record_fees and confirm_payment in         *)
(* apps/payments): it is received once, only when the money is there, and  *)
(* never unreceived; it buys what it is for at most once, as it is         *)
(* received; its fee once known stays known; one receipt is sent by        *)
(* itself.                                                                 *)
(***************************************************************************)
EXTENDS Integers

CONSTANT Pays
VARIABLES status, money, bought, fees, receipts

purchaseVars == <<status, money, bought, fees, receipts>>

Init ==
    /\ status = [p \in Pays |-> "none"]
    /\ money = [p \in Pays |-> FALSE]
    /\ bought = [p \in Pays |-> 0]
    /\ fees = [p \in Pays |-> FALSE]
    /\ receipts = [p \in Pays |-> 0]

Start(p) ==
    /\ status[p] = "none" /\ status' = [status EXCEPT ![p] = "pending"]
    /\ UNCHANGED <<money, bought, fees, receipts>>

\* The money moves at the provider, while the payment is open or was given up.
Take(p) ==
    /\ status[p] \in {"pending", "failed"} /\ ~money[p]
    /\ money' = [money EXCEPT ![p] = TRUE]
    /\ UNCHANGED <<status, bought, fees, receipts>>

GiveUp(p) ==
    /\ status[p] = "pending" /\ status' = [status EXCEPT ![p] = "failed"]
    /\ UNCHANGED <<money, bought, fees, receipts>>

\* Received: with the money there, or arriving in the same step (mock, by hand).
Receive(p) ==
    /\ status[p] # "succeeded" /\ status' = [status EXCEPT ![p] = "succeeded"]
    /\ money' = [money EXCEPT ![p] = TRUE]
    /\ \E n \in 0..1 : bought' = [bought EXCEPT ![p] = n]
    /\ \E known \in BOOLEAN : fees' = [fees EXCEPT ![p] = @ \/ known]
    /\ UNCHANGED receipts

RecordFees(p) ==
    /\ money[p] /\ fees' = [fees EXCEPT ![p] = TRUE]
    /\ UNCHANGED <<status, money, bought, receipts>>

Receipt(p) ==
    /\ bought[p] = 1 /\ receipts[p] = 0 /\ receipts' = [receipts EXCEPT ![p] = 1]
    /\ UNCHANGED <<status, money, bought, fees>>

Next ==
    \E p \in Pays :
        Start(p) \/ Take(p) \/ GiveUp(p) \/ Receive(p) \/ RecordFees(p) \/ Receipt(p)

Spec == Init /\ [][Next]_purchaseVars
=============================================================================
