----------------------------- MODULE MCRefunds -----------------------------
(* Refunds on small instances: the constants are given in the .cfg files. *)
EXTENDS Refunds, TLC

RefundSymmetry == Permutations(Refunds) \cup Permutations(ProvIds)
=============================================================================
