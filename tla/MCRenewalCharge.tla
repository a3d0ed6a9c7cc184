-------------------------- MODULE MCRenewalCharge --------------------------
(* RenewalCharge on small instances: the constants are given in the .cfg files. *)
EXTENDS RenewalCharge, TLC

ScanSymmetry == Permutations(Scans)
=============================================================================
