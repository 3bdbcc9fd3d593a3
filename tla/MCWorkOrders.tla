---------------------------- MODULE MCWorkOrders ----------------------------
(* Instances of WorkOrders for TLC.                                        *)
EXTENDS WorkOrders, TLC

Symmetry == Permutations(Sn) \cup Permutations(Rma)
=============================================================================
