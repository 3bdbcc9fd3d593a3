----------------------------- MODULE MCInventory -----------------------------
(* Instances of Inventory for TLC.                                         *)
EXTENDS Inventory, TLC

MCInitialStock == [p \in Part |-> 2]

Symmetry ==
  Permutations(Sn) \cup Permutations(Slot) \cup Permutations(Tech)
=============================================================================
