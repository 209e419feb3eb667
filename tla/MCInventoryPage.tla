---------------------------- MODULE MCInventoryPage ----------------------------
(***************************************************************************)
(* An instance of InventoryPage for TLC.                                   *)
(***************************************************************************)
EXTENDS InventoryPage

Symmetry == Permutations(Slots) \cup Permutations(Attempts) \cup Permutations(Fields)

Texts == {"", "audi"}
StatusOptions == {"all", "available"}

=============================================================================
