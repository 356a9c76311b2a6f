---------------------------- MODULE MCReceiptQueue ----------------------------
(* Instances of ReceiptQueue for TLC. *)
EXTENDS ReceiptQueue, TLC

Symmetry == Permutations(Worker)
=============================================================================
