---------------------------- MODULE MCFlowTable ----------------------------
(* Small instances of FlowTable for TLC. *)
EXTENDS FlowTable, TLC

Symmetry == Permutations(Key) \cup Permutations(Cpu) \cup Permutations(Slot)
=============================================================================
