---------------------------- MODULE MCFlowCache ----------------------------
(* FlowCache with two numbers and a few processes; see the .cfg files.     *)
EXTENDS FlowCache, TLC

Swaps == Permutations(Pids)
=============================================================================
