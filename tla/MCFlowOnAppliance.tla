--------------------------- MODULE MCFlowOnAppliance ---------------------------
(* Small instances of FlowOnAppliance for TLC. *)
EXTENDS FlowOnAppliance, TLC

SlotSymmetry == Permutations(Slots)
===============================================================================
