----------------------------- MODULE MCFlowEngine -----------------------------
(* Small instances of FlowEngine for TLC. *)
EXTENDS FlowEngine, TLC

\* Cases, slots and passwords are interchangeable: no action names one.
Symmetry == Permutations(Cases) \cup Permutations(Slots) \cup Permutations(Passwords)
===============================================================================
