------------------------------ MODULE MCStigJob ------------------------------
(* StigJob for TLC: request and invocation slots are interchangeable. *)
EXTENDS StigJob, TLC

Symmetry == Permutations(Starters) \cup Permutations(Workers)
=============================================================================
