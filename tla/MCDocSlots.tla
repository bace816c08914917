----------------------------- MODULE MCDocSlots -----------------------------
(* DocSlots on small instances; documents are interchangeable.             *)
EXTENDS DocSlots, TLC

Symmetry == Permutations(DocIds)
=============================================================================
