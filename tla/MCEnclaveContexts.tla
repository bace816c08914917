-------------------------- MODULE MCEnclaveContexts --------------------------
(* EnclaveContexts on small instances; clients are interchangeable.        *)
EXTENDS EnclaveContexts, TLC

Symmetry == Permutations(Clients)
=============================================================================
