------------------------------ MODULE MCRequests ------------------------------
EXTENDS Requests
Symmetry == Permutations(Words) \cup Permutations(Docs)
=============================================================================
