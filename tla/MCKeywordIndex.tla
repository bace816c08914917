--------------------------- MODULE MCKeywordIndex ---------------------------
(* KeywordIndex on small instances.  Words and documents are model values; *)
(* both are interchangeable (the action properties quantify over all of    *)
(* them, and no run checks liveness).                                      *)
EXTENDS KeywordIndex, TLC

Symmetry == Permutations(Words \ LongWords) \cup Permutations(Docs)
=============================================================================
