---------------------------- MODULE MCRequestLoop ----------------------------
(* RequestLoop on small sets.  Requests, and the threads of one kind, are    *)
(* interchangeable.                                                         *)
EXTENDS RequestLoop, TLC

Symmetry == Permutations(Ids) \cup Permutations(Workers) \cup Permutations(Producers)
=============================================================================
