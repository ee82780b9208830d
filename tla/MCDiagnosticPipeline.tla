------------------------ MODULE MCDiagnosticPipeline -------------------------
(* DiagnosticPipeline on small sets.  Documents and texts are               *)
(* interchangeable.                                                         *)
EXTENDS DiagnosticPipeline, TLC

Symmetry == Permutations(Uris) \cup Permutations(Texts)
=============================================================================
