-------------------------- MODULE MCDiagnosticQueue --------------------------
(* DiagnosticQueue on small sets; documents are interchangeable.            *)
EXTENDS DiagnosticQueue, TLC

Symmetry == Permutations(Uris)
=============================================================================
