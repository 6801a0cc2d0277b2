---------------------- MODULE MCArtifactReconciliation ----------------------
(* ArtifactReconciliation for TLC: the submissions are interchangeable.    *)
EXTENDS ArtifactReconciliation, TLC

Interchangeable == Permutations(Request)
=============================================================================
