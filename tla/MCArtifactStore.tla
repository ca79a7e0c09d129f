--------------------------- MODULE MCArtifactStore ---------------------------
(* TLC instance of ArtifactStore. *)
EXTENDS ArtifactStore, TLC

\* Workers are interchangeable.
WorkerSymmetry == Permutations(Workers)
=============================================================================
