------------------------------- MODULE MCQuota -------------------------------
(* TLC instance of QuotaRegistration: two repositories on one store. *)
EXTENDS QuotaRegistration, TLC

CONSTANTS r1, r2, p1, p2, p3, digest, l1, l2

MCRepos == {r1, r2}
MCRepoOf == [p \in Paths |-> IF p = p3 THEN r2 ELSE r1]
MCRepoQuota == r1 :> 3 @@ r2 :> None

\* The digest of a manifest that p1 may be pushed with, and of a layer in
\* two images.
MCLayers == {l1, l2} \cap Paths
MCDigestSize == [p \in Paths |-> IF p = digest THEN 2 ELSE IF p \in MCLayers THEN 1 ELSE None]

\* What is not excused by a race is looked at with failing steps, the rest without.
Worthwhile == raced = {} \/ drift = {}

Symmetry == Permutations(Writers) \cup Permutations(MCLayers)
=============================================================================
