------------------------------ MODULE MCBlobGC ------------------------------
EXTENDS BlobGC, TLC

CONSTANT s1

Symmetry == Permutations(Nodes) \cup Permutations(Keys)
=============================================================================
