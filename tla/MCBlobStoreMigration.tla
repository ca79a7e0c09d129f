------------------------ MODULE MCBlobStoreMigration ------------------------
(* TLC instance of BlobStoreMigration. *)
EXTENDS BlobStoreMigration

CONSTANTS s1, s2, p1, p2, mount, a, b

\* mount is a mount of p1 in another repository.
MountKeys == [x \in Paths |-> IF x = mount THEN p1 ELSE x]
OwnKeys == [x \in Paths |-> x]
TwoSizes == [x \in Contents |-> IF x = a THEN 1 ELSE 2]
=============================================================================
