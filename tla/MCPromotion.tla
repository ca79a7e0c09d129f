----------------------------- MODULE MCPromotion -----------------------------
(* TLC instance of Promotion: one component with two assets, which a batch may
   name twice. *)
EXTENDS Promotion, TLC

CONSTANTS c1, pa, pb

MCAssetsOf == [c \in Comps |-> <<pa, pb>>]
\* A strict rule, a lax one, and one whose filter does not match.
Strict == [covers |-> Comps, scanPass |-> TRUE, manual |-> TRUE]
Lax == [covers |-> Comps, scanPass |-> FALSE, manual |-> FALSE]
Narrow == [covers |-> {}, scanPass |-> FALSE, manual |-> FALSE]
MCRuleForms == {Strict, Lax, Narrow}
MCBatches == {<<c1>>, <<c1, c1>>}
Symmetry == Permutations(Workers) \cup Permutations(Rules) \cup Permutations(Requests)
=============================================================================
