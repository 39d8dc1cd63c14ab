----------------------------- MODULE MCSwapque ------------------------------
(***************************************************************************)
(* Instances of Swapque for TLC.                                           *)
(***************************************************************************)
EXTENDS Swapque, TLC

CONSTANTS p1, p2, c1, k1, n1, n2, n3, n4, n5, v1, v2, v3, v4

\* Threads of a kind are interchangeable, and so are nodes and elements.
Symmetry == Permutations(Pushers) \cup Permutations(Poppers) \cup Permutations(Nodes)
            \cup Permutations(Values)
=============================================================================
