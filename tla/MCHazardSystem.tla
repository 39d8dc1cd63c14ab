--------------------------- MODULE MCHazardSystem ---------------------------
(***************************************************************************)
(* Instances of HazardSystem for TLC.                                      *)
(***************************************************************************)
EXTENDS HazardSystem, TLC

CONSTANTS t1, t2, t3, o1, o2, o3, o4, o5, o6

\* Objects are interchangeable; the threads are not: SlotsWanted tells them apart.
Symmetry == Permutations(Objects)
OneEach == [t \in Threads |-> 1]
LikeQueue == [t \in Threads |-> IF t = t1 THEN 2 ELSE 1]
=============================================================================
