--------------------------- MODULE MCSmallHashMap ---------------------------
(***************************************************************************)
(* Instances of SmallHashMap for TLC, with uint32_t keys and their hashes. *)
(***************************************************************************)
EXTENDS SmallHashMap, TLC

F == INSTANCE HashFunctions

CONSTANTS t1, t2, t3, v1, v2

Symmetry == Permutations(Threads) \cup Permutations(Values)
HashOf == [k \in Keys |-> IF k = 2 THEN 173 ELSE 175]

\* All hashes but those of negative 64-bit keys are indexes of _hash_array.
SmallKeys == -300..300
Chars == {-128, -1, 0, 97, 127, 65535}
ASSUME HashInRange ==
    /\ \A k \in SmallKeys : {F!HashUint32(k), F!HashInt32(k)} \subseteq 0..F!mask - 1
    /\ \A k \in SmallKeys : F!Mixed(F!Word(k), TRUE).hi < F!Half \div 2
    /\ \A c, d \in Chars : F!HashString(<<c, d>>) \in 0..F!mask - 1
    /\ \A k \in SmallKeys \cap Nat : {F!HashUint64(k), F!HashInt64(k)} = {k % F!mask}
    /\ F!HashInt64(-1) < 0

\* 10 and 42 fall into one bucket, 2 into an earlier one.
ASSUME HashOfKeys == \A k \in {2, 10, 42} : F!HashUint32(k) = IF k = 2 THEN 173 ELSE 175
=============================================================================
