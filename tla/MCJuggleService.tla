-------------------------- MODULE MCJuggleService ---------------------------
(***************************************************************************)
(* Instances of JuggleService for TLC.                                     *)
(***************************************************************************)
EXTENDS JuggleService, TLC

CONSTANTS d1, a1, k1, k2, r1

U == INSTANCE Uuid

\* That Calls have names of their own, in a process with this address and id.
Address == <<0, 28, 66, 0, 0, 8>>
Instant == [t |-> 1437000000, c |-> 77, random |-> 255]
ASSUME CallsHaveNames ==
    /\ U!NamesDiffer({Instant, [Instant EXCEPT !.t = -1, !.random = 0]}, Address, 4096)
    /\ U!NamesRepeat(Instant, Address, 4096)
=============================================================================
