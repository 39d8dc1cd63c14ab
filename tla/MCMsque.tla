------------------------------ MODULE MCMsque -------------------------------
(***************************************************************************)
(* Instances of Msque for TLC.                                             *)
(***************************************************************************)
EXTENDS Msque, TLC

CONSTANTS p1, p2, c1, c2, k1, n1, n2, n3, n4

\* Threads of a kind are interchangeable, and so are nodes.
Symmetry == Permutations(Pushers) \cup Permutations(Poppers) \cup Permutations(Nodes)

\* So are elements: the least that was not pushed yet is the next.
Used == {history[i] : i \in 1..Pushed} \cup {item[t] : t \in InPush}
InOrder == \A v \in Used', w \in Values \ Used' : v < w

\* Bound: up to so many elements pushes and pops come in twos and no node is reused,
\* beyond it they come one at a time, beside clears.
CrowdLimit == 2
Crowd == Cardinality(Used) <= CrowdLimit
Alone(S) == \A t, u \in S : At(t, "idle") \/ At(u, "idle") \/ t = u
MCNext ==
    /\ Next
    /\ InOrder
    /\ \/ Crowd' /\ \A t \in Clearers : At(t, "idle")'
       \/ ~ Crowd' /\ Alone(Pushers)' /\ Alone(Poppers)'
MCSpec == Init /\ [][MCNext]_vars
=============================================================================
