----------------------------- MODULE MCRingque ------------------------------
(***************************************************************************)
(* Instances of Ringque for TLC.                                           *)
(***************************************************************************)
EXTENDS Ringque, TLC

CONSTANTS p1, p2, c1, c2, v1, v2, MaxCells

\* Bounds: p2 or c2 calls once, beside a call of p1 or c1, and nothing is looked at after it
\* has returned, after a call is misled, or of a ring that has grown beyond MaxCells.  v2 is
\* pushed when no other element is v2: that one is lost, doubled or late shows with it.
Calls(t) == At(t, "idle") /\ t \in {p2, c2} => ~ crowded /\ pc[IF t = p2 THEN p1 ELSE c1] # "idle"
OneOfV2 ==
    \A t \in Pushers : At(t, "idle") /\ item'[t] = v2 =>
        /\ \A i \in DOMAIN que : que[i] # v2
        /\ \A u \in Threads : item[u] # v2
Beyond ==
    \/ misled
    \/ que_max > MaxCells
    \/ crowded /\ \A t \in Threads \cap {p2, c2} : At(t, "idle")

MCNext ==
    \/ /\ ~ Beyond
       /\ \/ \E t \in Pushers : Calls(t) /\ PushStep(t) /\ OneOfV2
          \/ \E t \in Poppers : Calls(t) /\ PopStep(t)
    \/ Beyond /\ UNCHANGED vars

MCSpec == Init /\ [][MCNext]_vars /\ Fairness
=============================================================================
