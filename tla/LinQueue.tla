------------------------------ MODULE LinQueue ------------------------------
(***************************************************************************)
(* What the queues of container/ promise their callers: a linearizable     *)
(* first-in first-out queue.  Each call takes effect in one step between   *)
(* its start and its return; a pop that takes effect on an empty queue     *)
(* returns false, any other one removes the oldest element.                *)
(***************************************************************************)
EXTENDS SequencesExt

CONSTANTS
    Pushers, Poppers,   \* threads that call push, threads that call pop
    Clearers,           \* threads that call clear
    Values,
    Nothing             \* no element: the argument or result of no push or pop

Threads == Pushers \cup Poppers \cup Clearers

VARIABLES
    queue,      \* the elements, oldest first
    state,      \* of each thread: "idle", "called" or "done"
    item        \* what a push is adding; what a pop that is done returns

vars == <<queue, state, item>>

Init ==
    /\ queue = <<>>
    /\ state = [t \in Threads |-> "idle"]
    /\ item = [t \in Threads |-> Nothing]

Call(t) ==
    /\ state[t] = "idle"
    /\ state' = [state EXCEPT ![t] = "called"]
    /\ \E v \in IF t \in Pushers THEN Values ELSE {Nothing} :
          item' = [item EXCEPT ![t] = v]
    /\ UNCHANGED queue

\* Pushes that take effect in one step do so one after the other.
Push(ts) ==
    /\ \A i \in DOMAIN ts : state[ts[i]] = "called"
    /\ state' = [t \in Threads |-> IF t \in ToSet(ts) THEN "done" ELSE state[t]]
    /\ queue' = queue \o [i \in DOMAIN ts |-> item[ts[i]]]
    /\ UNCHANGED item

Pop(t) ==
    /\ t \in Poppers
    /\ state[t] = "called"
    /\ state' = [state EXCEPT ![t] = "done"]
    /\ \/ /\ queue = <<>>
          /\ UNCHANGED <<queue, item>>
       \/ /\ queue # <<>>
          /\ queue' = Tail(queue)
          /\ item' = [item EXCEPT ![t] = Head(queue)]

Clear(t) ==
    /\ t \in Clearers
    /\ state[t] = "called"
    /\ state' = [state EXCEPT ![t] = "done"]
    /\ queue' = <<>>
    /\ UNCHANGED item

Return(t) ==
    /\ state[t] = "done"
    /\ state' = [state EXCEPT ![t] = "idle"]
    /\ item' = [item EXCEPT ![t] = Nothing]
    /\ UNCHANGED queue

Next ==
    \/ \E t \in Threads : Call(t) \/ Pop(t) \/ Clear(t) \/ Return(t)
    \/ \E S \in (SUBSET Pushers) \ {{}} : \E ts \in SetToSeqs(S) : Push(ts)

Spec == Init /\ [][Next]_vars
=============================================================================
