------------------------------- MODULE LinMap -------------------------------
(***************************************************************************)
(* What small_hash_map.h promises its callers: a linearizable dictionary.  *)
(* Each call takes effect in one step between its start and its return.    *)
(* search and erase of a key that is not there, and set, change nothing    *)
(* and return false; insert replaces the value of a key that is there.     *)
(* Keys may be lost: what calls do to a lost key and return is not said,   *)
(* the other keys they leave alone.                                        *)
(***************************************************************************)
CONSTANTS
    Threads, Keys, Values,
    Absent              \* no value

VARIABLES
    dict,       \* the value of each key
    lost,       \* keys of which nothing is promised any more
    state,      \* of each thread: "idle", "called" or "done"
    op, key,    \* its call
    item,       \* the value it gives, or is given by search
    found       \* what a call that is done returns

vars == <<dict, lost, state, op, key, item, found>>

Init ==
    /\ dict = [k \in Keys |-> Absent]
    /\ lost = {}
    /\ state = [t \in Threads |-> "idle"]
    /\ op = [t \in Threads |-> "none"]
    /\ key = [t \in Threads |-> Absent]
    /\ item = [t \in Threads |-> Absent]
    /\ found = [t \in Threads |-> FALSE]

Call(t) ==
    /\ state[t] = "idle"
    /\ state' = [state EXCEPT ![t] = "called"]
    /\ \E o \in {"search", "set", "insert", "erase"} : op' = [op EXCEPT ![t] = o]
    /\ \E k \in Keys : key' = [key EXCEPT ![t] = k]
    /\ \E v \in IF op'[t] \in {"set", "insert"} THEN Values ELSE {Absent} :
          item' = [item EXCEPT ![t] = v]
    /\ UNCHANGED <<dict, lost, found>>

Present(t) == dict[key[t]] # Absent

Effect(t) ==
    /\ state[t] = "called" /\ key[t] \notin lost
    /\ state' = [state EXCEPT ![t] = "done"]
    /\ found' = [found EXCEPT ![t] = Present(t) \/ op[t] = "insert"]
    /\ dict' =
          CASE op[t] = "insert" \/ (op[t] = "set" /\ Present(t)) ->
                  [dict EXCEPT ![key[t]] = item[t]]
            [] op[t] = "erase" -> [dict EXCEPT ![key[t]] = Absent]
            [] OTHER -> dict
    /\ item' = IF op[t] = "search" THEN [item EXCEPT ![t] = dict[key[t]]] ELSE item
    /\ UNCHANGED <<lost, op, key>>

LostEffect(t) ==
    /\ state[t] = "called" /\ key[t] \in lost
    /\ state' = [state EXCEPT ![t] = "done"]
    /\ \E b \in BOOLEAN : found' = [found EXCEPT ![t] = b]
    /\ \E v \in Values \cup {Absent} : dict' = [dict EXCEPT ![key[t]] = v]
    /\ \E v \in Values \cup {Absent} : item' = [item EXCEPT ![t] = v]
    /\ UNCHANGED <<lost, op, key>>

Return(t) ==
    /\ state[t] = "done"
    /\ state' = [state EXCEPT ![t] = "idle"]
    /\ op' = [op EXCEPT ![t] = "none"]
    /\ key' = [key EXCEPT ![t] = Absent]
    /\ item' = [item EXCEPT ![t] = Absent]
    /\ found' = [found EXCEPT ![t] = FALSE]
    /\ UNCHANGED <<dict, lost>>

Lose ==
    /\ lost \subseteq lost' /\ lost' \subseteq Keys
    /\ UNCHANGED <<dict, state, op, key, item, found>>

Next == Lose \/ \E t \in Threads : Call(t) \/ Effect(t) \/ LostEffect(t) \/ Return(t)

Spec == Init /\ [][Next]_vars
=============================================================================
