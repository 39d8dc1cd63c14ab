------------------------------ MODULE Swapque -------------------------------
(***************************************************************************)
(* container/swapque.h: two linked lists with a dummy node each.  push     *)
(* appends to _back, pop takes from _frond; a popper that finds _frond     *)
(* empty exchanges the two under the unique lock of the mutex push and pop *)
(* hold shared.                                                            *)
(*                                                                         *)
(* One step is one access to shared memory; the unique lock is held for    *)
(* the exchange only, which is one step, so that only the shared holders   *)
(* are kept, and a try_lock that fails changes nothing.  push publishes no *)
(* hazard pointer of a node: that the node it links to is not freed is up  *)
(* to the mutex.  The variables are those of the record __que points to: a *)
(* call that is at work on a record when clear replaces it, and put_que    *)
(* deallocates it, is not followed any further.                            *)
(***************************************************************************)
EXTENDS Integers, FiniteSets, SequencesExt

CONSTANTS
    Pushers, Poppers,
    Clearers,       \* threads that call clear
    Nodes,          \* what objpool can hand out, and the first dummies
    Null,
    RecoverLimit,   \* retire sweeps when as many nodes are retired
    Values,         \* bound: every element is pushed once at most
    SizeMod         \* _size wraps around here: 2^32

Threads == Pushers \cup Poppers \cup Clearers

ASSUME ConstantsOk ==
    /\ Pushers \cap Poppers = {} /\ (Pushers \cup Poppers) \cap Clearers = {}
    /\ IsFiniteSet(Nodes) /\ Cardinality(Nodes) >= 2
    /\ Null \notin Nodes \cup Values
    /\ RecoverLimit \in Nat
    /\ SizeMod \in Nat \ {0}

VARIABLES
    frond, back,        \* the _begin and _end of each list
    size,               \* _size
    readers,            \* the threads that hold _mu shared
    next, data,         \* of every node
    free, retired,      \* nodes that can be allocated; nodes waiting to be freed
    pc,
    node,       \* push: the new node; clear: the first nodes of lists to make or retire
    reg,        \* push: _old_end
    h0, h1,     \* the _hazard fields of the nodes' hazard pointers
    item,       \* push: the element; pop: what data was assigned
    history,    \* history: every element appended, in order
    taken,      \* history: how many of them have been unlinked
    counted     \* history: how many of them have taken effect

listVars == <<frond, back>>
nodeVars == <<next, data>>
poolVars == <<free, retired>>
histVars == <<history, taken, counted>>
callVars == <<node, reg, item>>
vars == <<listVars, size, readers, nodeVars, poolVars, histVars, callVars, pc, h0, h1>>

Ends == [begin : Nodes, end : Nodes]

TypeOK ==
    /\ {frond, back} \subseteq Ends
    /\ size \in 0..(SizeMod - 1)
    /\ readers \subseteq Pushers \cup Poppers
    /\ next \in [Nodes -> Nodes \cup {Null}]
    /\ data \in [Nodes -> Values \cup {Null}]
    /\ free \subseteq Nodes
    /\ retired \subseteq Nodes
    /\ pc \in [Threads -> {"idle", "lock", "append", "link", "pcount", "empty", "begin", "end",
                           "size", "swap", "next", "unlink", "read", "retire", "count",
                           "exchange", "dispose", "return", "overtook"}]
    /\ node \in [Threads -> Seq(Nodes)]
    /\ {reg, h0, h1} \subseteq [Threads -> Nodes \cup {Null}]
    /\ item \in [Threads -> Values \cup {Null}]
    /\ history \in Seq(Values)
    /\ taken \in Nat /\ counted \in Nat

List(n) == [begin |-> n, end |-> n]
Pushed == Len(history)

\* The constructor: get_que.
Init ==
    /\ \E m, n \in Nodes :
          /\ m # n
          /\ frond = List(m)
          /\ back = List(n)
          /\ free = Nodes \ {m, n}
    /\ size = 0
    /\ readers = {}
    /\ next = [n \in Nodes |-> Null]
    /\ data = [n \in Nodes |-> Null]
    /\ retired = {}
    /\ pc = [t \in Threads |-> "idle"]
    /\ node = [t \in Threads |-> <<>>]
    /\ reg = [t \in Threads |-> Null]
    /\ h0 = [t \in Threads |-> Null]
    /\ h1 = [t \in Threads |-> Null]
    /\ item = [t \in Threads |-> Null]
    /\ history = <<>>
    /\ taken = 0
    /\ counted = 0

At(t, label) == pc[t] = label
Goto(t, label) == pc' = [pc EXCEPT ![t] = label]

\* Any nodes that are not in use, or were freed, made anew with this element.
NewNodes(t, ns, val) ==
    /\ ToSet(ns) \subseteq free
    /\ free' = free \ ToSet(ns)
    /\ node' = [node EXCEPT ![t] = ns]
    /\ data' = [n \in Nodes |-> IF n \in ToSet(ns) THEN val ELSE data[n]]
    /\ next' = [n \in Nodes |-> IF n \in ToSet(ns) THEN Null ELSE next[n]]

Published == {h0[t] : t \in Threads} \cup {h1[t] : t \in Threads}
Swept == IF Cardinality(retired) >= RecoverLimit THEN retired \ Published ELSE {}

\* _hazard_system::retire: sweep, then append.
Retire(n) ==
    /\ free' = free \cup Swept
    /\ retired' = (retired \ Swept) \cup {n}

\* try_to_lock of the shared lock, until it succeeds.
LockShared(t) == readers' = readers \cup {t}

-----------------------------------------------------------------------------
(* push *)

PushCall(t) ==
    /\ At(t, "idle")
    /\ \E v \in Values, n \in free :
          /\ v \notin ToSet(history) \cup {item[u] : u \in Pushers}
          /\ item' = [item EXCEPT ![t] = v]
          /\ NewNodes(t, <<n>>, v)
    /\ Goto(t, "lock")
    /\ UNCHANGED <<listVars, size, readers, retired, histVars, reg, h0, h1>>

PushLock(t) ==
    /\ At(t, "lock")
    /\ LockShared(t)
    /\ Goto(t, "append")
    /\ UNCHANGED <<listVars, size, nodeVars, poolVars, histVars, callVars, h0, h1>>

\* _end.exchange(_node)
PushAppend(t) ==
    /\ At(t, "append")
    /\ reg' = [reg EXCEPT ![t] = back.end]
    /\ back' = [back EXCEPT !.end = Head(node[t])]
    /\ history' = Append(history, item[t])
    /\ Goto(t, "link")
    /\ UNCHANGED <<frond, size, readers, nodeVars, poolVars, taken, counted, node, item, h0, h1>>

PushLink(t) ==
    /\ At(t, "link")
    /\ next' = [next EXCEPT ![reg[t]] = Head(node[t])]
    /\ Goto(t, "pcount")
    /\ UNCHANGED <<listVars, size, readers, data, poolVars, histVars, callVars, h0, h1>>

\* Once it is counted an element and those before it can be popped.
PushCount(t) ==
    /\ At(t, "pcount")
    /\ size' = (size + 1) % SizeMod
    /\ counted' = Max({counted, SelectInSeq(history, LAMBDA v : v = item[t])})
    /\ Goto(t, "return")
    /\ UNCHANGED <<listVars, readers, nodeVars, poolVars, history, taken, callVars, h0, h1>>

-----------------------------------------------------------------------------
(* pop *)

PopCall(t) ==
    /\ At(t, "idle")
    /\ Goto(t, "empty")
    /\ UNCHANGED <<listVars, size, readers, nodeVars, poolVars, histVars, callVars, h0, h1>>

\* Mutant: a pop that finds nothing still decrements _size.
PopEmptyCount(t) ==
    /\ At(t, "empty")
    /\ Goto(t, IF size = 0 THEN "count" ELSE "lock")
    /\ UNCHANGED <<listVars, size, readers, nodeVars, poolVars, histVars, callVars, h0, h1>>

PopEmpty(t) ==
    /\ At(t, "empty")
    /\ Goto(t, IF size = 0 THEN "return" ELSE "lock")
    /\ UNCHANGED <<listVars, size, readers, nodeVars, poolVars, histVars, callVars, h0, h1>>

\* Also after a try to exchange the lists.
PopLock(t) ==
    /\ At(t, "lock")
    /\ LockShared(t)
    /\ Goto(t, "begin")
    /\ UNCHANGED <<listVars, size, nodeVars, poolVars, histVars, callVars, h0, h1>>

PopBegin(t) ==
    /\ At(t, "begin")
    /\ h0' = [h0 EXCEPT ![t] = frond.begin]
    /\ Goto(t, "end")
    /\ UNCHANGED <<listVars, size, readers, nodeVars, poolVars, histVars, callVars, h1>>

\* Mutant: the queue is taken for empty when _frond is.
PopEndReturn(t) ==
    /\ At(t, "end")
    /\ Goto(t, IF h0[t] = frond.end THEN "return" ELSE "next")
    /\ UNCHANGED <<listVars, size, readers, nodeVars, poolVars, histVars, callVars, h0, h1>>

PopEnd(t) ==
    /\ At(t, "end")
    /\ Goto(t, IF h0[t] = frond.end THEN "size" ELSE "next")
    /\ UNCHANGED <<listVars, size, readers, nodeVars, poolVars, histVars, callVars, h0, h1>>

PopSize(t) ==
    /\ At(t, "size")
    /\ IF size = 0 THEN Goto(t, "return") /\ UNCHANGED readers
       ELSE Goto(t, "swap") /\ readers' = readers \ {t}
    /\ UNCHANGED <<listVars, size, nodeVars, poolVars, histVars, callVars, h0, h1>>

\* try_to_lock of the unique lock, and the exchange if it succeeds.
PopSwap(t) ==
    /\ At(t, "swap")
    /\ \/ /\ readers = {}
          /\ frond' = back
          /\ back' = frond
       \/ /\ readers # {}
          /\ UNCHANGED listVars
    /\ Goto(t, "lock")
    /\ UNCHANGED <<size, readers, nodeVars, poolVars, histVars, callVars, h0, h1>>

PopNext(t) ==
    /\ At(t, "next")
    /\ h1' = [h1 EXCEPT ![t] = next[h0[t]]]
    /\ Goto(t, "unlink")
    /\ UNCHANGED <<listVars, size, readers, nodeVars, poolVars, histVars, callVars, h0>>

\* A failed compare_exchange_strong stores _begin in _hazard.
PopUnlink(t) ==
    /\ At(t, "unlink")
    /\ IF frond.begin = h0[t]
       THEN /\ frond' = [frond EXCEPT !.begin = h1[t]]
            /\ taken' = taken + 1
            /\ Goto(t, "read")
            /\ UNCHANGED h0
       ELSE /\ h0' = [h0 EXCEPT ![t] = frond.begin]
            /\ Goto(t, "end")
            /\ UNCHANGED <<frond, taken>>
    /\ UNCHANGED <<back, size, readers, nodeVars, poolVars, history, counted, callVars, h1>>

PopRead(t) ==
    /\ At(t, "read")
    /\ item' = [item EXCEPT ![t] = data[h1[t]]]
    /\ Goto(t, "retire")
    /\ UNCHANGED <<listVars, size, readers, nodeVars, poolVars, histVars, node, reg, h0, h1>>

\* Mutant: the node the element was read from, which is the dummy now.
PopRetireNew(t) ==
    /\ At(t, "retire")
    /\ Retire(h1[t])
    /\ Goto(t, "count")
    /\ UNCHANGED <<listVars, size, readers, nodeVars, histVars, callVars, h0, h1>>

PopRetire(t) ==
    /\ At(t, "retire")
    /\ Retire(h0[t])
    /\ Goto(t, "count")
    /\ UNCHANGED <<listVars, size, readers, nodeVars, histVars, callVars, h0, h1>>

PopCount(t) ==
    /\ At(t, "count")
    /\ size' = (size - 1) % SizeMod
    /\ Goto(t, "return")
    /\ UNCHANGED <<listVars, readers, nodeVars, poolVars, histVars, callVars, h0, h1>>

-----------------------------------------------------------------------------
(* clear *)

\* get_que
ClearCall(t) ==
    /\ At(t, "idle")
    /\ \E m, n \in free : m # n /\ NewNodes(t, <<m, n>>, Null)
    /\ Goto(t, "exchange")
    /\ UNCHANGED <<listVars, size, readers, retired, histVars, reg, item, h0, h1>>

\* u works on the record it loaded from __que: not before it tries to lock its mutex for
\* the first time, nor after it has unlocked it for the last.
UsesQue(u) ==
    /\ pc[u] \notin {"idle", "empty", "exchange", "dispose"}
    /\ ~ (At(u, "lock") /\ h0[u] = Null)
    /\ ~ (At(u, "return") /\ u \notin readers)
NoOtherCall(t) == \A u \in Threads \ {t} : ~ UsesQue(u)

ClearExchange(t) ==
    /\ At(t, "exchange")
    /\ NoOtherCall(t)
    /\ frond' = List(node[t][1])
    /\ back' = List(node[t][2])
    /\ size' = 0
    /\ taken' = Pushed
    /\ node' = [node EXCEPT ![t] = <<frond.begin, back.begin>>]
    /\ Goto(t, "dispose")
    /\ UNCHANGED <<readers, nodeVars, poolVars, history, counted, reg, item, h0, h1>>

\* The exchange waits for nobody; put_que waits for those that hold the mutex only.
ClearInUse(t) ==
    /\ At(t, "exchange")
    /\ ~ NoOtherCall(t)
    /\ Goto(t, "overtook")
    /\ UNCHANGED <<listVars, size, readers, nodeVars, poolVars, histVars, callVars, h0, h1>>

\* put_que: the nodes of one list, then those of the other.
ClearRetire(t) ==
    LET n == Head(node[t])
        rest == IF next[n] = Null THEN Tail(node[t]) ELSE <<next[n]>> \o Tail(node[t])
    IN  /\ At(t, "dispose")
        /\ Retire(n)
        /\ node' = [node EXCEPT ![t] = rest]
        /\ Goto(t, IF rest = <<>> THEN "return" ELSE "dispose")
        /\ UNCHANGED <<listVars, size, readers, nodeVars, histVars, reg, item, h0, h1>>

-----------------------------------------------------------------------------

\* The releases; the shared lock, held or not, and the local variables go out of scope.
Return(t) ==
    /\ At(t, "return")
    /\ readers' = readers \ {t}
    /\ h0' = [h0 EXCEPT ![t] = Null]
    /\ h1' = [h1 EXCEPT ![t] = Null]
    /\ reg' = [reg EXCEPT ![t] = Null]
    /\ node' = [node EXCEPT ![t] = <<>>]
    /\ item' = [item EXCEPT ![t] = Null]
    /\ Goto(t, "idle")
    /\ UNCHANGED <<listVars, size, nodeVars, poolVars, histVars>>

PushStep(t) ==
    PushCall(t) \/ PushLock(t) \/ PushAppend(t) \/ PushLink(t) \/ PushCount(t) \/ Return(t)

PopStep(t) ==
    \/ PopCall(t) \/ PopEmpty(t) \/ PopLock(t) \/ PopBegin(t) \/ PopEnd(t) \/ PopSize(t)
    \/ PopSwap(t) \/ PopNext(t) \/ PopUnlink(t) \/ PopRead(t) \/ PopRetire(t) \/ PopCount(t)
    \/ Return(t)

ClearStep(t) ==
    ClearCall(t) \/ ClearExchange(t) \/ ClearInUse(t) \/ ClearRetire(t) \/ Return(t)

\* Bound: the last states that are looked at.
Overtaken == \E t \in Clearers : At(t, "overtook")

Step ==
    \/ \E t \in Pushers : PushStep(t)
    \/ \E t \in Poppers : PopStep(t)
    \/ \E t \in Clearers : ClearStep(t)

Next ==
    \/ ~ Overtaken /\ Step
    \/ Overtaken /\ UNCHANGED vars

Spec == Init /\ [][Next]_vars

-----------------------------------------------------------------------------
(* Properties *)

\* A push takes effect when it or one that appended after it is counted; a pop when
\* it unlinks, or reads 0 in _size; a clear when it exchanges __que.
TookEffect(t) ==
    \/ t \in Pushers /\ item[t] \in ToSet(SubSeq(history, 1, counted))
    \/ t \notin Pushers /\ pc[t] \in {"read", "retire", "count", "dispose", "return"}

Abstract == INSTANCE LinQueue WITH
    Nothing <- Null,
    queue <- SubSeq(history, taken + 1, counted),
    state <- [t \in Threads |-> IF At(t, "idle") THEN "idle"
                                ELSE IF TookEffect(t) THEN "done" ELSE "called"],
    item <- [t \in Threads |-> IF At(t, "read") THEN data[h1[t]] ELSE item[t]]

\* swapque is a linearizable FIFO queue, with one popper: "a fifo que" (line 5).
Linearizable == Abstract!Spec

CountDue == Cardinality({t \in Pushers : pc[t] \in {"link", "pcount"}})
DiscountDue == Cardinality({t \in Poppers : pc[t] \in {"read", "retire", "count"}})

\* _size is the number of elements, but for the calls that have not counted yet, and
\* never passes below 0: no element is popped before it is counted, though pushes
\* count in another order than they append.
SizeCounts ==
    /\ TypeOK
    /\ size = Pushed - CountDue - (taken - DiscountDue)

\* push links to a node, and pop follows one, that is still in a list: it is not
\* retired as long as the mutex is held, though push publishes no hazard pointer of it
\* and pop does not look at _begin again.
NodesInUse ==
    \A t \in Pushers \cup Poppers :
        /\ At(t, "link") => reg[t] \notin free \cup retired
        /\ pc[t] \in {"next", "unlink"} => h0[t] \notin free \cup retired
=============================================================================
