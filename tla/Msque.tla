------------------------------- MODULE Msque --------------------------------
(***************************************************************************)
(* container/msque.h: the Michael-Scott queue.  A linked list with a dummy *)
(* first node; push links after _end and swings _end, pop swings _begin    *)
(* and retires the old dummy.                                              *)
(*                                                                         *)
(* One step is one access to shared memory.  Nodes are recycled: a retired *)
(* node that no hazard pointer publishes is freed by a later retire and    *)
(* may be allocated again, its next still what it was until push stores 0. *)
(* retire is one step here; HazardSystem has its details.  begin, end and  *)
(* size are those of the record __list points to.  A clear that replaces it *)
(* under another call deallocates it under that call: what follows is      *)
(* undefined, and such a state is the last one.                            *)
(***************************************************************************)
EXTENDS Integers, Sequences, FiniteSets

CONSTANTS
    Pushers, Poppers,
    Clearers,       \* threads that call clear
    Nodes,          \* what objpool can hand out, and the first dummy
    Null,
    RecoverLimit,   \* retire sweeps when as many nodes are retired
    Values,         \* bound: every element is pushed once at most
    SizeMod         \* _size wraps around here: 2^32

Threads == Pushers \cup Poppers \cup Clearers

ASSUME ConstantsOk ==
    /\ Pushers \cap Poppers = {} /\ (Pushers \cup Poppers) \cap Clearers = {}
    /\ IsFiniteSet(Nodes)
    /\ Nodes # {}
    /\ Null \notin Nodes \cup Values
    /\ RecoverLimit \in Nat
    /\ SizeMod \in Nat \ {0}

VARIABLES
    begin, end, size,   \* _begin, _end, _size
    next, data,         \* of every node
    free, retired,      \* nodes that can be allocated; nodes waiting to be freed
    pc,
    node,       \* push: the new node; clear: the dummy of the new list
    reg,        \* a pointer loaded and not stored or tested yet; clear: the next node to retire
    h0, h1,     \* the _hazard fields the thread has acquired
    item,       \* push: the element; pop: what data was assigned
    history,    \* history: every element linked, in order
    taken,      \* history: how many of them have been unlinked
    before      \* history: elements linked when the call started

listVars == <<begin, end>>
nodeVars == <<next, data>>
poolVars == <<free, retired>>
callVars == <<node, item, before>>
histVars == <<history, taken>>
vars == <<listVars, size, nodeVars, poolVars, callVars, histVars, pc, reg, h0, h1>>

Labels == {"idle", "end", "publish", "pnext", "help", "pcheck", "link", "swing", "pcount",
           "begin", "publish0", "next", "publish1", "check", "refresh", "unlink", "read",
           "retire", "count", "exchange", "dispose", "return", "undefined"}

TypeOK ==
    /\ {begin, end} \subseteq Nodes
    /\ size \in 0..(SizeMod - 1)
    /\ next \in [Nodes -> Nodes \cup {Null}]
    /\ data \in [Nodes -> Values \cup {Null}]
    /\ free \subseteq Nodes
    /\ retired \subseteq Nodes
    /\ pc \in [Threads -> Labels]
    /\ {node, reg, h0, h1} \subseteq [Threads -> Nodes \cup {Null}]
    /\ item \in [Threads -> Values \cup {Null}]
    /\ history \in Seq(Values)
    /\ taken \in Nat
    /\ before \in [Threads -> Nat]

\* The constructor: get_list (154-167).
Init ==
    /\ \E dummy \in Nodes :
          /\ begin = dummy
          /\ end = dummy
          /\ free = Nodes \ {dummy}
    /\ size = 0
    /\ next = [n \in Nodes |-> Null]
    /\ data = [n \in Nodes |-> Null]
    /\ retired = {}
    /\ pc = [t \in Threads |-> "idle"]
    /\ node = [t \in Threads |-> Null]
    /\ reg = [t \in Threads |-> Null]
    /\ h0 = [t \in Threads |-> Null]
    /\ h1 = [t \in Threads |-> Null]
    /\ item = [t \in Threads |-> Null]
    /\ history = <<>>
    /\ taken = 0
    /\ before = [t \in Threads |-> 0]

At(t, label) == pc[t] = label
Goto(t, label) == pc' = [pc EXCEPT ![t] = label]

-----------------------------------------------------------------------------
(* push: 80-110 *)

Pushed == Len(history)
InPush == {t \in Pushers : node[t] # Null}

\* get_node: any node that is not in use, or was freed.
NewNode(t, val) ==
    \E n \in free :
        /\ free' = free \ {n}
        /\ node' = [node EXCEPT ![t] = n]
        /\ data' = [data EXCEPT ![n] = val]
        /\ next' = [next EXCEPT ![n] = Null]

\* get_node and the two acquires.
PushCall(t) ==
    /\ At(t, "idle")
    /\ \E v \in Values :
          /\ \A i \in 1..Pushed : history[i] # v
          /\ \A u \in InPush : item[u] # v
          /\ item' = [item EXCEPT ![t] = v]
          /\ NewNode(t, v)
    /\ Goto(t, "end")
    /\ UNCHANGED <<listVars, size, retired, histVars, before, reg, h0, h1>>

PushLoadEnd(t) ==
    /\ At(t, "end")
    /\ reg' = [reg EXCEPT ![t] = end]
    /\ Goto(t, "publish")
    /\ UNCHANGED <<listVars, size, nodeVars, poolVars, callVars, histVars, h0, h1>>

PushPublish(t) ==
    /\ At(t, "publish")
    /\ h0' = [h0 EXCEPT ![t] = reg[t]]
    /\ Goto(t, "pnext")
    /\ UNCHANGED <<listVars, size, nodeVars, poolVars, callVars, histVars, reg, h1>>

PushReadNext(t) ==
    /\ At(t, "pnext")
    /\ reg' = [reg EXCEPT ![t] = next[h0[t]]]
    /\ Goto(t, IF next[h0[t]] # Null THEN "help" ELSE "pcheck")
    /\ UNCHANGED <<listVars, size, nodeVars, poolVars, callVars, histVars, h0, h1>>

\* Mutant: a store instead of the compare_exchange.
SwingEndStore(t, n) ==
    /\ end' = n
    /\ UNCHANGED h0

\* _end.compare_exchange(_hp->_hazard, n): a failure stores _end in _hazard.
SwingEnd(t, n) ==
    \/ /\ end = h0[t]
       /\ end' = n
       /\ UNCHANGED h0
    \/ /\ end # h0[t]
       /\ h0' = [h0 EXCEPT ![t] = end]
       /\ UNCHANGED end

PushHelp(t) ==
    /\ At(t, "help")
    /\ SwingEnd(t, reg[t])
    /\ Goto(t, "end")
    /\ UNCHANGED <<begin, size, nodeVars, poolVars, callVars, histVars, reg, h1>>

PushCheck(t) ==
    /\ At(t, "pcheck")
    /\ Goto(t, IF end = h0[t] THEN "link" ELSE "end")
    /\ UNCHANGED <<listVars, size, nodeVars, poolVars, callVars, histVars, reg, h0, h1>>

\* Mutant: a store instead of the compare_exchange.
PushLinkStore(t) ==
    /\ At(t, "link")
    /\ next' = [next EXCEPT ![h0[t]] = node[t]]
    /\ history' = Append(history, item[t])
    /\ Goto(t, "swing")
    /\ UNCHANGED <<listVars, size, data, poolVars, callVars, taken, reg, h0, h1>>

PushLink(t) ==
    /\ At(t, "link")
    /\ \/ /\ next[h0[t]] = Null
          /\ next' = [next EXCEPT ![h0[t]] = node[t]]
          /\ history' = Append(history, item[t])
          /\ Goto(t, "swing")
       \/ /\ next[h0[t]] # Null
          /\ Goto(t, "end")
          /\ UNCHANGED <<next, history>>
    /\ UNCHANGED <<listVars, size, data, poolVars, callVars, taken, reg, h0, h1>>

PushSwing(t) ==
    /\ At(t, "swing")
    /\ SwingEnd(t, node[t])
    /\ Goto(t, "pcount")
    /\ UNCHANGED <<begin, size, nodeVars, poolVars, callVars, histVars, reg, h1>>

PushCount(t) ==
    /\ At(t, "pcount")
    /\ size' = (size + 1) % SizeMod
    /\ Goto(t, "return")
    /\ UNCHANGED <<listVars, nodeVars, poolVars, callVars, histVars, reg, h0, h1>>

-----------------------------------------------------------------------------
(* pop: 115-151 *)

PopCall(t) ==
    /\ At(t, "idle")
    /\ before' = [before EXCEPT ![t] = Pushed]
    /\ Goto(t, "begin")
    /\ UNCHANGED <<listVars, size, nodeVars, poolVars, node, item, histVars, reg, h0, h1>>

PopLoadBegin(t) ==
    /\ At(t, "begin")
    /\ reg' = [reg EXCEPT ![t] = begin]
    /\ Goto(t, "publish0")
    /\ UNCHANGED <<listVars, size, nodeVars, poolVars, callVars, histVars, h0, h1>>

PopPublish0(t) ==
    /\ At(t, "publish0")
    /\ h0' = [h0 EXCEPT ![t] = reg[t]]
    /\ Goto(t, "next")
    /\ UNCHANGED <<listVars, size, nodeVars, poolVars, callVars, histVars, reg, h1>>

PopReadNext(t) ==
    /\ At(t, "next")
    /\ reg' = [reg EXCEPT ![t] = next[h0[t]]]
    /\ Goto(t, "publish1")
    /\ UNCHANGED <<listVars, size, nodeVars, poolVars, callVars, histVars, h0, h1>>

\* Mutant: a pop that finds nothing still decrements _size.
PopPublish1Count(t) ==
    /\ At(t, "publish1")
    /\ h1' = [h1 EXCEPT ![t] = reg[t]]
    /\ Goto(t, IF reg[t] = Null THEN "count" ELSE "check")
    /\ UNCHANGED <<listVars, size, nodeVars, poolVars, callVars, histVars, reg, h0>>

\* A null next ends the call, before _begin is looked at again (128-131).
PopPublish1(t) ==
    /\ At(t, "publish1")
    /\ h1' = [h1 EXCEPT ![t] = reg[t]]
    /\ Goto(t, IF reg[t] = Null THEN "return" ELSE "check")
    /\ UNCHANGED <<listVars, size, nodeVars, poolVars, callVars, histVars, reg, h0>>

PopCheck(t) ==
    /\ At(t, "check")
    /\ Goto(t, IF begin = h0[t] THEN "unlink" ELSE "refresh")
    /\ UNCHANGED <<listVars, size, nodeVars, poolVars, callVars, histVars, reg, h0, h1>>

\* A second load of _begin (134).
PopRefresh(t) ==
    /\ At(t, "refresh")
    /\ h0' = [h0 EXCEPT ![t] = begin]
    /\ Goto(t, "begin")
    /\ UNCHANGED <<listVars, size, nodeVars, poolVars, callVars, histVars, reg, h1>>

\* A failed compare_exchange_strong stores _begin in _hazard.
PopUnlink(t) ==
    /\ At(t, "unlink")
    /\ \/ /\ begin = h0[t]
          /\ begin' = h1[t]
          /\ taken' = taken + 1
          /\ Goto(t, "read")
          /\ UNCHANGED h0
       \/ /\ begin # h0[t]
          /\ h0' = [h0 EXCEPT ![t] = begin]
          /\ Goto(t, "begin")
          /\ UNCHANGED <<begin, taken>>
    /\ UNCHANGED <<end, size, nodeVars, poolVars, callVars, history, reg, h1>>

PopRead(t) ==
    /\ At(t, "read")
    /\ item' = [item EXCEPT ![t] = data[h1[t]]]
    /\ Goto(t, "retire")
    /\ UNCHANGED <<listVars, size, nodeVars, poolVars, node, before, histVars, reg, h0, h1>>

Published == {h0[t] : t \in Threads} \cup {h1[t] : t \in Threads}
Swept == IF Cardinality(retired) >= RecoverLimit THEN retired \ Published ELSE {}

\* Mutant: appends first and frees what it likes, the node _end may lag at included.
PopRetireAtOnce(t) ==
    /\ At(t, "retire")
    /\ free' = free \cup retired \cup {h0[t]}
    /\ retired' = {}
    /\ Goto(t, "count")
    /\ UNCHANGED <<listVars, size, nodeVars, callVars, histVars, reg, h0, h1>>

\* _hazard_system::retire: sweep, then append.
Retire(n) ==
    /\ free' = free \cup Swept
    /\ retired' = (retired \ Swept) \cup {n}

PopRetire(t) ==
    /\ At(t, "retire")
    /\ Retire(h0[t])
    /\ Goto(t, "count")
    /\ UNCHANGED <<listVars, size, nodeVars, callVars, histVars, reg, h0, h1>>

PopCount(t) ==
    /\ At(t, "count")
    /\ size' = (size - 1) % SizeMod
    /\ Goto(t, "return")
    /\ UNCHANGED <<listVars, nodeVars, poolVars, callVars, histVars, reg, h0, h1>>

-----------------------------------------------------------------------------
(* clear: 71-75.  It has no hazard pointers of its own. *)

\* get_list
ClearCall(t) ==
    /\ At(t, "idle")
    /\ NewNode(t, Null)
    /\ Goto(t, "exchange")
    /\ UNCHANGED <<listVars, size, retired, item, before, histVars, reg, h0, h1>>

\* u works on the record it loaded from __list: a loop starts with loading it anew,
\* and a call that has counted only releases its hazard pointers.
UsesList(u) == pc[u] \notin {"idle", "end", "begin", "exchange", "dispose", "return"}
NoOtherCall(t) == \A u \in Threads \ {t} : ~ UsesList(u)

ClearExchange(t) ==
    /\ At(t, "exchange")
    /\ NoOtherCall(t)
    /\ begin' = node[t]
    /\ end' = node[t]
    /\ size' = 0
    /\ taken' = Pushed
    /\ reg' = [reg EXCEPT ![t] = begin]
    /\ Goto(t, "dispose")
    /\ UNCHANGED <<nodeVars, poolVars, callVars, history, h0, h1>>

\* put_list will deallocate the record in use, although a hazard pointer publishes it.
ClearInUse(t) ==
    /\ At(t, "exchange")
    /\ ~ NoOtherCall(t)
    /\ Goto(t, "undefined")
    /\ UNCHANGED <<listVars, size, nodeVars, poolVars, callVars, histVars, reg, h0, h1>>

\* put_list: every node of the old list is retired, the dummy too, while others
\* push to and pop from the new one.
ClearRetire(t) ==
    /\ At(t, "dispose")
    /\ Retire(reg[t])
    /\ reg' = [reg EXCEPT ![t] = next[reg[t]]]
    /\ Goto(t, IF next[reg[t]] = Null THEN "return" ELSE "dispose")
    /\ UNCHANGED <<listVars, size, nodeVars, callVars, histVars, h0, h1>>

-----------------------------------------------------------------------------

\* The releases (108-109, 146-148); the local variables go out of scope.
Return(t) ==
    /\ At(t, "return")
    /\ h0' = [h0 EXCEPT ![t] = Null]
    /\ h1' = [h1 EXCEPT ![t] = Null]
    /\ reg' = [reg EXCEPT ![t] = Null]
    /\ node' = [node EXCEPT ![t] = Null]
    /\ item' = [item EXCEPT ![t] = Null]
    /\ before' = [before EXCEPT ![t] = 0]
    /\ Goto(t, "idle")
    /\ UNCHANGED <<listVars, size, nodeVars, poolVars, histVars>>

PushStep(t) ==
    \/ PushCall(t) \/ PushLoadEnd(t) \/ PushPublish(t) \/ PushReadNext(t) \/ PushHelp(t)
    \/ PushCheck(t) \/ PushLink(t) \/ PushSwing(t) \/ PushCount(t) \/ Return(t)

PopStep(t) ==
    \/ PopCall(t) \/ PopLoadBegin(t) \/ PopPublish0(t) \/ PopReadNext(t) \/ PopPublish1(t)
    \/ PopCheck(t) \/ PopRefresh(t) \/ PopUnlink(t) \/ PopRead(t) \/ PopRetire(t)
    \/ PopCount(t) \/ Return(t)

ClearStep(t) ==
    ClearCall(t) \/ ClearExchange(t) \/ ClearInUse(t) \/ ClearRetire(t) \/ Return(t)

Undefined == \E t \in Clearers : At(t, "undefined")

Step ==
    \/ \E t \in Pushers : PushStep(t)
    \/ \E t \in Poppers : PopStep(t)
    \/ \E t \in Clearers : ClearStep(t)

Next ==
    \/ ~ Undefined /\ Step
    \/ Undefined /\ UNCHANGED vars

Spec == Init /\ [][Next]_vars

-----------------------------------------------------------------------------
(* Properties *)

\* The step in which a call takes effect: a push when it links its node, a pop
\* when it swings _begin, or when it reads the null next of the last node, a clear
\* when it exchanges __list.
TookEffect(t) ==
    \/ pc[t] \in {"swing", "pcount", "read", "retire", "count", "dispose", "return"}
    \/ At(t, "publish1") /\ reg[t] = Null

Abstract == INSTANCE LinQueue WITH
    Nothing <- Null,
    queue <- SubSeq(history, taken + 1, Pushed),
    state <- [t \in Threads |-> IF At(t, "idle") THEN "idle"
                                ELSE IF TookEffect(t) THEN "done" ELSE "called"],
    item <- [t \in Threads |-> IF At(t, "read") THEN data[h1[t]] ELSE item[t]]

\* msque is a linearizable FIFO queue: no interleaving of pushes and pops loses,
\* repeats or reorders an element, and false means the queue was empty.
Linearizable == Abstract!Spec

\* A compare_exchange moves _begin and _end to the successor of the node they are at
\* only, whichever push swings _end, and whatever became of the node since it was read.
EndsAdvance ==
    [][ \/ /\ begin' # begin => begin' = next[begin]
           /\ end' # end => end' = next[end]
        \/ \E t \in Clearers : ClearExchange(t) ]_vars

CountDue == Cardinality({t \in Pushers : pc[t] \in {"swing", "pcount"}})
DiscountDue == Cardinality({t \in Poppers : pc[t] \in {"read", "retire", "count"}})

\* _size is the number of elements, but for the calls that have taken effect and
\* not counted yet: when all have returned, size() is exact.
SizeCounts ==
    /\ TypeOK
    /\ size = (Pushed - CountDue - (taken - DiscountDue)) % SizeMod

\* _begin and _end never point to a freed node, although pop retires the node _end
\* lags at: the sweep that could free it belongs to a pop that waits for _end.
EndsNotFreed == {begin, end} \cap free = {}

\* Lines 112-113, "pop a element form que if empty return false": a pop returns
\* false only if every element pushed before its call has been popped.
FalseMeansEmpty ==
    \A t \in Poppers : At(t, "return") /\ item[t] = Null => taken >= before[t]
=============================================================================
