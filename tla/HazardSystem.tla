---------------------------- MODULE HazardSystem ----------------------------
(***************************************************************************)
(* container/detail/_hazard_ptr.h: the hazard pointers behind msque,       *)
(* optimisticque and swapque.  Slots live in a push-only list; a thread    *)
(* acquires one or more, publishes in them the pointers it is about to     *)
(* follow, and releases them.  retire(p) locks one of several recover      *)
(* lists, sweeps it when it is long enough, freeing every pointer no slot  *)
(* publishes, and appends p.                                               *)
(*                                                                         *)
(* One step is one atomic access to shared memory together with the local  *)
(* code that follows it.  The steps of a thread that uses the system (load *)
(* the shared pointer, publish, validate, unlink) are those of msque::pop. *)
(***************************************************************************)
EXTENDS Integers, FiniteSets

CONSTANTS
    Threads,        \* threads that acquire slots
    Removers,       \* those that also unlink objects and retire them
    Objects,        \* memory the client's objects are carved from
    Null,
    RecoverLists,   \* re_list_set has 8 (line 56)
    RecoverLimit,   \* a sweep needs this many retired pointers: 32 (line 166)
    MaxSlots,       \* bound: nodes the slot list may grow to
    WarmSlots,      \* nodes the list already has when the model starts
    WarmRetired,    \* objects the first recover list already holds
    SlotsWanted     \* the size each thread calls acquire with: push 1, pop 2

Slots == 1..MaxSlots
Lists == 1..RecoverLists

ASSUME ConstantsOk ==
    /\ Removers \subseteq Threads
    /\ IsFiniteSet(Objects)
    /\ Objects # {}
    /\ Null \notin Objects \cup Int
    /\ RecoverLists \in Nat \ {0}
    /\ RecoverLimit \in Nat
    /\ MaxSlots \in Nat
    /\ WarmSlots \in 1..MaxSlots
    /\ WarmRetired \subseteq Objects
    /\ WarmRetired # Objects
    /\ SlotsWanted \in [Threads -> Nat \ {0}]

VARIABLES
    head,       \* _head
    next,       \* next of every node
    active,     \* _active: 1 available, 0 in use
    hazard,     \* _hazard
    llen,       \* nodes allocated so far; nodes 1..llen exist
    recover,    \* re_vector of every recover list, as a set
    unlocked,   \* active of every recover list: 1 available, 0 in use
    link,       \* the client's shared pointer
    free,       \* objects that are deallocated
    pc, cur,    \* where a thread is, and _node (later: the slot it uses)
    old,        \* what _head.exchange returned
    want, held, \* acquire: slots still to find, slots found
    obj,        \* the pointer loaded (client), then p (retire)
    pending,    \* the store of obj into _hazard waits in the store buffer
    lst, scan, seen,  \* retire: i, the node scanned, hvector
    fenced,     \* history: the store had left the buffer at validation
    torn        \* history: a scan read a node whose next was not yet stored

slotVars   == <<head, next, active, hazard, llen>>
listVars   == <<recover, unlocked>>
clientVars == <<link, free>>
acqVars    == <<cur, old, want, held>>
useVars    == <<obj, pending, fenced>>
retVars    == <<lst, scan, seen, torn>>
vars == <<slotVars, listVars, clientVars, acqVars, useVars, retVars, pc>>

Labels == {"idle", "seek", "push", "link", "load", "publish", "check", "use",
           "lock", "size", "head", "scan", "sweep", "store", "clear", "release"}

TypeOK ==
    /\ head \in Slots
    /\ next \in [Slots -> Slots \cup {Null}]
    /\ active \in [Slots -> {0, 1}]
    /\ hazard \in [Slots -> Objects \cup {Null}]
    /\ llen \in Slots
    /\ recover \in [Lists -> SUBSET Objects]
    /\ unlocked \in [Lists -> {0, 1}]
    /\ link \in Objects
    /\ free \subseteq Objects
    /\ pc \in [Threads -> Labels]
    /\ cur \in [Threads -> Slots \cup {Null}]
    /\ old \in [Threads -> Slots \cup {Null}]
    /\ want \in [Threads -> Nat]
    /\ held \in [Threads -> SUBSET Slots]
    /\ obj \in [Threads -> Objects \cup {Null}]
    /\ pending \in [Threads -> BOOLEAN]
    /\ lst \in [Threads -> Lists]
    /\ scan \in [Threads -> Slots \cup {Null}]
    /\ seen \in [Threads -> SUBSET Objects]
    /\ fenced \in [Threads -> BOOLEAN]
    /\ torn \in BOOLEAN

\* The constructor (78-86) leaves one node; WarmSlots - 1 more have been pushed
\* by acquires that met no other, and WarmRetired has been retired.
Init ==
    /\ head = WarmSlots
    /\ next = [s \in Slots |-> IF s \in 2..WarmSlots THEN s - 1 ELSE Null]
    /\ active = [s \in Slots |-> 1]
    /\ hazard = [s \in Slots |-> Null]
    /\ llen = WarmSlots
    /\ recover = [l \in Lists |-> IF l = 1 THEN WarmRetired ELSE {}]
    /\ unlocked = [l \in Lists |-> 1]
    /\ link \in Objects \ WarmRetired
    /\ free = Objects \ (WarmRetired \cup {link})
    /\ pc = [t \in Threads |-> "idle"]
    /\ cur = [t \in Threads |-> Null]
    /\ old = [t \in Threads |-> Null]
    /\ want = [t \in Threads |-> 0]
    /\ held = [t \in Threads |-> {}]
    /\ obj = [t \in Threads |-> Null]
    /\ pending = [t \in Threads |-> FALSE]
    /\ lst = [t \in Threads |-> 1]
    /\ scan = [t \in Threads |-> Null]
    /\ seen = [t \in Threads |-> {}]
    /\ fenced = [t \in Threads |-> FALSE]
    /\ torn = FALSE

At(t, label) == pc[t] = label
Goto(t, label) == pc' = [pc EXCEPT ![t] = label]

-----------------------------------------------------------------------------
(* acquire: 117-139 *)

Acquire(t) ==
    /\ At(t, "idle")
    /\ want' = [want EXCEPT ![t] = SlotsWanted[t]]
    /\ cur' = [cur EXCEPT ![t] = head]
    /\ Goto(t, "seek")
    /\ UNCHANGED <<slotVars, listVars, clientVars, useVars, retVars, old, held>>

\* ptr[--size] = &(_node->_hazard); the next search goes on from this node.
Take(t, s) ==
    /\ held' = [held EXCEPT ![t] = @ \cup {s}]
    /\ want' = [want EXCEPT ![t] = @ - 1]
    /\ Goto(t, IF want[t] > 1 THEN "seek" ELSE "load")

\* Mutant: takes a slot that publishes nothing instead of one not in use.
SlotAvailableUnused(s) == hazard[s] = Null

\* _active.exchange(0) == 1
SlotAvailable(s) == active[s] = 1

ReuseSlot(t) ==
    /\ At(t, "seek")
    /\ cur[t] # Null
    /\ SlotAvailable(cur[t])
    /\ active' = [active EXCEPT ![cur[t]] = 0]
    /\ Take(t, cur[t])
    /\ UNCHANGED <<head, next, hazard, llen, listVars, clientVars, useVars, retVars,
                   cur, old>>

\* A failed exchange leaves 0 in place, and a node's next is written once, by
\* the thread that pushed it and holds it: reading both here loses nothing.
SkipSlot(t) ==
    /\ At(t, "seek")
    /\ cur[t] # Null
    /\ ~ SlotAvailable(cur[t])
    /\ cur' = [cur EXCEPT ![t] = next[cur[t]]]
    /\ UNCHANGED <<slotVars, listVars, clientVars, useVars, retVars, old, want,
                   held, pc>>

GrowList(t) ==
    /\ At(t, "seek")
    /\ cur[t] = Null
    /\ llen < MaxSlots
    /\ llen' = llen + 1
    /\ cur' = [cur EXCEPT ![t] = llen + 1]
    /\ active' = [active EXCEPT ![llen + 1] = 0]
    /\ Goto(t, "push")
    /\ UNCHANGED <<head, next, hazard, listVars, clientVars, useVars, retVars,
                   old, want, held>>

\* _node->next = _head.exchange(_node) is an exchange, then a store.
PushSlot(t) ==
    /\ At(t, "push")
    /\ old' = [old EXCEPT ![t] = head]
    /\ head' = cur[t]
    /\ Goto(t, "link")
    /\ UNCHANGED <<next, active, hazard, llen, listVars, clientVars, useVars, retVars,
                   cur, want, held>>

\* Mutant: _head.exchange(_node); _node->next = _head.
LinkSlotReread(t) ==
    /\ At(t, "link")
    /\ next' = [next EXCEPT ![cur[t]] = head]
    /\ old' = [old EXCEPT ![t] = Null]
    /\ Take(t, cur[t])
    /\ UNCHANGED <<head, active, hazard, llen, listVars, clientVars, useVars, retVars,
                   cur>>

LinkSlot(t) ==
    /\ At(t, "link")
    /\ next' = [next EXCEPT ![cur[t]] = old[t]]
    /\ old' = [old EXCEPT ![t] = Null]
    /\ Take(t, cur[t])
    /\ UNCHANGED <<head, active, hazard, llen, listVars, clientVars, useVars, retVars,
                   cur>>

-----------------------------------------------------------------------------
(* The client, with the slot acquire returned last: msque.h 122-140.  _hazard
   is a plain pointer: on x86 its store may stay in the store buffer while the
   loads after it run, and only a locked instruction drains the buffer.  The
   buffer holds one store here, so a thread loads again only after draining. *)

Load(t) ==
    /\ At(t, "load")
    /\ ~ pending[t]
    /\ obj' = [obj EXCEPT ![t] = link]
    /\ Goto(t, "publish")
    /\ UNCHANGED <<slotVars, listVars, clientVars, acqVars, retVars, pending, fenced>>

Publish(t) ==
    /\ At(t, "publish")
    /\ pending' = [pending EXCEPT ![t] = TRUE]
    /\ Goto(t, "check")
    /\ UNCHANGED <<slotVars, listVars, clientVars, acqVars, retVars, obj, fenced>>

Drain(t) ==
    /\ pending[t]
    /\ pending' = [pending EXCEPT ![t] = FALSE]
    /\ hazard' = [hazard EXCEPT ![cur[t]] = obj[t]]
    /\ UNCHANGED <<head, next, active, llen, listVars, clientVars, acqVars,
                   retVars, obj, fenced, pc>>

\* Mutant: the published pointer is used without a second look (as in push, 89).
ValidAtOnce(t) == obj[t] # Null

\* if (_hazard != _begin.load()) continue
Valid(t) == link = obj[t]

Validate(t) ==
    /\ At(t, "check")
    /\ fenced' = [fenced EXCEPT ![t] = ~ pending[t]]
    /\ Goto(t, IF Valid(t) THEN "use" ELSE "load")
    /\ UNCHANGED <<slotVars, listVars, clientVars, acqVars, retVars, obj, pending>>

\* The local variables are out of scope from here on.
EndUse(t) ==
    /\ obj' = [obj EXCEPT ![t] = Null]
    /\ fenced' = [fenced EXCEPT ![t] = FALSE]
    /\ Goto(t, "clear")

Abandon(t) ==
    /\ At(t, "use")
    /\ ~ pending[t]
    /\ EndUse(t)
    /\ UNCHANGED <<slotVars, listVars, clientVars, acqVars, retVars, pending>>

\* compare_exchange_strong replaces the object by a new one, or fails.
Unlink(t) ==
    /\ At(t, "use")
    /\ t \in Removers
    /\ ~ pending[t]
    /\ \/ /\ link = obj[t]
          /\ \E o \in free :
                /\ link' = o
                /\ free' = free \ {o}
          /\ Goto(t, "lock")
       \/ /\ link # obj[t]
          /\ Goto(t, "load")
          /\ UNCHANGED <<link, free>>
    /\ UNCHANGED <<slotVars, listVars, acqVars, useVars, retVars>>

-----------------------------------------------------------------------------
(* retire: 147-202 *)

\* Mutant: what the exchange returned is ignored.
ListAvailableAnyway(l) == unlocked[l] \in {0, 1}

\* active.exchange(0) of the recover lists in turn, for ever (150-163)
ListAvailable(l) == unlocked[l] = 1

LockList(t) ==
    /\ At(t, "lock")
    /\ ListAvailable(lst[t])
    /\ unlocked' = [unlocked EXCEPT ![lst[t]] = 0]
    /\ Goto(t, "size")
    /\ UNCHANGED <<slotVars, recover, clientVars, acqVars, useVars, retVars>>

\* Mutant: the search runs off the end of re_list_set.
NextListNoWrap(l) == l + 1

NextList(l) == (l % RecoverLists) + 1

SkipList(t) ==
    /\ At(t, "lock")
    /\ ~ ListAvailable(lst[t])
    /\ lst' = [lst EXCEPT ![t] = NextList(lst[t])]
    /\ UNCHANGED <<slotVars, listVars, clientVars, acqVars, useVars, scan, seen, torn, pc>>

\* 166
LongEnough(t) ==
    /\ Cardinality(recover[lst[t]]) >= RecoverLimit
    /\ Cardinality(recover[lst[t]]) > llen

CheckSize(t) ==
    /\ At(t, "size")
    /\ Goto(t, IF LongEnough(t) THEN "head" ELSE "store")
    /\ UNCHANGED <<slotVars, listVars, clientVars, acqVars, useVars, retVars>>

StartScan(t) ==
    /\ At(t, "head")
    /\ scan' = [scan EXCEPT ![t] = head]
    /\ seen' = [seen EXCEPT ![t] = {}]
    /\ Goto(t, "scan")
    /\ UNCHANGED <<slotVars, listVars, clientVars, acqVars, useVars, lst, torn>>

\* The thread that pushes a node publishes in it only after its next is stored,
\* so reading _hazard and next in one step loses no outcome.
HalfLinked(s) == \E u \in Threads : At(u, "link") /\ cur[u] = s

ScanSlot(t) ==
    /\ At(t, "scan")
    /\ scan[t] # Null
    /\ seen' = [seen EXCEPT ![t] = @ \cup ({hazard[scan[t]]} \ {Null})]
    /\ scan' = [scan EXCEPT ![t] = next[scan[t]]]
    /\ torn' = (torn \/ HalfLinked(scan[t]))
    /\ UNCHANGED <<slotVars, listVars, clientVars, acqVars, useVars, lst, pc>>

EndScan(t) ==
    /\ At(t, "scan")
    /\ scan[t] = Null
    /\ Goto(t, "sweep")
    /\ UNCHANGED <<slotVars, listVars, clientVars, acqVars, useVars, retVars>>

\* Mutant: freed pointers stay in re_vector.
KeptAll(t) == recover[lst[t]]

\* What the sweep loop (178-195) leaves in re_vector; it frees the others.
Kept(t) == recover[lst[t]] \cap seen[t]

Sweep(t) ==
    /\ At(t, "sweep")
    /\ free' = free \cup (recover[lst[t]] \ seen[t])
    /\ recover' = [recover EXCEPT ![lst[t]] = Kept(t)]
    /\ Goto(t, "store")
    /\ UNCHANGED <<slotVars, unlocked, link, acqVars, useVars, retVars>>

\* Mutant: the list is left locked.
StoreLocked(t) ==
    /\ At(t, "store")
    /\ recover' = [recover EXCEPT ![lst[t]] = @ \cup {obj[t]}]
    /\ lst' = [lst EXCEPT ![t] = 1]
    /\ seen' = [seen EXCEPT ![t] = {}]
    /\ EndUse(t)
    /\ UNCHANGED <<slotVars, unlocked, clientVars, acqVars, scan, torn, pending>>

\* push_back(p), then active.store(1); nobody else reads the list before that.
Store(t) ==
    /\ At(t, "store")
    /\ recover' = [recover EXCEPT ![lst[t]] = @ \cup {obj[t]}]
    /\ unlocked' = [unlocked EXCEPT ![lst[t]] = 1]
    /\ lst' = [lst EXCEPT ![t] = 1]
    /\ seen' = [seen EXCEPT ![t] = {}]
    /\ EndUse(t)
    /\ UNCHANGED <<slotVars, clientVars, acqVars, scan, torn, pending>>

-----------------------------------------------------------------------------
(* release, of each slot held: 141-144 *)

ClearSlot(t) ==
    /\ At(t, "clear")
    /\ \E s \in held[t] :
          /\ cur' = [cur EXCEPT ![t] = s]
          /\ hazard' = [hazard EXCEPT ![s] = Null]
    /\ Goto(t, "release")
    /\ UNCHANGED <<head, next, active, llen, listVars, clientVars, useVars,
                   retVars, old, want, held>>

ReleaseSlot(t) ==
    /\ At(t, "release")
    /\ active' = [active EXCEPT ![cur[t]] = 1]
    /\ held' = [held EXCEPT ![t] = @ \ {cur[t]}]
    /\ cur' = [cur EXCEPT ![t] = Null]
    /\ Goto(t, IF held[t] = {cur[t]} THEN "idle" ELSE "clear")
    /\ UNCHANGED <<head, next, hazard, llen, listVars, clientVars, useVars,
                   retVars, old, want>>

-----------------------------------------------------------------------------

Step(t) ==
    \/ Acquire(t) \/ ReuseSlot(t) \/ SkipSlot(t)
    \/ GrowList(t) \/ PushSlot(t) \/ LinkSlot(t)
    \/ Load(t) \/ Publish(t) \/ Drain(t) \/ Validate(t) \/ Abandon(t) \/ Unlink(t)
    \/ LockList(t) \/ SkipList(t) \/ CheckSize(t)
    \/ StartScan(t) \/ ScanSlot(t) \/ EndScan(t) \/ Sweep(t) \/ Store(t)
    \/ ClearSlot(t) \/ ReleaseSlot(t)

Next == \E t \in Threads : Step(t)

Spec == Init /\ [][Next]_vars

-----------------------------------------------------------------------------
(* Properties *)

Pushing(t) == pc[t] \in {"push", "link"}
Owned(t) == held[t] \cup (IF Pushing(t) THEN {cur[t]} ELSE {})

\* A slot serves one thread at a time: while a thread holds it, or is still
\* pushing it, no other thread holds it and acquire cannot hand it out again.
SlotExclusive ==
    \A t \in Threads :
        /\ \A s \in Owned(t) : active[s] = 0
        /\ \A u \in Threads \ {t} : Owned(t) \cap Owned(u) = {}

InList(t) == pc[t] \in {"size", "head", "scan", "sweep", "store"}

\* Between a successful exchange and the store of 1, a recover list belongs to
\* one thread, although re_vector itself is a plain std::vector.
RecoverExclusive ==
    \A t \in Threads : InList(t) =>
        /\ unlocked[lst[t]] = 0
        /\ \A u \in Threads \ {t} : InList(u) => lst[u] # lst[t]

\* A recover list that is locked is in the hands of a thread that will unlock it: none
\* stays locked after the retire that took it, or retire would come to spin for ever
\* over re_list_set (150).
NoListLeftLocked ==
    \A l \in Lists : unlocked[l] = 0 => \E t \in Threads : InList(t) /\ lst[t] = l

Retiring(t) == InList(t) \/ At(t, "lock")

\* No object is freed twice, lost or freed while linked: it is the one linked,
\* free, in one recover list, or in the hands of the one thread retiring it.
ObjectAccounting ==
    \A o \in Objects :
        Cardinality({l \in Lists : o \in recover[l]})
        + Cardinality({t \in Threads : Retiring(t) /\ obj[t] = o})
        + (IF o = link THEN 1 ELSE 0) + (IF o \in free THEN 1 ELSE 0) = 1

\* Where the thread at "link" will make the node point, next already counted.
NextOf(s) ==
    IF HalfLinked(s)
    THEN old[CHOOSE u \in Threads : At(u, "link") /\ cur[u] = s]
    ELSE next[s]

\* The slots within n nodes of _head.
Reach(n) ==
    LET r[k \in 0..n] ==
          IF k = 0 THEN {head}
          ELSE r[k-1] \cup ({NextOf(s) : s \in r[k-1]} \ {Null})
    IN r[n]

\* Every node allocated is in the list for good, however the pushes interleave:
\* counting the stores of next still to come, _head leads to all of them.
ChainComplete ==
    Reach(llen) = (1..llen) \ {cur[t] : t \in {u \in Threads : At(u, "push")}}

InUse(t) == At(t, "use") \/ Retiring(t)

\* A pointer published and then validated is not freed while in use, unless the
\* store of it was still in the buffer when it was validated, or some scan went
\* through a node whose next had not been stored yet.
Protected ==
    \A t \in Threads : InUse(t) /\ fenced[t] /\ ~ torn => obj[t] \notin free

\* Line 168, "scan hazard pointers list collecting all non-null ptrs": when a
\* thread sweeps, its scan has found every retired pointer another one validated.
ScanCollectsAll ==
    \A t, u \in Threads :
        At(t, "sweep") /\ At(u, "use") /\ fenced[u] /\ obj[u] \in recover[lst[t]]
            => obj[u] \in seen[t]
=============================================================================
