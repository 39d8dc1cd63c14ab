------------------------------ MODULE Mempool -------------------------------
(***************************************************************************)
(* pool/mempool.cpp, under objpool and factory: one block per processor,   *)
(* each with a mutex, a free list per length class and a map of larger     *)
(* chunks.  allocator tries every processor's mutex once and falls back to *)
(* malloc; deallocator goes round until a try_lock succeeds.  A free list  *)
(* is linked through the first word of the memory itself.                  *)
(***************************************************************************)
EXTENDS Integers, FiniteSets

CONSTANTS
    Threads,
    CoreNum,    \* corenum
    Lengths,    \* bound: the lengths asked for
    Heap,       \* bound: what malloc can still return
    MaxOwned,   \* bound: blocks a thread has at a time
    Null,
    Garbage     \* the first word of memory nobody has initialised, or user data

ASSUME ConstantsOk ==
    /\ CoreNum \in Nat \ {0}
    /\ Lengths \subseteq Nat \ {0}
    /\ MaxOwned \in Nat
    /\ Null # Garbage
    /\ Null \notin Heap \cup Threads
    /\ Garbage \notin Heap

Cores == 1..CoreNum
Classes == 0..10
K4 == 4096

\* Mutant: _1K and _2K are what their names say.
LimitIntended == [k \in Classes |-> IF k < 4 THEN <<8, 32, 128, 512>>[k + 1] ELSE 2^(k + 6)]

\* The bound of each class, in the order standardization_lenght tests them
\* (34-70): _1K is 32768 and _2K is 65536, so that classes 6 to 10 have no length.
Limit == [k \in Classes |->
    CASE k = 0 -> 8     [] k = 1 -> 32    [] k = 2 -> 128   [] k = 3 -> 512
      [] k = 4 -> 32768 [] k = 5 -> 65536 [] k = 6 -> 4096  [] k = 7 -> 8192
      [] k = 8 -> 16384 [] k = 9 -> 32768 [] k = 10 -> 65536]

Fits(len, k) == len <= Limit[k] /\ \A j \in 0..(k - 1) : len > Limit[j]
Small(len) == \E k \in Classes : Fits(len, k)
ClassOf(len) == CHOOSE k \in Classes : Fits(len, k)
StdLen(len) == IF Small(len) THEN Limit[ClassOf(len)] ELSE ((len + K4 - 1) \div K4) * K4

\* Only the free lists some length uses are kept.
Lists == Cores \X {ClassOf(len) : len \in {l \in Lengths : Small(l)}}
Blocks == Lists \cup Heap

ASSUME BlocksOk == {Null, Garbage} \cap Blocks = {} /\ Heap \cap Lists = {}

VARIABLES
    recvlist,       \* the head of each free list
    recvlistchunk,  \* pairs of a length and a block, of each processor
    mu,             \* the thread that holds each processor's mutex
    word,           \* the first word of each block
    capacity,       \* the bytes malloc was asked for
    heap,           \* blocks malloc has not returned yet
    owned,          \* blocks in use by each thread, with the length it asked for
    pc, index, len, mem,
    listed          \* history: the blocks each free list is meant to hold

poolVars == <<recvlist, recvlistchunk, listed>>
memVars == <<word, capacity, heap>>
vars == <<poolVars, mu, memVars, owned, pc, index, len, mem>>

Labels ==
    {"idle", "try", "search", "unhead", "malloc", "zero", "ftry", "put", "sethead"}

TypeOK ==
    /\ recvlist \in [Lists -> Blocks \cup {Null, Garbage}]
    /\ recvlistchunk \in [Cores -> SUBSET (Nat \X Blocks)]
    /\ mu \in [Cores -> Threads \cup {Null}]
    /\ word \in [Blocks -> Blocks \cup {Null, Garbage}]
    /\ capacity \in [Blocks -> Nat]
    /\ heap \subseteq Heap
    /\ owned \in [Threads -> SUBSET (Blocks \X Lengths)]
    /\ pc \in [Threads -> Labels]
    /\ index \in [Threads -> Cores]
    /\ len \in [Threads -> Lengths \cup {0}]
    /\ mem \in [Threads -> Blocks \cup {Null}]
    /\ listed \in [Lists -> SUBSET Blocks]

\* The constructor (90-114) gives every list one block; it clears the first word
\* of those of classes 0 to 4, and of none of the others.
Init ==
    /\ recvlist = [l \in Lists |-> l]
    /\ recvlistchunk = [c \in Cores |-> {}]
    /\ mu = [c \in Cores |-> Null]
    /\ word = [b \in Blocks |-> IF b \in Lists /\ b[2] <= 4 THEN Null ELSE Garbage]
    /\ capacity = [b \in Blocks |-> IF b \in Lists THEN Limit[b[2]] ELSE 0]
    /\ heap = Heap
    /\ owned = [t \in Threads |-> {}]
    /\ pc = [t \in Threads |-> "idle"]
    /\ index = [t \in Threads |-> 1]
    /\ len = [t \in Threads |-> 0]
    /\ mem = [t \in Threads |-> Null]
    /\ listed = [l \in Lists |-> {l}]

At(t, label) == pc[t] = label
Goto(t, label) == pc' = [pc EXCEPT ![t] = label]
ListOf(t) == <<index[t], ClassOf(len[t])>>
Unlock(t) == mu' = [mu EXCEPT ![index[t]] = Null]

\* The call returns: its variables are out of scope.
Return(t) ==
    /\ mem' = [mem EXCEPT ![t] = Null]
    /\ len' = [len EXCEPT ![t] = 0]
    /\ index' = [index EXCEPT ![t] = 1]
    /\ Goto(t, "idle")

-----------------------------------------------------------------------------
(* allocator: 132-171 *)

Allocating == {t \in Threads : pc[t] \in {"try", "search", "unhead", "malloc"}}

\* Bounds: malloc is never asked for more blocks than there are, nor owned too big.
AllocCall(t) ==
    /\ At(t, "idle")
    /\ Cardinality(heap) > Cardinality(Allocating)
    /\ Cardinality(owned[t]) < MaxOwned
    /\ \E l \in Lengths : len' = [len EXCEPT ![t] = l]
    /\ Goto(t, "try")
    /\ UNCHANGED <<poolVars, mu, memVars, owned, index, mem>>

\* Mutant: starts again at the first processor, as deallocator does.
NextCoreRound(t) ==
    /\ index' = [index EXCEPT ![t] = (index[t] % CoreNum) + 1]
    /\ Goto(t, "try")

\* Mutant: goes one processor too far.
NextCorePast(t) ==
    \/ /\ index[t] <= CoreNum
       /\ index' = [index EXCEPT ![t] = @ + 1]
       /\ Goto(t, "try")
    \/ /\ index[t] > CoreNum
       /\ Goto(t, "malloc")
       /\ UNCHANGED index

NextCore(t) ==
    \/ /\ index[t] < CoreNum
       /\ index' = [index EXCEPT ![t] = @ + 1]
       /\ Goto(t, "try")
    \/ /\ index[t] = CoreNum
       /\ Goto(t, "malloc")
       /\ UNCHANGED index

\* Mutant: the outcome of try_lock is not looked at.
LockFreeAnyway(c) == mu[c] \in Threads \cup {Null}

\* scoped_try_lock, owns_lock
LockFree(c) == mu[c] = Null

AllocLock(t) ==
    /\ At(t, "try")
    /\ \/ /\ LockFree(index[t])
          /\ mu' = [mu EXCEPT ![index[t]] = t]
          /\ Goto(t, "search")
          /\ UNCHANGED index
       \/ /\ ~ LockFree(index[t])
          /\ NextCore(t)
          /\ UNCHANGED mu
    /\ UNCHANGED <<poolVars, memVars, owned, len, mem>>

\* len <= _4K, after standardization_lenght has rounded len up (140).
Reusable(l) == Small(l) /\ StdLen(l) <= K4

TakeSmall(t) ==
    /\ At(t, "search")
    /\ Reusable(len[t])
    /\ recvlist[ListOf(t)] # Null
    /\ mem' = [mem EXCEPT ![t] = recvlist[ListOf(t)]]
    /\ Goto(t, "unhead")
    /\ UNCHANGED <<poolVars, mu, memVars, owned, index, len>>

Unhead(t) ==
    /\ At(t, "unhead")
    /\ recvlist' = [recvlist EXCEPT ![ListOf(t)] = word[mem[t]]]
    /\ listed' = [listed EXCEPT ![ListOf(t)] = @ \ {mem[t]}]
    /\ Unlock(t)
    /\ Goto(t, "zero")
    /\ UNCHANGED <<recvlistchunk, memVars, owned, index, len, mem>>

\* Mutant: the first chunk of the map, whatever its length.
FoundAny(t) == recvlistchunk[index[t]]

\* lower_bound: the shortest chunk that is long enough.
Found(t) ==
    {e \in recvlistchunk[index[t]] :
        /\ e[1] >= StdLen(len[t])
        /\ \A f \in recvlistchunk[index[t]] : f[1] >= StdLen(len[t]) => e[1] <= f[1]}

\* The chunk found stays in the map (146-149).
TakeChunk(t) ==
    /\ At(t, "search")
    /\ ~ Small(len[t])
    /\ \E e \in Found(t) : mem' = [mem EXCEPT ![t] = e[2]]
    /\ Unlock(t)
    /\ Goto(t, "zero")
    /\ UNCHANGED <<poolVars, memVars, owned, index, len>>

TakeNothing(t) ==
    /\ At(t, "search")
    /\ \/ Small(len[t]) /\ ~ Reusable(len[t])
       \/ Reusable(len[t]) /\ recvlist[ListOf(t)] = Null
       \/ ~ Small(len[t]) /\ Found(t) = {}
    /\ Unlock(t)
    /\ NextCore(t)
    /\ UNCHANGED <<poolVars, memVars, owned, len, mem>>

Malloc(t) ==
    /\ At(t, "malloc")
    /\ \E b \in heap :
          /\ heap' = heap \ {b}
          /\ capacity' = [capacity EXCEPT ![b] = StdLen(len[t])]
          /\ mem' = [mem EXCEPT ![t] = b]
    /\ Goto(t, "zero")
    /\ UNCHANGED <<poolVars, mu, word, owned, index, len>>

\* memset(mem, 0, len) and the return, outside the lock.
Zero(t) ==
    /\ At(t, "zero")
    /\ word' = [word EXCEPT ![mem[t]] = Null]
    /\ owned' = [owned EXCEPT ![t] = @ \cup {<<mem[t], len[t]>>}]
    /\ Return(t)
    /\ UNCHANGED <<poolVars, mu, capacity, heap>>

-----------------------------------------------------------------------------
(* deallocator: 173-198 *)

\* The caller has filled the block with data of its own.
FreeCall(t) ==
    /\ At(t, "idle")
    /\ \E e \in owned[t] :
          /\ owned' = [owned EXCEPT ![t] = @ \ {e}]
          /\ mem' = [mem EXCEPT ![t] = e[1]]
          /\ len' = [len EXCEPT ![t] = e[2]]
          /\ word' = [word EXCEPT ![e[1]] = Garbage]
    /\ Goto(t, "ftry")
    /\ UNCHANGED <<poolVars, mu, capacity, heap, index>>

FreeLock(t) ==
    /\ At(t, "ftry")
    /\ \/ /\ LockFree(index[t])
          /\ mu' = [mu EXCEPT ![index[t]] = t]
          /\ Goto(t, "put")
          /\ UNCHANGED index
       \/ /\ ~ LockFree(index[t])
          /\ index' = [index EXCEPT ![t] = (index[t] % CoreNum) + 1]
          /\ UNCHANGED <<mu, pc>>
    /\ UNCHANGED <<poolVars, memVars, owned, len, mem>>

PutSmall(t) ==
    /\ At(t, "put")
    /\ Small(len[t])
    /\ word' = [word EXCEPT ![mem[t]] = recvlist[ListOf(t)]]
    /\ Goto(t, "sethead")
    /\ UNCHANGED <<poolVars, mu, capacity, heap, owned, index, len, mem>>

SetHead(t) ==
    /\ At(t, "sethead")
    /\ recvlist' = [recvlist EXCEPT ![ListOf(t)] = mem[t]]
    /\ listed' = [listed EXCEPT ![ListOf(t)] = @ \cup {mem[t]}]
    /\ Unlock(t)
    /\ Return(t)
    /\ UNCHANGED <<recvlistchunk, memVars, owned>>

\* insert changes nothing if the map has a chunk of that length already (184).
PutChunk(t) ==
    /\ At(t, "put")
    /\ ~ Small(len[t])
    /\ LET l == StdLen(len[t])
           isNew == \A e \in recvlistchunk[index[t]] : e[1] # l
       IN recvlistchunk' = IF isNew
                           THEN [recvlistchunk EXCEPT ![index[t]] = @ \cup {<<l, mem[t]>>}]
                           ELSE recvlistchunk
    /\ Unlock(t)
    /\ Return(t)
    /\ UNCHANGED <<recvlist, listed, memVars, owned>>

-----------------------------------------------------------------------------

Step(t) ==
    \/ AllocCall(t) \/ AllocLock(t) \/ TakeSmall(t) \/ Unhead(t) \/ TakeChunk(t)
    \/ TakeNothing(t) \/ Malloc(t) \/ Zero(t)
    \/ FreeCall(t) \/ FreeLock(t) \/ PutSmall(t) \/ SetHead(t) \/ PutChunk(t)

Next == \E t \in Threads : Step(t)

Spec == Init /\ [][Next]_vars

\* Every thread inside a call is scheduled again; none has to start a call.
FairSpec == Spec /\ \A t \in Threads : WF_vars(Step(t) /\ pc[t] # "idle")

-----------------------------------------------------------------------------
(* Properties *)

SmallOwned(t) == {e \in owned[t] : Small(e[2])}

\* The block of a small request a call is about to return, or was given back.
InHand(t) ==
    IF pc[t] \in {"zero", "ftry", "put", "sethead"} /\ Small(len[t]) THEN {mem[t]} ELSE {}
Holds(t) == {e[1] : e \in SmallOwned(t)} \cup InHand(t)

\* Memory of a small class has one user: no two threads hold the same block, a
\* thread does not hold one twice, and none holds a block that is in a free list.
SmallExclusive ==
    /\ \A t \in Threads :
          /\ \A l \in Lists : Holds(t) \cap listed[l] = {}
          /\ \A e, f \in SmallOwned(t) : e[1] = f[1] => e = f
          /\ \A e \in SmallOwned(t) : e[1] \notin InHand(t)
    /\ \A t, u \in Threads : t # u => Holds(t) \cap Holds(u) = {}

Reused == {l \in Lists : Limit[l[2]] <= K4}

\* The links of the lists blocks are taken from, spread over recvlist and the
\* blocks themselves, lead to blocks of the same list, each of them once, and end
\* once: no link was overwritten by a user, was never initialised, or leads to a
\* block in use, and no block was cut off.
ListsIntact ==
    \A l \in Reused :
        /\ recvlist[l] \in listed[l] \cup {Null}
        /\ \A b \in listed[l] :
              /\ word[b] \in listed[l] \cup {Null}
              /\ word[b] # recvlist[l]
              /\ \A c \in listed[l] : word[b] = word[c] => b = c
        /\ \A m \in Lists \ {l} : listed[l] \cap listed[m] = {}

\* Whoever asked for len bytes has a block of at least len bytes.
BigEnough ==
    \A t \in Threads : \A e \in owned[t] : capacity[e[1]] >= e[2]

\* allocator waits for nobody: it returns even if all mutexes stay locked.
AllocReturns == \A t \in Threads : At(t, "try") ~> At(t, "idle")
=============================================================================
