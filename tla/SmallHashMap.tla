---------------------------- MODULE SmallHashMap ----------------------------
(***************************************************************************)
(* container/small_hash_map.h: an array of buckets, each with a std::map   *)
(* that its first insert creates and a shared mutex; each element has a    *)
(* mutex of its own.  search and set hold the bucket's mutex shared while  *)
(* they use an element, insert and erase take it for upgrade, look, and    *)
(* upgrade it to change the std::map.  for_each goes over the buckets.     *)
(*                                                                         *)
(* boost::shared_mutex is modelled by its promise: any number of shared    *)
(* holders, beside them one upgrade holder, who becomes the unique one     *)
(* when they have left; new shared holders may enter while it waits (so it *)
(* is in win32/shared_mutex.hpp, unlock_upgrade_and_lock).                 *)
(*                                                                         *)
(* The insert that creates a bucket's map goes on without its mutex        *)
(* (115-120): it is loose.  A bucket where another call took the mutex     *)
(* meanwhile is in met.                                                    *)
(***************************************************************************)
EXTENDS Integers, FiniteSets

CONSTANTS
    Threads,
    Keys,           \* numbers, in the order of std::less
    Hash,           \* their indexes into _hash_array
    Values,
    Absent, None,
    SizeMod,        \* _size is of that many values: 2^32
    Memory          \* what the memory of a new map's _size may hold

Buckets == {Hash[k] : k \in Keys}   \* the others have no map, ever

ASSUME ConstantsOk ==
    /\ Keys \subseteq Int /\ Keys # {} /\ IsFiniteSet(Keys)
    /\ Hash \in [Keys -> Nat]       \* not so for negative int64_t keys (259)
    /\ Absent \notin Values \cup Keys /\ None \notin Threads
    /\ SizeMod \in Nat \ {0}
    /\ Memory \subseteq 0..SizeMod - 1

VARIABLES
    created,                    \* buckets whose _hash_bucket is not 0
    value,                      \* the elements of the maps
    shared, upgrade, unique,    \* the holders of each bucket's mutex
    nshared, nunique,           \* the holders of each element's mutex
    size,                       \* _size
    loose,      \* history: threads whose insert has created the map of its bucket
    met,        \* history: buckets whose mutex was taken while an insert there was loose
    pc, op, key, item, found,   \* of each thread: its call, and what it returns
    bkt, seen                   \* the bucket it is in; the keys for_each has handled there

mapVars == <<created, value>>
bucketVars == <<shared, upgrade, unique>>
nodeVars == <<nshared, nunique>>
callVars == <<op, key, item, found, bkt, seen>>
vars == <<mapVars, bucketVars, nodeVars, size, met, loose, pc, callVars>>

Ops == {"search", "set", "insert", "erase", "for_each"}

TypeOK ==
    /\ created \subseteq Buckets
    /\ value \in [Keys -> Values \cup {Absent}]
    /\ shared \in [Buckets -> SUBSET Threads]
    /\ upgrade \in [Buckets -> Threads \cup {None}]
    /\ unique \in [Buckets -> Threads \cup {None}]
    /\ nshared \in [Keys -> SUBSET Threads]
    /\ nunique \in [Keys -> Threads \cup {None}]
    /\ size \in 0..SizeMod - 1
    /\ met \subseteq Buckets
    /\ loose \subseteq Threads
    /\ pc \in [Threads -> {"idle", "lock", "create", "find", "node", "access", "add", "adding",
                           "remove", "removing", "count", "unlock", "each", "next", "handle"}]
    /\ op \in [Threads -> Ops \cup {"none"}]
    /\ key \in [Threads -> Keys \cup {Absent}]
    /\ item \in [Threads -> Values \cup {Absent}]
    /\ found \in [Threads -> BOOLEAN]
    /\ bkt \in [Threads -> Buckets \cup {None}]
    /\ seen \in [Threads -> SUBSET Keys]

\* The constructor (49-53) leaves _size as the memory was.
Init ==
    /\ created = {}
    /\ value = [k \in Keys |-> Absent]
    /\ shared = [b \in Buckets |-> {}]
    /\ upgrade = [b \in Buckets |-> None]
    /\ unique = [b \in Buckets |-> None]
    /\ nshared = [k \in Keys |-> {}]
    /\ nunique = [k \in Keys |-> None]
    /\ size \in Memory
    /\ met = {}
    /\ loose = {}
    /\ pc = [t \in Threads |-> "idle"]
    /\ op = [t \in Threads |-> "none"]
    /\ key = [t \in Threads |-> Absent]
    /\ item = [t \in Threads |-> Absent]
    /\ found = [t \in Threads |-> FALSE]
    /\ bkt = [t \in Threads |-> None]
    /\ seen = [t \in Threads |-> {}]

At(t, label) == pc[t] = label
Goto(t, label) == pc' = [pc EXCEPT ![t] = label]

-----------------------------------------------------------------------------
(* A call, and the mutex of its bucket *)

Call(t, o, k) ==
    /\ At(t, "idle")
    /\ \E v \in IF o \in {"set", "insert"} THEN Values ELSE {Absent} :
          item' = [item EXCEPT ![t] = v]
    /\ op' = [op EXCEPT ![t] = o]
    /\ key' = [key EXCEPT ![t] = k]
    /\ bkt' = [bkt EXCEPT ![t] = Hash[k]]
    /\ Goto(t, "lock")
    /\ UNCHANGED <<mapVars, bucketVars, nodeVars, size, met, loose, found, seen>>

\* An insert whose lock went with unique_lock into the block that created the map.
Loose(t) ==
    /\ t \in loose
    /\ pc[t] \in {"find", "node", "access", "add", "adding"}

\* What a lock of bucket b adds to met.
Meet(b) == met' = met \cup {bkt[u] : u \in {v \in Threads : Loose(v) /\ bkt[v] = b}}

\* 87, 144
LockShared(t) ==
    /\ At(t, "lock")
    /\ op[t] \in {"search", "set"}
    /\ unique[bkt[t]] = None
    /\ shared' = [shared EXCEPT ![bkt[t]] = @ \cup {t}]
    /\ Goto(t, "find")
    /\ Meet(bkt[t])
    /\ UNCHANGED <<mapVars, upgrade, unique, nodeVars, size, loose, callVars>>

\* 109-112, 169-171
LockUpgrade(t) ==
    LET b == bkt[t]
    IN  /\ At(t, "lock")
        /\ op[t] \in {"insert", "erase"}
        /\ unique[b] = None /\ upgrade[b] = None
        /\ upgrade' = [upgrade EXCEPT ![b] = t]
        /\ Goto(t, IF op[t] = "insert" /\ b \notin created THEN "create" ELSE "find")
        /\ Meet(b)
        /\ UNCHANGED <<mapVars, shared, unique, nodeVars, size, loose, callVars>>

\* Mutant: the upgrade does not wait for the shared holders.
NoReadersAnyway(b) == shared[b] \subseteq Threads

NoReaders(b) == shared[b] = {}

\* The mutex is moved to unique_lock, which frees it at the end of the block (115-119).
CreateMap(t) ==
    /\ At(t, "create")
    /\ NoReaders(bkt[t])
    /\ created' = created \cup {bkt[t]}
    /\ upgrade' = [upgrade EXCEPT ![bkt[t]] = None]
    /\ Goto(t, "find")
    /\ loose' = loose \cup {t}
    /\ UNCHANGED <<value, shared, unique, nodeVars, size, met, callVars>>

\* Where find (90, 122, 151, 176) leads.
AfterFind(t) ==
    IF value[key[t]] = Absent
    THEN IF op[t] = "insert" THEN "add" ELSE "unlock"
    ELSE IF op[t] = "erase" THEN "remove" ELSE "node"

Find(t) ==
    /\ At(t, "find")
    /\ Goto(t, AfterFind(t))
    /\ UNCHANGED <<mapVars, bucketVars, nodeVars, size, met, loose, callVars>>

\* Mutant: the mutex is let go, and taken uniquely later, instead of upgraded.
UpgradeAnew(t) ==
    LET b == bkt[t]
    IN  /\ pc[t] \in {"add", "remove"}
        /\ \/ /\ upgrade[b] = t
              /\ upgrade' = [upgrade EXCEPT ![b] = None]
              /\ UNCHANGED <<unique, pc>>
           \/ /\ upgrade[b] = None /\ unique[b] = None /\ NoReaders(b)
              /\ unique' = [unique EXCEPT ![b] = t]
              /\ Goto(t, IF At(t, "add") THEN "adding" ELSE "removing")
              /\ UNCHANGED upgrade
        /\ UNCHANGED <<mapVars, shared, nodeVars, size, met, loose, callVars>>

\* 127, 181.  After CreateMap there is no lock left to move: nothing is locked.
Upgrade(t) ==
    LET b == bkt[t]
    IN  /\ pc[t] \in {"add", "remove"}
        /\ \/ /\ upgrade[b] = t
              /\ NoReaders(b)
              /\ upgrade' = [upgrade EXCEPT ![b] = None]
              /\ unique' = [unique EXCEPT ![b] = t]
           \/ /\ upgrade[b] # t
              /\ UNCHANGED <<upgrade, unique>>
        /\ Goto(t, IF At(t, "add") THEN "adding" ELSE "removing")
        /\ UNCHANGED <<mapVars, shared, nodeVars, size, met, loose, callVars>>

-----------------------------------------------------------------------------
(* The element *)

\* Mutant: a writer does not wait for the readers of an element.
NodeFreeOfWriters(k) == nunique[k] = None

NodeFree(k) == nunique[k] = None /\ nshared[k] = {}

\* 95, 124, 156
LockNode(t) ==
    LET k == key[t]
    IN  /\ At(t, "node")
        /\ \/ /\ op[t] = "search"
              /\ nunique[k] = None
              /\ nshared' = [nshared EXCEPT ![k] = @ \cup {t}]
              /\ UNCHANGED nunique
           \/ /\ op[t] # "search"
              /\ NodeFree(k)
              /\ nunique' = [nunique EXCEPT ![k] = t]
              /\ UNCHANGED nshared
        /\ Goto(t, "access")
        /\ UNCHANGED <<mapVars, bucketVars, size, met, loose, callVars>>

UnlockNode(t, k) ==
    /\ nshared' = [nshared EXCEPT ![k] = @ \ {t}]
    /\ nunique' = [nunique EXCEPT ![k] = IF @ = t THEN None ELSE @]

\* 97, 125, 157
Access(t) ==
    LET k == key[t]
    IN  /\ At(t, "access")
        /\ \/ /\ op[t] = "search"
              /\ item' = [item EXCEPT ![t] = value[k]]
              /\ UNCHANGED value
           \/ /\ op[t] # "search"
              /\ value' = [value EXCEPT ![k] = item[t]]
              /\ UNCHANGED item
        /\ found' = [found EXCEPT ![t] = TRUE]
        /\ UnlockNode(t, k)
        /\ Goto(t, IF op[t] = "insert" THEN "count" ELSE "unlock")
        /\ UNCHANGED <<created, bucketVars, size, met, loose, op, key, bkt, seen>>

UniqueFreed(t) == unique' = [unique EXCEPT ![bkt[t]] = IF @ = t THEN None ELSE @]

\* 129-131: map::insert keeps an element that is there.  The block ends, and with it
\* its lock.
Add(t) ==
    /\ At(t, "adding")
    /\ value' = [value EXCEPT ![key[t]] = IF @ = Absent THEN item[t] ELSE @]
    /\ found' = [found EXCEPT ![t] = TRUE]
    /\ UniqueFreed(t)
    /\ Goto(t, "count")
    /\ UNCHANGED <<created, shared, upgrade, nodeVars, size, met, loose>>
    /\ UNCHANGED <<op, key, item, bkt, seen>>

\* 183, the node is not freed.
Remove(t) ==
    /\ At(t, "removing")
    /\ value' = [value EXCEPT ![key[t]] = Absent]
    /\ found' = [found EXCEPT ![t] = TRUE]
    /\ Goto(t, "count")
    /\ UNCHANGED <<created, bucketVars, nodeVars, size, met, loose, op, key, item, bkt, seen>>

\* Mutant: _size goes below zero.
CountedNoWrap(t) == IF op[t] = "insert" THEN size + 1 ELSE size - 1

Counted(t) == IF op[t] = "insert" THEN (size + 1) % SizeMod ELSE (size - 1) % SizeMod

\* 134, 185
Count(t) ==
    /\ At(t, "count")
    /\ size' = Counted(t)
    /\ Goto(t, "unlock")
    /\ UNCHANGED <<mapVars, bucketVars, nodeVars, met, loose, callVars>>

\* The locks still held are let go.
Return(t) ==
    /\ At(t, "unlock")
    /\ shared' = [shared EXCEPT ![bkt[t]] = @ \ {t}]
    /\ upgrade' = [upgrade EXCEPT ![bkt[t]] = IF @ = t THEN None ELSE @]
    /\ UniqueFreed(t)
    /\ op' = [op EXCEPT ![t] = "none"]
    /\ key' = [key EXCEPT ![t] = Absent]
    /\ item' = [item EXCEPT ![t] = Absent]
    /\ found' = [found EXCEPT ![t] = FALSE]
    /\ bkt' = [bkt EXCEPT ![t] = None]
    /\ Goto(t, "idle")
    /\ loose' = loose \ {t}
    /\ UNCHANGED <<mapVars, nodeVars, size, met, seen>>

-----------------------------------------------------------------------------
(* for_each: 67-78.  What the handler does with a value is the caller's. *)

\* On to the first bucket of the array, or to the one after b.
NextBucket(t, b) ==
    LET later == {c \in Buckets : b = None \/ c > b}
    IN  \E c \in later :
            /\ \A d \in later : c <= d
            /\ bkt' = [bkt EXCEPT ![t] = c]

LastBucket(b) == \A c \in Buckets : c <= b

Present(b) == {k \in Keys : Hash[k] = b /\ value[k] # Absent}

\* What the iterator has still to come to: iter++ follows the order of the keys.
Ahead(t) == {k \in Present(bkt[t]) : \A j \in seen[t] : k > j}

ForEach(t) ==
    /\ At(t, "idle")
    /\ op' = [op EXCEPT ![t] = "for_each"]
    /\ NextBucket(t, None)
    /\ Goto(t, "each")
    /\ UNCHANGED <<mapVars, bucketVars, nodeVars, size, met, loose, key, item, found, seen>>

\* Mutant: only the elements are locked.
EachUnlocked(t) ==
    /\ At(t, "each")
    /\ Goto(t, "next")
    /\ UNCHANGED <<mapVars, bucketVars, nodeVars, size, met, loose, callVars>>

Each(t) ==
    /\ At(t, "each")
    /\ unique[bkt[t]] = None
    /\ shared' = [shared EXCEPT ![bkt[t]] = @ \cup {t}]
    /\ Goto(t, "next")
    /\ Meet(bkt[t])
    /\ UNCHANGED <<mapVars, upgrade, unique, nodeVars, size, loose, callVars>>

NextElement(t) ==
    /\ At(t, "next")
    /\ \E k \in Ahead(t) :
          /\ \A j \in Ahead(t) : k <= j
          /\ nunique[k] = None
          /\ nshared' = [nshared EXCEPT ![k] = @ \cup {t}]
          /\ key' = [key EXCEPT ![t] = k]
    /\ Goto(t, "handle")
    /\ UNCHANGED <<mapVars, bucketVars, nunique, size, met, loose, op, item, found, bkt, seen>>

HandleElement(t) ==
    /\ At(t, "handle")
    /\ seen' = [seen EXCEPT ![t] = @ \cup {key[t]}]
    /\ UnlockNode(t, key[t])
    /\ key' = [key EXCEPT ![t] = Absent]
    /\ Goto(t, "next")
    /\ UNCHANGED <<mapVars, bucketVars, size, met, loose, op, item, found, bkt>>

EachDone(t) ==
    /\ At(t, "next")
    /\ Ahead(t) = {}
    /\ shared' = [shared EXCEPT ![bkt[t]] = @ \ {t}]
    /\ seen' = [seen EXCEPT ![t] = {}]
    /\ \/ /\ LastBucket(bkt[t])
          /\ bkt' = [bkt EXCEPT ![t] = None]
          /\ op' = [op EXCEPT ![t] = "none"]
          /\ Goto(t, "idle")
       \/ /\ NextBucket(t, bkt[t])
          /\ Goto(t, "each")
          /\ UNCHANGED op
    /\ UNCHANGED <<mapVars, upgrade, unique, nodeVars, size, met, loose, key, item, found>>

-----------------------------------------------------------------------------

Changing(t) == pc[t] \in {"adding", "removing"}
Walking(t) == pc[t] \in {"find", "next"}
Using(t) == pc[t] \in {"node", "access", "remove", "handle"}

\* set follows a null pointer to the map where no insert has been (90), a map is changed
\* while another thread walks or changes it, or an element is taken out of it that
\* another thread has found there.
Undefined ==
    \/ \E t \in Threads : At(t, "find") /\ op[t] = "set" /\ bkt[t] \notin created
    \/ \E t, u \in Threads :
          /\ t # u /\ bkt[t] = bkt[u] /\ Changing(t)
          /\ Changing(u) \/ Walking(u) \/ (At(t, "removing") /\ Using(u) /\ key[t] = key[u])

Step(t) ==
    \/ LockShared(t) \/ LockUpgrade(t) \/ CreateMap(t) \/ Find(t) \/ Upgrade(t)
    \/ LockNode(t) \/ Access(t) \/ Add(t) \/ Remove(t) \/ Count(t) \/ Return(t)
    \/ Each(t) \/ NextElement(t) \/ HandleElement(t) \/ EachDone(t)

\* What an undefined state leads to is not modelled.
Next ==
    \/ /\ ~ Undefined
       /\ \E t \in Threads :
             \/ \E o \in Ops \ {"for_each"}, k \in Keys : Call(t, o, k)
             \/ ForEach(t)
             \/ Step(t)
    \/ Undefined /\ UNCHANGED vars

Spec == Init /\ [][Next]_vars

-----------------------------------------------------------------------------
(* Properties *)

Following(t) == Walking(t) \/ Using(t) \/ At(t, "add")

\* A std::map is changed by one thread while no other looks into it or holds an
\* iterator or an element it found there: what shared, upgrade and unique are for.
\* Where that is not so one of the two is the insert that made the map, which holds
\* no mutex after 115-120.
MapExclusive ==
    \A t, u \in Threads :
        /\ t # u /\ bkt[t] = bkt[u] /\ Changing(t) /\ (Changing(u) \/ Following(u))
        => Loose(t) \/ Loose(u)

Writing(t) == At(t, "access") /\ op[t] # "search"

\* An element's value is not written while another thread reads or writes it, though
\* set writes with the bucket's mutex held shared, like those who read.
NodeExclusive ==
    \A t, u \in Threads :
        t # u /\ Writing(t) /\ pc[u] \in {"access", "handle"} => key[t] # key[u]

\* size() is the "hash_map size" (190-192): between calls, the number of elements.
SizeIsCount ==
    (\A t \in Threads : At(t, "idle")) => size = Cardinality({k \in Keys : value[k] # Absent})

\* for_each handles every element of a bucket once: those behind its iterator are the
\* ones it has handled, whatever the others do meanwhile.  It may be otherwise only in
\* a bucket in met.
EachOnce ==
    \A t \in Threads :
        pc[t] \in {"next", "handle"} /\ bkt[t] \notin met => Present(bkt[t]) = seen[t] \cup Ahead(t)

\* small_hash_map is a linearizable dictionary.  A call takes effect where it reads or
\* writes a value, changes the std::map, or finds nothing there.  Of the keys of a bucket
\* in met nothing is promised any more.
Abstract == INSTANCE LinMap WITH
    dict <- value,
    lost <- {k \in Keys : Hash[k] \in met},
    op <- [t \in Threads |-> IF op[t] = "for_each" THEN "none" ELSE op[t]],
    key <- [t \in Threads |-> IF op[t] = "for_each" THEN Absent ELSE key[t]],
    state <- [t \in Threads |->
                 CASE op[t] \in {"none", "for_each"} -> "idle"
                   [] pc[t] \in {"count", "unlock"} -> "done"
                   [] OTHER -> "called"]

Linearizable == Abstract!Spec
=============================================================================
