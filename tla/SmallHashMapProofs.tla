------------------------- MODULE SmallHashMapProofs -------------------------
(***************************************************************************)
(* For any number of threads, keys and buckets: elements are exclusive, so *)
(* are the maps but for the insert that made them, and outside the buckets *)
(* where that insert met another call for_each handles each element once   *)
(* and the map is a linearizable dictionary.                               *)
(***************************************************************************)
EXTENDS SmallHashMap, TLAPS

CallLabels == {"lock", "create", "find", "node", "access", "add", "adding",
               "remove", "removing", "count", "unlock"}
EachLabels == {"each", "next", "handle"}

\* What the variables of a call hold, by where it is.
CallsOk ==
    \A t \in Threads :
        /\ pc[t] = "idle" => op[t] = "none"
        /\ pc[t] \in CallLabels =>
              /\ op[t] \in Ops \ {"for_each"}
              /\ key[t] \in Keys
              /\ bkt[t] = Hash[key[t]]
              /\ op[t] \in {"set", "insert"} => item[t] \in Values
        /\ pc[t] \in EachLabels => op[t] = "for_each" /\ bkt[t] \in Buckets
        /\ pc[t] \notin {"next", "handle"} => seen[t] = {}
        /\ pc[t] = "handle" => key[t] \in Keys
        /\ pc[t] \in {"create", "add", "adding"} => op[t] = "insert"
        /\ pc[t] \in {"remove", "removing"} => op[t] = "erase"
        /\ pc[t] = "count" => op[t] \in {"insert", "erase"}
        /\ pc[t] \in {"node", "access"} => op[t] # "erase"
        /\ t \in loose => pc[t] \in CallLabels \ {"lock", "create"} /\ op[t] = "insert"

\* A map is made once, by an insert that then is loose.
MadeOk ==
    \A t \in Threads :
        /\ pc[t] = "create" => bkt[t] \notin created
        /\ Loose(t) => bkt[t] \in created

\* Who needs the bucket's mutex, loose or not.
Inside(t) == Following(t) \/ Changing(t) \/ pc[t] = "create"

\* Another call is beside a loose insert only in a bucket of met.
LooseApart ==
    \A t, u \in Threads :
        t # u /\ Loose(t) /\ Inside(u) /\ bkt[u] = bkt[t] => bkt[t] \in met

\* A bucket's mutex is held by one thread or shared, and who uses the map holds it.
BucketHolder(b) == unique[b] # None => shared[b] = {} /\ upgrade[b] = None
HoldsBucket(t) ==
    /\ op[t] \in {"search", "set"} /\ pc[t] \in {"find", "node", "access"} => t \in shared[bkt[t]]
    /\ pc[t] \in {"next", "handle"} => t \in shared[bkt[t]]
    /\ pc[t] = "create" => upgrade[bkt[t]] = t
    /\ op[t] \in {"insert", "erase"} /\ pc[t] \in {"find", "node", "access", "add", "remove"} =>
          upgrade[bkt[t]] = t \/ Loose(t)
    /\ pc[t] \in {"adding", "removing"} => unique[bkt[t]] = t \/ Loose(t)
BucketLocks == (\A b \in Buckets : BucketHolder(b)) /\ (\A t \in Threads : HoldsBucket(t))

\* The same for the mutex of an element and its value.
NodeHolder(k) == nunique[k] # None => nshared[k] = {}
HoldsNode(t) ==
    /\ Writing(t) => nunique[key[t]] = t
    /\ pc[t] = "access" /\ op[t] = "search" => t \in nshared[key[t]]
    /\ pc[t] = "handle" => t \in nshared[key[t]]
NodeLocks == (\A k \in Keys : NodeHolder(k)) /\ (\A t \in Threads : HoldsNode(t))

IInv == TypeOK /\ CallsOk /\ MadeOk /\ LooseApart /\ BucketLocks /\ NodeLocks

\* The constructor establishes the invariant.
LEMMA InitIInv == Init => IInv
<1> SUFFICES ASSUME Init PROVE IInv
    OBVIOUS
<1> USE ConstantsOk DEF Init
<1>1. TypeOK
    BY DEF TypeOK, Ops
<1>2. CallsOk /\ MadeOk /\ LooseApart /\ BucketLocks /\ NodeLocks
    BY DEF CallsOk, CallLabels, EachLabels, MadeOk, LooseApart, Loose, BucketLocks, BucketHolder,
           HoldsBucket, NodeLocks, NodeHolder, HoldsNode, Writing, At
<1>. QED BY <1>1, <1>2 DEF IInv

\* The actions of thread t, grouped as in SmallHashMap.
Start(t) == ForEach(t) \/ \E o \in Ops \ {"for_each"}, k \in Keys : Call(t, o, k)
LockStep(t) == LockShared(t) \/ LockUpgrade(t) \/ CreateMap(t) \/ Find(t) \/ Upgrade(t)
ItemStep(t) == LockNode(t) \/ Access(t) \/ Add(t) \/ Remove(t) \/ Count(t) \/ Return(t)
EachStep(t) == Each(t) \/ NextElement(t) \/ HandleElement(t) \/ EachDone(t)
ThreadStep(t) == Start(t) \/ LockStep(t) \/ ItemStep(t) \/ EachStep(t)

\* A step of the system is a step of one thread, or there is none.
LEMMA StepCases ==
    ASSUME [Next]_vars
    PROVE (\E t \in Threads : ThreadStep(t)) \/ UNCHANGED vars
BY DEF Next, Step, ThreadStep, Start, LockStep, ItemStep, EachStep

\* Numbers modulo SizeMod.
LEMMA SizeRange ==
    ASSUME NEW n \in 0..SizeMod - 1
    PROVE (n + 1) % SizeMod \in 0..SizeMod - 1 /\ (n - 1) % SizeMod \in 0..SizeMod - 1
BY ConstantsOk

\* The bucket of a key is a number, as are those of all keys.
LEMMA HashTypes ==
    /\ Buckets \subseteq Nat
    /\ \A k \in Keys : Hash[k] \in Buckets
BY ConstantsOk DEF Buckets

\* Those of loose inserts too.
LEMMA MeetType ==
    ASSUME TypeOK, CallsOk, NEW b, Meet(b)
    PROVE met' \subseteq Buckets
<1>1. ASSUME NEW u \in Threads, Loose(u) PROVE bkt[u] \in Buckets
    BY <1>1, HashTypes DEF Loose, CallsOk, CallLabels
<1>. QED BY <1>1 DEF Meet, TypeOK

\* A step keeps the types.
LEMMA TypeStep ==
    ASSUME IInv, NEW t \in Threads, ThreadStep(t)
    PROVE TypeOK'
<1> USE ConstantsOk, HashTypes DEF IInv, TypeOK, CallsOk, CallLabels, EachLabels, Ops, At, Goto,
        mapVars, bucketVars, nodeVars, callVars
<1>a. pc[t] \in CallLabels \cup EachLabels => bkt[t] \in Buckets
    OBVIOUS
<1>b. pc[t] \in CallLabels \cup {"handle"} => key[t] \in Keys
    OBVIOUS
<1>c. \A b \in Buckets :
        /\ [shared EXCEPT ![b] = @ \cup {t}] \in [Buckets -> SUBSET Threads]
        /\ [shared EXCEPT ![b] = @ \ {t}] \in [Buckets -> SUBSET Threads]
        /\ [unique EXCEPT ![b] = IF @ = t THEN None ELSE @] \in [Buckets -> Threads \cup {None}]
    BY DEF TypeOK
<1>d. \A k \in Keys :
        /\ [nshared EXCEPT ![k] = @ \cup {t}] \in [Keys -> SUBSET Threads]
        /\ [nshared EXCEPT ![k] = @ \ {t}] \in [Keys -> SUBSET Threads]
        /\ [nunique EXCEPT ![k] = IF @ = t THEN None ELSE @] \in [Keys -> Threads \cup {None}]
    BY DEF TypeOK
<1>1. CASE Start(t)
  <2>1. CASE ForEach(t) BY <2>1 DEF ForEach, NextBucket
  <2>2. ASSUME NEW o \in Ops \ {"for_each"}, NEW k \in Keys, Call(t, o, k) PROVE TypeOK'
      BY <2>2 DEF Call
  <2>. QED BY <1>1, <2>1, <2>2 DEF Start
<1>2. CASE LockStep(t)
  <2>1. CASE LockShared(t)
    <3>1. met' \subseteq Buckets
        BY <2>1, MeetType DEF LockShared
    <3>. QED BY <2>1, <1>a, <1>c, <3>1 DEF LockShared
  <2>2. CASE LockUpgrade(t)
    <3>1. met' \subseteq Buckets
        BY <2>2, MeetType DEF LockUpgrade
    <3>. QED BY <2>2, <3>1 DEF LockUpgrade
  <2>3. CASE CreateMap(t) BY <2>3, <1>a, <1>b, <1>c, <1>d DEF CreateMap
  <2>4. CASE Find(t) BY <2>4 DEF Find, AfterFind
  <2>5. CASE Upgrade(t) BY <2>5 DEF Upgrade
  <2>. QED BY <1>2, <2>1, <2>2, <2>3, <2>4, <2>5 DEF LockStep
<1>3. CASE ItemStep(t)
  <2>1. CASE LockNode(t) BY <2>1, <1>a, <1>b, <1>c, <1>d DEF LockNode
  <2>2. CASE Access(t)
    <3>2. nshared' \in [Keys -> SUBSET Threads] /\ nunique' \in [Keys -> Threads \cup {None}]
        BY <2>2, <1>b, <1>d DEF Access, UnlockNode
    <3>3. value' \in [Keys -> Values \cup {Absent}] /\ item' \in [Threads -> Values \cup {Absent}]
      <4>1. CASE op[t] = "search"
        <5>1. value[key[t]] \in Values \cup {Absent} /\ value' = value
            BY <2>2, <4>1, <1>b DEF Access
        <5>2. item' = [item EXCEPT ![t] = value[key[t]]]
            BY <2>2, <4>1 DEF Access
        <5>. QED BY <5>1, <5>2
      <4>2. CASE op[t] # "search" BY <2>2, <4>2, <1>b DEF Access
      <4>. QED BY <4>1, <4>2
    <3>4. pc' \in [Threads -> {"idle"} \cup CallLabels \cup EachLabels]
        BY <2>2 DEF Access
    <3>. QED BY <2>2, <3>2, <3>3, <3>4 DEF Access
  <2>3. CASE Add(t) BY <2>3, <1>a, <1>c DEF Add, UniqueFreed
  <2>4. CASE Remove(t) BY <2>4 DEF Remove
  <2>5. CASE Count(t)
    <3>1. (size + 1) % SizeMod \in 0..SizeMod - 1 /\ (size - 1) % SizeMod \in 0..SizeMod - 1
        BY SizeRange, Zenon
    <3>2. size' \in 0..SizeMod - 1
        BY <2>5, <3>1, Zenon DEF Count, Counted
    <3>. QED BY <2>5, <3>2 DEF Count
  <2>6. CASE Return(t)
    <3>1. shared' \in [Buckets -> SUBSET Threads] /\ loose' \subseteq Threads
        BY <2>6, <1>a, <1>c DEF Return
    <3>2. /\ upgrade' \in [Buckets -> Threads \cup {None}]
          /\ unique' \in [Buckets -> Threads \cup {None}]
        BY <2>6, <1>a, <1>c DEF Return, UniqueFreed
    <3>. QED BY <2>6, <3>1, <3>2 DEF Return
  <2>. QED BY <1>3, <2>1, <2>2, <2>3, <2>4, <2>5, <2>6 DEF ItemStep
<1>4. CASE EachStep(t)
  <2>1. CASE Each(t)
    <3>1. met' \subseteq Buckets
        BY <2>1, MeetType DEF Each
    <3>. QED BY <2>1, <1>a, <1>c, <3>1 DEF Each
  <2>2. CASE NextElement(t) BY <2>2, <1>d DEF NextElement, Ahead, Present
  <2>3. CASE HandleElement(t)
    <3>1. nshared' \in [Keys -> SUBSET Threads] /\ nunique' \in [Keys -> Threads \cup {None}]
        BY <2>3, <1>b, <1>d DEF HandleElement, UnlockNode
    <3>2. key' \in [Threads -> Keys \cup {Absent}] /\ seen' \in [Threads -> SUBSET Keys]
        BY <2>3, <1>b DEF HandleElement
    <3>. QED BY <2>3, <3>1, <3>2 DEF HandleElement
  <2>4. CASE EachDone(t)
    <3>1. shared' \in [Buckets -> SUBSET Threads] /\ seen' \in [Threads -> SUBSET Keys]
        BY <2>4, <1>a, <1>c DEF EachDone
    <3>2. /\ bkt' \in [Threads -> Buckets \cup {None}]
          /\ op' \in [Threads -> Ops \cup {"none"}]
          /\ pc' \in [Threads -> {"idle"} \cup CallLabels \cup EachLabels]
        BY <2>4 DEF EachDone, NextBucket
    <3>. QED BY <2>4, <3>1, <3>2 DEF EachDone
  <2>. QED BY <1>4, <2>1, <2>2, <2>3, <2>4 DEF EachStep
<1>. QED BY <1>1, <1>2, <1>3, <1>4 DEF ThreadStep

\* A step keeps what the variables of the calls stand for.
LEMMA CallsStep ==
    ASSUME IInv, NEW t \in Threads, ThreadStep(t)
    PROVE CallsOk'
<1> USE ConstantsOk, HashTypes DEF IInv, TypeOK, CallsOk, CallLabels, EachLabels, Ops, At, Goto,
        mapVars, bucketVars, nodeVars, callVars
<1>1. CASE Start(t)
  <2>1. CASE ForEach(t) BY <2>1 DEF ForEach, NextBucket
  <2>2. ASSUME NEW o \in Ops \ {"for_each"}, NEW k \in Keys, Call(t, o, k) PROVE CallsOk'
      BY <2>2 DEF Call
  <2>. QED BY <1>1, <2>1, <2>2 DEF Start
<1>2. CASE LockStep(t)
  <2>1. CASE LockShared(t) BY <2>1 DEF LockShared
  <2>2. CASE LockUpgrade(t) BY <2>2 DEF LockUpgrade
  <2>3. CASE CreateMap(t) BY <2>3 DEF CreateMap
  <2>4. CASE Find(t) BY <2>4 DEF Find, AfterFind
  <2>5. CASE Upgrade(t) BY <2>5 DEF Upgrade
  <2>. QED BY <1>2, <2>1, <2>2, <2>3, <2>4, <2>5 DEF LockStep
<1>3. CASE ItemStep(t)
  <2>1. CASE LockNode(t) BY <2>1 DEF LockNode
  <2>2. CASE Access(t) BY <2>2 DEF Access
  <2>3. CASE Add(t) BY <2>3 DEF Add
  <2>4. CASE Remove(t) BY <2>4 DEF Remove
  <2>5. CASE Count(t) BY <2>5 DEF Count
  <2>6. CASE Return(t)
    <3>1. /\ pc' = [pc EXCEPT ![t] = "idle"] /\ op' = [op EXCEPT ![t] = "none"]
          /\ key' = [key EXCEPT ![t] = Absent] /\ item' = [item EXCEPT ![t] = Absent]
          /\ bkt' = [bkt EXCEPT ![t] = None] /\ loose' = loose \ {t} /\ seen' = seen
          /\ seen[t] = {}
        BY <2>6 DEF Return
    <3>. QED BY <3>1
  <2>. QED BY <1>3, <2>1, <2>2, <2>3, <2>4, <2>5, <2>6 DEF ItemStep
<1>4. CASE EachStep(t)
  <2>1. CASE Each(t) BY <2>1 DEF Each
  <2>2. CASE NextElement(t) BY <2>2 DEF NextElement, Ahead, Present
  <2>3. CASE HandleElement(t) BY <2>3 DEF HandleElement
  <2>4. CASE EachDone(t) BY <2>4 DEF EachDone, NextBucket
  <2>. QED BY <1>4, <2>1, <2>2, <2>3, <2>4 DEF EachStep
<1>. QED BY <1>1, <1>2, <1>3, <1>4 DEF ThreadStep

\* A step of thread t changes nothing of another thread's own.
LEMMA OwnStays ==
    ASSUME TypeOK, NEW t \in Threads, ThreadStep(t), NEW u \in Threads, u # t
    PROVE /\ pc'[u] = pc[u] /\ key'[u] = key[u] /\ bkt'[u] = bkt[u] /\ seen'[u] = seen[u]
          /\ op'[u] = op[u] /\ item'[u] = item[u] /\ found'[u] = found[u]
BY DEF TypeOK, Goto, callVars, ThreadStep, Start, LockStep, ItemStep, EachStep,
       ForEach, NextBucket, Call, LockShared, LockUpgrade, CreateMap, Find, Upgrade, LockNode, Access,
       Add, Remove, Count, Return, Each, NextElement, HandleElement, EachDone

\* What a step of thread t does to the holders of buckets: it takes and lets go for t.
LEMMA HoldersStep ==
    ASSUME IInv, NEW t \in Threads, ThreadStep(t), NEW u \in Threads, u # t, NEW b \in Buckets
    PROVE /\ upgrade'[b] = u <=> upgrade[b] = u
          /\ unique'[b] = u <=> unique[b] = u
          /\ u \in shared'[b] <=> u \in shared[b]
<1> USE ConstantsOk DEF IInv, TypeOK
<1>1. unique[b] # None => upgrade[b] = None
    BY DEF BucketLocks, BucketHolder
<1>2. CASE UNCHANGED bucketVars
    BY <1>2 DEF bucketVars
<1>3. CASE LockShared(t) \/ Each(t)
    BY <1>3 DEF LockShared, Each
<1>4. CASE LockUpgrade(t)
    BY <1>4 DEF LockUpgrade
<1>5. CASE CreateMap(t)
    BY <1>5 DEF CreateMap, BucketLocks, HoldsBucket, At
<1>6. CASE Upgrade(t)
    BY <1>1, <1>6 DEF Upgrade
<1>7. CASE Add(t) \/ Return(t) \/ EachDone(t)
    BY <1>7 DEF Add, Return, EachDone, UniqueFreed
<1>. QED BY <1>2, <1>3, <1>4, <1>5, <1>6, <1>7 DEF ThreadStep, Start, LockStep, ItemStep, EachStep,
        ForEach, Call, Find, LockNode, Access, Remove, Count, NextElement, HandleElement

\* A step of thread t makes no other thread loose, nor ends that another is.
LEMMA LooseStays ==
    ASSUME IInv, NEW t \in Threads, ThreadStep(t), NEW u \in Threads, u # t
    PROVE Loose(u)' = Loose(u)
<1>1. pc'[u] = pc[u]
    BY OwnStays DEF IInv
<1>2. \/ loose' = loose \/ loose' = loose \cup {t} \/ loose' = loose \ {t}
    BY DEF ThreadStep, Start, LockStep, ItemStep, EachStep, ForEach, Call, LockShared, LockUpgrade,
           CreateMap, Find, Upgrade, LockNode, Access, Add, Remove, Count, Return, Each, NextElement,
           HandleElement, EachDone
<1>. QED BY <1>1, <1>2 DEF Loose

\* Thread t comes to be loose when it has made the map.
LEMMA LooseComes ==
    ASSUME IInv, NEW t \in Threads, ThreadStep(t), Loose(t)'
    PROVE /\ Loose(t) \/ CreateMap(t)
          /\ bkt'[t] = bkt[t]
<1> USE DEF IInv, TypeOK, Goto, At, callVars
<1>1. pc'[t] \in {"find", "node", "access", "add", "adding"} /\ t \in loose'
    BY DEF Loose
<1>2. CASE LockUpgrade(t) \/ LockShared(t)
    BY <1>1, <1>2 DEF LockUpgrade, LockShared, CallsOk
<1>3. CASE CreateMap(t)
    BY <1>3 DEF CreateMap
<1>4. CASE Find(t) \/ LockNode(t) \/ Upgrade(t)
    BY <1>1, <1>4 DEF Find, LockNode, Upgrade, Loose
<1>. QED BY <1>1, <1>2, <1>3, <1>4 DEF ThreadStep, Start, LockStep, ItemStep, EachStep, ForEach,
         Call, Access, Add, Remove, Count, Return, Each, NextElement, HandleElement, EachDone

\* A step keeps that maps are made once.
LEMMA MadeStep ==
    ASSUME IInv, NEW t \in Threads, ThreadStep(t)
    PROVE MadeOk'
<1> USE DEF IInv
<1>1. created' = created \/ CreateMap(t)
    BY DEF mapVars, ThreadStep, Start, LockStep, ItemStep, EachStep, ForEach, Call, LockShared,
           LockUpgrade, Find, Upgrade, LockNode, Access, Add, Remove, Count, Return, Each,
           NextElement, HandleElement, EachDone
<1>2. CreateMap(t) => created' = created \cup {bkt[t]} /\ upgrade[bkt[t]] = t /\ bkt[t] \in Buckets
    BY HashTypes DEF CreateMap, At, BucketLocks, HoldsBucket, CallsOk, CallLabels
<1>3. ASSUME NEW u \in Threads, pc'[u] = "create" PROVE bkt'[u] \notin created'
  <2>1. CASE u # t
    <3>1. pc[u] = "create" /\ bkt'[u] = bkt[u] /\ bkt[u] \notin created /\ upgrade[bkt[u]] = u
        BY <1>3, <2>1, OwnStays DEF MadeOk, BucketLocks, HoldsBucket
    <3>. QED BY <1>1, <1>2, <2>1, <3>1
  <2>2. CASE u = t
    <3>1. LockUpgrade(t)
        BY <1>3, <2>2 DEF TypeOK, Goto, ThreadStep, Start, LockStep, ItemStep, EachStep, ForEach, Call,
               LockShared, CreateMap, Find, AfterFind, Upgrade, LockNode, Access, Add, Remove, Count,
               Return, Each, NextElement, HandleElement, EachDone
    <3>. QED BY <1>3, <2>2, <3>1 DEF LockUpgrade, TypeOK, Goto, callVars, mapVars
  <2>. QED BY <2>1, <2>2
<1>4. ASSUME NEW u \in Threads, Loose(u)' PROVE bkt'[u] \in created'
  <2>1. created \subseteq created'
      BY <1>1, <1>2
  <2>2. (Loose(u) \/ (u = t /\ CreateMap(t))) /\ bkt'[u] = bkt[u]
      BY <1>4, LooseStays, LooseComes, OwnStays
  <2>. QED BY <1>2, <2>1, <2>2 DEF MadeOk
<1>. QED BY <1>3, <1>4 DEF MadeOk

\* Who comes to need the bucket's mutex takes it, and sees to it that met is right.
LEMMA InsideComes ==
    ASSUME IInv, NEW t \in Threads, ThreadStep(t), Inside(t)'
    PROVE \/ Inside(t) /\ bkt'[t] = bkt[t]
          \/ Meet(bkt[t]) /\ bkt'[t] = bkt[t]
<1> USE DEF IInv, TypeOK, Goto, At, callVars, Inside, Following, Walking, Using, Changing
<1>1. CASE LockShared(t) \/ LockUpgrade(t) \/ Each(t)
    BY <1>1 DEF LockShared, LockUpgrade, Each
<1>2. CASE LockStep(t)
    BY <1>1, <1>2 DEF LockStep, CreateMap, Find, Upgrade
<1>3. CASE ItemStep(t)
    BY <1>3 DEF ItemStep, LockNode, Access, Add, Remove, Count, Return
<1>4. CASE EachStep(t)
    BY <1>1, <1>4 DEF EachStep, NextElement, HandleElement, EachDone
<1>5. CASE Start(t)
    BY <1>5 DEF Start, ForEach, Call
<1>. QED BY <1>2, <1>3, <1>4, <1>5 DEF ThreadStep

\* met only grows.
LEMMA MetGrows ==
    ASSUME NEW t \in Threads, ThreadStep(t)
    PROVE met \subseteq met'
BY DEF Meet, ThreadStep, Start, LockStep, ItemStep, EachStep, ForEach, Call, LockShared, LockUpgrade,
       CreateMap, Find, Upgrade, LockNode, Access, Add, Remove, Count, Return, Each, NextElement,
       HandleElement, EachDone

\* Who needs a bucket's mutex holds it in some way, or is loose.
LEMMA InsideHolds ==
    ASSUME IInv, NEW u \in Threads, Inside(u)
    PROVE /\ bkt[u] \in Buckets
          /\ \/ u \in shared[bkt[u]] \/ upgrade[bkt[u]] = u \/ unique[bkt[u]] = u \/ Loose(u)
BY HashTypes DEF IInv, CallsOk, CallLabels, EachLabels, Ops, Inside, Following, Walking, Using, Changing,
       At, BucketLocks, HoldsBucket

\* A step keeps other calls away from loose inserts, or puts the bucket in met.
LEMMA ApartStep ==
    ASSUME IInv, NEW t \in Threads, ThreadStep(t)
    PROVE LooseApart'
<1> SUFFICES ASSUME NEW v \in Threads, NEW u \in Threads, v # u, Loose(v)', Inside(u)', bkt'[u] = bkt'[v]
             PROVE bkt'[v] \in met'
    BY DEF LooseApart
<1>1. CASE u # t
  <2>1. Inside(u) /\ bkt'[u] = bkt[u]
      BY <1>1, OwnStays DEF IInv, Inside, Following, Walking, Using, Changing, At
  <2>2. (Loose(v) \/ (v = t /\ CreateMap(t))) /\ bkt'[v] = bkt[v]
      BY LooseStays, LooseComes, OwnStays DEF IInv
  <2>3. CASE Loose(v)
      BY <2>1, <2>2, <2>3, MetGrows DEF IInv, LooseApart
  <2>4. CASE v = t /\ CreateMap(t)
    <3>1. upgrade[bkt[t]] = t /\ shared[bkt[t]] = {} /\ bkt[t] \notin created
        BY <2>4 DEF CreateMap, NoReaders, At, IInv, MadeOk, BucketLocks, HoldsBucket
    <3>2. bkt[u] = bkt[t] /\ ~ Loose(u) /\ bkt[t] \in Buckets
        BY <2>1, <2>2, <2>4, <3>1, InsideHolds DEF IInv, MadeOk
    <3>3. unique[bkt[t]] # u /\ t # None
        BY <3>1, <3>2, ConstantsOk DEF IInv, BucketLocks, BucketHolder
    <3>4. u \in shared[bkt[u]] \/ upgrade[bkt[u]] = u \/ unique[bkt[u]] = u \/ Loose(u)
        BY <2>1, InsideHolds
    <3>. QED BY <1>1, <3>1, <3>2, <3>3, <3>4
  <2>. QED BY <2>2, <2>3, <2>4
<1>2. CASE u = t
  <2>1. Loose(v) /\ bkt'[v] = bkt[v]
      BY <1>2, LooseStays, OwnStays DEF IInv
  <2>2. CASE Inside(t) /\ bkt'[t] = bkt[t]
      BY <1>2, <2>1, <2>2, MetGrows DEF IInv, LooseApart
  <2>3. CASE Meet(bkt[t]) /\ bkt'[t] = bkt[t]
      BY <1>2, <2>1, <2>3 DEF Meet
  <2>. QED BY <1>2, <2>2, <2>3, InsideComes
<1>. QED BY <1>1, <1>2

\* A step keeps the rules of the buckets' mutexes.
LEMMA BucketStep ==
    ASSUME IInv, NEW t \in Threads, ThreadStep(t)
    PROVE BucketLocks'
<1> USE ConstantsOk, HashTypes
<1>1. ASSUME NEW b \in Buckets PROVE BucketHolder(b)'
  <2> USE DEF IInv, TypeOK, BucketLocks, BucketHolder
  <2>1. CASE UNCHANGED bucketVars BY <2>1 DEF bucketVars
  <2>2. CASE LockShared(t) \/ Each(t) BY <2>2 DEF LockShared, Each
  <2>3. CASE LockUpgrade(t) BY <2>3 DEF LockUpgrade
  <2>4. CASE CreateMap(t) BY <2>4 DEF CreateMap
  <2>5. CASE Upgrade(t) BY <2>5 DEF Upgrade, NoReaders
  <2>6. CASE Add(t) \/ Return(t) \/ EachDone(t) BY <2>6 DEF Add, Return, EachDone, UniqueFreed
  <2>. QED BY <2>1, <2>2, <2>3, <2>4, <2>5, <2>6
           DEF ThreadStep, Start, LockStep, ItemStep, EachStep, ForEach, Call, Find, LockNode, Access,
               Remove, Count, NextElement, HandleElement
<1>2. ASSUME NEW u \in Threads, u # t PROVE HoldsBucket(u)'
  <2>1. /\ pc'[u] = pc[u] /\ bkt'[u] = bkt[u] /\ op'[u] = op[u] /\ Loose(u)' = Loose(u)
      BY <1>2, OwnStays, LooseStays DEF IInv
  <2>2. pc[u] \in CallLabels \cup EachLabels => bkt[u] \in Buckets
      BY DEF IInv, CallsOk
  <2>3. \A b \in Buckets :
          /\ upgrade'[b] = u <=> upgrade[b] = u
          /\ unique'[b] = u <=> unique[b] = u
          /\ u \in shared'[b] <=> u \in shared[b]
      BY <1>2, HoldersStep
  <2>4. HoldsBucket(u)
      BY DEF IInv, BucketLocks
  <2>. QED BY <2>1, <2>2, <2>3, <2>4 DEF HoldsBucket, CallLabels, EachLabels
<1>3. HoldsBucket(t)'
  <2> USE DEF IInv, TypeOK, CallsOk, CallLabels, EachLabels, Goto, At, mapVars, nodeVars, callVars
  <2>a. pc[t] \in CallLabels \cup EachLabels => bkt[t] \in Buckets
      OBVIOUS
  <2>1. CASE LockShared(t)
    <3>1. pc'[t] = "find" /\ <<op, bkt>>' = <<op, bkt>> /\ op[t] \in {"search", "set"}
        BY <2>1 DEF LockShared
    <3>2. t \in shared'[bkt[t]]
        BY <2>1, <2>a DEF LockShared
    <3>. QED BY <3>1, <3>2 DEF HoldsBucket
  <2>2. CASE LockUpgrade(t)
    <3>1. /\ pc'[t] \in {"create", "find"} /\ <<op, bkt>>' = <<op, bkt>>
          /\ op[t] \in {"insert", "erase"}
        BY <2>2 DEF LockUpgrade
    <3>2. upgrade'[bkt[t]] = t
        BY <2>2, <2>a DEF LockUpgrade
    <3>. QED BY <3>1, <3>2 DEF HoldsBucket
  <2>3. CASE CreateMap(t)
    <3>1. pc'[t] = "find" /\ <<op, bkt>>' = <<op, bkt>> /\ op[t] = "insert" /\ t \in loose'
        BY <2>3 DEF CreateMap
    <3>. QED BY <3>1 DEF HoldsBucket, Loose
  <2>4. CASE Find(t) \/ LockNode(t)
    <3>1. /\ <<op, bkt, loose>>' = <<op, bkt, loose>> /\ UNCHANGED bucketVars
          /\ pc[t] \in {"find", "node"} /\ pc'[t] \in {"node", "access", "add", "remove", "unlock"}
          /\ pc'[t] = "add" => op[t] = "insert"
          /\ pc'[t] = "remove" => op[t] = "erase"
        BY <2>4 DEF Find, AfterFind, LockNode
    <3>2. HoldsBucket(t)
        BY DEF BucketLocks
    <3>3. pc'[t] # "unlock" /\ Loose(t) => Loose(t)'
        BY <3>1 DEF Loose
    <3>. QED BY <3>1, <3>2, <3>3 DEF HoldsBucket, bucketVars
  <2>5. CASE Upgrade(t)
    <3>1. /\ pc[t] \in {"add", "remove"} /\ pc'[t] \in {"adding", "removing"}
          /\ pc'[t] = "adding" <=> pc[t] = "add"
          /\ <<op, bkt, loose>>' = <<op, bkt, loose>> /\ bkt[t] \in Buckets
          /\ op[t] \in {"insert", "erase"}
        BY <2>5 DEF Upgrade
    <3>2. upgrade[bkt[t]] = t \/ Loose(t)
        BY <3>1 DEF BucketLocks, HoldsBucket
    <3>3. CASE upgrade[bkt[t]] = t
      <4>1. unique'[bkt[t]] = t
          BY <2>5, <3>1, <3>3 DEF Upgrade
      <4>. QED BY <3>1, <4>1 DEF HoldsBucket
    <3>4. CASE upgrade[bkt[t]] # t
      <4>1. Loose(t) /\ op[t] = "insert"
          BY <3>2, <3>4 DEF Loose
      <4>2. Loose(t)'
          BY <3>1, <4>1 DEF Loose
      <4>. QED BY <3>1, <4>2 DEF HoldsBucket
    <3>. QED BY <3>3, <3>4
  <2>6. CASE Each(t)
    <3>1. pc'[t] = "next" /\ <<op, bkt>>' = <<op, bkt>> /\ op[t] = "for_each" /\ t \in shared'[bkt[t]]
        BY <2>6 DEF Each
    <3>. QED BY <3>1 DEF HoldsBucket
  <2>7. CASE NextElement(t) \/ HandleElement(t)
    <3>1. /\ <<op, bkt>>' = <<op, bkt>> /\ UNCHANGED bucketVars /\ op[t] = "for_each"
          /\ pc[t] \in {"next", "handle"} /\ pc'[t] \in {"next", "handle"}
        BY <2>7 DEF NextElement, HandleElement
    <3>. QED BY <3>1 DEF BucketLocks, HoldsBucket, bucketVars
  <2>8. pc'[t] \notin {"create", "find", "node", "access", "add", "adding", "remove", "removing",
                      "next", "handle"} => HoldsBucket(t)'
      BY DEF HoldsBucket
  <2>. QED BY <2>1, <2>2, <2>3, <2>4, <2>5, <2>6, <2>7, <2>8
           DEF ThreadStep, Start, LockStep, ItemStep, EachStep, ForEach, Call, Access, Add, Remove,
               Count, Return, EachDone
<1>. QED BY <1>1, <1>2, <1>3 DEF BucketLocks

\* A step keeps the rules of the elements' mutexes.
LEMMA NodeStep ==
    ASSUME IInv, NEW t \in Threads, ThreadStep(t)
    PROVE NodeLocks'
<1> USE ConstantsOk, HashTypes DEF IInv, TypeOK, CallsOk, CallLabels, EachLabels, Ops, At, Goto,
        mapVars, bucketVars, nodeVars, callVars, NodeLocks, NodeHolder, HoldsNode, Writing
<1>1. CASE Start(t)
  <2>1. CASE ForEach(t) BY <2>1 DEF ForEach, NextBucket
  <2>2. ASSUME NEW o \in Ops \ {"for_each"}, NEW k \in Keys, Call(t, o, k) PROVE NodeLocks'
      BY <2>2 DEF Call
  <2>. QED BY <1>1, <2>1, <2>2 DEF Start
<1>2. CASE LockStep(t)
  <2>1. CASE LockShared(t) BY <2>1 DEF LockShared
  <2>2. CASE LockUpgrade(t) BY <2>2 DEF LockUpgrade
  <2>3. CASE CreateMap(t) BY <2>3 DEF CreateMap, NoReaders
  <2>4. CASE Find(t) BY <2>4 DEF Find, AfterFind
  <2>5. CASE Upgrade(t) BY <2>5 DEF Upgrade, NoReaders
  <2>. QED BY <1>2, <2>1, <2>2, <2>3, <2>4, <2>5 DEF LockStep
<1>3. CASE ItemStep(t)
  <2>1. CASE LockNode(t)
    <3>1. ASSUME NEW x \in Keys PROVE NodeHolder(x)'
        BY <2>1 DEF LockNode, NodeFree
    <3>2. ASSUME NEW u \in Threads PROVE HoldsNode(u)'
      <4>1. CASE u = t BY <2>1, <4>1 DEF LockNode, NodeFree
      <4>2. CASE u # t
        <5>1. pc'[u] = pc[u] /\ <<op, key>>' = <<op, key>>
            BY <2>1, <4>2 DEF LockNode
        <5>2. pc[u] \in {"access", "handle"} => key[u] \in Keys
            OBVIOUS
        <5>3. ASSUME NEW k \in Keys
              PROVE /\ nunique[k] = u => nunique'[k] = u
                    /\ u \in nshared[k] => u \in nshared'[k]
            BY <2>1, <4>2 DEF LockNode, NodeFree
        <5>4. HoldsNode(u) /\ Writing(u)' = Writing(u)
            BY <5>1
        <5>. QED BY <5>1, <5>2, <5>3, <5>4
      <4>. QED BY <4>1, <4>2
    <3>. QED BY <3>1, <3>2
  <2>2. CASE Access(t) BY <2>2 DEF Access, UnlockNode
  <2>3. CASE Add(t) BY <2>3 DEF Add, UniqueFreed
  <2>4. CASE Remove(t) BY <2>4 DEF Remove
  <2>5. CASE Count(t) BY <2>5 DEF Count
  <2>6. CASE Return(t) BY <2>6 DEF Return, UniqueFreed
  <2>. QED BY <1>3, <2>1, <2>2, <2>3, <2>4, <2>5, <2>6 DEF ItemStep
<1>4. CASE EachStep(t)
  <2>1. CASE Each(t) BY <2>1 DEF Each
  <2>2. CASE NextElement(t) BY <2>2 DEF NextElement, Ahead, Present
  <2>3. CASE HandleElement(t) BY <2>3 DEF HandleElement, UnlockNode
  <2>4. CASE EachDone(t) BY <2>4 DEF EachDone, NextBucket
  <2>. QED BY <1>4, <2>1, <2>2, <2>3, <2>4 DEF EachStep
<1>. QED BY <1>1, <1>2, <1>3, <1>4 DEF ThreadStep

\* A step of none of the variables keeps the invariant.
LEMMA StutterIInv ==
    ASSUME IInv, UNCHANGED vars
    PROVE IInv'
BY DEF IInv, TypeOK, CallsOk, MadeOk, LooseApart, Loose, Inside, Following, Walking, Using, Changing,
       BucketLocks, BucketHolder, HoldsBucket, NodeLocks, NodeHolder, HoldsNode, Writing, At, vars,
       mapVars, bucketVars, nodeVars, callVars

\* IInv is an inductive invariant of small_hash_map.
THEOREM Invariance == Spec => []IInv
<1>1. IInv /\ [Next]_vars => IInv'
  <2> SUFFICES ASSUME IInv, [Next]_vars PROVE IInv'
      OBVIOUS
  <2>1. CASE \E t \in Threads : ThreadStep(t)
    <3>1. PICK t \in Threads : ThreadStep(t)
        BY <2>1
    <3>. QED BY <3>1, TypeStep, CallsStep, MadeStep, ApartStep, BucketStep, NodeStep DEF IInv
  <2>2. CASE UNCHANGED vars BY <2>2, StutterIInv
  <2>. QED BY <2>1, <2>2, StepCases
<1>. QED BY <1>1, InitIInv, PTL DEF Spec

\* The variables of small_hash_map.h keep their types, whatever threads and keys there are.
THEOREM Typing == Spec => []TypeOK
<1>1. IInv => TypeOK
    BY DEF IInv
<1>. QED BY <1>1, Invariance, PTL

\* No element's value is written while another thread reads or writes it (95, 124, 156).
THEOREM NodeMutex == Spec => []NodeExclusive
<1>1. IInv => NodeExclusive
  <2> SUFFICES ASSUME IInv, NEW t \in Threads, NEW u \in Threads,
                      t # u, Writing(t), pc[u] \in {"access", "handle"}, key[t] = key[u]
               PROVE FALSE
      BY DEF NodeExclusive
  <2>1. nunique[key[t]] = t /\ key[t] \in Keys
      BY DEF IInv, NodeLocks, NodeHolder, HoldsNode, CallsOk, CallLabels, Writing, At
  <2>2. nshared[key[t]] = {}
    <3>1. \A k \in Keys : nunique[k] # None => nshared[k] = {}
        BY DEF IInv, NodeLocks, NodeHolder, HoldsNode
    <3>. QED BY <2>1, <3>1, ConstantsOk
  <2>3. u \in nshared[key[u]] \/ Writing(u)
      BY DEF IInv, NodeLocks, NodeHolder, HoldsNode, Writing, At
  <2>4. Writing(u) => nunique[key[u]] = u
      BY DEF IInv, NodeLocks, NodeHolder, HoldsNode
  <2>. QED BY <2>1, <2>2, <2>3, <2>4
<1>. QED BY <1>1, Invariance, PTL

\* Who changes a map is alone in it, by the rules of the bucket's mutex, unless one is loose.
LEMMA Alone ==
    ASSUME IInv
    PROVE MapExclusive
<1> SUFFICES ASSUME NEW t \in Threads, NEW u \in Threads,
                    t # u, bkt[t] = bkt[u], Changing(t), Changing(u) \/ Following(u),
                    ~ Loose(t), ~ Loose(u)
             PROVE FALSE
    BY DEF MapExclusive
<1>1. unique[bkt[t]] = t
    BY DEF IInv, BucketLocks, HoldsBucket, Changing
<1>2. bkt[t] \in Buckets /\ (u \in shared[bkt[u]] \/ upgrade[bkt[u]] = u \/ unique[bkt[u]] = u)
    BY InsideHolds DEF Inside
<1>3. shared[bkt[t]] = {} /\ upgrade[bkt[t]] = None
    BY <1>1, <1>2, ConstantsOk DEF IInv, BucketLocks, BucketHolder
<1>. QED BY <1>1, <1>2, <1>3, ConstantsOk

\* A bucket's std::map is changed by one thread while no other looks into it, but for
\* the insert that made it, which holds no mutex (115-120, 127, 181).
THEOREM MapMutex == Spec => []MapExclusive
<1>1. IInv => MapExclusive
    BY Alone
<1>. QED BY <1>1, Invariance, PTL

\* In a bucket that is not in met no other call is there either.
LEMMA AloneUnmet ==
    ASSUME IInv, NEW t \in Threads, NEW u \in Threads, t # u, bkt[t] = bkt[u], bkt[t] \notin met,
           Changing(t)
    PROVE ~ Changing(u) /\ ~ Following(u)
<1>1. Changing(u) \/ Following(u) => Loose(t) \/ Loose(u)
    BY Alone DEF MapExclusive
<1>2. Loose(t) /\ (Changing(u) \/ Following(u)) => FALSE
    BY DEF IInv, LooseApart, Inside
<1>3. Loose(u) => FALSE
    BY DEF IInv, LooseApart, Inside
<1>. QED BY <1>1, <1>2, <1>3

-----------------------------------------------------------------------------
(* for_each *)

\* The element a call found is there until it lets the bucket go.
ItemPresent ==
    \A t \in Threads : pc[t] \in {"node", "access"} /\ bkt[t] \notin met => value[key[t]] # Absent

\* In a bucket not in met the iterator has behind it what it has handled, in the order of the keys, and is at
\* the next element.
Iterates(t) ==
    /\ pc[t] \in {"next", "handle"} /\ bkt[t] \notin met =>
          /\ seen[t] \subseteq Present(bkt[t])
          /\ \A k \in Present(bkt[t]) \ seen[t] : \A j \in seen[t] : k > j
    /\ pc[t] = "handle" /\ bkt[t] \notin met =>
          key[t] \in Ahead(t) /\ \A j \in Ahead(t) : key[t] <= j

EachInv == IInv /\ ItemPresent /\ \A t \in Threads : Iterates(t)

\* Only who changes a map adds elements to it or takes them from it.
LEMMA PresentStays ==
    ASSUME EachInv, NEW t \in Threads, ThreadStep(t), NEW b,
           b \notin met, ~ (Changing(t) /\ bkt[t] = b)
    PROVE Present(b)' = Present(b)
<1> SUFFICES ASSUME NEW k \in Keys, Hash[k] = b
             PROVE value'[k] = Absent <=> value[k] = Absent
    BY DEF Present
<1> USE DEF EachInv, IInv, TypeOK, CallsOk, CallLabels, Ops, At
<1>1. CASE value' = value BY <1>1
<1>2. CASE Access(t)
  <2>0. CASE key[t] # k BY <1>2, <2>0 DEF Access
  <2> SUFFICES ASSUME key[t] = k PROVE value'[k] = Absent <=> value[k] = Absent
      BY <2>0
  <2>1. key[t] \in Keys /\ value[key[t]] # Absent
      BY <1>2 DEF Access, ItemPresent
  <2>2. CASE op[t] # "search"
    <3>1. item[t] \in Values /\ item[t] # Absent
        BY <1>2, <2>2, ConstantsOk DEF Access
    <3>2. value' = [value EXCEPT ![key[t]] = item[t]]
        BY <1>2, <2>2 DEF Access
    <3>. QED BY <2>1, <3>1, <3>2
  <2>. QED BY <1>1, <1>2, <2>2 DEF Access
<1>3. CASE Add(t) \/ Remove(t)
  <2>1. Changing(t) /\ key[t] \in Keys /\ bkt[t] = Hash[key[t]]
      BY <1>3 DEF Add, Remove, Changing
  <2>2. value'[k] = value[k]
      BY <1>3, <2>1 DEF Add, Remove
  <2>. QED BY <2>2
<1>4. Access(t) \/ Add(t) \/ Remove(t) \/ value' = value
    BY DEF ThreadStep, Start, LockStep, ItemStep, EachStep, ForEach, Call, LockShared, LockUpgrade,
           CreateMap, Find, Upgrade, LockNode, Count, Return, Each, NextElement, HandleElement,
           EachDone, mapVars
<1>. QED BY <1>1, <1>2, <1>3, <1>4

\* In the bucket of a thread that looks into it nothing comes or goes, outside met.
LEMMA OthersStay ==
    ASSUME EachInv, NEW t \in Threads, ThreadStep(t), NEW u \in Threads, u # t,
           Following(u), bkt[u] \notin met
    PROVE Present(bkt[u])' = Present(bkt[u])
<1>1. ~ (Changing(t) /\ bkt[t] = bkt[u])
    BY AloneUnmet DEF EachInv
<1>2. bkt'[u] = bkt[u]
    BY OwnStays DEF EachInv, IInv
<1>3. \A b : b \notin met /\ ~ (Changing(t) /\ bkt[t] = b) => Present(b)' = Present(b)
    BY PresentStays
<1>. QED BY <1>1, <1>2, <1>3 DEF Present

\* A step keeps the elements calls have found.
LEMMA ItemStepKeeps ==
    ASSUME EachInv, NEW t \in Threads, ThreadStep(t)
    PROVE ItemPresent'
<1> SUFFICES ASSUME NEW u \in Threads, pc'[u] \in {"node", "access"}, bkt'[u] \notin met'
             PROVE value'[key'[u]] # Absent
    BY DEF ItemPresent
<1>0. met \subseteq met' /\ TypeOK
    BY MetGrows DEF EachInv, IInv
<1>1. CASE u # t
  <2>0. bkt'[u] = bkt[u] /\ pc'[u] = pc[u] /\ key'[u] = key[u] /\ bkt[u] \notin met
      BY <1>0, <1>1, OwnStays
  <2>1. pc[u] \in {"node", "access"} /\ key'[u] = key[u] /\ value[key[u]] # Absent
      BY <2>0 DEF EachInv, ItemPresent
  <2>2. key[u] \in Keys /\ bkt[u] = Hash[key[u]] /\ Following(u)
      BY <2>1 DEF EachInv, IInv, CallsOk, CallLabels, Following, Using
  <2>3. Present(bkt[u])' = Present(bkt[u]) /\ bkt'[u] = bkt[u]
      BY <1>1, <2>0, <2>2, OthersStay
  <2>. QED BY <2>1, <2>2, <2>3 DEF Present
<1>2. CASE u = t
  <2>1. Find(t) \/ LockNode(t)
      BY <1>2 DEF EachInv, IInv, TypeOK, Goto, callVars, ThreadStep, Start, LockStep, ItemStep,
             EachStep, ForEach, Call, LockShared, LockUpgrade, CreateMap, Upgrade, Access, Add,
             Remove, Count, Return, Each, NextElement, HandleElement, EachDone
  <2>. QED BY <1>2, <2>1 DEF Find, AfterFind, LockNode, EachInv, IInv, TypeOK, ItemPresent, Goto,
                 At, mapVars, callVars
<1>. QED BY <1>1, <1>2

\* A step keeps the iterators where they should be.
LEMMA IterateStep ==
    ASSUME EachInv, NEW t \in Threads, ThreadStep(t), NEW u \in Threads
    PROVE Iterates(u)'
<1>0. (\A k \in Keys : k \in Int) /\ met \subseteq met'
    BY ConstantsOk, MetGrows
<1>1. CASE u # t
  <2>0. pc'[u] = pc[u] /\ key'[u] = key[u] /\ bkt'[u] = bkt[u] /\ seen'[u] = seen[u]
      BY <1>1, OwnStays DEF EachInv, IInv
  <2>1. CASE pc[u] \in {"next", "handle"} /\ bkt[u] \notin met
    <3>1. Present(bkt[u])' = Present(bkt[u])
        BY <1>1, <2>1, OthersStay DEF Following, Walking, Using, At
    <3>2. pc'[u] = pc[u] /\ key'[u] = key[u] /\ bkt'[u] = bkt[u] /\ seen'[u] = seen[u]
        BY <2>0
    <3>3. Iterates(u)
        BY DEF EachInv
    <3>. QED BY <2>1, <3>1, <3>2, <3>3 DEF Iterates, Ahead
  <2>. QED BY <1>0, <2>0, <2>1 DEF Iterates
<1>2. CASE u = t
  <2> USE DEF EachInv, IInv, TypeOK, Goto, At
  <2>1. CASE Each(t)
    <3>1. pc'[t] = "next" /\ seen'[t] = {}
        BY <2>1 DEF Each, CallsOk, callVars
    <3>. QED BY <1>2, <3>1 DEF Iterates
  <2>2. CASE NextElement(t)
    <3>1. /\ pc[t] = "next" /\ pc'[t] = "handle" /\ bkt' = bkt /\ seen' = seen /\ value' = value /\ met' = met
          /\ key'[t] \in Ahead(t) /\ \A j \in Ahead(t) : key'[t] <= j
        BY <2>2 DEF NextElement, mapVars
    <3>2. Present(bkt[t])' = Present(bkt[t]) /\ Ahead(t)' = Ahead(t)
        BY <3>1 DEF Present, Ahead
    <3>. QED BY <1>2, <3>1, <3>2 DEF Iterates
  <2>3. CASE HandleElement(t) /\ bkt[t] \notin met
    <3>1. /\ pc[t] = "handle" /\ pc'[t] = "next" /\ bkt' = bkt /\ value' = value /\ met' = met
          /\ seen'[t] = seen[t] \cup {key[t]}
        BY <2>3 DEF HandleElement, mapVars
    <3>2. Present(bkt[t])' = Present(bkt[t]) /\ Present(bkt[t]) \subseteq Keys
        BY <3>1 DEF Present
    <3>3. /\ seen[t] \subseteq Present(bkt[t]) /\ key[t] \in Present(bkt[t])
          /\ \A k \in Present(bkt[t]) \ seen[t] : k \in Ahead(t) /\ key[t] <= k
          /\ \A k \in Present(bkt[t]) \ seen[t] : \A j \in seen[t] : k > j
        BY <2>3, <3>1 DEF Iterates, Ahead
    <3>4. ASSUME NEW k \in Present(bkt[t]) \ seen'[t], NEW j \in seen'[t]
          PROVE  k > j
      <4>1. k \in Present(bkt[t]) \ seen[t] /\ k # key[t] /\ (j = key[t] \/ j \in seen[t])
          BY <3>1, <3>4
      <4>2. k \in Int /\ key[t] \in Int
          BY <1>0, <3>2, <3>3, <4>1
      <4>3. key[t] <= k /\ \A i \in seen[t] : k > i
          BY <3>3, <4>1
      <4>. HIDE DEF EachInv, IInv, TypeOK
      <4>. QED BY <4>1, <4>2, <4>3
    <3>. QED BY <1>2, <3>1, <3>2, <3>3, <3>4 DEF Iterates
  <2>4. CASE pc'[t] \notin {"next", "handle"} \/ bkt'[t] \in met' BY <1>2, <2>4 DEF Iterates
  <2>5. pc'[t] \in {"next", "handle"} => Each(t) \/ NextElement(t) \/ HandleElement(t)
      BY DEF callVars, ThreadStep, Start, LockStep, ItemStep, EachStep, ForEach, Call, LockShared,
             LockUpgrade, CreateMap, Find, AfterFind, Upgrade, LockNode, Access, Add, Remove, Count,
             Return, EachDone
  <2>6. HandleElement(t) => bkt' = bkt /\ met' = met
      BY DEF HandleElement
  <2>. QED BY <2>1, <2>2, <2>3, <2>4, <2>5, <2>6
<1>. QED BY <1>1, <1>2

\* for_each handles every element of a bucket once, whatever the others do meanwhile (72-77),
\* if no call met the loose insert of the bucket's map.
THEOREM EachElementOnce == Spec => []EachOnce
<1>1. Init => EachInv
    BY InitIInv DEF EachInv, Init, ItemPresent, Iterates
<1>2. EachInv /\ IInv' /\ [Next]_vars => EachInv'
  <2> SUFFICES ASSUME EachInv, IInv', [Next]_vars PROVE EachInv'
      OBVIOUS
  <2>1. CASE \E t \in Threads : ThreadStep(t)
    <3>1. PICK t \in Threads : ThreadStep(t)
        BY <2>1
    <3>. QED BY <3>1, ItemStepKeeps, IterateStep DEF EachInv
  <2>2. CASE UNCHANGED vars
      BY <2>2 DEF EachInv, ItemPresent, Iterates, Present, Ahead, vars, mapVars, callVars
  <2>. QED BY <2>1, <2>2, StepCases
<1>3. EachInv => EachOnce
  <2> SUFFICES ASSUME EachInv, NEW t \in Threads, pc[t] \in {"next", "handle"}, bkt[t] \notin met
               PROVE Present(bkt[t]) = seen[t] \cup Ahead(t)
      BY DEF EachOnce
  <2>. QED BY DEF EachInv, Iterates, Ahead
<1>. QED BY <1>1, <1>2, <1>3, Invariance, PTL DEF Spec

-----------------------------------------------------------------------------
(* What a call found is so until it acts on it *)

\* An insert that adds an element has found none, an erase that removes one has.
Looked ==
    \A t \in Threads :
        /\ pc[t] \in {"add", "adding"} /\ bkt[t] \notin met => value[key[t]] = Absent
        /\ pc[t] \in {"remove", "removing"} /\ bkt[t] \notin met => value[key[t]] # Absent

\* A step keeps what inserts and erases have found.
LEMMA LookedStep ==
    ASSUME EachInv, Looked, NEW t \in Threads, ThreadStep(t)
    PROVE Looked'
<1> SUFFICES ASSUME NEW u \in Threads, pc'[u] \in {"add", "adding", "remove", "removing"},
                    bkt'[u] \notin met'
             PROVE value'[key'[u]] = Absent <=> pc'[u] \in {"add", "adding"}
    BY DEF Looked
<1>0. met \subseteq met' /\ TypeOK
    BY MetGrows DEF EachInv, IInv
<1>1. CASE u # t
  <2>1. pc'[u] = pc[u] /\ key'[u] = key[u] /\ bkt'[u] = bkt[u] /\ bkt[u] \notin met
      BY <1>0, <1>1, OwnStays
  <2>2. /\ key[u] \in Keys /\ bkt[u] = Hash[key[u]]
        /\ value[key[u]] = Absent <=> pc[u] \in {"add", "adding"}
      BY <2>1 DEF EachInv, IInv, CallsOk, CallLabels, Looked
  <2>3. ~ (Changing(t) /\ bkt[t] = bkt[u])
      BY <1>1, <2>1, AloneUnmet DEF EachInv, Following, Using, Changing, At
  <2>4. Present(bkt[u])' = Present(bkt[u])
    <3>1. \A b : b \notin met /\ ~ (Changing(t) /\ bkt[t] = b) => Present(b)' = Present(b)
        BY PresentStays
    <3>. QED BY <2>1, <2>3, <3>1 DEF Present
  <2>. QED BY <2>1, <2>2, <2>4 DEF Present
<1>2. CASE u = t
  <2>1. Find(t) \/ Upgrade(t)
      BY <1>2 DEF EachInv, IInv, TypeOK, Goto, callVars, ThreadStep, Start, LockStep, ItemStep,
             EachStep, ForEach, Call, LockShared, LockUpgrade, CreateMap, LockNode, Access, Add,
             Remove, Count, Return, Each, NextElement, HandleElement, EachDone
  <2>. QED BY <1>2, <2>1 DEF Find, AfterFind, Upgrade, EachInv, IInv, TypeOK, Looked, Goto,
                 At, mapVars, callVars
<1>. QED BY <1>1, <1>2

MapInv == EachInv /\ Looked

\* MapInv is an inductive invariant of small_hash_map.
THEOREM FoundStays == Spec => []MapInv
<1>1. Init => MapInv
    BY InitIInv DEF MapInv, EachInv, Init, ItemPresent, Iterates, Looked
<1>2. MapInv /\ IInv' /\ [Next]_vars => MapInv'
  <2> SUFFICES ASSUME MapInv, IInv', [Next]_vars PROVE MapInv'
      OBVIOUS
  <2>1. CASE \E t \in Threads : ThreadStep(t)
    <3>1. PICK t \in Threads : ThreadStep(t)
        BY <2>1
    <3>. QED BY <3>1, ItemStepKeeps, IterateStep, LookedStep DEF MapInv, EachInv
  <2>2. CASE UNCHANGED vars
      BY <2>2 DEF MapInv, EachInv, ItemPresent, Iterates, Looked, Present, Ahead, vars, mapVars, callVars
  <2>. QED BY <2>1, <2>2, StepCases
<1>. QED BY <1>1, <1>2, Invariance, PTL DEF Spec

-----------------------------------------------------------------------------
(* Linearizability *)

\* Until a call takes effect it has nothing to return, and search no value; a thread
\* that calls nothing has no key.
Results ==
    \A t \in Threads :
        /\ pc[t] \notin {"count", "unlock"} => found[t] = FALSE
        /\ op[t] = "search" /\ pc[t] # "unlock" => item[t] = Absent
        /\ pc[t] \in {"idle", "each", "next"} => key[t] = Absent

LinInv == MapInv /\ Results

\* A step keeps that.
LEMMA ResultsStep ==
    ASSUME MapInv, Results, NEW t \in Threads, ThreadStep(t)
    PROVE Results'
<1> USE DEF MapInv, EachInv, IInv, TypeOK, CallsOk, CallLabels, EachLabels, Goto, At, callVars
<1> SUFFICES ASSUME NEW u \in Threads
             PROVE /\ pc'[u] \notin {"count", "unlock"} => found'[u] = FALSE
                   /\ op'[u] = "search" /\ pc'[u] # "unlock" => item'[u] = Absent
                   /\ pc'[u] \in {"idle", "each", "next"} => key'[u] = Absent
    BY DEF Results
<1>1. CASE u # t
    BY <1>1, OwnStays DEF Results
<1>2. CASE u = t /\ Start(t)
  <2>1. CASE ForEach(t) BY <1>2, <2>1 DEF ForEach, Results
  <2>2. ASSUME NEW o \in Ops \ {"for_each"}, NEW k \in Keys, Call(t, o, k)
        PROVE  /\ pc'[t] = "lock" /\ found' = found /\ (o = "search" => item'[t] = Absent)
               /\ op'[t] = o /\ pc[t] = "idle"
      BY <2>2 DEF Call
  <2>. QED BY <1>2, <2>1, <2>2 DEF Start, Results
<1>3. CASE u = t /\ LockStep(t)
  <2>1. /\ found' = found /\ op' = op /\ item' = item
        /\ pc[t] \notin {"count", "unlock"} /\ pc'[t] \notin {"idle", "each", "next", "count"}
      BY <1>3 DEF LockStep, LockShared, LockUpgrade, CreateMap, Find, AfterFind, Upgrade
  <2>. QED BY <1>3, <2>1 DEF Results
<1>4. CASE u = t /\ ItemStep(t)
  <2>1. CASE LockNode(t) BY <1>4, <2>1 DEF LockNode, Results
  <2>2. CASE Access(t)
    <3>1. /\ pc'[t] = (IF op[t] = "insert" THEN "count" ELSE "unlock") /\ op' = op
        BY <2>2 DEF Access
    <3>. QED BY <1>4, <3>1
  <2>3. CASE Add(t) \/ Remove(t) \/ Count(t)
    <3>1. pc'[t] \in {"count", "unlock"} /\ op' = op /\ op[t] # "search"
        BY <2>3 DEF Add, Remove, Count
    <3>. QED BY <1>4, <3>1
  <2>4. CASE Return(t) BY <1>4, <2>4 DEF Return
  <2>. QED BY <1>4, <2>1, <2>2, <2>3, <2>4 DEF ItemStep
<1>5. CASE u = t /\ EachStep(t)
  <2>1. found' = found /\ pc[t] \in EachLabels /\ op[t] = "for_each" /\ op'[t] # "search"
      BY <1>5 DEF EachStep, Each, NextElement, HandleElement, EachDone
  <2>2. pc'[t] \in {"idle", "each", "next"} => key'[t] = Absent
    <3>1. CASE Each(t) \/ EachDone(t) BY <3>1 DEF Each, EachDone, Results
    <3>2. CASE NextElement(t) BY <3>2 DEF NextElement
    <3>3. CASE HandleElement(t) BY <3>3 DEF HandleElement
    <3>. QED BY <1>5, <3>1, <3>2, <3>3 DEF EachStep
  <2>. QED BY <1>5, <2>1, <2>2 DEF Results
<1>. QED BY <1>1, <1>2, <1>3, <1>4, <1>5 DEF ThreadStep

\* LinInv is an inductive invariant of small_hash_map.
LEMMA ResultsKept == Spec => []LinInv
<1>1. Init => Results
    BY DEF Init, Results
<1>2. MapInv /\ MapInv' /\ Results /\ [Next]_vars => Results'
  <2> SUFFICES ASSUME MapInv, Results, [Next]_vars PROVE Results'
      OBVIOUS
  <2>1. CASE \E t \in Threads : ThreadStep(t)
    <3>1. PICK t \in Threads : ThreadStep(t)
        BY <2>1
    <3>. QED BY <3>1, ResultsStep
  <2>2. CASE UNCHANGED vars
      BY <2>2 DEF Results, vars, callVars
  <2>. QED BY <2>1, <2>2, StepCases
<1>3. MapInv /\ Results => LinInv
    BY DEF LinInv
<1>. QED BY <1>1, <1>2, <1>3, FoundStays, PTL DEF Spec

\* What LinMap sees of a thread's call: for_each it does not.
AOp(t) == IF op[t] = "for_each" THEN "none" ELSE op[t]
AKey(t) == IF op[t] = "for_each" THEN Absent ELSE key[t]
AState(t) ==
    CASE op[t] \in {"none", "for_each"} -> "idle"
      [] pc[t] \in {"count", "unlock"} -> "done"
      [] OTHER -> "called"
Lost == {k \in Keys : Hash[k] \in met}
AOps == [t \in Threads |-> AOp(t)]
AKeys == [t \in Threads |-> AKey(t)]
AStates == [t \in Threads |-> AState(t)]

\* A step of which LinMap sees nothing.
Hidden(t) ==
    /\ value' = value /\ item' = item /\ found' = found
    /\ AOp(t)' = AOp(t) /\ AKey(t)' = AKey(t) /\ AState(t)' = AState(t)

\* Of a step of thread t LinMap sees what it does to the call of t.
LEMMA OthersHidden ==
    ASSUME LinInv, NEW t \in Threads, ThreadStep(t)
    PROVE /\ AOps' = [AOps EXCEPT ![t] = AOp(t)']
          /\ AKeys' = [AKeys EXCEPT ![t] = AKey(t)']
          /\ AStates' = [AStates EXCEPT ![t] = AState(t)']
<1>1. \A u \in Threads \ {t} : AOp(u)' = AOp(u) /\ AKey(u)' = AKey(u) /\ AState(u)' = AState(u)
    BY OwnStays DEF LinInv, MapInv, EachInv, IInv, AOp, AKey, AState
<1>. QED BY <1>1 DEF AOps, AKeys, AStates

\* In a hidden step LinMap does nothing, or loses keys.
LEMMA HiddenLoses ==
    ASSUME LinInv, NEW t \in Threads, ThreadStep(t), Hidden(t)
    PROVE Abstract!Lose
<1>1. AOps' = AOps /\ AKeys' = AKeys /\ AStates' = AStates
    BY OthersHidden DEF Hidden, AOps, AKeys, AStates
<1>2. Lost \subseteq Lost' /\ Lost' \subseteq Keys
    BY MetGrows DEF Lost
<1>. QED BY <1>1, <1>2, Zenon DEF Hidden, Abstract!Lose, Lost, AOps, AKeys, AStates, AOp, AKey, AState

\* What LinMap's actions are in terms of this module.
LEMMA AbstractCall ==
    ASSUME NEW t \in Threads, NEW o \in {"search", "set", "insert", "erase"}, NEW k \in Keys,
           NEW v \in IF o \in {"set", "insert"} THEN Values ELSE {Absent},
           AStates[t] = "idle", AStates' = [AStates EXCEPT ![t] = "called"],
           AOps' = [AOps EXCEPT ![t] = o], AKeys' = [AKeys EXCEPT ![t] = k],
           item' = [item EXCEPT ![t] = v], UNCHANGED <<value, found>>, Lost' = Lost
    PROVE Abstract!Call(t)
<1>1. AOps'[t] = o
    BY DEF AOps
<1>. QED BY <1>1 DEF Abstract!Call, Lost, AOps, AKeys, AStates, AOp, AKey, AState

\* The same of a call's effect.
LEMMA AbstractEffect ==
    ASSUME NEW t \in Threads,
           AStates[t] = "called", AStates' = [AStates EXCEPT ![t] = "done"],
           AOps' = AOps, AKeys' = AKeys, AKeys[t] \notin Lost, Lost' = Lost,
           found' = [found EXCEPT ![t] = value[AKeys[t]] # Absent \/ AOps[t] = "insert"],
           value' = CASE AOps[t] = "insert" \/ (AOps[t] = "set" /\ value[AKeys[t]] # Absent) ->
                           [value EXCEPT ![AKeys[t]] = item[t]]
                      [] AOps[t] = "erase" -> [value EXCEPT ![AKeys[t]] = Absent]
                      [] OTHER -> value,
           item' = IF AOps[t] = "search" THEN [item EXCEPT ![t] = value[AKeys[t]]] ELSE item
    PROVE Abstract!Effect(t)
BY Zenon DEF Abstract!Effect, Abstract!Present, Lost, AOps, AKeys, AStates, AOp, AKey, AState

\* The same of a call of a lost key.
LEMMA AbstractLost ==
    ASSUME NEW t \in Threads, NEW b \in BOOLEAN,
           NEW v \in Values \cup {Absent}, NEW w \in Values \cup {Absent},
           AStates[t] = "called", AStates' = [AStates EXCEPT ![t] = "done"],
           AOps' = AOps, AKeys' = AKeys, AKeys[t] \in Lost, Lost' = Lost,
           found' = [found EXCEPT ![t] = b],
           value' = [value EXCEPT ![AKeys[t]] = v],
           item' = [item EXCEPT ![t] = w]
    PROVE Abstract!LostEffect(t)
BY Zenon DEF Abstract!LostEffect, Lost, AOps, AKeys, AStates, AOp, AKey, AState

\* And of its return.
LEMMA AbstractReturn ==
    ASSUME NEW t \in Threads,
           AStates[t] = "done", AStates' = [AStates EXCEPT ![t] = "idle"],
           AOps' = [AOps EXCEPT ![t] = "none"], AKeys' = [AKeys EXCEPT ![t] = Absent],
           item' = [item EXCEPT ![t] = Absent], found' = [found EXCEPT ![t] = FALSE],
           value' = value, Lost' = Lost
    PROVE Abstract!Return(t)
BY Zenon DEF Abstract!Return, Lost, AOps, AKeys, AStates, AOp, AKey, AState

AbstractStep(t) ==
    \/ Abstract!Call(t) \/ Abstract!Effect(t) \/ Abstract!LostEffect(t) \/ Abstract!Return(t)
    \/ Abstract!Lose

\* for_each LinMap does not see.
LEMMA EachHidden ==
    ASSUME LinInv, NEW t \in Threads, ForEach(t) \/ EachStep(t)
    PROVE Hidden(t)
<1> USE DEF LinInv, MapInv, EachInv, IInv, TypeOK, CallsOk, CallLabels, EachLabels, Results, Goto, At,
            mapVars, callVars, Hidden, AOp, AKey, AState
<1>1. CASE ForEach(t) BY <1>1 DEF ForEach
<1>2. CASE Each(t) BY <1>2 DEF Each
<1>3. CASE NextElement(t) BY <1>3 DEF NextElement
<1>4. CASE HandleElement(t) BY <1>4 DEF HandleElement
<1>5. CASE EachDone(t) BY <1>5 DEF EachDone
<1>. QED BY <1>1, <1>2, <1>3, <1>4, <1>5 DEF EachStep

\* Nor that a call takes a mutex, makes a map, or counts.
LEMMA LocksHidden ==
    ASSUME LinInv, NEW t \in Threads,
           \/ LockShared(t) \/ LockUpgrade(t) \/ CreateMap(t) \/ Upgrade(t) \/ LockNode(t) \/ Count(t)
           \/ Find(t) /\ pc'[t] # "unlock"
    PROVE Hidden(t)
<1> USE DEF LinInv, MapInv, EachInv, IInv, TypeOK, CallsOk, CallLabels, EachLabels, Goto, At,
            mapVars, callVars
<1>1. value' = value /\ <<op, key, item, found>>' = <<op, key, item, found>>
    BY DEF LockShared, LockUpgrade, CreateMap, Upgrade, LockNode, Count, Find
<1>2. pc[t] \in {"count", "unlock"} <=> pc'[t] \in {"count", "unlock"}
    BY DEF LockShared, LockUpgrade, CreateMap, Upgrade, LockNode, Count, Find, AfterFind
<1>. QED BY <1>1, <1>2 DEF Hidden, AOp, AKey, AState

\* The step where a call takes effect, if it is one of those.
LEMMA EffectStep ==
    ASSUME LinInv, NEW t \in Threads,
           Access(t) \/ Add(t) \/ Remove(t) \/ (Find(t) /\ pc'[t] = "unlock")
    PROVE Abstract!Effect(t) \/ Abstract!LostEffect(t)
<1> USE DEF LinInv, MapInv, EachInv, IInv, TypeOK, CallsOk, CallLabels, EachLabels, Goto, At
<1>1. ThreadStep(t)
    BY ConstantsOk DEF ThreadStep, LockStep, ItemStep
<1>2. /\ pc[t] \in CallLabels \ {"count", "unlock"} /\ pc'[t] \in {"count", "unlock"}
      /\ op' = op /\ key' = key
      /\ op[t] \in {"search", "set", "insert", "erase"} /\ key[t] \in Keys
      /\ bkt[t] = Hash[key[t]] /\ met' = met
    BY DEF Access, Add, Remove, Find, AfterFind, callVars, Ops
<1>3. /\ AOps[t] = op[t] /\ AKeys[t] = key[t] /\ AStates[t] = "called"
      /\ AOp(t)' = AOp(t) /\ AKey(t)' = AKey(t) /\ AState(t)' = "done"
    BY <1>2 DEF AOps, AKeys, AStates, AOp, AKey, AState
<1>4. /\ AStates' = [AStates EXCEPT ![t] = "done"] /\ AOps' = AOps /\ AKeys' = AKeys
  <2>1. /\ AOps' = [AOps EXCEPT ![t] = AOp(t)] /\ AKeys' = [AKeys EXCEPT ![t] = AKey(t)]
        /\ AStates' = [AStates EXCEPT ![t] = "done"]
      BY <1>1, <1>3, OthersHidden
  <2>2. AOps = [AOps EXCEPT ![t] = AOp(t)] /\ AKeys = [AKeys EXCEPT ![t] = AKey(t)]
      BY DEF AOps, AKeys
  <2>. QED BY <2>1, <2>2
<1>5. Lost' = Lost /\ (key[t] \in Lost <=> bkt[t] \in met)
    BY <1>2 DEF Lost
<1>6. CASE bkt[t] \in met
  <2>1. PICK b \in BOOLEAN : found' = [found EXCEPT ![t] = b]
    <3>1. found = [found EXCEPT ![t] = found[t]]
        OBVIOUS
    <3>. QED BY <3>1 DEF Access, Add, Remove, Find, callVars
  <2>2. PICK v \in Values \cup {Absent} : value' = [value EXCEPT ![key[t]] = v]
    <3>1. value = [value EXCEPT ![key[t]] = value[key[t]]] /\ value[key[t]] \in Values \cup {Absent}
        BY <1>2
    <3>2. item[t] \in Values \cup {Absent}
        OBVIOUS
    <3>3. CASE Access(t) \/ Find(t) BY <3>1, <3>2, <3>3 DEF Access, Find, mapVars
    <3>4. CASE Add(t) \/ Remove(t) BY <3>1, <3>2, <3>4 DEF Add, Remove
    <3>. QED BY <3>3, <3>4
  <2>3. PICK w \in Values \cup {Absent} : item' = [item EXCEPT ![t] = w]
    <3>1. item = [item EXCEPT ![t] = item[t]] /\ item[t] \in Values \cup {Absent}
          /\ value[key[t]] \in Values \cup {Absent}
        BY <1>2
    <3>. QED BY <3>1 DEF Access, Add, Remove, Find, callVars
  <2>. QED BY <1>3, <1>4, <1>5, <1>6, <2>1, <2>2, <2>3, AbstractLost
<1>7. CASE bkt[t] \notin met
  <2>1. /\ found' = [found EXCEPT ![t] = value[key[t]] # Absent \/ op[t] = "insert"]
        /\ value' = CASE op[t] = "insert" \/ (op[t] = "set" /\ value[key[t]] # Absent) ->
                           [value EXCEPT ![key[t]] = item[t]]
                      [] op[t] = "erase" -> [value EXCEPT ![key[t]] = Absent]
                      [] OTHER -> value
        /\ item' = IF op[t] = "search" THEN [item EXCEPT ![t] = value[key[t]]] ELSE item
    <3>1. CASE Access(t)
      <4>1. value[key[t]] # Absent /\ op[t] # "erase"
          BY <1>7, <3>1 DEF Access, ItemPresent
      <4>. QED BY <1>2, <3>1, <4>1 DEF Access
    <3>2. CASE Add(t)
      <4>1. value[key[t]] = Absent /\ op[t] = "insert"
          BY <1>7, <3>2 DEF Add, Looked
      <4>2. value' = [value EXCEPT ![key[t]] = item[t]]
          BY <3>2, <4>1 DEF Add
      <4>. QED BY <3>2, <4>1, <4>2 DEF Add
    <3>3. CASE Remove(t)
      <4>1. value[key[t]] # Absent /\ op[t] = "erase"
          BY <1>7, <3>3 DEF Remove, Looked
      <4>. QED BY <3>3, <4>1 DEF Remove
    <3>4. CASE Find(t) /\ pc'[t] = "unlock"
      <4>1. /\ value[key[t]] = Absent /\ op[t] \in {"search", "set", "erase"}
            /\ value' = value /\ item' = item /\ found' = found /\ found[t] = FALSE
            /\ op[t] = "search" => item[t] = Absent
          BY <1>2, <3>4 DEF Find, AfterFind, mapVars, callVars, Results
      <4>2. /\ found = [found EXCEPT ![t] = FALSE]
            /\ value = [value EXCEPT ![key[t]] = Absent]
            /\ op[t] = "search" => item = [item EXCEPT ![t] = Absent]
          BY <4>1
      <4>. QED BY <4>1, <4>2
    <3>. QED BY <3>1, <3>2, <3>3, <3>4
  <2>. QED BY <1>3, <1>4, <1>5, <1>7, <2>1, AbstractEffect
<1>. QED BY <1>6, <1>7

\* The start of a call.
LEMMA CallStep ==
    ASSUME LinInv, NEW t \in Threads, NEW o \in Ops \ {"for_each"}, NEW k \in Keys, Call(t, o, k)
    PROVE Abstract!Call(t)
<1> USE DEF LinInv, MapInv, EachInv, IInv, TypeOK, CallsOk, CallLabels, EachLabels, Goto, At
<1>1. ThreadStep(t) /\ o \in {"search", "set", "insert", "erase"}
    BY DEF ThreadStep, Start, Ops
<1>2. AStates[t] = "idle"
    BY DEF Call, AStates, AState
<1>3. AOp(t)' = o /\ AKey(t)' = k /\ AState(t)' = "called"
    BY <1>1 DEF Call, AOp, AKey, AState
<1>4. /\ AStates' = [AStates EXCEPT ![t] = "called"]
      /\ AOps' = [AOps EXCEPT ![t] = o] /\ AKeys' = [AKeys EXCEPT ![t] = k]
    BY <1>1, <1>3, OthersHidden
<1>5. PICK v \in IF o \in {"set", "insert"} THEN Values ELSE {Absent} : item' = [item EXCEPT ![t] = v]
    BY DEF Call
<1>6. UNCHANGED <<value, found>> /\ Lost' = Lost
    BY DEF Call, mapVars, Lost
<1>. QED BY <1>1, <1>2, <1>4, <1>5, <1>6, AbstractCall

\* Its end.
LEMMA ReturnStep ==
    ASSUME LinInv, NEW t \in Threads, Return(t)
    PROVE Abstract!Return(t)
<1> USE DEF LinInv, MapInv, EachInv, IInv, TypeOK, CallsOk, CallLabels, EachLabels, Goto, At
<1>1. ThreadStep(t)
    BY DEF ThreadStep, ItemStep
<1>2. AStates[t] = "done"
    BY DEF Return, AStates, AState, Ops
<1>3. AOp(t)' = "none" /\ AKey(t)' = Absent /\ AState(t)' = "idle"
    BY DEF Return, AOp, AKey, AState
<1>4. /\ AStates' = [AStates EXCEPT ![t] = "idle"]
      /\ AOps' = [AOps EXCEPT ![t] = "none"] /\ AKeys' = [AKeys EXCEPT ![t] = Absent]
    BY <1>1, <1>3, OthersHidden
<1>5. value' = value /\ Lost' = Lost
    BY DEF Return, mapVars, Lost
<1>. QED BY <1>2, <1>4, <1>5, AbstractReturn DEF Return

\* Every step of a thread is one of the dictionary, or one it does not see.
LEMMA SimulationStep ==
    ASSUME LinInv, NEW t \in Threads, ThreadStep(t)
    PROVE AbstractStep(t)
<1>1. CASE ForEach(t) \/ EachStep(t)
    BY <1>1, EachHidden, HiddenLoses DEF AbstractStep
<1>2. ASSUME NEW o \in Ops \ {"for_each"}, NEW k \in Keys, Call(t, o, k)
      PROVE  AbstractStep(t)
    BY <1>2, CallStep DEF AbstractStep
<1>3. CASE LockStep(t)
  <2>1. CASE Find(t) /\ pc'[t] = "unlock" BY <2>1, EffectStep DEF AbstractStep
  <2>2. CASE ~ (Find(t) /\ pc'[t] = "unlock")
      BY <1>3, <2>2, LocksHidden, HiddenLoses DEF LockStep, AbstractStep
  <2>. QED BY <2>1, <2>2
<1>4. CASE ItemStep(t)
  <2>1. CASE LockNode(t) \/ Count(t) BY <2>1, LocksHidden, HiddenLoses DEF AbstractStep
  <2>2. CASE Access(t) \/ Add(t) \/ Remove(t) BY <2>2, EffectStep DEF AbstractStep
  <2>3. CASE Return(t) BY <2>3, ReturnStep DEF AbstractStep
  <2>. QED BY <1>4, <2>1, <2>2, <2>3 DEF ItemStep
<1>. QED BY <1>1, <1>2, <1>3, <1>4 DEF ThreadStep, Start

\* small_hash_map is a linearizable dictionary: each search, set, insert and erase takes
\* effect in one step (80-189).  The keys of a bucket where a call met the loose insert
\* are lost to it.
THEOREM ImplementsLinMap == Spec => Linearizable
<1>1. Init => Abstract!Init
    BY DEF Init, Abstract!Init
<1>2. LinInv /\ [Next]_vars => [Abstract!Next]_(Abstract!vars)
  <2> SUFFICES ASSUME LinInv, [Next]_vars PROVE Abstract!Next \/ UNCHANGED Abstract!vars
      OBVIOUS
  <2>1. CASE \E t \in Threads : ThreadStep(t)
    <3>1. PICK t \in Threads : ThreadStep(t)
        BY <2>1
    <3>2. AbstractStep(t)
        BY <3>1, SimulationStep
    <3>. QED BY <3>2, Zenon DEF AbstractStep, Abstract!Next, Abstract!vars, AOps, AKeys, AStates,
                              AOp, AKey, AState
  <2>2. CASE UNCHANGED vars
      BY <2>2 DEF vars, mapVars, callVars, Abstract!vars
  <2>. QED BY <2>1, <2>2, StepCases
<1>. QED BY <1>1, <1>2, ResultsKept, PTL DEF Spec, Linearizable, Abstract!Spec
=============================================================================
