------------------------- MODULE HazardSystemProofs -------------------------
(***************************************************************************)
(* For any number of threads, slots and recover lists: a slot has one      *)
(* holder, and a recover list is handled by one thread at a time; every    *)
(* slot is in the list for good; no object is freed twice or lost; and a   *)
(* pointer published, validated and seen by the scans is not freed.        *)
(***************************************************************************)
EXTENDS HazardSystem, FiniteSetTheorems, WellFoundedInduction, TLAPS

\* What the local variables hold where they are used.
LocalsOk ==
    \A t \in Threads :
        /\ pc[t] \in {"seek", "push", "link"} => want[t] > 0
        /\ pc[t] \in {"push", "link"} => cur[t] \in Slots
        /\ pc[t] \in {"publish", "check", "use"} => obj[t] \in Objects
        /\ Retiring(t) => obj[t] \in Objects
        /\ pc[t] = "release" => cur[t] \in held[t]

\* Every pointer to a node leads to one that has been allocated.
PointersAllocated ==
    /\ head \in 1..llen
    /\ \A s \in Slots : next[s] \in (1..llen) \cup {Null}
    /\ \A t \in Threads :
          /\ cur[t] \in (1..llen) \cup {Null}
          /\ old[t] \in (1..llen) \cup {Null}

\* Every slot in someone's hands has been allocated, so a new one is nobody's.
OwnedAllocated == \A t \in Threads : Owned(t) \subseteq 1..llen

IInv ==
    /\ TypeOK
    /\ LocalsOk
    /\ PointersAllocated
    /\ OwnedAllocated
    /\ SlotExclusive
    /\ RecoverExclusive
    /\ NoListLeftLocked

\* The constructor establishes the invariant.
LEMMA InitIInv == Init => IInv
<1> SUFFICES ASSUME Init PROVE IInv
    OBVIOUS
<1> USE ConstantsOk DEF Init, Slots, Lists
<1>1. TypeOK
  <2>1. /\ head \in Slots /\ llen \in Slots
        /\ next \in [Slots -> Slots \cup {Null}]
        /\ active \in [Slots -> {0, 1}]
        /\ hazard \in [Slots -> Objects \cup {Null}]
      OBVIOUS
  <2>2. /\ recover \in [Lists -> SUBSET Objects]
        /\ unlocked \in [Lists -> {0, 1}]
        /\ link \in Objects /\ free \subseteq Objects
      OBVIOUS
  <2>3. /\ pc \in [Threads -> Labels]
        /\ cur \in [Threads -> Slots \cup {Null}]
        /\ old \in [Threads -> Slots \cup {Null}]
        /\ want \in [Threads -> Nat]
        /\ held \in [Threads -> SUBSET Slots]
        /\ obj \in [Threads -> Objects \cup {Null}]
        /\ lst \in [Threads -> Lists]
        /\ scan \in [Threads -> Slots \cup {Null}]
        /\ seen \in [Threads -> SUBSET Objects]
      BY DEF Labels
  <2>4. /\ pending \in [Threads -> BOOLEAN]
        /\ fenced \in [Threads -> BOOLEAN]
        /\ torn \in BOOLEAN
      OBVIOUS
  <2>. QED BY <2>1, <2>2, <2>3, <2>4 DEF TypeOK
<1>2. PointersAllocated
    BY DEF PointersAllocated
<1>3. LocalsOk /\ OwnedAllocated /\ SlotExclusive /\ RecoverExclusive /\ NoListLeftLocked
    BY DEF LocalsOk, OwnedAllocated, SlotExclusive, RecoverExclusive, NoListLeftLocked,
           Owned, Pushing, InList, Retiring, At
<1>. QED BY <1>1, <1>2, <1>3 DEF IInv

\* The actions of thread t, grouped as in HazardSystem.
AcquireStep(t) ==
    Acquire(t) \/ ReuseSlot(t) \/ SkipSlot(t) \/ GrowList(t) \/ PushSlot(t) \/ LinkSlot(t)
ClientStep(t) ==
    Load(t) \/ Publish(t) \/ Drain(t) \/ Validate(t) \/ Abandon(t) \/ Unlink(t)
RetireStep(t) ==
    \/ LockList(t) \/ SkipList(t) \/ CheckSize(t)
    \/ StartScan(t) \/ ScanSlot(t) \/ EndScan(t) \/ Sweep(t) \/ Store(t)
ReleaseStep(t) == ClearSlot(t) \/ ReleaseSlot(t)

\* A step of the system is a step of one thread.
LEMMA StepCases ==
    ASSUME NEW t \in Threads, Step(t)
    PROVE AcquireStep(t) \/ ClientStep(t) \/ RetireStep(t) \/ ReleaseStep(t)
BY DEF Step, AcquireStep, ClientStep, RetireStep, ReleaseStep

\* A step keeps the types.
LEMMA TypeStep ==
    ASSUME IInv, NEW t \in Threads, Step(t)
    PROVE TypeOK'
<1> USE ConstantsOk DEF IInv, TypeOK, LocalsOk, Labels, Slots, Lists, At, Goto,
        slotVars, listVars, clientVars, acqVars, useVars, retVars, Take, EndUse,
        Retiring, InList
<1>1. CASE AcquireStep(t)
  <2>1. CASE Acquire(t) BY <2>1 DEF Acquire
  <2>2. CASE ReuseSlot(t) BY <2>2 DEF ReuseSlot
  <2>3. CASE SkipSlot(t) BY <2>3 DEF SkipSlot
  <2>4. CASE GrowList(t) BY <2>4 DEF GrowList
  <2>5. CASE PushSlot(t) BY <2>5 DEF PushSlot
  <2>6. CASE LinkSlot(t) BY <2>6 DEF LinkSlot
  <2>. QED BY <1>1, <2>1, <2>2, <2>3, <2>4, <2>5, <2>6 DEF AcquireStep
<1>2. CASE ClientStep(t)
  <2>1. CASE Load(t) BY <2>1 DEF Load
  <2>2. CASE Publish(t) BY <2>2 DEF Publish
  <2>3. CASE Drain(t) BY <2>3 DEF Drain
  <2>4. CASE Validate(t) BY <2>4 DEF Validate
  <2>5. CASE Abandon(t) BY <2>5 DEF Abandon
  <2>6. CASE Unlink(t) BY <2>6 DEF Unlink
  <2>. QED BY <1>2, <2>1, <2>2, <2>3, <2>4, <2>5, <2>6 DEF ClientStep
<1>3. CASE RetireStep(t)
  <2>1. CASE LockList(t) BY <2>1 DEF LockList
  <2>2. CASE SkipList(t) BY <2>2 DEF SkipList, NextList
  <2>3. CASE CheckSize(t) BY <2>3 DEF CheckSize
  <2>4. CASE StartScan(t) BY <2>4 DEF StartScan
  <2>5. CASE ScanSlot(t) BY <2>5 DEF ScanSlot
  <2>6. CASE EndScan(t) BY <2>6 DEF EndScan
  <2>7. CASE Sweep(t) BY <2>7 DEF Sweep, Kept
  <2>8. CASE Store(t) BY <2>8 DEF Store
  <2>. QED BY <1>3, <2>1, <2>2, <2>3, <2>4, <2>5, <2>6, <2>7, <2>8 DEF RetireStep
<1>4. CASE ReleaseStep(t)
  <2>1. CASE ClearSlot(t)
    <3>1. PICK s \in held[t] : /\ cur' = [cur EXCEPT ![t] = s]
                               /\ hazard' = [hazard EXCEPT ![s] = Null]
        BY <2>1 DEF ClearSlot
    <3>2. s \in 1..MaxSlots
        OBVIOUS
    <3>. QED BY <2>1, <3>1, <3>2 DEF ClearSlot
  <2>2. CASE ReleaseSlot(t) BY <2>2 DEF ReleaseSlot
  <2>. QED BY <1>4, <2>1, <2>2 DEF ReleaseStep
<1>. QED BY <1>1, <1>2, <1>3, <1>4, StepCases

\* A step keeps what the local variables of all threads stand for.
LEMMA LocalsStep ==
    ASSUME IInv, NEW t \in Threads, Step(t)
    PROVE LocalsOk'
<1> USE ConstantsOk DEF IInv, TypeOK, LocalsOk, Labels, Slots, Lists, At, Goto,
        slotVars, listVars, clientVars, acqVars, useVars, retVars, Take, EndUse,
        Retiring, InList
<1>1. CASE AcquireStep(t)
  <2>1. CASE Acquire(t) BY <2>1 DEF Acquire
  <2>2. CASE ReuseSlot(t) BY <2>2 DEF ReuseSlot
  <2>3. CASE SkipSlot(t) BY <2>3 DEF SkipSlot
  <2>4. CASE GrowList(t) BY <2>4 DEF GrowList
  <2>5. CASE PushSlot(t) BY <2>5 DEF PushSlot
  <2>6. CASE LinkSlot(t) BY <2>6 DEF LinkSlot
  <2>. QED BY <1>1, <2>1, <2>2, <2>3, <2>4, <2>5, <2>6 DEF AcquireStep
<1>2. CASE ClientStep(t)
    BY <1>2 DEF ClientStep, Load, Publish, Drain, Validate, Abandon, Unlink
<1>3. CASE RetireStep(t)
    BY <1>3 DEF RetireStep, LockList, SkipList, CheckSize, StartScan, ScanSlot,
                EndScan, Sweep, Store
<1>4. CASE ReleaseStep(t)
  <2>1. CASE ClearSlot(t)
    <3>1. PICK s \in held[t] : cur' = [cur EXCEPT ![t] = s]
        BY <2>1 DEF ClearSlot
    <3>. QED BY <2>1, <3>1 DEF ClearSlot
  <2>2. CASE ReleaseSlot(t) BY <2>2 DEF ReleaseSlot
  <2>. QED BY <1>4, <2>1, <2>2 DEF ReleaseStep
<1>. QED BY <1>1, <1>2, <1>3, <1>4, StepCases

\* A step leaves every pointer of the slot list leading to slots.
LEMMA PointerStep ==
    ASSUME IInv, NEW t \in Threads, Step(t)
    PROVE PointersAllocated'
<1> USE ConstantsOk DEF IInv, TypeOK, LocalsOk, PointersAllocated, Slots, At, Goto,
        slotVars, acqVars
<1>1. CASE AcquireStep(t)
  <2> USE DEF Take
  <2>1. CASE Acquire(t) BY <2>1 DEF Acquire
  <2>2. CASE ReuseSlot(t) BY <2>2 DEF ReuseSlot
  <2>3. CASE SkipSlot(t) BY <2>3 DEF SkipSlot
  <2>4. CASE GrowList(t) BY <2>4 DEF GrowList
  <2>5. CASE PushSlot(t) BY <2>5 DEF PushSlot
  <2>6. CASE LinkSlot(t) BY <2>6 DEF LinkSlot
  <2>. QED BY <1>1, <2>1, <2>2, <2>3, <2>4, <2>5, <2>6 DEF AcquireStep
<1>2. CASE ClientStep(t)
    BY <1>2 DEF ClientStep, Load, Publish, Drain, Validate, Abandon, EndUse, Unlink
<1>3. CASE RetireStep(t)
    BY <1>3 DEF RetireStep, LockList, SkipList, CheckSize, StartScan, ScanSlot,
                EndScan, Sweep, Store, EndUse
<1>4. CASE ReleaseStep(t)
  <2>1. \A s \in held[t] : t \in Threads /\ s \in 1..llen
      BY DEF OwnedAllocated, Owned
  <2>2. CASE ClearSlot(t)
    <3>1. PICK s \in held[t] : cur' = [cur EXCEPT ![t] = s]
        BY <2>2 DEF ClearSlot
    <3>2. UNCHANGED <<head, next, llen, old>>
        BY <2>2 DEF ClearSlot
    <3>3. s \in 1..llen
        BY <2>1
    <3>. QED BY <3>1, <3>2, <3>3
  <2>3. CASE ReleaseSlot(t)
    <3>1. cur' = [cur EXCEPT ![t] = Null] /\ UNCHANGED <<head, next, llen, old>>
        BY <2>3 DEF ReleaseSlot
    <3>. QED BY <3>1
  <2>. QED BY <1>4, <2>2, <2>3 DEF ReleaseStep
<1>. QED BY <1>1, <1>2, <1>3, <1>4, StepCases

\* A step that changes neither the flags nor anyone's slots keeps both.
LEMMA SameOwners ==
    ASSUME OwnedAllocated, SlotExclusive, UNCHANGED <<active, llen>>,
           \A u \in Threads : Owned(u)' = Owned(u)
    PROVE OwnedAllocated' /\ SlotExclusive'
BY DEF OwnedAllocated, SlotExclusive

\* So does one in which a thread takes a slot that was free and lost no one.
LEMMA NewOwner ==
    ASSUME OwnedAllocated, SlotExclusive, TypeOK, NEW t \in Threads, NEW s \in Slots,
           active' = [active EXCEPT ![s] = 0], llen' \in Nat, llen' >= llen,
           s \in 1..llen',
           \A u \in Threads : s \notin Owned(u),
           \A u \in Threads \ {t} : Owned(u)' = Owned(u),
           Owned(t)' = Owned(t) \cup {s}
    PROVE OwnedAllocated' /\ SlotExclusive'
<1>1. llen \in Nat
    BY ConstantsOk DEF TypeOK, Slots
<1>2. OwnedAllocated'
  <2>1. 1..llen \subseteq 1..llen'
      BY <1>1
  <2>. QED BY <2>1 DEF OwnedAllocated
<1>3. ASSUME NEW u \in Threads, NEW x \in Owned(u)' PROVE active'[x] = 0
  <2>1. x = s \/ x \in Owned(u)
      OBVIOUS
  <2>2. CASE x = s
      BY <2>2 DEF TypeOK
  <2>3. CASE x # s /\ x \in Owned(u)
    <3>1. active[x] = 0
        BY <2>3 DEF SlotExclusive
    <3>. QED BY <2>3, <3>1 DEF TypeOK
  <2>. QED BY <2>1, <2>2, <2>3
<1>4. ASSUME NEW u \in Threads, NEW w \in Threads \ {u}
      PROVE Owned(u)' \cap Owned(w)' = {}
  <2>1. Owned(u) \cap Owned(w) = {}
      BY DEF SlotExclusive
  <2>. QED BY <2>1
<1>. QED BY <1>2, <1>3, <1>4 DEF SlotExclusive

\* And one in which a thread gives back a slot nobody else has.
LEMMA LostOwner ==
    ASSUME OwnedAllocated, SlotExclusive, TypeOK, NEW t \in Threads, NEW s \in Owned(t),
           active' = [active EXCEPT ![s] = 1], llen' = llen,
           \A u \in Threads \ {t} : Owned(u)' = Owned(u),
           Owned(t)' = Owned(t) \ {s}
    PROVE OwnedAllocated' /\ SlotExclusive'
<1>1. OwnedAllocated'
    BY DEF OwnedAllocated
<1>2. ASSUME NEW u \in Threads, NEW x \in Owned(u)' PROVE active'[x] = 0
  <2>1. x \in Owned(u) /\ x # s
      BY DEF SlotExclusive
  <2>2. active[x] = 0
      BY <2>1 DEF SlotExclusive
  <2>. QED BY <2>1, <2>2 DEF TypeOK
<1>3. ASSUME NEW u \in Threads, NEW w \in Threads \ {u}
      PROVE Owned(u)' \cap Owned(w)' = {}
  <2>1. Owned(u) \cap Owned(w) = {}
      BY DEF SlotExclusive
  <2>. QED BY <2>1
<1>. QED BY <1>1, <1>2, <1>3 DEF SlotExclusive

\* A step gives no slot a second owner.
LEMMA SlotStep ==
    ASSUME IInv, NEW t \in Threads, Step(t)
    PROVE OwnedAllocated' /\ SlotExclusive'
<1> USE ConstantsOk DEF IInv, TypeOK, LocalsOk, Owned,
        Pushing, At, Goto, Slots, slotVars, acqVars
<1>1. CASE AcquireStep(t)
  <2> USE DEF Take, SlotAvailable
  <2>1. CASE Acquire(t) \/ SkipSlot(t) \/ PushSlot(t)
      BY <2>1, SameOwners DEF Acquire, SkipSlot, PushSlot
  <2>2. CASE ReuseSlot(t)
    <3>1. \A u \in Threads : cur[t] \notin Owned(u)
        BY <2>2 DEF ReuseSlot, SlotExclusive
    <3>2. cur[t] \in 1..llen
        BY <2>2 DEF ReuseSlot, PointersAllocated
    <3>3. /\ Owned(t)' = Owned(t) \cup {cur[t]}
          /\ \A u \in Threads \ {t} : Owned(u)' = Owned(u)
        BY <2>2 DEF ReuseSlot
    <3>4. active' = [active EXCEPT ![cur[t]] = 0]
        BY <2>2 DEF ReuseSlot
    <3>5. /\ cur[t] \in Slots /\ llen' \in Nat /\ llen' >= llen
          /\ cur[t] \in 1..llen'
        BY <2>2, <3>2 DEF ReuseSlot
    <3> HIDE DEF Owned, TypeOK, Slots
    <3>. QED BY <3>1, <3>2, <3>3, <3>4, <3>5, NewOwner
  <2>3. CASE GrowList(t)
    <3>1. \A u \in Threads : llen + 1 \notin Owned(u)
      <4>1. llen + 1 \notin 1..llen
          OBVIOUS
      <4>. QED BY <4>1 DEF OwnedAllocated
    <3>2. /\ Owned(t)' = Owned(t) \cup {llen + 1}
          /\ \A u \in Threads \ {t} : Owned(u)' = Owned(u)
        BY <2>3 DEF GrowList
    <3>3. /\ active' = [active EXCEPT ![llen + 1] = 0]
          /\ llen' = llen + 1
          /\ llen + 1 \in Slots
        BY <2>3 DEF GrowList
    <3>4. /\ llen' \in Nat /\ llen' >= llen
          /\ llen + 1 \in 1..llen'
        BY <3>3
    <3> HIDE DEF Owned, TypeOK, Slots
    <3>. QED BY <3>1, <3>2, <3>3, <3>4, NewOwner
  <2>4. CASE LinkSlot(t) BY <2>4, SameOwners DEF LinkSlot
  <2>. QED BY <1>1, <2>1, <2>2, <2>3, <2>4 DEF AcquireStep
<1>2. CASE ClientStep(t)
    BY <1>2, SameOwners DEF ClientStep, Load, Publish, Drain, Validate, Abandon, EndUse, Unlink
<1>3. CASE RetireStep(t)
    BY <1>3, SameOwners DEF RetireStep, LockList, SkipList, CheckSize, StartScan, ScanSlot,
                EndScan, Sweep, Store, EndUse
<1>4. CASE ReleaseStep(t)
  <2>1. CASE ClearSlot(t)
      BY <2>1, SameOwners DEF ClearSlot
  <2>2. CASE ReleaseSlot(t)
    <3>1. cur[t] \in held[t]
        BY <2>2 DEF ReleaseSlot
    <3>2. /\ Owned(t)' = Owned(t) \ {cur[t]}
          /\ \A u \in Threads \ {t} : Owned(u)' = Owned(u)
        BY <2>2 DEF ReleaseSlot
    <3>3. active' = [active EXCEPT ![cur[t]] = 1] /\ llen' = llen
        BY <2>2 DEF ReleaseSlot
    <3>. QED BY <3>1, <3>2, <3>3, LostOwner
  <2>. QED BY <1>4, <2>1, <2>2 DEF ReleaseStep
<1>. QED BY <1>1, <1>2, <1>3, <1>4, StepCases

\* A step gives no recover list a second owner.
LEMMA ListStep ==
    ASSUME IInv, NEW t \in Threads, Step(t)
    PROVE RecoverExclusive'
<1> USE ConstantsOk DEF IInv, TypeOK, RecoverExclusive, InList, At, Goto, Lists,
        listVars, retVars
<1>1. CASE AcquireStep(t)
    BY <1>1 DEF AcquireStep, Acquire, ReuseSlot, SkipSlot, GrowList, PushSlot, LinkSlot, Take
<1>2. CASE ClientStep(t)
    BY <1>2 DEF ClientStep, Load, Publish, Drain, Validate, Abandon, EndUse, Unlink
<1>3. CASE RetireStep(t)
  <2>1. CASE LockList(t) BY <2>1 DEF LockList, ListAvailable
  <2>2. CASE Store(t) BY <2>2 DEF Store, EndUse
  <2>3. CASE SkipList(t) \/ CheckSize(t) \/ StartScan(t) \/ ScanSlot(t)
             \/ EndScan(t) \/ Sweep(t)
      BY <2>3 DEF SkipList, CheckSize, StartScan, ScanSlot, EndScan, Sweep
  <2>. QED BY <1>3, <2>1, <2>2, <2>3 DEF RetireStep
<1>4. CASE ReleaseStep(t)
    BY <1>4 DEF ReleaseStep, ClearSlot, ReleaseSlot
<1>. QED BY <1>1, <1>2, <1>3, <1>4, StepCases

\* A step leaves no recover list locked that nobody handles.
LEMMA LockedStep ==
    ASSUME IInv, NEW t \in Threads, Step(t)
    PROVE NoListLeftLocked'
<1> USE ConstantsOk DEF IInv, TypeOK, NoListLeftLocked, InList, At, Goto, Lists,
        listVars, retVars
<1>1. CASE AcquireStep(t)
    BY <1>1 DEF AcquireStep, Acquire, ReuseSlot, SkipSlot, GrowList, PushSlot, LinkSlot, Take
<1>2. CASE ClientStep(t)
    BY <1>2 DEF ClientStep, Load, Publish, Drain, Validate, Abandon, EndUse, Unlink
<1>3. CASE RetireStep(t)
  <2>1. CASE LockList(t) BY <2>1 DEF LockList, ListAvailable
  <2>2. CASE Store(t)
    <3> SUFFICES ASSUME NEW l \in Lists, unlocked'[l] = 0
                 PROVE \E u \in Threads : InList(u)' /\ lst'[u] = l
        OBVIOUS
    <3>1. l # lst[t] /\ unlocked[l] = 0
        BY <2>2 DEF Store
    <3>2. PICK u \in Threads : InList(u) /\ lst[u] = l
        BY <3>1
    <3>3. u # t
        BY <3>1, <3>2
    <3>. QED BY <2>2, <3>2, <3>3 DEF Store, EndUse
  <2>3. CASE SkipList(t) \/ CheckSize(t) \/ StartScan(t) \/ ScanSlot(t)
             \/ EndScan(t) \/ Sweep(t)
      BY <2>3 DEF SkipList, CheckSize, StartScan, ScanSlot, EndScan, Sweep
  <2>. QED BY <1>3, <2>1, <2>2, <2>3 DEF RetireStep
<1>4. CASE ReleaseStep(t)
    BY <1>4 DEF ReleaseStep, ClearSlot, ReleaseSlot
<1>. QED BY <1>1, <1>2, <1>3, <1>4, StepCases

\* A stuttering step keeps the invariant.
LEMMA StutterIInv == IInv /\ UNCHANGED vars => IInv'
<1> SUFFICES ASSUME IInv, UNCHANGED vars PROVE IInv'
    OBVIOUS
<1> USE DEF IInv, vars, slotVars, listVars, clientVars, acqVars, useVars, retVars
<1>1. TypeOK' BY DEF TypeOK
<1>2. LocalsOk' BY DEF LocalsOk, Retiring, InList, At
<1>3. PointersAllocated' BY DEF PointersAllocated
<1>4. OwnedAllocated' /\ SlotExclusive'
    BY DEF OwnedAllocated, SlotExclusive, Owned, Pushing
<1>5. RecoverExclusive' /\ NoListLeftLocked'
    BY DEF RecoverExclusive, NoListLeftLocked, InList
<1>. QED BY <1>1, <1>2, <1>3, <1>4, <1>5

\* IInv is inductive: its parts hold in every reachable state.
THEOREM Invariance == Spec => []IInv
<1>1. IInv /\ [Next]_vars => IInv'
  <2> SUFFICES ASSUME IInv, [Next]_vars PROVE IInv'
      OBVIOUS
  <2>1. CASE UNCHANGED vars BY <2>1, StutterIInv
  <2>2. ASSUME NEW t \in Threads, Step(t) PROVE IInv'
      BY <2>2, TypeStep, LocalsStep, PointerStep, SlotStep, ListStep, LockedStep DEF IInv
  <2>. QED BY <2>1, <2>2 DEF Next
<1>. QED BY InitIInv, <1>1, PTL DEF Spec

\* Every variable keeps its type, whatever the number of threads and slots.
THEOREM Typing == Spec => []TypeOK
<1>1. IInv => TypeOK BY DEF IInv
<1>. QED BY Invariance, <1>1, PTL

\* acquire never hands a slot to a thread while another still holds it.
THEOREM SlotMutex == Spec => []SlotExclusive
<1>1. IInv => SlotExclusive BY DEF IInv
<1>. QED BY Invariance, <1>1, PTL

\* retire never has two threads in the same recover list.
THEOREM RecoverMutex == Spec => []RecoverExclusive
<1>1. IInv => RecoverExclusive BY DEF IInv
<1>. QED BY Invariance, <1>1, PTL

\* retire leaves no recover list locked behind it.
THEOREM RecoverListsUnlocked == Spec => []NoListLeftLocked
<1>1. IInv => NoListLeftLocked BY DEF IInv
<1>. QED BY Invariance, <1>1, PTL

-----------------------------------------------------------------------------
(* Objects *)

\* A thread publishes in the slot it has found last, and its store to it leaves the
\* buffer before the thread unlinks or gives up.
UsesOwnSlot ==
    \A t \in Threads :
        /\ pc[t] \in {"load", "publish", "check", "use"} \/ Retiring(t) => cur[t] \in held[t]
        /\ pending[t] => pc[t] \in {"load", "check", "use"}

\* What was validated with the store out of the buffer is in _hazard.
HazardSet ==
    \A t \in Threads :
        /\ At(t, "check") /\ ~ pending[t] => hazard[cur[t]] = obj[t]
        /\ At(t, "use") /\ fenced[t] => hazard[cur[t]] = obj[t] /\ ~ pending[t]

\* ObjectAccounting without counting: every object has a home, and only one.
OneHome ==
    /\ link \notin free
    /\ \A l \in Lists :
          /\ link \notin recover[l]
          /\ recover[l] \cap free = {}
          /\ \A k \in Lists \ {l} : recover[l] \cap recover[k] = {}
    /\ \A t \in Threads : Retiring(t) =>
          /\ obj[t] # link
          /\ obj[t] \notin free
          /\ \A l \in Lists : obj[t] \notin recover[l]
          /\ \A u \in Threads \ {t} : Retiring(u) => obj[u] # obj[t]
    /\ \A o \in Objects :
          \/ o = link \/ o \in free
          \/ \E l \in Lists : o \in recover[l]
          \/ \E t \in Threads : Retiring(t) /\ obj[t] = o

\* A slot that is not in the list yet leads nowhere.
Fresh ==
    \A s \in Slots :
        s > llen \/ (\E t \in Threads : At(t, "push") /\ cur[t] = s) => next[s] = Null

-----------------------------------------------------------------------------

\* A step keeps the use of slots.
LEMMA UsesStep ==
    ASSUME IInv, UsesOwnSlot, NEW t \in Threads, Step(t)
    PROVE UsesOwnSlot'
<1> USE ConstantsOk DEF IInv, TypeOK, UsesOwnSlot, Labels, At, Goto,
        slotVars, listVars, clientVars, acqVars, useVars, retVars, Take, EndUse,
        Retiring, InList
<1>1. CASE AcquireStep(t)
  <2>1. CASE Acquire(t) BY <2>1 DEF Acquire
  <2>2. CASE ReuseSlot(t) BY <2>2 DEF ReuseSlot
  <2>3. CASE SkipSlot(t) BY <2>3 DEF SkipSlot
  <2>4. CASE GrowList(t) BY <2>4 DEF GrowList
  <2>5. CASE PushSlot(t) BY <2>5 DEF PushSlot
  <2>6. CASE LinkSlot(t) BY <2>6 DEF LinkSlot
  <2>. QED BY <1>1, <2>1, <2>2, <2>3, <2>4, <2>5, <2>6 DEF AcquireStep
<1>2. CASE ClientStep(t)
  <2>1. CASE Load(t) BY <2>1 DEF Load
  <2>2. CASE Publish(t) BY <2>2 DEF Publish
  <2>3. CASE Drain(t) BY <2>3 DEF Drain
  <2>4. CASE Validate(t) BY <2>4 DEF Validate
  <2>5. CASE Abandon(t) BY <2>5 DEF Abandon
  <2>6. CASE Unlink(t) BY <2>6 DEF Unlink
  <2>. QED BY <1>2, <2>1, <2>2, <2>3, <2>4, <2>5, <2>6 DEF ClientStep
<1>3. CASE RetireStep(t)
    BY <1>3 DEF RetireStep, LockList, SkipList, CheckSize, StartScan, ScanSlot,
                EndScan, Sweep, Store
<1>4. CASE ReleaseStep(t)
  <2>1. CASE ClearSlot(t) BY <2>1 DEF ClearSlot
  <2>2. CASE ReleaseSlot(t) BY <2>2 DEF ReleaseSlot
  <2>. QED BY <1>4, <2>1, <2>2 DEF ReleaseStep
<1>. QED BY <1>1, <1>2, <1>3, <1>4, StepCases

\* Two threads never use the same slot.
LEMMA OwnSlots ==
    ASSUME IInv, UsesOwnSlot, NEW t \in Threads, NEW u \in Threads, t # u,
           cur[t] \in held[t], cur[u] \in held[u]
    PROVE cur[t] # cur[u]
BY DEF IInv, SlotExclusive, Owned

\* A step keeps the published pointers of the threads that use them.
LEMMA HazardStep ==
    ASSUME IInv, UsesOwnSlot, HazardSet, NEW t \in Threads, Step(t)
    PROVE HazardSet'
<1> USE ConstantsOk DEF IInv, TypeOK, HazardSet, Labels, At, Goto,
        slotVars, listVars, clientVars, acqVars, useVars, retVars, Take, EndUse
<1>1. CASE AcquireStep(t)
    BY <1>1 DEF AcquireStep, Acquire, ReuseSlot, SkipSlot, GrowList, PushSlot, LinkSlot
<1>2. CASE ClientStep(t)
  <2>1. CASE Load(t) BY <2>1 DEF Load
  <2>2. CASE Publish(t) BY <2>2 DEF Publish
  <2>3. CASE Drain(t)
    <3>1. cur[t] \in held[t] /\ held[t] \subseteq Slots
        BY <2>3 DEF Drain, UsesOwnSlot
    <3>2. ASSUME NEW u \in Threads \ {t}, pc[u] \in {"check", "use"}
          PROVE hazard'[cur[u]] = hazard[cur[u]]
      <4>1. cur[u] \in held[u]
          BY <3>2 DEF UsesOwnSlot
      <4>2. cur[u] # cur[t]
          BY <3>1, <4>1, OwnSlots
      <4>. QED BY <2>3, <4>2 DEF Drain
    <3>3. hazard'[cur[t]] = obj[t]
        BY <2>3, <3>1 DEF Drain
    <3>. QED BY <2>3, <3>2, <3>3 DEF Drain
  <2>4. CASE Validate(t) BY <2>4 DEF Validate
  <2>5. CASE Abandon(t) BY <2>5 DEF Abandon
  <2>6. CASE Unlink(t) BY <2>6 DEF Unlink
  <2>. QED BY <1>2, <2>1, <2>2, <2>3, <2>4, <2>5, <2>6 DEF ClientStep
<1>3. CASE RetireStep(t)
    BY <1>3 DEF RetireStep, LockList, SkipList, CheckSize, StartScan, ScanSlot,
                EndScan, Sweep, Store
<1>4. CASE ReleaseStep(t)
  <2>1. CASE ClearSlot(t)
    <3>1. PICK s \in held[t] : /\ cur' = [cur EXCEPT ![t] = s]
                               /\ hazard' = [hazard EXCEPT ![s] = Null]
        BY <2>1 DEF ClearSlot
    <3>2. ASSUME NEW u \in Threads \ {t}, pc[u] \in {"check", "use"}
          PROVE hazard'[cur[u]] = hazard[cur[u]]
      <4>1. cur[u] \in held[u]
          BY <3>2 DEF UsesOwnSlot
      <4>2. cur[u] # s
          BY <3>1, <4>1 DEF SlotExclusive, Owned
      <4>. QED BY <3>1, <4>2
    <3>. QED BY <2>1, <3>1, <3>2 DEF ClearSlot
  <2>2. CASE ReleaseSlot(t) BY <2>2 DEF ReleaseSlot
  <2>. QED BY <1>4, <2>1, <2>2 DEF ReleaseStep
<1>. QED BY <1>1, <1>2, <1>3, <1>4, StepCases

\* A step that moves no object keeps the homes.
LEMMA SameHomes ==
    ASSUME OneHome, UNCHANGED <<link, free, recover>>,
           \A u \in Threads : Retiring(u)' = Retiring(u),
           \A u \in Threads : Retiring(u) => obj'[u] = obj[u]
    PROVE OneHome'
BY DEF OneHome

\* A step loses no object and gives none a second home.
LEMMA HomeStep ==
    ASSUME IInv, OneHome, NEW t \in Threads, Step(t)
    PROVE OneHome'
<1> USE ConstantsOk DEF IInv, TypeOK, At, Goto, clientVars, listVars, retVars, useVars,
        Retiring, InList
<1>1. CASE AcquireStep(t)
    BY <1>1, SameHomes DEF AcquireStep, Acquire, ReuseSlot, SkipSlot, GrowList, PushSlot,
        LinkSlot, Take
<1>2. CASE ClientStep(t)
  <2>1. CASE Load(t) \/ Publish(t) \/ Drain(t) \/ Validate(t) \/ Abandon(t)
      BY <2>1, SameHomes DEF Load, Publish, Drain, Validate, Abandon, EndUse
  <2>2. CASE Unlink(t) /\ link # obj[t]
      BY <2>2, SameHomes DEF Unlink
  <2>3. CASE Unlink(t) /\ link = obj[t]
    <3>1. PICK o \in free : link' = o /\ free' = free \ {o}
        BY <2>3 DEF Unlink
    <3>2. /\ Retiring(t)' /\ ~ Retiring(t)
          /\ \A u \in Threads \ {t} : Retiring(u)' = Retiring(u)
          /\ UNCHANGED <<recover, obj>>
        BY <2>3 DEF Unlink
    <3>3. obj[t] = link /\ o # link
        BY <2>3 DEF OneHome
    <3> HIDE DEF Retiring, IInv, TypeOK
    <3>4. \A x \in Objects :
              \/ x = link' \/ x \in free'
              \/ \E l \in Lists : x \in recover'[l]
              \/ \E u \in Threads : Retiring(u)' /\ obj'[u] = x
        BY <3>1, <3>2, <3>3 DEF OneHome
    <3>5. \A u \in Threads : Retiring(u)' =>
              /\ obj'[u] # link'
              /\ obj'[u] \notin free'
              /\ \A l \in Lists : obj'[u] \notin recover'[l]
              /\ \A v \in Threads \ {u} : Retiring(v)' => obj'[v] # obj'[u]
        BY <3>1, <3>2, <3>3 DEF OneHome
    <3>6. /\ link' \notin free'
          /\ \A l \in Lists :
                /\ link' \notin recover'[l]
                /\ recover'[l] \cap free' = {}
                /\ \A k \in Lists \ {l} : recover'[l] \cap recover'[k] = {}
        BY <3>1, <3>2, <3>3 DEF OneHome
    <3>. QED BY <3>4, <3>5, <3>6 DEF OneHome
  <2>. QED BY <1>2, <2>1, <2>2, <2>3 DEF ClientStep
<1>3. CASE RetireStep(t)
  <2>1. CASE LockList(t) \/ SkipList(t) \/ CheckSize(t) \/ StartScan(t) \/ ScanSlot(t)
             \/ EndScan(t)
      BY <2>1, SameHomes DEF LockList, SkipList, CheckSize, StartScan, ScanSlot, EndScan
  <2>2. CASE Sweep(t)
    <3> DEFINE r == lst[t]
               gone == recover[r] \ seen[t]
    <3>1. /\ r \in Lists
          /\ free' = free \cup gone
          /\ recover' = [recover EXCEPT ![r] = @ \cap seen[t]]
          /\ recover \in [Lists -> SUBSET Objects]
        BY <2>2 DEF Sweep, Kept
    <3>2. /\ \A u \in Threads : Retiring(u)' = Retiring(u)
          /\ UNCHANGED <<link, obj>>
        BY <2>2 DEF Sweep
    <3>3. /\ recover'[r] = recover[r] \ gone
          /\ \A l \in Lists \ {r} : recover'[l] = recover[l]
        BY <3>1
    <3> HIDE DEF Retiring, IInv, TypeOK, r
    <3>4. \A x \in Objects :
              \/ x = link' \/ x \in free'
              \/ \E l \in Lists : x \in recover'[l]
              \/ \E u \in Threads : Retiring(u)' /\ obj'[u] = x
        BY <3>1, <3>2, <3>3 DEF OneHome
    <3>5. \A u \in Threads : Retiring(u)' =>
              /\ obj'[u] # link'
              /\ obj'[u] \notin free'
              /\ \A l \in Lists : obj'[u] \notin recover'[l]
              /\ \A v \in Threads \ {u} : Retiring(v)' => obj'[v] # obj'[u]
        BY <3>1, <3>2, <3>3 DEF OneHome
    <3>6. /\ link' \notin free'
          /\ \A l \in Lists :
                /\ link' \notin recover'[l]
                /\ recover'[l] \cap free' = {}
                /\ \A k \in Lists \ {l} : recover'[l] \cap recover'[k] = {}
        BY <3>1, <3>2, <3>3 DEF OneHome
    <3>. QED BY <3>4, <3>5, <3>6 DEF OneHome
  <2>3. CASE Store(t)
    <3> DEFINE r == lst[t]
    <3>1. /\ r \in Lists
          /\ recover' = [recover EXCEPT ![r] = @ \cup {obj[t]}]
          /\ recover \in [Lists -> SUBSET Objects]
        BY <2>3 DEF Store
    <3>2. /\ \A u \in Threads \ {t} : Retiring(u)' = Retiring(u) /\ obj'[u] = obj[u]
          /\ Retiring(t) /\ ~ Retiring(t)'
          /\ UNCHANGED <<link, free>>
        BY <2>3 DEF Store, EndUse
    <3>3. /\ recover'[r] = recover[r] \cup {obj[t]}
          /\ \A l \in Lists \ {r} : recover'[l] = recover[l]
        BY <3>1
    <3> HIDE DEF Retiring, IInv, TypeOK, r
    <3>4. \A x \in Objects :
              \/ x = link' \/ x \in free'
              \/ \E l \in Lists : x \in recover'[l]
              \/ \E u \in Threads : Retiring(u)' /\ obj'[u] = x
        BY <3>1, <3>2, <3>3 DEF OneHome
    <3>5. \A u \in Threads : Retiring(u)' =>
              /\ obj'[u] # link'
              /\ obj'[u] \notin free'
              /\ \A l \in Lists : obj'[u] \notin recover'[l]
              /\ \A v \in Threads \ {u} : Retiring(v)' => obj'[v] # obj'[u]
        BY <3>1, <3>2, <3>3 DEF OneHome
    <3>6. /\ link' \notin free'
          /\ \A l \in Lists :
                /\ link' \notin recover'[l]
                /\ recover'[l] \cap free' = {}
                /\ \A k \in Lists \ {l} : recover'[l] \cap recover'[k] = {}
        BY <3>1, <3>2, <3>3 DEF OneHome
    <3>. QED BY <3>4, <3>5, <3>6 DEF OneHome
  <2>. QED BY <1>3, <2>1, <2>2, <2>3 DEF RetireStep
<1>4. CASE ReleaseStep(t)
    BY <1>4, SameHomes DEF ReleaseStep, ClearSlot, ReleaseSlot
<1>. QED BY <1>1, <1>2, <1>3, <1>4, StepCases

\* Counting them gives one home for each object.
LEMMA HomesCounted == IInv /\ OneHome => ObjectAccounting
<1> SUFFICES ASSUME IInv, OneHome, NEW o \in Objects
             PROVE Cardinality({l \in Lists : o \in recover[l]})
                   + Cardinality({t \in Threads : Retiring(t) /\ obj[t] = o})
                   + (IF o = link THEN 1 ELSE 0) + (IF o \in free THEN 1 ELSE 0) = 1
    BY DEF ObjectAccounting
<1> DEFINE L == {l \in Lists : o \in recover[l]}
           R == {t \in Threads : Retiring(t) /\ obj[t] = o}
<1>1. CASE \E l \in Lists : o \in recover[l]
  <2>1. PICK l \in Lists : o \in recover[l]
      BY <1>1
  <2>2. L = {l} /\ R = {} /\ o # link /\ o \notin free
      BY <2>1 DEF OneHome
  <2>3. Cardinality(L) = 1 /\ Cardinality(R) = 0
      BY <2>2, FS_Singleton, FS_EmptySet
  <2>. QED BY <2>2, <2>3
<1>2. CASE \E t \in Threads : Retiring(t) /\ obj[t] = o
  <2>1. PICK t \in Threads : Retiring(t) /\ obj[t] = o
      BY <1>2
  <2>2. L = {} /\ R = {t} /\ o # link /\ o \notin free
      BY <2>1 DEF OneHome
  <2>3. Cardinality(L) = 0 /\ Cardinality(R) = 1
      BY <2>2, FS_Singleton, FS_EmptySet
  <2>. QED BY <2>2, <2>3
<1>3. CASE L = {} /\ R = {}
  <2>1. Cardinality(L) = 0 /\ Cardinality(R) = 0
      BY <1>3, FS_EmptySet
  <2>2. (o = link \/ o \in free) /\ ~ (o = link /\ o \in free)
      BY <1>3 DEF OneHome
  <2>. QED BY <2>1, <2>2
<1>. QED BY <1>1, <1>2, <1>3

-----------------------------------------------------------------------------
(* The slot list *)

\* The two readings of NextOf.
NextKnown ==
    \A s \in Slots :
        /\ \A u \in Threads : At(u, "link") /\ cur[u] = s => NextOf(s) = old[u]
        /\ ~ HalfLinked(s) => NextOf(s) = next[s]

\* NextOf is the old head while the slot waits to be linked, and next otherwise.
LEMMA NextOfKnown == IInv => NextKnown
<1> SUFFICES ASSUME IInv, NEW s \in Slots
             PROVE /\ \A u \in Threads : At(u, "link") /\ cur[u] = s => NextOf(s) = old[u]
                   /\ ~ HalfLinked(s) => NextOf(s) = next[s]
    BY DEF NextKnown
<1>1. ASSUME NEW u \in Threads, At(u, "link"), cur[u] = s PROVE NextOf(s) = old[u]
  <2>1. HalfLinked(s)
      BY <1>1 DEF HalfLinked
  <2>2. \A w \in Threads : At(w, "link") /\ cur[w] = s => w = u
      BY <1>1 DEF IInv, SlotExclusive, Owned, Pushing, At
  <2>3. u = CHOOSE w \in Threads : At(w, "link") /\ cur[w] = s
      BY <1>1, <2>2
  <2>. QED BY <2>1, <2>3 DEF NextOf
<1>. QED BY <1>1 DEF NextOf

\* A set of slots the list does not lead out of.
Closed(S) == \A s \in S : NextOf(s) \in S \cup {Null}

\* The list leads from slot r to slot s.
Leads(r, s) == r # Null /\ \A S \in SUBSET Slots : r \in S /\ Closed(S) => s \in S

\* _head leads to every slot whose push has exchanged _head.
Listed ==
    \A s \in 1..llen : (\A t \in Threads : At(t, "push") => cur[t] # s) => Leads(head, s)

\* One node further on.
LEMMA LeadsOn ==
    ASSUME NEW r \in Slots, NEW s \in Slots, Leads(r, s), r # s
    PROVE Leads(NextOf(r), s)
<1>1. NextOf(r) # Null
  <2>1. ASSUME NextOf(r) = Null PROVE Closed({r})
      BY <2>1 DEF Closed
  <2>. QED BY <2>1 DEF Leads
<1>2. ASSUME NEW S \in SUBSET Slots, NextOf(r) \in S, Closed(S) PROVE s \in S
  <2>1. Closed(S \cup {r})
      BY <1>2 DEF Closed
  <2>. QED BY <2>1 DEF Leads
<1>. QED BY <1>1, <1>2 DEF Leads

\* What a step does to the list: nothing, but for a push that exchanges _head.
LEMMA NextStep ==
    ASSUME IInv, IInv', Fresh, NEW t \in Threads, Step(t)
    PROVE \/ \A s \in Slots : NextOf(s)' = NextOf(s)
          \/ /\ PushSlot(t)
             /\ \A s \in Slots \ {cur[t]} : NextOf(s)' = NextOf(s)
             /\ cur[t] \in Slots /\ NextOf(cur[t]) = Null /\ NextOf(cur[t])' = head
<1>0. NextKnown /\ NextKnown'
    BY NextOfKnown, PTL
<1>1. ASSUME UNCHANGED <<next, old>>,
             \A u \in Threads : At(u, "link")' = At(u, "link"),
             \A u \in Threads : At(u, "link") => cur'[u] = cur[u],
             NEW s \in Slots
      PROVE NextOf(s)' = NextOf(s)
  <2>1. CASE HalfLinked(s)
      BY <1>0, <1>1, <2>1 DEF NextKnown, HalfLinked
  <2>2. CASE ~ HalfLinked(s)
    <3>1. ~ HalfLinked(s)'
        BY <1>1, <2>2 DEF HalfLinked
    <3>. QED BY <1>0, <1>1, <2>2, <3>1 DEF NextKnown
  <2>. QED BY <2>1, <2>2
<1> USE DEF At, Goto
<1>2. CASE PushSlot(t)
  <2>1. /\ cur[t] \in Slots /\ next[cur[t]] = Null
        /\ At(t, "push") /\ At(t, "link")'
        /\ next' = next /\ cur' = cur
        /\ old' = [old EXCEPT ![t] = head]
        /\ \A u \in Threads \ {t} : At(u, "link")' = At(u, "link") /\ old'[u] = old[u]
        /\ old'[t] = head
      BY <1>2 DEF PushSlot, IInv, TypeOK, LocalsOk, Fresh
  <2>2. \A u \in Threads \ {t} : At(u, "link") => cur[u] # cur[t]
      BY <2>1 DEF IInv, SlotExclusive, Owned, Pushing
  <2>3. ~ HalfLinked(cur[t])
      BY <2>1, <2>2 DEF HalfLinked
  <2>4. NextOf(cur[t]) = Null /\ NextOf(cur[t])' = head
      BY <1>0, <2>1, <2>3 DEF NextKnown
  <2>5. ASSUME NEW s \in Slots \ {cur[t]} PROVE NextOf(s)' = NextOf(s)
    <3>1. CASE HalfLinked(s)
      <4>1. PICK u \in Threads : At(u, "link") /\ cur[u] = s
          BY <3>1 DEF HalfLinked
      <4>2. u # t
          BY <2>5, <4>1
      <4>. QED BY <1>0, <2>1, <4>1, <4>2 DEF NextKnown
    <3>2. CASE ~ HalfLinked(s)
      <4>1. ~ HalfLinked(s)'
          BY <2>1, <2>5, <3>2 DEF HalfLinked
      <4>. QED BY <1>0, <2>1, <3>2, <4>1 DEF NextKnown
    <3>. QED BY <3>1, <3>2
  <2>. QED BY <1>2, <2>1, <2>4, <2>5
<1>3. CASE LinkSlot(t)
  <2>1. /\ cur[t] \in Slots
        /\ At(t, "link") /\ ~ At(t, "link")'
        /\ cur' = cur
        /\ next'[cur[t]] = old[t]
        /\ \A s \in Slots \ {cur[t]} : next'[s] = next[s]
        /\ \A u \in Threads \ {t} : At(u, "link")' = At(u, "link") /\ old'[u] = old[u]
      BY <1>3 DEF LinkSlot, IInv, TypeOK, LocalsOk, Take
  <2>2. \A u \in Threads \ {t} : At(u, "link") => cur[u] # cur[t]
      BY <2>1 DEF IInv, SlotExclusive, Owned, Pushing
  <2>3. ASSUME NEW s \in Slots PROVE NextOf(s)' = NextOf(s)
    <3>1. CASE s = cur[t]
      <4>1. ~ HalfLinked(s)'
          BY <2>1, <2>2, <3>1 DEF HalfLinked
      <4>. QED BY <1>0, <2>1, <3>1, <4>1 DEF NextKnown
    <3>2. CASE s # cur[t] /\ HalfLinked(s)
      <4>1. PICK u \in Threads : At(u, "link") /\ cur[u] = s
          BY <3>2 DEF HalfLinked
      <4>2. u # t
          BY <3>2, <4>1
      <4>. QED BY <1>0, <2>1, <4>1, <4>2 DEF NextKnown
    <3>3. CASE s # cur[t] /\ ~ HalfLinked(s)
      <4>1. ~ HalfLinked(s)'
          BY <2>1, <3>3 DEF HalfLinked
      <4>. QED BY <1>0, <2>1, <3>3, <4>1 DEF NextKnown
    <3>. QED BY <3>1, <3>2, <3>3
  <2>. QED BY <2>3
<1>4. CASE Acquire(t) \/ ReuseSlot(t) \/ SkipSlot(t) \/ GrowList(t)
  <2>1. /\ UNCHANGED <<next, old>>
        /\ \A u \in Threads : At(u, "link")' = At(u, "link")
        /\ \A u \in Threads : At(u, "link") => cur'[u] = cur[u]
      BY <1>4 DEF Acquire, ReuseSlot, SkipSlot, GrowList, Take, IInv, TypeOK, slotVars, acqVars
  <2>. QED BY <1>1, <2>1
<1>5. CASE ClientStep(t) \/ RetireStep(t) \/ ReleaseStep(t)
  <2>1. /\ UNCHANGED <<next, old>>
        /\ \A u \in Threads : At(u, "link")' = At(u, "link")
        /\ \A u \in Threads : At(u, "link") => cur'[u] = cur[u]
    <3> USE DEF IInv, TypeOK, slotVars, acqVars, EndUse
    <3>1. CASE ClientStep(t)
        BY <3>1 DEF ClientStep, Load, Publish, Drain, Validate, Abandon, Unlink
    <3>2. CASE RetireStep(t)
        BY <3>2 DEF RetireStep, LockList, SkipList, CheckSize, StartScan, ScanSlot,
                EndScan, Sweep, Store
    <3>3. CASE ReleaseStep(t)
        BY <3>3 DEF ReleaseStep, ClearSlot, ReleaseSlot
    <3>. QED BY <1>5, <3>1, <3>2, <3>3
  <2>. QED BY <1>1, <2>1
<1>. QED BY <1>2, <1>3, <1>4, <1>5, StepCases DEF AcquireStep

\* Slots that are led to stay so.
LEMMA LeadsStep ==
    ASSUME IInv, IInv', Fresh, NEW t \in Threads, Step(t),
           NEW r, NEW s, Leads(r, s)
    PROVE r # Null /\ \A S \in SUBSET Slots : r \in S /\ Closed(S)' => s \in S
<1> SUFFICES ASSUME NEW S \in SUBSET Slots, r \in S, Closed(S)' PROVE s \in S
    BY DEF Leads
<1>1. Closed(S)
    BY NextStep DEF Closed
<1>. QED BY <1>1 DEF Leads

\* So does the list from _head: a push puts its slot before all others.
LEMMA ListedStep ==
    ASSUME IInv, IInv', Fresh, Listed, NEW t \in Threads, Step(t)
    PROVE Listed'
<1> SUFFICES ASSUME NEW s \in 1..(llen'), \A u \in Threads : At(u, "push")' => cur'[u] # s
             PROVE /\ head' # Null
                   /\ \A S \in SUBSET Slots : head' \in S /\ Closed(S)' => s \in S
    BY DEF Listed, Leads
<1> USE DEF IInv, TypeOK, At, Goto
<1>1. CASE PushSlot(t)
  <2>1. /\ head' = cur[t] /\ cur' = cur /\ llen' = llen
        /\ cur[t] \in Slots /\ head \in Slots
        /\ \A u \in Threads \ {t} : At(u, "push")' = At(u, "push")
      BY <1>1 DEF PushSlot, LocalsOk
  <2>2. NextOf(cur[t])' = head
    <3>1. NextKnown'
        BY NextOfKnown, PTL
    <3>2. At(t, "link")' /\ old'[t] = head
        BY <1>1 DEF PushSlot
    <3>. QED BY <2>1, <3>1, <3>2 DEF NextKnown
  <2> SUFFICES ASSUME NEW S \in SUBSET Slots, cur[t] \in S, Closed(S)' PROVE s \in S
      BY <2>1, ConstantsOk DEF Slots
  <2>3. CASE s = cur[t]
      BY <2>3
  <2>4. CASE s # cur[t]
    <3>1. head \in S
        BY <2>1, <2>2, ConstantsOk DEF Closed, Slots
    <3>2. Leads(head, s)
        BY <2>1, <2>4 DEF Listed
    <3>. QED BY <3>1, <3>2, LeadsStep
  <2>. QED BY <2>3, <2>4
<1>2. CASE GrowList(t)
  <2>1. llen' = llen + 1 /\ head' = head /\ At(t, "push")' /\ cur'[t] = llen + 1
      BY <1>2 DEF GrowList, LocalsOk
  <2>2. s # llen + 1
      BY <2>1
  <2>3. s \in 1..llen /\ \A u \in Threads : At(u, "push") => cur[u] # s
      BY <1>2, <2>1, <2>2 DEF GrowList, Slots
  <2>4. Leads(head, s)
      BY <2>3 DEF Listed
  <2>. QED BY <2>1, <2>4, LeadsStep
<1>3. CASE ~ PushSlot(t) /\ ~ GrowList(t)
  <2>1. /\ UNCHANGED <<head, llen>>
        /\ \A u \in Threads : At(u, "push") => At(u, "push")' /\ cur'[u] = cur[u]
    <3> USE DEF slotVars, acqVars, EndUse, Take
    <3>1. CASE AcquireStep(t)
        BY <1>3, <3>1 DEF AcquireStep, Acquire, ReuseSlot, SkipSlot, LinkSlot
    <3>2. CASE ClientStep(t)
        BY <3>2 DEF ClientStep, Load, Publish, Drain, Validate, Abandon, Unlink
    <3>3. CASE RetireStep(t)
        BY <3>3 DEF RetireStep, LockList, SkipList, CheckSize, StartScan, ScanSlot,
                EndScan, Sweep, Store
    <3>4. CASE ReleaseStep(t)
        BY <3>4 DEF ReleaseStep, ClearSlot, ReleaseSlot
    <3>. QED BY <3>1, <3>2, <3>3, <3>4, StepCases
  <2>2. Leads(head, s)
      BY <2>1 DEF Listed
  <2>. QED BY <2>1, <2>2, LeadsStep
<1>. QED BY <1>1, <1>2, <1>3

\* A step keeps new slots leading nowhere.
LEMMA FreshStep ==
    ASSUME IInv, Fresh, NEW t \in Threads, Step(t)
    PROVE Fresh'
<1> USE DEF IInv, TypeOK, At, Goto, Slots
<1>1. CASE GrowList(t)
    BY <1>1 DEF GrowList, Fresh
<1>2. CASE LinkSlot(t)
  <2>1. /\ cur[t] \in 1..llen /\ llen' = llen /\ cur' = cur
        /\ \A s \in Slots \ {cur[t]} : next'[s] = next[s]
        /\ \A u \in Threads : At(u, "push")' => At(u, "push") /\ u # t
      BY <1>2, ConstantsOk DEF LinkSlot, Take, LocalsOk, PointersAllocated
  <2>2. \A u \in Threads \ {t} : At(u, "push") => cur[u] # cur[t]
      BY <1>2 DEF LinkSlot, SlotExclusive, Owned, Pushing
  <2>. QED BY <2>1, <2>2 DEF Fresh
<1>3. CASE ~ GrowList(t) /\ ~ LinkSlot(t)
  <2>1. /\ UNCHANGED <<next, llen>>
        /\ \A u \in Threads : At(u, "push")' => At(u, "push") /\ cur'[u] = cur[u]
    <3> USE DEF slotVars, acqVars, EndUse, Take
    <3>1. CASE AcquireStep(t)
        BY <1>3, <3>1 DEF AcquireStep, Acquire, ReuseSlot, SkipSlot, PushSlot
    <3>2. CASE ClientStep(t)
        BY <3>2 DEF ClientStep, Load, Publish, Drain, Validate, Abandon, Unlink
    <3>3. CASE RetireStep(t)
        BY <3>3 DEF RetireStep, LockList, SkipList, CheckSize, StartScan, ScanSlot,
                EndScan, Sweep, Store
    <3>4. CASE ReleaseStep(t)
        BY <3>4 DEF ReleaseStep, ClearSlot, ReleaseSlot
    <3>. QED BY <3>1, <3>2, <3>3, <3>4, StepCases
  <2>. QED BY <2>1 DEF Fresh
<1>. QED BY <1>1, <1>2, <1>3

\* A slot still to be pushed is not in the list.
Unreached ==
    \A t \in Threads : At(t, "push") =>
        head # cur[t] /\ \A s \in Slots : NextOf(s) # cur[t]

\* The list leads to allocated slots only.
LEMMA NextAllocated ==
    ASSUME IInv, NEW s \in Slots
    PROVE NextOf(s) \in (1..llen) \cup {Null}
BY NextOfKnown DEF NextKnown, HalfLinked, IInv, PointersAllocated

\* A step keeps it so.
LEMMA UnreachedStep ==
    ASSUME IInv, IInv', Fresh, Unreached, NEW t \in Threads, Step(t)
    PROVE Unreached'
<1> USE DEF IInv, TypeOK, At, Goto
<1>1. CASE PushSlot(t)
  <2>1. /\ head' = cur[t] /\ cur' = cur /\ pc[t] = "push" /\ pc'[t] = "link"
        /\ \A u \in Threads \ {t} : pc'[u] = pc[u]
        /\ old' = [old EXCEPT ![t] = head]
      BY <1>1 DEF PushSlot
  <2>2. \A u \in Threads \ {t} : At(u, "push") => cur[u] # cur[t]
      BY <2>1 DEF SlotExclusive, Owned, Pushing
  <2>3. NextOf(cur[t])' = head
    <3>1. NextKnown'
        BY NextOfKnown, PTL
    <3>. QED BY <2>1, <3>1 DEF NextKnown, LocalsOk
  <2>4. \A s \in Slots \ {cur[t]} : NextOf(s)' = NextOf(s)
    <3>1. Null \notin Slots
        BY ConstantsOk DEF Slots
    <3>2. NextOf(cur[t])' # NextOf(cur[t])
      <4>1. NextOf(cur[t]) = Null
        <5>1. next[cur[t]] = Null /\ cur[t] \in Slots
            BY <2>1 DEF Fresh, LocalsOk
        <5>2. ~ HalfLinked(cur[t])
            BY <2>1, <2>2 DEF HalfLinked, SlotExclusive, Owned, Pushing
        <5>. QED BY <5>1, <5>2, NextOfKnown DEF NextKnown
      <4>. QED BY <2>3, <3>1, <4>1
    <3>. QED BY <3>2, NextStep, <2>1 DEF LocalsOk
  <2>. QED BY <2>1, <2>2, <2>3, <2>4 DEF Unreached
<1>2. CASE ~ PushSlot(t)
  <2>1. \A s \in Slots : NextOf(s)' = NextOf(s)
      BY <1>2, NextStep
  <2>2. CASE GrowList(t)
    <3>1. /\ head' = head /\ cur' = [cur EXCEPT ![t] = llen + 1]
          /\ \A u \in Threads \ {t} : pc'[u] = pc[u]
        BY <2>2 DEF GrowList
    <3>2. head # llen + 1 /\ \A s \in Slots : NextOf(s) # llen + 1
      <4>1. head \in 1..llen /\ llen \in Nat /\ llen + 1 # Null
          BY ConstantsOk DEF PointersAllocated, Slots
      <4>2. \A s \in Slots : NextOf(s) \in (1..llen) \cup {Null}
          BY NextAllocated
      <4>. HIDE DEF IInv, TypeOK, At, Goto
      <4>3. llen + 1 \notin (1..llen) \cup {Null}
          BY <4>1
      <4>. QED BY <4>1, <4>2, <4>3
    <3>. QED BY <2>1, <3>1, <3>2 DEF Unreached
  <2>3. CASE ~ GrowList(t)
    <3>1. /\ head' = head
          /\ \A u \in Threads : At(u, "push")' => At(u, "push") /\ cur'[u] = cur[u]
      <4> USE DEF slotVars, acqVars, EndUse, Take
      <4>1. CASE AcquireStep(t)
          BY <1>2, <2>3, <4>1 DEF AcquireStep, Acquire, ReuseSlot, SkipSlot, LinkSlot
      <4>2. CASE ClientStep(t)
          BY <4>2 DEF ClientStep, Load, Publish, Drain, Validate, Abandon, Unlink
      <4>3. CASE RetireStep(t)
          BY <4>3 DEF RetireStep, LockList, SkipList, CheckSize, StartScan, ScanSlot,
                EndScan, Sweep, Store
      <4>4. CASE ReleaseStep(t)
          BY <4>4 DEF ReleaseStep, ClearSlot, ReleaseSlot
      <4>. QED BY <4>1, <4>2, <4>3, <4>4, StepCases
    <3>. QED BY <2>1, <3>1 DEF Unreached
  <2>. QED BY <2>2, <2>3
<1>. QED BY <1>1, <1>2

-----------------------------------------------------------------------------
(* What Reach computes *)

\* Numbers go down only so far (from the order of finite sets by inclusion).
LEMMA LeastNatural ==
    ASSUME NEW T \in SUBSET Nat, T # {}
    PROVE \E m \in T : \A k \in T : m <= k
<1> DEFINE U == {1..n : n \in T}
<1>1. U \subseteq FiniteSubsetsOf(Nat)
  <2>1. \A n \in T : IsFiniteSet(1..n)
      BY FS_Interval
  <2>. QED BY <2>1 DEF FiniteSubsetsOf
<1>2. U # {}
    OBVIOUS
<1>3. PICK x \in U : \A y \in U : ~ (<<y, x>> \in StrictSubsetOrdering(Nat))
  <2>. HIDE DEF U
  <2>. QED BY <1>1, <1>2, FS_StrictSubsetOrderingWellFounded, WFMin
<1>4. PICK m \in T : x = 1..m
    OBVIOUS
<1>5. ASSUME NEW k \in T, k < m PROVE FALSE
  <2>1. 1..k \in U /\ 1..k \subseteq Nat /\ 1..m \subseteq Nat
      OBVIOUS
  <2>2. 1..k \subseteq 1..m /\ m \in 1..m /\ m \notin 1..k
      BY <1>5
  <2>. QED BY <1>3, <1>4, <2>1, <2>2 DEF StrictSubsetOrdering
<1>. QED BY <1>5

\* So a set of numbers that holds 0, and n + 1 with each n, is all of them.
LEMMA NaturalInduction ==
    ASSUME NEW T \in SUBSET Nat, 0 \in T, \A n \in T : n + 1 \in T
    PROVE T = Nat
<1> SUFFICES ASSUME Nat \ T # {} PROVE FALSE
    OBVIOUS
<1>1. PICK m \in Nat \ T : \A k \in Nat \ T : m <= k
    BY LeastNatural
<1>2. m - 1 \in T /\ m - 1 \in Nat
    BY <1>1
<1>. QED BY <1>1, <1>2

\* f lists what n applications of G to x give.
Iterates(S, x, G, n) ==
    \E f \in [0..n -> S] : f[0] = x /\ \A k \in 1..n : f[k] = G[f[k-1]]

\* It can be applied n times in turn to any member.
LEMMA Iterated ==
    ASSUME NEW S, NEW x \in S, NEW G \in [S -> S], NEW n \in Nat
    PROVE Iterates(S, x, G, n)
<1> USE DEF Iterates
<1> DEFINE P(m) == \E f \in [0..m -> S] : f[0] = x /\ \A k \in 1..m : f[k] = G[f[k-1]]
           T == {m \in Nat : P(m)}
<1>1. 0 \in T
  <2> DEFINE g == [k \in 0..0 |-> x]
  <2>1. g \in [0..0 -> S] /\ g[0] = x /\ \A k \in 1..0 : g[k] = G[g[k-1]]
      OBVIOUS
  <2>2. P(0)
    <3>. HIDE DEF g
    <3>. QED BY <2>1
  <2>. QED BY <2>2
<1>2. ASSUME NEW m \in T PROVE m + 1 \in T
  <2>1. PICK f \in [0..m -> S] : f[0] = x /\ \A k \in 1..m : f[k] = G[f[k-1]]
      OBVIOUS
  <2> DEFINE g == [k \in 0..(m + 1) |-> IF k = m + 1 THEN G[f[m]] ELSE f[k]]
  <2>2. g \in [0..(m + 1) -> S]
      OBVIOUS
  <2>3. g[0] = x
      BY <2>1
  <2>4. ASSUME NEW k \in 1..(m + 1) PROVE g[k] = G[g[k-1]]
    <3>1. g[k-1] = f[k-1]
        OBVIOUS
    <3>2. CASE k = m + 1
        BY <3>1, <3>2
    <3>3. CASE k # m + 1
        BY <2>1, <3>1, <3>3
    <3>. QED BY <3>2, <3>3
  <2>5. P(m + 1)
    <3>. HIDE DEF g
    <3>. QED BY <2>2, <2>3, <2>4
  <2>. QED BY <2>5
<1>3. T = Nat
  <2>. HIDE DEF P
  <2>. QED BY <1>1, <1>2, NaturalInduction
<1>. QED BY <1>3

\* One more round of Reach.
Round(A) == A \cup ({NextOf(s) : s \in A} \ {Null})

\* Reach(n) is what n rounds find from _head.
LEMMA ReachDef ==
    ASSUME IInv, NEW n \in Nat
    PROVE \E r \in [0..n -> SUBSET Slots] :
              /\ r[0] = {head}
              /\ \A k \in 1..n : r[k] = Round(r[k-1])
              /\ Reach(n) = r[n]
<1> DEFINE G == [A \in SUBSET Slots |-> Round(A)]
<1>1. G \in [SUBSET Slots -> SUBSET Slots]
  <2>1. \A s \in Slots : NextOf(s) \in Slots \cup {Null}
      BY NextAllocated, ConstantsOk DEF IInv, TypeOK, Slots
  <2>. QED BY <2>1 DEF Round
<1>2. {head} \in SUBSET Slots
    BY DEF IInv, TypeOK
<1>3. PICK f \in [0..n -> SUBSET Slots] :
          f[0] = {head} /\ \A k \in 1..n : f[k] = G[f[k-1]]
  <2> DEFINE X == SUBSET Slots
  <2>1. G \in [X -> X] /\ {head} \in X
      BY <1>1, <1>2
  <2>. HIDE DEF G, X
  <2>2. Iterates(X, {head}, G, n)
      BY <2>1, Iterated
  <2>. QED BY <2>2 DEF X, Iterates
<1>4. \A A \in SUBSET Slots : G[A] = Round(A)
    OBVIOUS
<1>. HIDE DEF G
<1>5. f = [k \in 0..n |-> IF k = 0 THEN {head} ELSE Round(f[k-1])]
  <2> DEFINE F(k) == IF k = 0 THEN {head} ELSE Round(f[k-1])
  <2>1. ASSUME NEW k \in 0..n PROVE f[k] = F(k)
    <3>1. CASE k = 0 BY <1>3, <3>1
    <3>2. CASE k # 0 BY <1>3, <1>4, <3>2
    <3>. QED BY <3>1, <3>2
  <2>. HIDE DEF F
  <2>2. f = [k \in 0..n |-> F(k)]
      BY <2>1
  <2>. QED BY <2>2 DEF F
<1> DEFINE Def(r) == [k \in 0..n |->
                IF k = 0 THEN {head} ELSE r[k-1] \cup ({NextOf(s) : s \in r[k-1]} \ {Null})]
           c == CHOOSE r : r = Def(r)
<1>6. f = Def(f)
    BY <1>5 DEF Round
<1>7. c = Def(c)
  <2>. HIDE DEF Def
  <2>. QED BY <1>6
<1>8. Reach(n) = c[n]
    BY DEF Reach
<1>. HIDE DEF c
<1>9. /\ c[0] = {head}
      /\ \A k \in 1..n : c[k] = Round(c[k-1])
    BY <1>7 DEF Round
<1>10. c \in [0..n -> SUBSET Slots]
  <2> DEFINE T == {k \in Nat : k \in 0..n => c[k] \in SUBSET Slots}
  <2>1. 0 \in T
      BY <1>2, <1>9
  <2>2. ASSUME NEW k \in T PROVE k + 1 \in T
    <3>1. CASE k + 1 \in 0..n
      <4>1. c[k] \in SUBSET Slots
          BY <3>1
      <4>2. c[k + 1] = G[c[k]]
          BY <1>4, <1>9, <3>1, <4>1
      <4>. QED BY <1>1, <4>1, <4>2
    <3>. QED BY <3>1
  <2>3. T = Nat
    <3>1. T \in SUBSET Nat
        OBVIOUS
    <3>. HIDE DEF T
    <3>. QED BY <2>1, <2>2, <3>1, NaturalInduction
  <2>4. \A k \in 0..n : c[k] \in SUBSET Slots
      BY <2>3
  <2>5. c = [k \in 0..n |-> c[k]]
      BY <1>7
  <2>. QED BY <2>4, <2>5
<1>. QED BY <1>8, <1>9, <1>10

\* The slots whose push has exchanged _head.
Pushed == (1..llen) \ {cur[t] : t \in {u \in Threads : At(u, "push")}}

\* The list is inside them.
LEMMA PushedClosed ==
    IInv /\ Unreached => head \in Pushed /\ Pushed \subseteq Slots /\ Closed(Pushed)
<1> SUFFICES ASSUME IInv, Unreached
             PROVE head \in Pushed /\ Pushed \subseteq Slots /\ Closed(Pushed)
    OBVIOUS
<1>1. Pushed \subseteq Slots
    BY ConstantsOk DEF Pushed, IInv, TypeOK, Slots
<1>2. head \in Pushed
    BY DEF Pushed, IInv, PointersAllocated, Unreached
<1>3. \A s \in Slots : NextOf(s) \in Pushed \cup {Null}
    BY NextAllocated DEF Pushed, Unreached
<1>. QED BY <1>1, <1>2, <1>3 DEF Closed

\* A round that finds nothing new has found all that the list leads to; so rounds find
\* one more slot each time, until they have found everything.
LEMMA ReachPushed ==
    ASSUME IInv, Unreached, Listed
    PROVE Reach(llen) = Pushed
<1>0. llen \in Nat \ {0} /\ llen \in Slots
    BY ConstantsOk DEF IInv, TypeOK, Slots
<1>1. PICK r \in [0..llen -> SUBSET Slots] :
          /\ r[0] = {head}
          /\ \A k \in 1..llen : r[k] = Round(r[k-1])
          /\ Reach(llen) = r[llen]
    BY <1>0, ReachDef
<1>2. \A s \in Slots : NextOf(s) \in Slots \cup {Null}
    BY <1>0, NextAllocated, ConstantsOk DEF Slots
<1> DEFINE In(k) == head \in r[k] /\ r[k] \subseteq Pushed
           T == {k \in Nat : k <= llen => In(k)}
<1>3. \A k \in 0..llen : In(k)
  <2>1. 0 \in T
      BY <1>1, PushedClosed
  <2>2. ASSUME NEW k \in T PROVE k + 1 \in T
    <3> SUFFICES ASSUME k + 1 <= llen PROVE In(k + 1)
        OBVIOUS
    <3>1. In(k) /\ r[k + 1] = Round(r[k]) /\ k \in Nat
        BY <1>0, <1>1
    <3>2. \A s \in r[k] : NextOf(s) \in Pushed \cup {Null}
        BY <3>1, PushedClosed DEF Closed
    <3>. QED BY <3>1, <3>2 DEF Round
  <2>3. T = Nat
    <3>1. T \in SUBSET Nat
        OBVIOUS
    <3>. HIDE DEF T
    <3>. QED BY <2>1, <2>2, <3>1, NaturalInduction
  <2>. HIDE DEF In
  <2>. QED BY <1>0, <2>3
<1> DEFINE Grown(k) == Closed(r[k]) \/ Cardinality(r[k]) >= k + 1
           V == {k \in Nat : k <= llen => Grown(k)}
<1>4. \A k \in 0..llen : IsFiniteSet(r[k]) /\ r[k] \subseteq 1..llen
  <2>1. IsFiniteSet(1..llen)
      BY <1>0, FS_Interval
  <2>2. \A k \in 0..llen : r[k] \subseteq 1..llen
      BY <1>3 DEF Pushed
  <2>. QED BY <2>1, <2>2, FS_Subset
<1>5. Grown(llen)
  <2>1. 0 \in V
    <3>1. r[0] = {head} /\ Cardinality({head}) = 1
        BY <1>1, FS_Singleton
    <3>2. Cardinality(r[0]) = 1
        BY <3>1
    <3>. QED BY <3>2
  <2>2. ASSUME NEW k \in V PROVE k + 1 \in V
    <3> SUFFICES ASSUME k + 1 <= llen PROVE Grown(k + 1)
        OBVIOUS
    <3>1. Grown(k) /\ r[k + 1] = Round(r[k]) /\ k \in 0..llen /\ k + 1 \in 0..llen
        BY <1>0, <1>1
    <3>2. r[k] \subseteq Slots
        BY <1>1, <3>1
    <3>3. CASE Closed(r[k])
      <4>1. r[k + 1] = r[k]
          BY <3>1, <3>3 DEF Round, Closed
      <4>. QED BY <3>3, <4>1
    <3>4. CASE ~ Closed(r[k])
      <4>1. r[k] \subseteq r[k + 1] /\ r[k] # r[k + 1]
          BY <3>1, <3>4 DEF Round, Closed
      <4>2. IsFiniteSet(r[k]) /\ IsFiniteSet(r[k + 1])
          BY <1>4, <3>1
      <4>3. Cardinality(r[k]) < Cardinality(r[k + 1])
        <5> DEFINE A == r[k] B == r[k + 1]
        <5>. HIDE DEF A, B
        <5>1. A \subseteq B /\ A # B /\ IsFiniteSet(B)
            BY <4>1, <4>2 DEF A, B
        <5>2. Cardinality(A) <= Cardinality(B) /\ Cardinality(A) # Cardinality(B)
            BY <5>1, FS_Subset
        <5>3. Cardinality(A) \in Nat /\ Cardinality(B) \in Nat
            BY <4>2, FS_CardinalityType DEF A, B
        <5>4. Cardinality(A) < Cardinality(B)
            BY <5>2, <5>3
        <5>. QED BY <5>4 DEF A, B
      <4>4. Cardinality(r[k]) \in Nat /\ Cardinality(r[k + 1]) \in Nat
          BY <4>2, FS_CardinalityType
      <4>. QED BY <3>1, <3>4, <4>3, <4>4
    <3>. QED BY <3>3, <3>4
  <2>3. V = Nat
    <3>1. V \in SUBSET Nat
        OBVIOUS
    <3>. HIDE DEF V
    <3>. QED BY <2>1, <2>2, <3>1, NaturalInduction
  <2>. HIDE DEF Grown
  <2>. QED BY <1>0, <2>3
<1>6. Closed(r[llen])
  <2>1. r[llen] \subseteq 1..llen
      BY <1>0, <1>4
  <2>2. IsFiniteSet(1..llen) /\ Cardinality(1..llen) = llen
      BY <1>0, FS_Interval
  <2>3. Cardinality(r[llen]) <= llen /\ Cardinality(r[llen]) \in Nat
    <3> DEFINE A == r[llen] B == 1..llen
    <3>. HIDE DEF A, B
    <3>1. A \subseteq B /\ IsFiniteSet(B) /\ Cardinality(B) = llen
        BY <2>1, <2>2 DEF A, B
    <3>2. Cardinality(A) <= llen /\ Cardinality(A) \in Nat
        BY <3>1, FS_Subset, FS_CardinalityType
    <3>. QED BY <3>2 DEF A
  <2>. QED BY <1>0, <1>5, <2>3
<1>7. Pushed \subseteq r[llen]
  <2>1. ASSUME NEW s \in Pushed PROVE s \in r[llen]
    <3>1. Leads(head, s)
        BY DEF Pushed, Listed
    <3>2. r[llen] \in SUBSET Slots /\ head \in r[llen]
        BY <1>0, <1>1, <1>3
    <3>. QED BY <1>6, <3>1, <3>2 DEF Leads
  <2>. QED BY <2>1
<1>8. r[llen] \subseteq Pushed
    BY <1>0, <1>3
<1>. QED BY <1>1, <1>7, <1>8


-----------------------------------------------------------------------------
(* Scans and the pointers they must find *)

\* When t uses a pointer it has validated and u scans for the list that pointer is in,
\* u has found it or has the slot of t before it.
CoveredBy(t, u) ==
    At(t, "use") /\ fenced[t] /\ ~ torn /\ obj[t] \in recover[lst[u]] =>
        /\ At(u, "scan") => obj[t] \in seen[u] \/ Leads(scan[u], cur[t])
        /\ At(u, "sweep") => obj[t] \in seen[u]

Covered == \A t, u \in Threads : CoveredBy(t, u)

\* Steps that neither validate for t nor scan for u.
LEMMA CoverKept ==
    ASSUME IInv, IInv', Fresh, NEW w \in Threads, Step(w),
           NEW t \in Threads, NEW u \in Threads, CoveredBy(t, u),
           torn => torn',
           At(t, "use")' /\ fenced'[t] =>
               At(t, "use") /\ fenced[t] /\ obj'[t] = obj[t] /\ cur'[t] = cur[t],
           pc'[u] \in {"scan", "sweep"} =>
               /\ pc'[u] = pc[u] /\ scan'[u] = scan[u] /\ seen'[u] = seen[u]
               /\ recover'[lst'[u]] \subseteq recover[lst[u]]
    PROVE CoveredBy(t, u)'
<1> SUFFICES ASSUME At(t, "use")', fenced'[t], ~ torn', obj'[t] \in recover'[lst'[u]]
             PROVE /\ At(u, "scan")' => obj'[t] \in seen'[u] \/ Leads(scan[u], cur[t])'
                   /\ At(u, "sweep")' => obj'[t] \in seen'[u]
    BY DEF CoveredBy
<1>1. CASE At(u, "sweep")'
    BY <1>1 DEF CoveredBy, At
<1>2. CASE At(u, "scan")'
  <2>1. obj[t] \in seen[u] \/ Leads(scan[u], cur[t])
      BY <1>2 DEF CoveredBy, At
  <2>2. Leads(scan[u], cur[t]) =>
            /\ scan[u] # Null
            /\ \A S \in SUBSET Slots : scan[u] \in S /\ Closed(S)' => cur[t] \in S
      BY LeadsStep
  <2>3. Leads(scan[u], cur[t]) => Leads(scan[u], cur[t])'
      BY <1>2, <2>2 DEF Leads, At
  <2>. QED BY <1>2, <2>1, <2>3 DEF At
<1>. QED BY <1>1, <1>2 DEF At

\* The slot of a thread that uses it is in the list.
LEMMA UsedListed ==
    ASSUME IInv, UsesOwnSlot, Listed, NEW t \in Threads, At(t, "use")
    PROVE cur[t] \in Slots /\ Leads(head, cur[t])
<1>1. cur[t] \in held[t] /\ cur[t] \in Slots
    BY DEF UsesOwnSlot, IInv, TypeOK, At
<1>2. cur[t] \in 1..llen
    BY <1>1, ConstantsOk DEF IInv, PointersAllocated, Slots
<1>3. \A u \in Threads : At(u, "push") => cur[u] # cur[t]
    BY <1>1 DEF IInv, SlotExclusive, Owned, Pushing, At
<1>. QED BY <1>1, <1>2, <1>3 DEF Listed

\* A step of w keeps the scans of all.
LEMMA CoverStep ==
    ASSUME IInv, IInv', UsesOwnSlot, OneHome, HazardSet, Fresh, Listed, Covered,
           NEW w \in Threads, Step(w)
    PROVE Covered'
<1> SUFFICES ASSUME NEW t \in Threads, NEW u \in Threads PROVE CoveredBy(t, u)'
    BY DEF Covered
<1>0. CoveredBy(t, u)
    BY DEF Covered
<1> USE DEF IInv, TypeOK, At, Goto, slotVars, listVars, clientVars, acqVars, useVars,
        retVars
<1>1. CASE AcquireStep(w)
  <2> USE DEF Take
  <2>1. CASE Acquire(w) BY <1>0, <2>1, CoverKept DEF Acquire
  <2>2. CASE ReuseSlot(w) BY <1>0, <2>2, CoverKept DEF ReuseSlot
  <2>3. CASE SkipSlot(w) BY <1>0, <2>3, CoverKept DEF SkipSlot
  <2>4. CASE GrowList(w) BY <1>0, <2>4, CoverKept DEF GrowList
  <2>5. CASE PushSlot(w) BY <1>0, <2>5, CoverKept DEF PushSlot
  <2>6. CASE LinkSlot(w) BY <1>0, <2>6, CoverKept DEF LinkSlot
  <2>. QED BY <1>1, <2>1, <2>2, <2>3, <2>4, <2>5, <2>6 DEF AcquireStep
<1>2. CASE ClientStep(w)
  <2>1. CASE Validate(w) /\ t = w
    <3>1. At(t, "use")' => obj'[t] = link
        BY <2>1 DEF Validate, Valid
    <3>2. \A l \in Lists : link \notin recover[l]
        BY DEF OneHome
    <3>. QED BY <2>1, <3>1, <3>2 DEF Validate, CoveredBy
  <2>2. CASE Validate(w) /\ t # w
      BY <1>0, <2>2, CoverKept DEF Validate
  <2>3. CASE Load(w) \/ Publish(w) \/ Drain(w) \/ Abandon(w)
      BY <1>0, <2>3, CoverKept DEF Load, Publish, Drain, Abandon, EndUse
  <2>4. CASE Unlink(w)
      BY <1>0, <2>4, CoverKept DEF Unlink
  <2>. QED BY <1>2, <2>1, <2>2, <2>3, <2>4 DEF ClientStep
<1>3. CASE RetireStep(w)
  <2>1. CASE LockList(w) \/ SkipList(w) \/ CheckSize(w)
      BY <1>0, <2>1, CoverKept DEF LockList, SkipList, CheckSize
  <2>2. CASE StartScan(w) /\ u = w
    <3>1. At(t, "use")' => At(t, "use") /\ cur'[t] = cur[t] /\ scan'[u] = head /\ At(u, "scan")'
        BY <2>2 DEF StartScan
    <3>2. At(t, "use") => Leads(head, cur[t])
        BY UsedListed
    <3>3. At(t, "use") =>
              /\ head # Null
              /\ \A S \in SUBSET Slots : head \in S /\ Closed(S)' => cur[t] \in S
        BY <3>2, LeadsStep
    <3>4. At(t, "use")' => Leads(scan[u], cur[t])'
        BY <3>1, <3>3 DEF Leads
    <3>. QED BY <3>1, <3>4 DEF CoveredBy
  <2>3. CASE StartScan(w) /\ u # w
      BY <1>0, <2>3, CoverKept DEF StartScan
  <2>4. CASE ScanSlot(w) /\ u = w
    <3> SUFFICES ASSUME At(t, "use")', fenced'[t], ~ torn', obj'[t] \in recover'[lst'[u]]
                 PROVE obj'[t] \in seen'[u] \/ Leads(scan[u], cur[t])'
        BY <2>4 DEF CoveredBy, ScanSlot
    <3>1. /\ At(t, "use") /\ fenced[t] /\ obj'[t] = obj[t] /\ cur'[t] = cur[t]
          /\ At(u, "scan") /\ scan[u] \in Slots /\ ~ HalfLinked(scan[u])
          /\ seen'[u] = seen[u] \cup ({hazard[scan[u]]} \ {Null})
          /\ scan'[u] = next[scan[u]]
          /\ obj[t] \in recover[lst[u]] /\ ~ torn
        BY <2>4 DEF ScanSlot
    <3>2. obj[t] # Null
        BY <3>1, ConstantsOk DEF LocalsOk
    <3>3. obj[t] \in seen[u] \/ Leads(scan[u], cur[t])
        BY <1>0, <3>1 DEF CoveredBy
    <3>4. CASE scan[u] = cur[t]
      <4>1. hazard[scan[u]] = obj[t]
          BY <3>1, <3>4 DEF HazardSet
      <4>. QED BY <3>1, <3>2, <4>1
    <3>5. CASE Leads(scan[u], cur[t]) /\ scan[u] # cur[t]
      <4>1. NextOf(scan[u]) = next[scan[u]]
          BY <3>1, NextOfKnown DEF NextKnown
      <4>2. Leads(next[scan[u]], cur[t])
          BY <3>1, <3>5, <4>1, UsedListed, LeadsOn
      <4>3. /\ next[scan[u]] # Null
            /\ \A S \in SUBSET Slots : next[scan[u]] \in S /\ Closed(S)' => cur[t] \in S
          BY <4>2, LeadsStep
      <4>. QED BY <3>1, <4>3 DEF Leads
    <3>. QED BY <3>1, <3>3, <3>4, <3>5
  <2>5. CASE ScanSlot(w) /\ u # w
      BY <1>0, <2>5, CoverKept DEF ScanSlot
  <2>6. CASE EndScan(w) /\ u = w
      BY <1>0, <2>6 DEF EndScan, CoveredBy, Leads
  <2>7. CASE EndScan(w) /\ u # w
      BY <1>0, <2>7, CoverKept DEF EndScan
  <2>8. CASE Sweep(w)
    <3>1. pc'[u] \in {"scan", "sweep"} =>
              /\ pc'[u] = pc[u] /\ scan'[u] = scan[u] /\ seen'[u] = seen[u]
              /\ recover'[lst'[u]] \subseteq recover[lst[u]]
        BY <2>8 DEF Sweep, Kept
    <3>. QED BY <1>0, <2>8, <3>1, CoverKept DEF Sweep
  <2>9. CASE Store(w)
    <3>1. pc'[u] \in {"scan", "sweep"} => u # w /\ lst[u] # lst[w]
        BY <2>9 DEF Store, EndUse, RecoverExclusive, InList
    <3>2. pc'[u] \in {"scan", "sweep"} =>
              /\ pc'[u] = pc[u] /\ scan'[u] = scan[u] /\ seen'[u] = seen[u]
              /\ recover'[lst'[u]] \subseteq recover[lst[u]]
        BY <2>9, <3>1 DEF Store, EndUse
    <3>. QED BY <1>0, <2>9, <3>2, CoverKept DEF Store, EndUse
  <2>. QED BY <1>3, <2>1, <2>2, <2>3, <2>4, <2>5, <2>6, <2>7, <2>8, <2>9 DEF RetireStep
<1>4. CASE ReleaseStep(w)
  <2>1. CASE ClearSlot(w)
    <3>1. \A x \in Threads \ {w} : cur'[x] = cur[x]
        BY <2>1 DEF ClearSlot
    <3>. QED BY <1>0, <2>1, <3>1, CoverKept DEF ClearSlot
  <2>2. CASE ReleaseSlot(w)
      BY <1>0, <2>2, CoverKept DEF ReleaseSlot
  <2>. QED BY <1>4, <2>1, <2>2 DEF ReleaseStep
<1>. QED BY <1>1, <1>2, <1>3, <1>4, StepCases

\* A step frees no pointer that is protected.
LEMMA ProtectStep ==
    ASSUME IInv, OneHome, OneHome', Covered, Protected, NEW w \in Threads, Step(w)
    PROVE Protected'
<1> SUFFICES ASSUME NEW t \in Threads, InUse(t)', fenced'[t], ~ torn'
             PROVE obj'[t] \notin free'
    BY DEF Protected
<1>1. CASE Retiring(t)'
    BY <1>1 DEF OneHome
<1>2. CASE At(t, "use")'
  <2> USE DEF IInv, TypeOK, At, Goto, slotVars, listVars, clientVars, acqVars, useVars,
        retVars
  <2>1. CASE Validate(w) /\ t = w
      BY <1>2, <2>1 DEF Validate, Valid, OneHome
  <2>2. CASE Sweep(w)
    <3>1. /\ free' = free \cup (recover[lst[w]] \ seen[w])
          /\ At(t, "use") /\ fenced[t] /\ ~ torn /\ obj'[t] = obj[t] /\ At(w, "sweep")
        BY <1>2, <2>2 DEF Sweep
    <3>2. obj[t] \notin free
        BY <3>1 DEF Protected, InUse
    <3>3. obj[t] \in recover[lst[w]] => obj[t] \in seen[w]
        BY <3>1 DEF Covered, CoveredBy
    <3>. QED BY <3>1, <3>2, <3>3
  <2>3. CASE ~ (Validate(w) /\ t = w) /\ ~ Sweep(w)
    <3>1. /\ At(t, "use") /\ fenced[t] /\ ~ torn /\ obj'[t] = obj[t]
          /\ free' \subseteq free
      <4>1. CASE AcquireStep(w)
          BY <1>2, <4>1 DEF AcquireStep, Acquire, ReuseSlot, SkipSlot, GrowList,
                PushSlot, LinkSlot, Take
      <4>2. CASE ClientStep(w)
          BY <1>2, <2>3, <4>2 DEF ClientStep, Load, Publish, Drain, Validate, Abandon,
                EndUse, Unlink
      <4>3. CASE RetireStep(w)
          BY <1>2, <2>3, <4>3 DEF RetireStep, LockList, SkipList, CheckSize, StartScan,
                ScanSlot, EndScan, Store, EndUse
      <4>4. CASE ReleaseStep(w)
          BY <1>2, <4>4 DEF ReleaseStep, ClearSlot, ReleaseSlot
      <4>. QED BY <4>1, <4>2, <4>3, <4>4, StepCases
    <3>. QED BY <3>1 DEF Protected, InUse
  <2>. QED BY <2>1, <2>2, <2>3
<1>. QED BY <1>1, <1>2 DEF InUse, Retiring, At

-----------------------------------------------------------------------------
(* The second invariant *)

\* The part of the state that keeps objects safe.
SInv ==
    /\ UsesOwnSlot
    /\ OneHome
    /\ HazardSet
    /\ Fresh
    /\ Listed
    /\ Unreached
    /\ Covered
    /\ Protected

\* The constructor and the acquires before it establish it: the slots lead from the
\* one pushed last down to the first.
LEMMA InitSInv == Init => SInv
<1> SUFFICES ASSUME Init PROVE SInv
    OBVIOUS
<1>0. IInv
    BY InitIInv
<1> USE ConstantsOk DEF Init, Slots, Lists
<1>1. UsesOwnSlot /\ HazardSet /\ Covered /\ Protected /\ Unreached
    BY DEF Unreached, UsesOwnSlot, HazardSet, Covered, CoveredBy, Protected, InUse, Retiring, InList, At
<1>2. OneHome
    BY DEF OneHome, Retiring, InList, At
<1>3. Fresh
    BY DEF Fresh, At
<1>4. Listed
  <2> SUFFICES ASSUME NEW s \in 1..WarmSlots, NEW S \in SUBSET Slots, WarmSlots \in S,
                      Closed(S), s \notin S
               PROVE FALSE
    <3>1. head # Null /\ head = WarmSlots /\ llen = WarmSlots
        OBVIOUS
    <3>. QED BY <3>1 DEF Listed, Leads
  <2>1. \A x \in 2..WarmSlots : NextOf(x) = x - 1
      BY <1>0, NextOfKnown DEF NextKnown, HalfLinked, At
  <2> DEFINE gaps == {WarmSlots - x : x \in (1..WarmSlots) \ S}
  <2>2. gaps \in SUBSET Nat /\ WarmSlots - s \in gaps
      OBVIOUS
  <2>3. PICK m \in gaps : \A k \in gaps : m <= k
      BY <2>2, LeastNatural
  <2>4. PICK x \in (1..WarmSlots) \ S : m = WarmSlots - x
      OBVIOUS
  <2>5. x + 1 \in S /\ x + 1 \in 2..WarmSlots
    <3>1. x # WarmSlots
        BY <2>4
    <3>2. x + 1 \in S \/ WarmSlots - (x + 1) \in gaps
        BY <3>1
    <3>3. ~ (m <= WarmSlots - (x + 1))
        BY <2>4
    <3>. QED BY <2>3, <3>1, <3>2, <3>3
  <2>6. x \in S
      BY <2>1, <2>5 DEF Closed
  <2>. QED BY <2>6
<1>. QED BY <1>1, <1>2, <1>3, <1>4 DEF SInv

\* A stuttering step keeps it.
LEMMA StutterSInv == SInv /\ UNCHANGED vars => SInv'
<1> SUFFICES ASSUME SInv, UNCHANGED vars PROVE SInv'
    OBVIOUS
<1> USE DEF SInv, vars, slotVars, listVars, clientVars, acqVars, useVars, retVars
<1>1. UsesOwnSlot' /\ HazardSet'
    BY DEF UsesOwnSlot, HazardSet, Retiring, InList, At
<1>2. OneHome'
    BY DEF OneHome, Retiring, InList, At
<1>3. Fresh' /\ Protected'
    BY DEF Fresh, Protected, InUse, Retiring, InList, At
<1>4. \A s \in Slots : NextOf(s)' = NextOf(s)
    BY DEF NextOf, HalfLinked, At
<1>5. \A S \in SUBSET Slots : Closed(S)' = Closed(S)
    BY <1>4 DEF Closed
<1>6. Listed'
    BY <1>5 DEF Listed, Leads, At
<1>8. Unreached'
    BY <1>4 DEF Unreached, At
<1>7. Covered'
    BY <1>5 DEF Covered, CoveredBy, Leads, At
<1>. QED BY <1>1, <1>2, <1>3, <1>6, <1>7, <1>8

\* With the first invariant it is inductive.
THEOREM Safety == Spec => []SInv
<1>1. IInv /\ IInv' /\ SInv /\ [Next]_vars => SInv'
  <2> SUFFICES ASSUME IInv, IInv', SInv, [Next]_vars PROVE SInv'
      OBVIOUS
  <2>1. CASE UNCHANGED vars BY <2>1, StutterSInv
  <2>2. ASSUME NEW t \in Threads, Step(t) PROVE SInv'
      BY <2>2, UsesStep, HomeStep, HazardStep, FreshStep, ListedStep, UnreachedStep,
         CoverStep,
         ProtectStep DEF SInv
  <2>. QED BY <2>1, <2>2 DEF Next
<1>. QED BY Invariance, InitSInv, <1>1, PTL DEF Spec

\* No object is freed twice, lost, or freed while it is linked.
THEOREM ObjectsAccounted == Spec => []ObjectAccounting
<1>1. IInv /\ SInv => ObjectAccounting BY HomesCounted DEF SInv
<1>. QED BY Invariance, Safety, <1>1, PTL

\* A pointer that was published, seen in memory and validated is not freed while in use,
\* for any number of threads, slots and recover lists.
THEOREM UseProtected == Spec => []Protected
<1>1. SInv => Protected BY DEF SInv
<1>. QED BY Safety, <1>1, PTL

\* Every node allocated is in the list for good, however the pushes interleave.
THEOREM SlotListComplete == Spec => []ChainComplete
<1>1. IInv /\ SInv => ChainComplete BY ReachPushed DEF SInv, ChainComplete, Pushed
<1>. QED BY Invariance, Safety, <1>1, PTL
=============================================================================
