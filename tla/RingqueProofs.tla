--------------------------- MODULE RingqueProofs ----------------------------
(***************************************************************************)
(* Proofs about Ringque, for any number of threads.  First who holds _mu   *)
(* and what the local variables index.  Then, until a call is misled, that *)
(* the cells between the slides are those with an element, that _size      *)
(* counts them, and that ringque implements the linearizable queue of      *)
(* LinQueue.  Last that only calls of a kind mislead each other.           *)
(***************************************************************************)
EXTENDS Ringque, Sequences, FiniteSetTheorems, TLAPS

\* Where a thread holds _mu shared.
Holding ==
    {"load", "full", "claim", "fill", "pcount", "popload", "test", "move", "take",
     "count", "return"}

PushLabels ==
    {"idle", "lock", "load", "full", "try", "resize", "relock", "claim", "fill", "pcount",
     "return"}
PopLabels == {"idle", "poplock", "popload", "test", "move", "take", "count", "return"}

\* _mu is a lock: one unique holder or several shared ones.
LocksOk ==
    /\ \A t \in Threads : pc[t] \in Holding => t \in readers
    /\ \A t \in Threads : At(t, "resize") => writer = t
    /\ writer # Null => readers = {}

\* What the local variables are where they are used: cells of the ring that is
\* there now, although it may have grown since they were read.
LocalsOk ==
    /\ \A t \in Pushers :
          /\ pc[t] \in PushLabels
          /\ pc[t] \in PushLabels \ {"idle", "return"} => item[t] \in Values
          /\ pc[t] \in {"full", "try", "resize", "relock", "claim", "fill"} =>
                slide[t] \in 0..(que_max - 1)
    /\ \A t \in Poppers :
          /\ pc[t] \in PopLabels
          /\ pc[t] \in {"test", "move", "take"} => tail[t] \in 0..(que_max - 1)
          /\ pc[t] \in PopLabels \ {"count", "return"} => item[t] = Null

IInv == TypeOK /\ LocksOk /\ LocalsOk

-----------------------------------------------------------------------------
(* Arithmetic *)

\* What % gives for the numbers of less than two turns of a ring.
LEMMA ModNear ==
    ASSUME NEW q \in Nat \ {0}, NEW x \in -q..(2 * q - 1)
    PROVE  x % q = IF x < 0 THEN x + q ELSE IF x < q THEN x ELSE x - q
  <1>1. CASE x < 0 BY <1>1, SMT
  <1>2. CASE 0 <= x /\ x < q BY <1>2, SMT
  <1>3. CASE q <= x BY <1>3, SMT
  <1>. QED BY <1>1, <1>2, <1>3

\* Quotient and remainder, for a divisor that is a parameter.
LEMMA DivMod ==
    ASSUME NEW q \in Nat \ {0}, NEW x \in Int
    PROVE  x \div q \in Int /\ x = q * (x \div q) + (x % q) /\ x % q \in 0..(q - 1)
  BY SMTT(30)

\* The remainder of a number that is given by its quotient and remainder.
LEMMA ModOf ==
    ASSUME NEW q \in Nat \ {0}, NEW k \in Int, NEW r \in 0..(q - 1)
    PROVE  (q * k + r) % q = r
  BY SMTT(30)

\* A counter that wraps around counts modulo its width.
LEMMA ModCount ==
    ASSUME NEW q \in Nat \ {0}, NEW x \in Int
    PROVE  /\ ((x % q) + 1) % q = (x + 1) % q
           /\ ((x % q) - 1) % q = (x - 1) % q
  <1>. DEFINE k == x \div q
              r == x % q
  <1>1. k \in Int /\ x = q * k + r /\ r \in 0..(q - 1) BY DivMod
  <1>. HIDE DEF k, r
  <1>2. (r + 1) % q = (x + 1) % q
    <2>1. CASE r + 1 < q
      <3>1. (q * k + (r + 1)) % q = r + 1 BY <1>1, <2>1, ModOf
      <3>2. (q * 0 + (r + 1)) % q = r + 1 BY <1>1, <2>1, ModOf
      <3>3. x + 1 = q * k + (r + 1) BY <1>1
      <3>. QED BY <3>1, <3>2, <3>3, <1>1
    <2>2. CASE r + 1 = q
      <3>1. (q * (k + 1) + 0) % q = 0 BY <1>1, <2>2, ModOf
      <3>2. (q * 1 + 0) % q = 0 BY ModOf
      <3>3. x + 1 = q * (k + 1) + 0 BY <1>1, <2>2
      <3>4. r + 1 = q * 1 + 0 BY <2>2
      <3>. QED BY <3>1, <3>2, <3>3, <3>4
    <2>. QED BY <2>1, <2>2, <1>1
  <1>3. (r - 1) % q = (x - 1) % q
    <2>1. CASE r > 0
      <3>1. (q * k + (r - 1)) % q = r - 1 BY <1>1, <2>1, ModOf
      <3>2. x - 1 = q * k + (r - 1) BY <1>1
      <3>3. (q * 0 + (r - 1)) % q = r - 1 BY <1>1, <2>1, ModOf
      <3>. QED BY <3>1, <3>2, <3>3
    <2>2. CASE r = 0
      <3>1. (q * (k - 1) + (q - 1)) % q = q - 1 BY <1>1, ModOf
      <3>2. (q * (-1) + (q - 1)) % q = q - 1 BY ModOf
      <3>3. x - 1 = q * (k - 1) + (q - 1) BY <1>1, <2>2
      <3>4. r - 1 = q * (-1) + (q - 1) BY <2>2
      <3>. QED BY <3>1, <3>2, <3>3, <3>4
    <2>. QED BY <2>1, <2>2, <1>1
  <1>. QED BY <1>2, <1>3 DEF r

-----------------------------------------------------------------------------
(* Any number of threads *)

\* At the start the ring is empty and nobody holds the lock.
LEMMA InitIInv == Init => IInv
  <1>. SUFFICES ASSUME Init PROVE IInv
    OBVIOUS
  <1>1. crowded \in BOOLEAN /\ misled \in BOOLEAN BY DEF Init
  <1>2. TypeOK BY <1>1, ConstantsOk DEF Init, TypeOK, Labels, Threads
  <1>3. LocksOk /\ LocalsOk
    BY ConstantsOk DEF Init, LocksOk, LocalsOk, PushLabels, PopLabels, Holding, At, Threads
  <1>. QED BY <1>2, <1>3 DEF IInv

\* A step that changes nothing keeps IInv.
LEMMA StutterIInv == IInv /\ UNCHANGED vars => IInv'
  BY DEF IInv, TypeOK, LocksOk, LocalsOk, At, vars, ringVars, slideVars, muVars, callVars,
        histVars

\* Twice the ring has a place for every cell, and the slides stay in it.
LEMMA TypeResize ==
    ASSUME IInv, NEW t \in Pushers, PushResize(t)
    PROVE  TypeOK'
  <1>1. t \in Threads /\ t \in Pushers BY DEF Threads
  <1>2. CASE Full(t)
    <2>1. que_max' \in Nat \ {0} BY <1>2 DEF PushResize, IInv, TypeOK
    <2>2. que' \in [0..(que_max' - 1) -> Values \cup {Null}]
      <3>1. \A i \in 0..(2 * que_max - 1) : Doubled[i] \in Values \cup {Null}
        BY DEF Doubled, IInv, TypeOK
      <3>. QED BY <3>1, <1>2 DEF PushResize, Doubled
    <2>3. push_slide' \in 0..(que_max' - 1) /\ pop_slide' \in 1..que_max'
      BY <1>2 DEF PushResize, IInv, TypeOK
    <2>. QED BY <1>1, <1>2, <2>1, <2>2, <2>3 DEF PushResize, IInv, TypeOK, Goto, callVars, Labels,
           Mislead
  <1>3. CASE ~ Full(t)
    BY <1>1, <1>3 DEF PushResize, IInv, TypeOK, Goto, callVars, ringVars, Labels
  <1>. QED BY <1>2, <1>3

\* push keeps the types.
LEMMA TypePush ==
    ASSUME IInv, NEW t \in Pushers, PushStep(t)
    PROVE  TypeOK'
  <1>. USE DEF Goto, At, callVars, ringVars, slideVars, muVars, histVars, Labels, LockShared,
              UnlockShared, Crowd, Mislead
  <1>1. t \in Threads BY DEF Threads
  <1>2. CASE PushCall(t) BY <1>1, <1>2 DEF PushCall, IInv, TypeOK
  <1>3. CASE PushLock(t) BY <1>1, <1>3 DEF PushLock, IInv, TypeOK
  <1>4. CASE PushLoad(t) BY <1>1, <1>4 DEF PushLoad, IInv, TypeOK
  <1>5. CASE PushTest(t) BY <1>1, <1>5 DEF PushTest, IInv, TypeOK
  <1>6. CASE PushTry(t) BY <1>1, <1>6 DEF PushTry, IInv, TypeOK
  <1>7. CASE PushResize(t) BY <1>7, TypeResize
  <1>8. CASE PushRelock(t) BY <1>1, <1>8 DEF PushRelock, IInv, TypeOK
  <1>9. CASE PushClaim(t)
    <2>1. slide[t] \in 0..(que_max - 1) BY <1>9 DEF PushClaim, IInv, LocalsOk
    <2>2. que_max \in Nat \ {0} BY DEF IInv, TypeOK
    <2>3. Succ(slide[t]) \in 0..(que_max - 1) BY <2>1, <2>2 DEF Succ
    <2>. HIDE DEF Mislead
    <2>4. push_slide' \in 0..(que_max' - 1) /\ slide' \in [Threads -> Nat]
      <3>1. push_slide \in 0..(que_max - 1) /\ slide \in [Threads -> Nat] BY DEF IInv, TypeOK
      <3>2. push_slide \in Nat BY <2>2, <3>1
      <3>. QED BY <1>9, <2>3, <3>1, <3>2 DEF PushClaim
    <2>5. crowded' \in BOOLEAN /\ misled' \in BOOLEAN
      BY <1>9 DEF PushClaim, Mislead, IInv, TypeOK
    <2>6. pc' \in [Threads -> Labels] BY <1>1, <1>9 DEF PushClaim, IInv, TypeOK
    <2>7. UNCHANGED <<que, que_max, pop_slide, size, readers, writer, tail, item>>
      BY <1>9 DEF PushClaim
    <2>. QED BY <2>4, <2>5, <2>6, <2>7 DEF IInv, TypeOK
  <1>10. CASE PushFill(t)
    <2>1. item[t] \in Values BY <1>10 DEF PushFill, IInv, LocalsOk, PushLabels
    <2>. QED BY <1>1, <1>10, <2>1 DEF PushFill, IInv, TypeOK
  <1>11. CASE PushCount(t)
    <2>1. size' \in 0..(SizeMod - 1) BY <1>11, ConstantsOk, DivMod DEF PushCount, IInv, TypeOK
    <2>. QED BY <1>1, <1>11, <2>1 DEF PushCount, IInv, TypeOK
  <1>12. CASE Return(t) BY <1>1, <1>12 DEF Return, IInv, TypeOK
  <1>. QED
    BY <1>2, <1>3, <1>4, <1>5, <1>6, <1>7, <1>8, <1>9, <1>10, <1>11, <1>12 DEF PushStep

\* pop keeps the types.
LEMMA TypePop ==
    ASSUME IInv, NEW t \in Poppers, PopStep(t)
    PROVE  TypeOK'
  <1>. USE DEF Goto, At, callVars, ringVars, slideVars, muVars, histVars, Labels, LockShared,
              UnlockShared, Crowd, Mislead
  <1>1. t \in Threads BY DEF Threads
  <1>2. CASE PopCall(t) BY <1>1, <1>2 DEF PopCall, IInv, TypeOK
  <1>3. CASE PopLock(t) BY <1>1, <1>3 DEF PopLock, IInv, TypeOK
  <1>4. CASE PopLoad(t) BY <1>1, <1>4 DEF PopLoad, IInv, TypeOK, First
  <1>5. CASE PopTest(t) BY <1>1, <1>5 DEF PopTest, IInv, TypeOK
  <1>6. CASE PopMove(t)
    <2>1. tail[t] \in 0..(que_max - 1) BY <1>6 DEF PopMove, IInv, LocalsOk
    <2>2. que_max \in Nat \ {0} BY DEF IInv, TypeOK
    <2>3. pop_slide \in 1..que_max /\ tail[t] + 1 \in 1..que_max
      BY <2>1, <2>2 DEF IInv, TypeOK
    <2>4. pop_slide' \in 1..que_max' BY <1>6, <2>3 DEF PopMove
    <2>5. slide \in [Threads -> Nat] /\ pop_slide \in Nat BY <2>2, <2>3 DEF IInv, TypeOK
    <2>6. slide' \in [Threads -> Nat] BY <1>6, <2>5 DEF PopMove
    <2>. QED BY <1>1, <1>6, <2>4, <2>6 DEF PopMove, IInv, TypeOK
  <1>7. CASE PopTake(t)
    <2>1. tail[t] \in 0..(que_max - 1) BY <1>7 DEF PopTake, IInv, LocalsOk
    <2>. QED BY <1>1, <1>7, <2>1 DEF PopTake, IInv, TypeOK
  <1>8. CASE PopCount(t)
    <2>1. size' \in 0..(SizeMod - 1) BY <1>8, ConstantsOk, DivMod DEF PopCount, IInv, TypeOK
    <2>. QED BY <1>1, <1>8, <2>1 DEF PopCount, IInv, TypeOK
  <1>9. CASE Return(t) BY <1>1, <1>9 DEF Return, IInv, TypeOK
  <1>. QED BY <1>2, <1>3, <1>4, <1>5, <1>6, <1>7, <1>8, <1>9 DEF PopStep

\* push takes the lock and gives it back: who holds it is who the labels say.
LEMMA LocksPush ==
    ASSUME IInv, NEW t \in Pushers, PushStep(t)
    PROVE  LocksOk'
  <1>. USE DEF Goto, At, muVars, Holding, LockShared, UnlockShared
  <1>1. t \in Threads /\ Null \notin Threads /\ pc \in [Threads -> Labels]
    BY ConstantsOk DEF Threads, IInv, TypeOK
  <1>2. CASE PushCall(t) BY <1>1, <1>2 DEF PushCall, IInv, LocksOk
  <1>3. CASE PushLock(t) BY <1>1, <1>3 DEF PushLock, IInv, LocksOk
  <1>4. CASE PushLoad(t) BY <1>1, <1>4 DEF PushLoad, IInv, LocksOk
  <1>5. CASE PushTest(t) BY <1>1, <1>5 DEF PushTest, IInv, LocksOk
  <1>6. CASE PushTry(t) BY <1>1, <1>6 DEF PushTry, IInv, LocksOk
  <1>7. CASE PushResize(t) BY <1>1, <1>7 DEF PushResize, IInv, LocksOk
  <1>8. CASE PushRelock(t) BY <1>1, <1>8 DEF PushRelock, IInv, LocksOk
  <1>9. CASE PushClaim(t) BY <1>1, <1>9 DEF PushClaim, IInv, LocksOk
  <1>10. CASE PushFill(t) BY <1>1, <1>10 DEF PushFill, IInv, LocksOk
  <1>11. CASE PushCount(t) BY <1>1, <1>11 DEF PushCount, IInv, LocksOk
  <1>12. CASE Return(t) BY <1>1, <1>12 DEF Return, IInv, LocksOk
  <1>. QED
    BY <1>2, <1>3, <1>4, <1>5, <1>6, <1>7, <1>8, <1>9, <1>10, <1>11, <1>12 DEF PushStep

\* So does pop.
LEMMA LocksPop ==
    ASSUME IInv, NEW t \in Poppers, PopStep(t)
    PROVE  LocksOk'
  <1>. USE DEF Goto, At, muVars, Holding, LockShared, UnlockShared
  <1>1. t \in Threads /\ Null \notin Threads /\ pc \in [Threads -> Labels]
    BY ConstantsOk DEF Threads, IInv, TypeOK
  <1>2. CASE PopCall(t) BY <1>1, <1>2 DEF PopCall, IInv, LocksOk
  <1>3. CASE PopLock(t) BY <1>1, <1>3 DEF PopLock, IInv, LocksOk
  <1>4. CASE PopLoad(t) BY <1>1, <1>4 DEF PopLoad, IInv, LocksOk
  <1>5. CASE PopTest(t) BY <1>1, <1>5 DEF PopTest, IInv, LocksOk
  <1>6. CASE PopMove(t) BY <1>1, <1>6 DEF PopMove, IInv, LocksOk
  <1>7. CASE PopTake(t) BY <1>1, <1>7 DEF PopTake, IInv, LocksOk
  <1>8. CASE PopCount(t) BY <1>1, <1>8 DEF PopCount, IInv, LocksOk
  <1>9. CASE Return(t) BY <1>1, <1>9 DEF Return, IInv, LocksOk
  <1>. QED BY <1>2, <1>3, <1>4, <1>5, <1>6, <1>7, <1>8, <1>9 DEF PopStep

\* push sets its local variables before it uses them.
LEMMA LocalsPush ==
    ASSUME IInv, NEW t \in Pushers, PushStep(t)
    PROVE  LocalsOk'
  <1>. USE DEF Goto, At, callVars, ringVars, slideVars, PushLabels, PopLabels
  <1>1. /\ t \in Threads /\ t \in Pushers /\ t \notin Poppers
        /\ \A u \in Pushers : u \in Threads
        /\ \A u \in Poppers : u \in Threads
    BY ConstantsOk DEF Threads
  <1>2. /\ pc \in [Threads -> Labels] /\ slide \in [Threads -> Nat] /\ que_max \in Nat \ {0}
        /\ item \in [Threads -> Values \cup {Null}] /\ push_slide \in 0..(que_max - 1)
    BY DEF IInv, TypeOK
  <1>3. CASE PushCall(t) BY <1>1, <1>2, <1>3 DEF PushCall, IInv, LocalsOk
  <1>4. CASE PushLock(t) BY <1>1, <1>2, <1>4 DEF PushLock, IInv, LocalsOk
  <1>5. CASE PushLoad(t) BY <1>1, <1>2, <1>5 DEF PushLoad, IInv, LocalsOk
  <1>6. CASE PushTest(t) BY <1>1, <1>2, <1>6 DEF PushTest, IInv, LocalsOk
  <1>7. CASE PushTry(t) BY <1>1, <1>2, <1>7 DEF PushTry, IInv, LocalsOk
  <1>8. CASE PushResize(t) BY <1>1, <1>2, <1>8 DEF PushResize, IInv, LocalsOk
  <1>9. CASE PushRelock(t) BY <1>1, <1>2, <1>9 DEF PushRelock, IInv, LocalsOk
  <1>10. CASE PushClaim(t) BY <1>1, <1>2, <1>10 DEF PushClaim, IInv, LocalsOk
  <1>11. CASE PushFill(t) BY <1>1, <1>2, <1>11 DEF PushFill, IInv, LocalsOk
  <1>12. CASE PushCount(t) BY <1>1, <1>2, <1>12 DEF PushCount, IInv, LocalsOk
  <1>13. CASE Return(t)
    <2>1. At(t, "return") BY <1>13 DEF Return
    <2>. QED BY <1>1, <1>2, <1>13, <2>1 DEF Return, IInv, LocalsOk
  <1>. QED
    BY <1>3, <1>4, <1>5, <1>6, <1>7, <1>8, <1>9, <1>10, <1>11, <1>12, <1>13 DEF PushStep

\* So does pop.
LEMMA LocalsPop ==
    ASSUME IInv, NEW t \in Poppers, PopStep(t)
    PROVE  LocalsOk'
  <1>. USE DEF Goto, At, callVars, ringVars, slideVars, PushLabels, PopLabels
  <1>1. /\ t \in Threads /\ t \in Poppers /\ t \notin Pushers
        /\ \A u \in Pushers : u \in Threads
        /\ \A u \in Poppers : u \in Threads
    BY ConstantsOk DEF Threads
  <1>2. /\ pc \in [Threads -> Labels] /\ slide \in [Threads -> Nat] /\ que_max \in Nat \ {0}
        /\ tail \in [Threads -> Nat] /\ item \in [Threads -> Values \cup {Null}]
        /\ pop_slide \in 1..que_max
    BY DEF IInv, TypeOK
  <1>3. CASE PopCall(t) BY <1>1, <1>2, <1>3 DEF PopCall, IInv, LocalsOk
  <1>4. CASE PopLock(t) BY <1>1, <1>2, <1>4 DEF PopLock, IInv, LocalsOk
  <1>5. CASE PopLoad(t) BY <1>1, <1>2, <1>5 DEF PopLoad, IInv, LocalsOk, First
  <1>6. CASE PopTest(t) BY <1>1, <1>2, <1>6 DEF PopTest, IInv, LocalsOk
  <1>7. CASE PopMove(t) BY <1>1, <1>2, <1>7 DEF PopMove, IInv, LocalsOk
  <1>8. CASE PopTake(t) BY <1>1, <1>2, <1>8 DEF PopTake, IInv, LocalsOk
  <1>9. CASE PopCount(t) BY <1>1, <1>2, <1>9 DEF PopCount, IInv, LocalsOk
  <1>10. CASE Return(t) BY <1>1, <1>2, <1>10 DEF Return, IInv, LocalsOk
  <1>. QED BY <1>3, <1>4, <1>5, <1>6, <1>7, <1>8, <1>9, <1>10 DEF PopStep

\* IInv is inductive, whatever the numbers of pushers and poppers.
LEMMA StepIInv == IInv /\ [Next]_vars => IInv'
  <1>. SUFFICES ASSUME IInv, [Next]_vars PROVE IInv'
    OBVIOUS
  <1>1. CASE UNCHANGED vars BY <1>1, StutterIInv
  <1>2. ASSUME NEW t \in Pushers, PushStep(t) PROVE IInv'
    BY <1>2, TypePush, LocksPush, LocalsPush DEF IInv
  <1>3. ASSUME NEW t \in Poppers, PopStep(t) PROVE IInv'
    BY <1>3, TypePop, LocksPop, LocalsPop DEF IInv
  <1>. QED BY <1>1, <1>2, <1>3 DEF Next

\* The lock is a lock, and every index is one of the ring that is there, for any number of
\* threads, also while the ring grows.
THEOREM Invariance == Spec => []IInv
  BY InitIInv, StepIInv, PTL DEF Spec

\* Every variable keeps its type: the slides stay in the ring.
THEOREM Typing == Spec => []TypeOK
  <1>1. IInv => TypeOK BY DEF IInv
  <1>. QED BY <1>1, Invariance, PTL

-----------------------------------------------------------------------------
(* The ring *)

\* From the first cell in use up to _push_slide, going round.
Between(i) ==
    IF First <= push_slide THEN First <= i /\ i < push_slide
                           ELSE First <= i \/ i < push_slide

\* The ring without %.
Shape ==
    /\ First \in 0..(que_max - 1)
    /\ Elements = IF First <= push_slide THEN push_slide - First
                                         ELSE push_slide - First + que_max
    /\ Elements \in 0..(que_max - 1)
    /\ \A n \in 0..(que_max - 1) :
          Cell(n) = IF First + n < que_max THEN First + n ELSE First + n - que_max

\* First, Elements and Cell, computed without a remainder.
LEMMA RingShape == TypeOK => Shape
  <1>. SUFFICES ASSUME TypeOK PROVE Shape
    OBVIOUS
  <1>1. que_max \in Nat \ {0} /\ push_slide \in 0..(que_max - 1) /\ pop_slide \in 1..que_max
    BY DEF TypeOK
  <1>2. First \in 0..(que_max - 1) BY <1>1 DEF First
  <1>. DEFINE f == First
  <1>3. f \in 0..(que_max - 1) BY <1>2
  <1>. HIDE DEF f
  <1>4. ASSUME NEW x \in -que_max..(2 * que_max - 1)
        PROVE  x % que_max = IF x < 0 THEN x + que_max ELSE IF x < que_max THEN x ELSE x - que_max
    BY <1>1, ModNear
  <1>5. (push_slide - f) % que_max = IF f <= push_slide THEN push_slide - f
                                                        ELSE push_slide - f + que_max
    <2>. DEFINE x == push_slide - f
    <2>1. x \in -que_max..(2 * que_max - 1) /\ x < que_max /\ (f <= push_slide <=> ~ (x < 0))
      BY <1>1, <1>3
    <2>. HIDE DEF x
    <2>2. x % que_max = IF f <= push_slide THEN x ELSE x + que_max BY <1>4, <2>1
    <2>. QED BY <2>2 DEF x
  <1>6. ASSUME NEW n \in 0..(que_max - 1)
        PROVE  (f + n) % que_max = IF f + n < que_max THEN f + n ELSE f + n - que_max
    <2>. DEFINE x == f + n
    <2>1. x \in -que_max..(2 * que_max - 1) /\ ~ (x < 0) BY <1>1, <1>3
    <2>. HIDE DEF x
    <2>2. x % que_max = IF x < que_max THEN x ELSE x - que_max BY <1>4, <2>1
    <2>. QED BY <1>1, <1>3, <2>2 DEF x
  <1>. QED BY <1>1, <1>2, <1>3, <1>5, <1>6 DEF Shape, Elements, Cell, f

\* The cells in use are those between the slides.
LEMMA RingBetween ==
    ASSUME TypeOK, NEW i \in 0..(que_max - 1)
    PROVE  i \in InRing <=> Between(i)
  <1>1. que_max \in Nat \ {0} /\ push_slide \in 0..(que_max - 1) BY DEF TypeOK
  <1>2. First \in 0..(que_max - 1) BY RingShape DEF Shape
  <1>3. Elements \in 0..(que_max - 1) BY RingShape DEF Shape
  <1>4. Elements = IF First <= push_slide THEN push_slide - First
                                          ELSE push_slide - First + que_max
    BY RingShape DEF Shape
  <1>5. \A n \in 0..(que_max - 1) :
           Cell(n) = IF First + n < que_max THEN First + n ELSE First + n - que_max
    BY RingShape DEF Shape
  <1>6. ASSUME i \in InRing PROVE Between(i)
    <2>1. PICK n \in 0..(Elements - 1) : i = Cell(n) BY <1>6 DEF InRing
    <2>2. n \in 0..(que_max - 1) BY <1>1, <1>3
    <2>3. i = IF First + n < que_max THEN First + n ELSE First + n - que_max
      BY <1>5, <2>1, <2>2
    <2>. QED BY <1>1, <1>2, <1>3, <1>4, <2>3 DEF Between
  <1>7. ASSUME Between(i) PROVE i \in InRing
    <2>. DEFINE n == IF First <= i THEN i - First ELSE i - First + que_max
    <2>1. n \in 0..(Elements - 1) /\ n \in 0..(que_max - 1)
      BY <1>1, <1>2, <1>4, <1>7 DEF Between
    <2>2. Cell(n) = i
      <3>1. i = IF First + n < que_max THEN First + n ELSE First + n - que_max
        BY <1>1, <1>2
      <3>. HIDE DEF n
      <3>. QED BY <1>5, <2>1, <3>1
    <2>. HIDE DEF n
    <2>. QED BY <2>1, <2>2 DEF InRing
  <1>. QED BY <1>6, <1>7

\* _push_slide moves over one free cell, which becomes the last in use.
LEMMA RingClaim ==
    ASSUME TypeOK, TypeOK', UNCHANGED <<que_max, pop_slide>>,
           push_slide + 1 # pop_slide, push_slide' = Succ(push_slide)
    PROVE  /\ First' = First
           /\ Elements' = Elements + 1
           /\ Cell(Elements) = push_slide
           /\ \A i \in 0..(que_max - 1) : Between(i)' <=> Between(i) \/ i = push_slide
           /\ \A n \in 0..(que_max - 1) : Cell(n)' = Cell(n)
  <1>0. Shape' BY RingShape, PTL
  <1>1. /\ que_max \in Nat \ {0} /\ push_slide \in 0..(que_max - 1)
        /\ pop_slide \in 1..que_max
    BY DEF TypeOK
  <1>2. First' = First /\ First \in 0..(que_max - 1) BY <1>1 DEF First
  <1>3. First # push_slide' BY <1>1 DEF First, Succ
  <1>4. Elements = IF First <= push_slide THEN push_slide - First
                                          ELSE push_slide - First + que_max
    BY RingShape DEF Shape
  <1>5. Elements' = IF First' <= push_slide' THEN push_slide' - First'
                                             ELSE push_slide' - First' + que_max'
    BY <1>0 DEF Shape
  <1>6. Elements \in 0..(que_max - 1) BY RingShape DEF Shape
  <1>7. \A n \in 0..(que_max - 1) :
           Cell(n) = IF First + n < que_max THEN First + n ELSE First + n - que_max
    BY RingShape DEF Shape
  <1>8. Elements' = Elements + 1 BY <1>1, <1>2, <1>3, <1>4, <1>5 DEF Succ
  <1>9. Cell(Elements) = push_slide
    <2>. DEFINE e == Elements
    <2>1. e = IF First <= push_slide THEN push_slide - First
                                     ELSE push_slide - First + que_max
      BY <1>4
    <2>2. Cell(e) = IF First + e < que_max THEN First + e ELSE First + e - que_max
      BY <1>6, <1>7
    <2>. HIDE DEF e
    <2>3. Cell(e) = push_slide BY <1>1, <1>2, <2>1, <2>2
    <2>. QED BY <2>3 DEF e
  <1>10. ASSUME NEW i \in 0..(que_max - 1)
         PROVE  Between(i)' <=> Between(i) \/ i = push_slide
    BY <1>1, <1>2, <1>3 DEF Between, Succ
  <1>11. \A n \in 0..(que_max - 1) : Cell(n)' = Cell(n) BY <1>2 DEF Cell
  <1>. QED BY <1>2, <1>8, <1>9, <1>10, <1>11

\* _pop_slide moves over the first cell in use.
LEMMA RingMove ==
    ASSUME TypeOK, TypeOK', UNCHANGED <<que_max, push_slide>>,
           First # push_slide, pop_slide' = First + 1
    PROVE  /\ Elements' = Elements - 1
           /\ Elements > 0
           /\ Cell(0) = First
           /\ \A i \in 0..(que_max - 1) : Between(i)' <=> Between(i) /\ i # First
           /\ Between(First)
           /\ \A n \in 0..(que_max - 2) : Cell(n)' = Cell(n + 1)
  <1>0. Shape' BY RingShape, PTL
  <1>1. /\ que_max \in Nat \ {0} /\ push_slide \in 0..(que_max - 1)
        /\ pop_slide \in 1..que_max
    BY DEF TypeOK
  <1>2. First \in 0..(que_max - 1) BY <1>1 DEF First
  <1>3. First' = IF First + 1 = que_max THEN 0 ELSE First + 1 BY <1>1 DEF First
  <1>4. Elements = IF First <= push_slide THEN push_slide - First
                                          ELSE push_slide - First + que_max
    BY RingShape DEF Shape
  <1>5. Elements' = IF First' <= push_slide' THEN push_slide' - First'
                                             ELSE push_slide' - First' + que_max'
    BY <1>0 DEF Shape
  <1>6. \A n \in 0..(que_max - 1) :
           Cell(n) = IF First + n < que_max THEN First + n ELSE First + n - que_max
    BY RingShape DEF Shape
  <1>7. \A n \in 0..(que_max' - 1) :
           Cell(n)' = IF First' + n < que_max' THEN First' + n ELSE First' + n - que_max'
    BY <1>0 DEF Shape
  <1>8. Elements' = Elements - 1 /\ Elements > 0 BY <1>1, <1>2, <1>3, <1>4, <1>5
  <1>9. Cell(0) = First BY <1>1, <1>2, <1>6
  <1>10. ASSUME NEW i \in 0..(que_max - 1)
         PROVE  Between(i)' <=> Between(i) /\ i # First
    BY <1>1, <1>2, <1>3 DEF Between
  <1>11. Between(First) BY <1>1, <1>2 DEF Between
  <1>12. ASSUME NEW n \in 0..(que_max - 2) PROVE Cell(n)' = Cell(n + 1)
    <2>1. Cell(n)' = IF First' + n < que_max THEN First' + n ELSE First' + n - que_max
      BY <1>1, <1>7
    <2>. DEFINE k == n + 1
    <2>2. k \in 0..(que_max - 1) /\ k = n + 1 BY <1>1
    <2>. HIDE DEF k
    <2>3. Cell(k) = IF First + k < que_max THEN First + k ELSE First + k - que_max
      BY <1>6, <2>2
    <2>4. Cell(n)' = Cell(k) BY <1>1, <1>2, <1>3, <2>1, <2>2, <2>3
    <2>. QED BY <2>4 DEF k
  <1>. QED BY <1>8, <1>9, <1>10, <1>11, <1>12

\* The larger ring has the same elements in the same order: those from _pop_slide on, if
\* there are any, are at its end.
LEMMA RingResizeAround ==
    ASSUME TypeOK, TypeOK', push_slide < pop_slide,
           \A i \in 0..(que_max - 1) : que[i] # Null <=> Between(i),
           que' = Doubled, que_max' = 2 * que_max, push_slide' = push_slide,
           pop_slide' = pop_slide + que_max
    PROVE  /\ Elements' = Elements
           /\ \A i \in 0..(que_max' - 1) : que'[i] # Null <=> Between(i)'
           /\ \A n \in 0..(Elements - 1) : que'[Cell(n)'] = que[Cell(n)]
  <1>0. Shape' BY RingShape, PTL
  <1>1. /\ que_max \in Nat \ {0} /\ push_slide \in 0..(que_max - 1)
        /\ pop_slide \in 1..que_max
    BY DEF TypeOK
  <1>2. First = IF pop_slide = que_max THEN 0 ELSE pop_slide BY DEF First
  <1>3. First' = IF pop_slide = que_max THEN 0 ELSE pop_slide + que_max
    BY <1>1 DEF First
  <1>4. Elements = IF First <= push_slide THEN push_slide - First
                                          ELSE push_slide - First + que_max
    BY RingShape DEF Shape
  <1>5. Elements' = IF First' <= push_slide' THEN push_slide' - First'
                                             ELSE push_slide' - First' + que_max'
    BY <1>0 DEF Shape
  <1>6. \A n \in 0..(que_max - 1) :
           Cell(n) = IF First + n < que_max THEN First + n ELSE First + n - que_max
    BY RingShape DEF Shape
  <1>7. \A n \in 0..(que_max' - 1) :
           Cell(n)' = IF First' + n < que_max' THEN First' + n ELSE First' + n - que_max'
    BY <1>0 DEF Shape
  <1>8. Elements' = Elements BY <1>1, <1>2, <1>3, <1>4, <1>5
  <1>9. \A i \in 0..(2 * que_max - 1) :
           que'[i] = IF i < push_slide THEN que[i]
                     ELSE IF i >= que_max + pop_slide THEN que[i - que_max] ELSE Null
    BY <1>1 DEF Doubled
  <1>10. ASSUME NEW i \in 0..(que_max' - 1) PROVE que'[i] # Null <=> Between(i)'
    <2>1. i \in 0..(2 * que_max - 1) OBVIOUS
    <2>2. CASE i < push_slide
      <3>1. que'[i] = que[i] /\ i \in 0..(que_max - 1) BY <1>1, <1>9, <2>1, <2>2
      <3>2. Between(i) /\ Between(i)' BY <1>1, <1>2, <1>3, <2>1, <2>2 DEF Between
      <3>. QED BY <3>1, <3>2
    <2>3. CASE i >= que_max + pop_slide
      <3>. DEFINE j == i - que_max
      <3>1. que'[i] = que[j] BY <1>1, <1>9, <2>1, <2>3
      <3>2. j \in 0..(que_max - 1) /\ j >= pop_slide /\ pop_slide # que_max
        BY <1>1, <2>1, <2>3
      <3>3. Between(i)' BY <1>1, <1>3, <2>1, <2>3, <3>2 DEF Between
      <3>. HIDE DEF j
      <3>4. Between(j) BY <1>1, <1>2, <3>2 DEF Between
      <3>. QED BY <3>1, <3>2, <3>3, <3>4
    <2>4. CASE i >= push_slide /\ i < que_max + pop_slide
      <3>1. que'[i] = Null BY <1>1, <1>9, <2>1, <2>4
      <3>2. ~ Between(i)' BY <1>1, <1>3, <2>1, <2>4 DEF Between
      <3>. QED BY <3>1, <3>2
    <2>. QED BY <1>1, <2>1, <2>2, <2>3, <2>4
  <1>11. ASSUME NEW n \in 0..(Elements - 1) PROVE que'[Cell(n)'] = que[Cell(n)]
    <2>1. Elements \in 0..(que_max - 1) BY RingShape DEF Shape
    <2>. DEFINE i == Cell(n)
                j == Cell(n)'
    <2>2. n \in 0..(que_max - 1) /\ n \in 0..(que_max' - 1) BY <1>1, <2>1
    <2>3. i = IF First + n < que_max THEN First + n ELSE First + n - que_max
      BY <1>6, <2>2
    <2>4. j = IF First' + n < que_max' THEN First' + n ELSE First' + n - que_max'
      BY <1>7, <2>2
    <2>. HIDE DEF i, j
    <2>5. CASE pop_slide = que_max
      <3>1. i = n /\ j = n /\ n < push_slide
        BY <1>1, <1>2, <1>3, <1>4, <2>2, <2>3, <2>4, <2>5
      <3>. QED BY <1>1, <1>9, <2>2, <3>1 DEF i, j
    <2>6. CASE pop_slide # que_max /\ pop_slide + n < que_max
      <3>1. /\ i = pop_slide + n /\ j = pop_slide + que_max + n
            /\ j \in 0..(2 * que_max - 1) /\ j >= que_max + pop_slide /\ ~ (j < push_slide)
            /\ j - que_max = i
        BY <1>1, <1>2, <1>3, <2>2, <2>3, <2>4, <2>6
      <3>2. que'[j] = que[i] BY <1>9, <3>1
      <3>. QED BY <3>2 DEF i, j
    <2>7. CASE pop_slide # que_max /\ pop_slide + n >= que_max
      <3>1. /\ i = pop_slide + n - que_max /\ j = i
            /\ j \in 0..(2 * que_max - 1) /\ j < push_slide
        BY <1>1, <1>2, <1>3, <1>4, <2>2, <2>3, <2>4, <2>7
      <3>2. que'[j] = que[i] BY <1>9, <3>1
      <3>. QED BY <3>2 DEF i, j
    <2>. QED BY <1>1, <2>2, <2>5, <2>6, <2>7
  <1>. QED BY <1>8, <1>10, <1>11

\* So it has when the elements do not go round the end of the ring.
LEMMA RingResizeInside ==
    ASSUME TypeOK, TypeOK', pop_slide < push_slide,
           \A i \in 0..(que_max - 1) : que[i] # Null <=> Between(i),
           que' = Doubled, que_max' = 2 * que_max, push_slide' = push_slide,
           pop_slide' = pop_slide
    PROVE  /\ Elements' = Elements
           /\ \A i \in 0..(que_max' - 1) : que'[i] # Null <=> Between(i)'
           /\ \A n \in 0..(Elements - 1) : que'[Cell(n)'] = que[Cell(n)]
  <1>0. Shape' BY RingShape, PTL
  <1>1. /\ que_max \in Nat \ {0} /\ push_slide \in 0..(que_max - 1)
        /\ pop_slide \in 1..que_max
    BY DEF TypeOK
  <1>2. First = pop_slide /\ First' = pop_slide BY <1>1 DEF First
  <1>3. Elements = push_slide - pop_slide BY <1>1, <1>2, RingShape DEF Shape
  <1>4. Elements' = push_slide - pop_slide BY <1>0, <1>1, <1>2 DEF Shape
  <1>5. \A i \in 0..(2 * que_max - 1) :
           que'[i] = IF i \in pop_slide..(push_slide - 1) THEN que[i] ELSE Null
    BY <1>1 DEF Doubled
  <1>6. ASSUME NEW i \in 0..(que_max' - 1) PROVE que'[i] # Null <=> Between(i)'
    <2>1. Between(i)' <=> pop_slide <= i /\ i < push_slide BY <1>1, <1>2 DEF Between
    <2>2. CASE pop_slide <= i /\ i < push_slide
      <3>1. i \in 0..(que_max - 1) /\ Between(i) BY <1>1, <1>2, <2>2 DEF Between
      <3>. QED BY <1>1, <1>5, <2>1, <2>2, <3>1
    <2>3. CASE ~ (pop_slide <= i /\ i < push_slide) BY <1>1, <1>5, <2>1, <2>3
    <2>. QED BY <2>2, <2>3
  <1>7. ASSUME NEW n \in 0..(Elements - 1) PROVE que'[Cell(n)'] = que[Cell(n)]
    <2>. DEFINE i == Cell(n)
                j == Cell(n)'
    <2>1. n \in 0..(que_max - 1) /\ n \in 0..(que_max' - 1) /\ pop_slide + n < push_slide
      BY <1>1, <1>3
    <2>2. i = pop_slide + n BY <1>1, <1>2, <2>1, RingShape DEF Shape
    <2>3. j = pop_slide + n BY <1>0, <1>1, <1>2, <2>1 DEF Shape
    <2>. HIDE DEF i, j
    <2>4. j = i /\ j \in 0..(2 * que_max - 1) /\ j \in pop_slide..(push_slide - 1)
      BY <1>1, <2>1, <2>2, <2>3
    <2>5. que'[j] = que[i] BY <1>5, <2>4
    <2>. QED BY <2>5 DEF i, j
  <1>. QED BY <1>3, <1>4, <1>6, <1>7

\* A ring that is not empty, or starts at 0, is replaced by one with the same elements.
LEMMA RingResize ==
    ASSUME TypeOK, TypeOK', push_slide # pop_slide,
           \A i \in 0..(que_max - 1) : que[i] # Null <=> Between(i),
           que' = Doubled, que_max' = 2 * que_max, push_slide' = push_slide,
           pop_slide' = IF pop_slide >= push_slide THEN pop_slide + que_max ELSE pop_slide
    PROVE  /\ Elements' = Elements
           /\ \A i \in 0..(que_max' - 1) : que'[i] # Null <=> Between(i)'
           /\ \A n \in 0..(Elements - 1) : que'[Cell(n)'] = que[Cell(n)]
  <1>1. push_slide \in Nat /\ pop_slide \in Nat BY DEF TypeOK
  <1>2. CASE push_slide < pop_slide
    <2>1. pop_slide' = pop_slide + que_max BY <1>1, <1>2
    <2>. QED BY <1>2, <2>1, RingResizeAround
  <1>3. CASE pop_slide < push_slide
    <2>1. pop_slide' = pop_slide BY <1>1, <1>3
    <2>. QED BY <1>3, <2>1, RingResizeInside
  <1>. QED BY <1>1, <1>2, <1>3

-----------------------------------------------------------------------------
(* Until a call is misled *)

\* No cell has two claims of a kind.
OneClaim ==
    \A i \in 0..(que_max - 1) :
       /\ \A t, u \in Filling(i) : t = u
       /\ \A t, u \in Taking(i) : t = u

\* Of each cell, the elements that are there or come are as many as those the slides and the
\* pops that have claimed it count: both none, one or two.
CellsHold ==
    \A i \in 0..(que_max - 1) :
       /\ que[i] # Null /\ Filling(i) # {} <=> Between(i) /\ Taking(i) # {}
       /\ que[i] # Null \/ Filling(i) # {} <=> Between(i) \/ Taking(i) # {}

\* The calls that have claimed a cell and not counted yet.
Due == {t \in Pushers : pc[t] \in {"fill", "pcount"}}
Discounts == {t \in Poppers : pc[t] \in {"take", "count"}}

Counted ==
    /\ IsFiniteSet(Due) /\ IsFiniteSet(Discounts)
    /\ size = (Elements - Cardinality(Due) + Cardinality(Discounts)) % SizeMod

Sound == OneClaim /\ CellsHold /\ Counted
SInv == misled \/ Sound

\* At the start there is no element, no cell in use and nothing to count.
LEMMA InitSInv == Init => Sound
  <1>. SUFFICES ASSUME Init PROVE Sound
    OBVIOUS
  <1>1. \A t \in Threads : pc[t] = "idle" BY DEF Init
  <1>2. \A i : Filling(i) = {} /\ Taking(i) = {} BY <1>1 DEF Filling, Taking, At, Threads
  <1>3. First = 0 /\ push_slide = 0 BY DEF First, Init
  <1>4. OneClaim BY <1>2 DEF OneClaim
  <1>5. CellsHold BY <1>2, <1>3, ConstantsOk DEF CellsHold, Between, Init
  <1>6. Counted
    <2>1. TypeOK BY InitIInv DEF IInv
    <2>2. Elements = 0 BY <1>3, <2>1, RingShape DEF Shape
    <2>3. Due = {} /\ Discounts = {} BY <1>1 DEF Due, Discounts, Threads
    <2>4. IsFiniteSet({}) /\ Cardinality({}) = 0 BY FS_EmptySet
    <2>5. 0 % SizeMod = 0 BY ConstantsOk
    <2>. QED BY <2>2, <2>3, <2>4, <2>5 DEF Counted, Init
  <1>. QED BY <1>4, <1>5, <1>6 DEF Sound

\* What a step of t leaves alone: the other calls.
Others(t) == \A u \in Threads \ {t} :
    pc'[u] = pc[u] /\ slide'[u] = slide[u] /\ tail'[u] = tail[u] /\ item'[u] = item[u]

\* A step of push is one of its own thread, and no step makes a call not misled.
LEMMA OthersPush ==
    ASSUME IInv, NEW t \in Pushers, PushStep(t)
    PROVE  Others(t) /\ (misled => misled')
  <1>. USE DEF Goto, callVars, histVars, Mislead
  <1>1. t \in Threads /\ pc \in [Threads -> Labels] /\ slide \in [Threads -> Nat]
        /\ tail \in [Threads -> Nat] /\ item \in [Threads -> Values \cup {Null}]
    BY DEF Threads, IInv, TypeOK
  <1>2. Others(t)
    BY <1>1 DEF Others, PushStep, PushCall, PushLock, PushLoad, PushTest, PushTry, PushResize,
       PushRelock, PushClaim, PushFill, PushCount, Return
  <1>3. misled => misled'
    BY DEF PushStep, PushCall, PushLock, PushLoad, PushTest, PushTry, PushResize,
       PushRelock, PushClaim, PushFill, PushCount, Return
  <1>. QED BY <1>2, <1>3

\* So is a step of pop.
LEMMA OthersPop ==
    ASSUME IInv, NEW t \in Poppers, PopStep(t)
    PROVE  Others(t) /\ (misled => misled')
  <1>. USE DEF Goto, callVars, histVars, Mislead
  <1>1. t \in Threads /\ pc \in [Threads -> Labels] /\ slide \in [Threads -> Nat]
        /\ tail \in [Threads -> Nat] /\ item \in [Threads -> Values \cup {Null}]
    BY DEF Threads, IInv, TypeOK
  <1>2. Others(t)
    BY <1>1 DEF Others, PopStep, PopCall, PopLock, PopLoad, PopTest, PopMove, PopTake, PopCount,
       Return
  <1>3. misled => misled'
    BY DEF PopStep, PopCall, PopLock, PopLoad, PopTest, PopMove, PopTake, PopCount, Return
  <1>. QED BY <1>2, <1>3

\* What each step that moves a slide or is at a cell does to the ring, if it is not misled.
ClaimStep(t) ==
    /\ At(t, "claim") /\ pc'[t] = "fill"
    /\ slide[t] = push_slide /\ slide'[t] = push_slide
    /\ push_slide + 1 # pop_slide /\ Filling(push_slide) = {}
    /\ push_slide' = Succ(push_slide)
    /\ UNCHANGED <<que, que_max, pop_slide, size, item>>

FillStep(t) ==
    /\ At(t, "fill") /\ pc'[t] = "pcount"
    /\ slide[t] \in 0..(que_max - 1) /\ item[t] \in Values /\ que[slide[t]] = Null
    /\ que' = [que EXCEPT ![slide[t]] = item[t]]
    /\ UNCHANGED <<que_max, push_slide, pop_slide, size, item>>

ResizeStep(t) ==
    /\ At(t, "resize") /\ pc'[t] = "relock"
    /\ readers = {} /\ push_slide # pop_slide
    /\ que' = Doubled /\ que_max' = 2 * que_max /\ push_slide' = push_slide
    /\ pop_slide' = IF pop_slide >= push_slide THEN pop_slide + que_max ELSE pop_slide
    /\ UNCHANGED <<size, item>>

CountStep(t) ==
    /\ At(t, "pcount") /\ pc'[t] = "return" /\ size' = (size + 1) % SizeMod
    /\ UNCHANGED <<que, que_max, push_slide, pop_slide, item>>

MoveStep(t) ==
    /\ At(t, "move") /\ pc'[t] = "take"
    /\ tail[t] = First /\ tail'[t] = First /\ First # push_slide /\ Taking(First) = {}
    /\ pop_slide' = First + 1
    /\ UNCHANGED <<que, que_max, push_slide, size, item>>

TakeStep(t) ==
    /\ At(t, "take") /\ pc'[t] = "count"
    /\ tail[t] \in 0..(que_max - 1) /\ que[tail[t]] # Null
    /\ que' = [que EXCEPT ![tail[t]] = Null]
    /\ item' = [item EXCEPT ![t] = que[tail[t]]]
    /\ UNCHANGED <<que_max, push_slide, pop_slide, size>>

DiscountStep(t) ==
    /\ At(t, "count") /\ pc'[t] = "return" /\ size' = (size - 1) % SizeMod
    /\ UNCHANGED <<que, que_max, push_slide, pop_slide, item>>

\* The labels of a call that has a claim, or has not counted it.
Owing == {"fill", "pcount", "take", "count"}

OtherStep(t) ==
    /\ pc[t] \notin Owing /\ pc'[t] \notin Owing
    /\ UNCHANGED <<que, que_max, push_slide, pop_slide, size>>

\* push does one of these.
LEMMA PushCases ==
    ASSUME IInv, NEW t \in Pushers, PushStep(t), ~ misled'
    PROVE  ClaimStep(t) \/ FillStep(t) \/ ResizeStep(t) \/ CountStep(t) \/ OtherStep(t)
  <1>. USE DEF At, Goto, Owing, ringVars, slideVars, callVars, muVars
  <1>1. /\ t \in Threads /\ pc \in [Threads -> Labels] /\ slide \in [Threads -> Nat]
        /\ que_max \in Nat \ {0} /\ push_slide \in 0..(que_max - 1) /\ pop_slide \in 1..que_max
    BY DEF Threads, IInv, TypeOK
  <1>2. CASE PushCall(t) BY <1>1, <1>2 DEF PushCall, OtherStep
  <1>3. CASE PushLock(t) BY <1>1, <1>3 DEF PushLock, OtherStep
  <1>4. CASE PushLoad(t) BY <1>1, <1>4 DEF PushLoad, OtherStep
  <1>5. CASE PushTest(t) BY <1>1, <1>5 DEF PushTest, OtherStep
  <1>6. CASE PushTry(t) BY <1>1, <1>6 DEF PushTry, OtherStep
  <1>7. CASE PushResize(t)
    <2>1. CASE ~ Full(t) BY <1>1, <1>7, <2>1 DEF PushResize, OtherStep
    <2>2. CASE Full(t)
      <3>1. readers = {} BY <1>1, <1>7, ConstantsOk DEF PushResize, IInv, LocksOk
      <3>2. push_slide # pop_slide BY <1>7, <2>2 DEF PushResize, Mislead
      <3>. QED BY <1>1, <1>7, <2>2, <3>1, <3>2 DEF PushResize, ResizeStep
    <2>. QED BY <2>1, <2>2
  <1>8. CASE PushRelock(t) BY <1>1, <1>8 DEF PushRelock, OtherStep
  <1>9. CASE PushClaim(t)
    <2>1. CASE push_slide # slide[t] BY <1>1, <1>9, <2>1 DEF PushClaim, OtherStep
    <2>2. CASE push_slide = slide[t]
      <3>1. ~ Full(t) /\ Filling(slide[t]) = {} BY <1>9, <2>2 DEF PushClaim, Mislead
      <3>2. push_slide + 1 # pop_slide BY <2>2, <3>1 DEF Full
      <3>. QED BY <1>1, <1>9, <2>2, <3>1, <3>2 DEF PushClaim, ClaimStep
    <2>. QED BY <2>1, <2>2
  <1>10. CASE PushFill(t)
    <2>1. slide[t] \in 0..(que_max - 1) /\ item[t] \in Values
      BY <1>10 DEF PushFill, IInv, LocalsOk, PushLabels
    <2>. QED BY <1>1, <1>10, <2>1 DEF PushFill, FillStep
  <1>11. CASE PushCount(t) BY <1>1, <1>11 DEF PushCount, CountStep
  <1>12. CASE Return(t) BY <1>1, <1>12 DEF Return, OtherStep
  <1>. QED
    BY <1>2, <1>3, <1>4, <1>5, <1>6, <1>7, <1>8, <1>9, <1>10, <1>11, <1>12 DEF PushStep

\* pop does one of these.
LEMMA PopCases ==
    ASSUME IInv, NEW t \in Poppers, PopStep(t), ~ misled'
    PROVE  MoveStep(t) \/ TakeStep(t) \/ DiscountStep(t) \/ OtherStep(t)
  <1>. USE DEF At, Goto, Owing, ringVars, slideVars, callVars, muVars
  <1>1. /\ t \in Threads /\ pc \in [Threads -> Labels] /\ slide \in [Threads -> Nat]
        /\ tail \in [Threads -> Nat] /\ que_max \in Nat \ {0}
    BY DEF Threads, IInv, TypeOK
  <1>2. CASE PopCall(t) BY <1>1, <1>2 DEF PopCall, OtherStep
  <1>3. CASE PopLock(t) BY <1>1, <1>3 DEF PopLock, OtherStep
  <1>4. CASE PopLoad(t) BY <1>1, <1>4 DEF PopLoad, OtherStep
  <1>5. CASE PopTest(t) BY <1>1, <1>5 DEF PopTest, OtherStep
  <1>6. CASE PopMove(t)
    <2>1. CASE pop_slide # slide[t] BY <1>1, <1>6, <2>1 DEF PopMove, OtherStep
    <2>2. CASE pop_slide = slide[t]
      <3>1. tail[t] = First /\ First # push_slide /\ Taking(tail[t]) = {}
        BY <1>6, <2>2 DEF PopMove, Mislead
      <3>. QED BY <1>1, <1>6, <2>2, <3>1 DEF PopMove, MoveStep
    <2>. QED BY <2>1, <2>2
  <1>7. CASE PopTake(t)
    <2>1. tail[t] \in 0..(que_max - 1) BY <1>7 DEF PopTake, IInv, LocalsOk
    <2>. QED BY <1>1, <1>7, <2>1 DEF PopTake, TakeStep
  <1>8. CASE PopCount(t) BY <1>1, <1>8 DEF PopCount, DiscountStep
  <1>9. CASE Return(t) BY <1>1, <1>9 DEF Return, OtherStep
  <1>. QED BY <1>2, <1>3, <1>4, <1>5, <1>6, <1>7, <1>8, <1>9 DEF PopStep

\* A step changes the claims of its own thread only.
LEMMA ClaimsOf ==
    ASSUME NEW t \in Threads, Others(t), NEW i
    PROVE  /\ \A u : u # t => (u \in Filling(i)' <=> u \in Filling(i))
           /\ \A u : u # t => (u \in Taking(i)' <=> u \in Taking(i))
           /\ t \in Filling(i)' <=> t \in Pushers /\ pc'[t] = "fill" /\ slide'[t] = i
           /\ t \in Filling(i) <=> t \in Pushers /\ pc[t] = "fill" /\ slide[t] = i
           /\ t \in Taking(i)' <=> t \in Poppers /\ pc'[t] = "take" /\ tail'[t] = i
           /\ t \in Taking(i) <=> t \in Poppers /\ pc[t] = "take" /\ tail[t] = i
  BY DEF Filling, Taking, At, Others, Threads

\* A push leaves the claims of pops alone, and changes its own by claiming and filling.
LEMMA ClaimsPush ==
    ASSUME NEW t \in Pushers, Others(t), NEW i
    PROVE  /\ Taking(i)' = Taking(i)
           /\ Discounts' = Discounts
           /\ pc[t] # "fill" /\ pc'[t] # "fill" => Filling(i)' = Filling(i)
           /\ ClaimStep(t) => Filling(i)' = IF i = push_slide THEN Filling(i) \cup {t} ELSE Filling(i)
           /\ FillStep(t) => Filling(i)' = Filling(i) \ {t}
                             /\ (t \in Filling(i) <=> i = slide[t])
  <1>1. t \in Threads /\ t \notin Poppers BY ConstantsOk DEF Threads
  <1>2. Taking(i)' = Taking(i) BY <1>1, ClaimsOf
  <1>3. Discounts' = Discounts BY <1>1 DEF Discounts, Others, Threads
  <1>4. pc[t] # "fill" /\ pc'[t] # "fill" => Filling(i)' = Filling(i) BY <1>1, ClaimsOf
  <1>5. ASSUME ClaimStep(t)
        PROVE  Filling(i)' = IF i = push_slide THEN Filling(i) \cup {t} ELSE Filling(i)
    <2>1. t \notin Filling(i) /\ (t \in Filling(i)' <=> i = push_slide)
      BY <1>1, <1>5, ClaimsOf DEF ClaimStep, At
    <2>. QED BY <1>1, <2>1, ClaimsOf
  <1>6. ASSUME FillStep(t)
        PROVE  Filling(i)' = Filling(i) \ {t} /\ (t \in Filling(i) <=> i = slide[t])
    <2>1. t \notin Filling(i)' /\ (t \in Filling(i) <=> i = slide[t])
      BY <1>1, <1>6, ClaimsOf DEF FillStep, At
    <2>. QED BY <1>1, <2>1, ClaimsOf
  <1>. QED BY <1>2, <1>3, <1>4, <1>5, <1>6

\* A pop leaves the claims of pushes alone, and changes its own by moving and taking.
LEMMA ClaimsPop ==
    ASSUME NEW t \in Poppers, Others(t), NEW i
    PROVE  /\ Filling(i)' = Filling(i)
           /\ Due' = Due
           /\ pc[t] # "take" /\ pc'[t] # "take" => Taking(i)' = Taking(i)
           /\ MoveStep(t) => Taking(i)' = IF i = First THEN Taking(i) \cup {t} ELSE Taking(i)
           /\ TakeStep(t) => Taking(i)' = Taking(i) \ {t}
                             /\ (t \in Taking(i) <=> i = tail[t])
  <1>1. t \in Threads /\ t \notin Pushers BY ConstantsOk DEF Threads
  <1>2. Filling(i)' = Filling(i) BY <1>1, ClaimsOf
  <1>3. Due' = Due BY <1>1 DEF Due, Others, Threads
  <1>4. pc[t] # "take" /\ pc'[t] # "take" => Taking(i)' = Taking(i) BY <1>1, ClaimsOf
  <1>5. ASSUME MoveStep(t)
        PROVE  Taking(i)' = IF i = First THEN Taking(i) \cup {t} ELSE Taking(i)
    <2>1. t \notin Taking(i) /\ (t \in Taking(i)' <=> i = First)
      BY <1>1, <1>5, ClaimsOf DEF MoveStep, At
    <2>. QED BY <1>1, <2>1, ClaimsOf
  <1>6. ASSUME TakeStep(t)
        PROVE  Taking(i)' = Taking(i) \ {t} /\ (t \in Taking(i) <=> i = tail[t])
    <2>1. t \notin Taking(i)' /\ (t \in Taking(i) <=> i = tail[t])
      BY <1>1, <1>6, ClaimsOf DEF TakeStep, At
    <2>. QED BY <1>1, <2>1, ClaimsOf
  <1>. QED BY <1>2, <1>3, <1>4, <1>5, <1>6

\* Who is due changes with a claim and a count, and so does the number of them.
LEMMA DuePush ==
    ASSUME NEW t \in Pushers, Others(t), Counted
    PROVE  /\ IsFiniteSet(Due') /\ Cardinality(Due) \in Nat /\ Cardinality(Discounts) \in Nat
           /\ ClaimStep(t) => Cardinality(Due') = Cardinality(Due) + 1
           /\ CountStep(t) => Cardinality(Due') = Cardinality(Due) - 1
           /\ (pc[t] \in {"fill", "pcount"} <=> pc'[t] \in {"fill", "pcount"}) => Due' = Due
  <1>1. IsFiniteSet(Due) /\ IsFiniteSet(Discounts) BY DEF Counted
  <1>2. Cardinality(Due) \in Nat /\ Cardinality(Discounts) \in Nat BY <1>1, FS_CardinalityType
  <1>3. /\ \A u : u # t => (u \in Due' <=> u \in Due)
        /\ t \in Due <=> pc[t] \in {"fill", "pcount"}
        /\ t \in Due' <=> pc'[t] \in {"fill", "pcount"}
    BY DEF Due, Others, Threads
  <1>4. IsFiniteSet(Due')
    <2>1. IsFiniteSet(Due \cup {t}) BY <1>1, FS_AddElement
    <2>2. Due' \subseteq Due \cup {t} BY <1>3
    <2>. QED BY <2>1, <2>2, FS_Subset
  <1>5. ASSUME ClaimStep(t) PROVE Cardinality(Due') = Cardinality(Due) + 1
    <2>1. t \notin Due /\ t \in Due' BY <1>3, <1>5 DEF ClaimStep, At
    <2>2. Due' = Due \cup {t} BY <1>3, <2>1
    <2>. QED BY <1>1, <2>1, <2>2, FS_AddElement
  <1>6. ASSUME CountStep(t) PROVE Cardinality(Due') = Cardinality(Due) - 1
    <2>1. t \in Due /\ t \notin Due' BY <1>3, <1>6 DEF CountStep, At
    <2>2. Due' = Due \ {t} BY <1>3, <2>1
    <2>. QED BY <1>1, <2>1, <2>2, FS_RemoveElement
  <1>7. (pc[t] \in {"fill", "pcount"} <=> pc'[t] \in {"fill", "pcount"}) => Due' = Due
    BY <1>3
  <1>. QED BY <1>2, <1>4, <1>5, <1>6, <1>7

\* So do the pops to be discounted, with a move and a discount.
LEMMA DuePop ==
    ASSUME NEW t \in Poppers, Others(t), Counted
    PROVE  /\ IsFiniteSet(Discounts')
           /\ Cardinality(Due) \in Nat /\ Cardinality(Discounts) \in Nat
           /\ MoveStep(t) => Cardinality(Discounts') = Cardinality(Discounts) + 1
           /\ DiscountStep(t) => Cardinality(Discounts') = Cardinality(Discounts) - 1
           /\ (pc[t] \in {"take", "count"} <=> pc'[t] \in {"take", "count"}) =>
                 Discounts' = Discounts
  <1>1. IsFiniteSet(Due) /\ IsFiniteSet(Discounts) BY DEF Counted
  <1>2. Cardinality(Due) \in Nat /\ Cardinality(Discounts) \in Nat BY <1>1, FS_CardinalityType
  <1>3. /\ \A u : u # t => (u \in Discounts' <=> u \in Discounts)
        /\ t \in Discounts <=> pc[t] \in {"take", "count"}
        /\ t \in Discounts' <=> pc'[t] \in {"take", "count"}
    BY DEF Discounts, Others, Threads
  <1>4. IsFiniteSet(Discounts')
    <2>1. IsFiniteSet(Discounts \cup {t}) BY <1>1, FS_AddElement
    <2>2. Discounts' \subseteq Discounts \cup {t} BY <1>3
    <2>. QED BY <2>1, <2>2, FS_Subset
  <1>5. ASSUME MoveStep(t) PROVE Cardinality(Discounts') = Cardinality(Discounts) + 1
    <2>1. t \notin Discounts /\ t \in Discounts' BY <1>3, <1>5 DEF MoveStep, At
    <2>2. Discounts' = Discounts \cup {t} BY <1>3, <2>1
    <2>. QED BY <1>1, <2>1, <2>2, FS_AddElement
  <1>6. ASSUME DiscountStep(t) PROVE Cardinality(Discounts') = Cardinality(Discounts) - 1
    <2>1. t \in Discounts /\ t \notin Discounts' BY <1>3, <1>6 DEF DiscountStep, At
    <2>2. Discounts' = Discounts \ {t} BY <1>3, <2>1
    <2>. QED BY <1>1, <2>1, <2>2, FS_RemoveElement
  <1>7. (pc[t] \in {"take", "count"} <=> pc'[t] \in {"take", "count"}) => Discounts' = Discounts
    BY <1>3
  <1>. QED BY <1>2, <1>4, <1>5, <1>6, <1>7

-----------------------------------------------------------------------------
(* The cells and the count *)

\* What a step that leaves the slides alone says of the ring.
LEMMA SameSlides ==
    ASSUME UNCHANGED <<que_max, push_slide, pop_slide>>
    PROVE  /\ First' = First /\ Elements' = Elements
           /\ \A i : Between(i)' <=> Between(i)
           /\ \A n : Cell(n)' = Cell(n)
  <1>1. First' = First BY DEF First
  <1>2. Elements' = Elements BY <1>1 DEF Elements
  <1>3. \A i : Between(i)' <=> Between(i) BY <1>1 DEF Between
  <1>4. \A n : Cell(n)' = Cell(n) BY <1>1 DEF Cell
  <1>. QED BY <1>1, <1>2, <1>3, <1>4

\* While the ring is replaced nobody has a claim.
LEMMA NoClaims ==
    ASSUME IInv, readers = {}
    PROVE  /\ \A i : Filling(i) = {} /\ Taking(i) = {}
           /\ \A t \in Threads : pc[t] # "take"
  <1>1. \A t \in Threads : pc[t] \notin {"fill", "take"} BY DEF IInv, LocksOk, Holding
  <1>. QED BY <1>1 DEF Filling, Taking, At, Threads

\* A step that claims and ends nothing and leaves the ring alone.
LEMMA CellsOther ==
    ASSUME Sound, NEW t \in Threads, Others(t), OtherStep(t)
    PROVE  Sound'
  <1>. USE DEF Owing
  <1>1. \A i : Filling(i)' = Filling(i) /\ Taking(i)' = Taking(i)
    <2>. SUFFICES ASSUME NEW i PROVE Filling(i)' = Filling(i) /\ Taking(i)' = Taking(i)
      OBVIOUS
    <2>1. pc[t] \notin {"fill", "take"} /\ pc'[t] \notin {"fill", "take"} BY DEF OtherStep
    <2>. QED BY <2>1, ClaimsOf
  <1>2. Due' = Due /\ Discounts' = Discounts BY DEF Due, Discounts, Others, OtherStep, Threads
  <1>3. /\ Elements' = Elements /\ \A i : Between(i)' <=> Between(i)
        /\ UNCHANGED <<que, que_max, size>>
    BY SameSlides DEF OtherStep
  <1>4. OneClaim' BY <1>1, <1>3 DEF Sound, OneClaim
  <1>5. CellsHold' BY <1>1, <1>3 DEF Sound, CellsHold
  <1>6. Counted' BY <1>2, <1>3 DEF Sound, Counted
  <1>. QED BY <1>4, <1>5, <1>6 DEF Sound

\* A claimed cell is the last between the slides, and is to be filled.
LEMMA CellsClaim ==
    ASSUME IInv, IInv', Sound, NEW t \in Pushers, Others(t), ClaimStep(t)
    PROVE  Sound'
  <1>1. /\ que_max \in Nat \ {0} /\ push_slide \in 0..(que_max - 1)
        /\ TypeOK /\ TypeOK' /\ UNCHANGED <<que, que_max, pop_slide, size>>
    BY DEF IInv, TypeOK, ClaimStep
  <1>2. /\ \A i \in 0..(que_max - 1) : Between(i)' <=> Between(i) \/ i = push_slide
        /\ Elements' = Elements + 1
    BY <1>1, RingClaim DEF ClaimStep
  <1>3. ~ Between(push_slide) BY <1>1, RingShape DEF Between, Shape
  <1>4. \A i : /\ Taking(i)' = Taking(i)
               /\ Filling(i)' = IF i = push_slide THEN {t} ELSE Filling(i)
    BY ClaimsPush DEF ClaimStep
  <1>5. OneClaim'
    <2>. SUFFICES ASSUME NEW i \in 0..(que_max - 1)
                  PROVE  /\ \A u, w \in Filling(i)' : u = w
                         /\ \A u, w \in Taking(i)' : u = w
      BY <1>1 DEF OneClaim
    <2>. QED BY <1>4 DEF Sound, OneClaim
  <1>6. CellsHold'
    <2>. SUFFICES ASSUME NEW i \in 0..(que_max - 1)
                  PROVE  /\ que[i] # Null /\ Filling(i)' # {} <=> Between(i)' /\ Taking(i) # {}
                         /\ que[i] # Null \/ Filling(i)' # {} <=> Between(i)' \/ Taking(i) # {}
      BY <1>1, <1>4 DEF CellsHold
    <2>1. /\ que[i] # Null /\ Filling(i) # {} <=> Between(i) /\ Taking(i) # {}
          /\ que[i] # Null \/ Filling(i) # {} <=> Between(i) \/ Taking(i) # {}
      BY DEF Sound, CellsHold
    <2>2. CASE i = push_slide
      <3>1. Filling(i) = {} /\ ~ Between(i) BY <1>3, <2>2 DEF ClaimStep
      <3>2. Filling(i)' = {t} /\ Between(i)' BY <1>2, <1>4, <2>2
      <3>. QED BY <2>1, <3>1, <3>2
    <2>3. CASE i # push_slide BY <1>2, <1>4, <2>1, <2>3
    <2>. QED BY <2>2, <2>3
  <1>7. Counted'
    <2>1. Counted BY DEF Sound
    <2>2. /\ IsFiniteSet(Due') /\ Cardinality(Due') = Cardinality(Due) + 1
          /\ Cardinality(Due) \in Nat /\ Cardinality(Discounts) \in Nat /\ Discounts' = Discounts
      BY <2>1, DuePush, ClaimsPush
    <2>3. Elements \in Nat BY <1>1, RingShape DEF Shape
    <2>4. Elements' - Cardinality(Due') + Cardinality(Discounts')
             = Elements - Cardinality(Due) + Cardinality(Discounts)
      BY <1>2, <2>2, <2>3
    <2>. QED BY <1>1, <2>1, <2>2, <2>4 DEF Counted
  <1>. QED BY <1>5, <1>6, <1>7 DEF Sound

\* The cell is filled, and was to be by this push alone.
LEMMA CellsFill ==
    ASSUME IInv, Sound, NEW t \in Pushers, Others(t), FillStep(t)
    PROVE  Sound'
  <1>1. /\ UNCHANGED <<que_max, push_slide, pop_slide, size>> /\ TypeOK
        /\ slide[t] \in 0..(que_max - 1) /\ item[t] # Null
    BY ConstantsOk DEF FillStep, IInv
  <1>2. Elements' = Elements /\ \A i : Between(i)' <=> Between(i) BY <1>1, SameSlides
  <1>3. \A i : /\ Taking(i)' = Taking(i) /\ Filling(i)' = Filling(i) \ {t}
               /\ t \in Filling(i) <=> i = slide[t]
    BY ClaimsPush
  <1>4. Filling(slide[t]) = {t} BY <1>1, <1>3 DEF Sound, OneClaim
  <1>5. OneClaim' BY <1>1, <1>3 DEF Sound, OneClaim
  <1>6. CellsHold'
    <2>. SUFFICES ASSUME NEW i \in 0..(que_max - 1)
                  PROVE  /\ que'[i] # Null /\ Filling(i)' # {} <=> Between(i) /\ Taking(i) # {}
                         /\ que'[i] # Null \/ Filling(i)' # {} <=> Between(i) \/ Taking(i) # {}
      BY <1>1, <1>2, <1>3 DEF CellsHold
    <2>1. /\ que[i] # Null /\ Filling(i) # {} <=> Between(i) /\ Taking(i) # {}
          /\ que[i] # Null \/ Filling(i) # {} <=> Between(i) \/ Taking(i) # {}
      BY DEF Sound, CellsHold
    <2>2. CASE i = slide[t]
      <3>1. que[i] = Null /\ que'[i] # Null BY <1>1, <2>2 DEF FillStep, TypeOK
      <3>2. Filling(i) # {} /\ Filling(i)' = {} BY <1>3, <1>4, <2>2
      <3>. QED BY <2>1, <3>1, <3>2
    <2>3. CASE i # slide[t]
      <3>1. que'[i] = que[i] BY <1>1, <2>3 DEF FillStep, TypeOK
      <3>2. Filling(i)' = Filling(i) BY <1>3, <2>3
      <3>. QED BY <2>1, <3>1, <3>2
    <2>. QED BY <2>2, <2>3
  <1>7. Counted'
    <2>1. Counted BY DEF Sound
    <2>2. Due' = Due BY <2>1, DuePush DEF FillStep, At
    <2>3. Discounts' = Discounts BY ClaimsPush
    <2>. QED BY <1>1, <1>2, <2>1, <2>2, <2>3 DEF Counted
  <1>. QED BY <1>5, <1>6, <1>7 DEF Sound

\* The larger ring has an element in each cell between its slides, and nowhere else.
LEMMA CellsResize ==
    ASSUME IInv, IInv', Sound, NEW t \in Pushers, Others(t), ResizeStep(t)
    PROVE  Sound'
  <1>1. TypeOK /\ TypeOK' BY DEF IInv
  <1>2. \A i : Filling(i) = {} /\ Taking(i) = {} BY NoClaims DEF ResizeStep
  <1>3. \A i : Filling(i)' = {} /\ Taking(i)' = {}
    BY <1>2, ClaimsPush DEF ResizeStep, At
  <1>4. \A i \in 0..(que_max - 1) : que[i] # Null <=> Between(i) BY <1>2 DEF Sound, CellsHold
  <1>5. Elements' = Elements /\ \A i \in 0..(que_max' - 1) : que'[i] # Null <=> Between(i)'
    BY <1>1, <1>4, RingResize DEF ResizeStep
  <1>6. OneClaim' BY <1>3 DEF OneClaim
  <1>7. CellsHold' BY <1>3, <1>5 DEF CellsHold
  <1>8. Counted'
    <2>1. Counted BY DEF Sound
    <2>2. Due' = Due BY <2>1, DuePush DEF ResizeStep, At
    <2>3. Discounts' = Discounts BY ClaimsPush
    <2>. QED BY <1>5, <2>1, <2>2, <2>3 DEF Counted, ResizeStep
  <1>. QED BY <1>6, <1>7, <1>8 DEF Sound

\* The count of a push, and that of a pop.
LEMMA CellsCount ==
    ASSUME IInv, Sound, NEW t \in Threads, Others(t),
           (t \in Pushers /\ CountStep(t)) \/ (t \in Poppers /\ DiscountStep(t))
    PROVE  Sound'
  <1>1. UNCHANGED <<que, que_max, push_slide, pop_slide>> BY DEF CountStep, DiscountStep
  <1>2. Elements' = Elements /\ \A i : Between(i)' <=> Between(i) BY <1>1, SameSlides
  <1>3. \A i : Filling(i)' = Filling(i) /\ Taking(i)' = Taking(i)
    <2>1. CASE t \in Pushers /\ CountStep(t) BY <2>1, ClaimsPush DEF CountStep, At
    <2>2. CASE t \in Poppers /\ DiscountStep(t) BY <2>2, ClaimsPop DEF DiscountStep, At
    <2>. QED BY <2>1, <2>2
  <1>4. OneClaim' BY <1>1, <1>3 DEF Sound, OneClaim
  <1>5. CellsHold' BY <1>1, <1>2, <1>3 DEF Sound, CellsHold
  <1>. DEFINE n == Elements - Cardinality(Due) + Cardinality(Discounts)
              m == Elements' - Cardinality(Due') + Cardinality(Discounts')
  <1>6. Counted /\ Elements \in Nat BY RingShape DEF Sound, Shape, IInv, TypeOK
  <1>7. /\ n \in Int /\ IsFiniteSet(Due') /\ IsFiniteSet(Discounts')
        /\ \/ size' = (size + 1) % SizeMod /\ m = n + 1
           \/ size' = (size - 1) % SizeMod /\ m = n - 1
    <2>1. CASE t \in Pushers /\ CountStep(t)
      <3>1. /\ IsFiniteSet(Due') /\ Cardinality(Due) \in Nat /\ Cardinality(Discounts) \in Nat
            /\ Cardinality(Due') = Cardinality(Due) - 1 /\ Discounts' = Discounts
        BY <1>6, <2>1, DuePush, ClaimsPush
      <3>. QED BY <1>2, <1>6, <2>1, <3>1 DEF CountStep, Counted
    <2>2. CASE t \in Poppers /\ DiscountStep(t)
      <3>1. /\ IsFiniteSet(Discounts') /\ Cardinality(Due) \in Nat
            /\ Cardinality(Discounts) \in Nat
            /\ Cardinality(Discounts') = Cardinality(Discounts) - 1 /\ Due' = Due
        BY <1>6, <2>2, DuePop, ClaimsPop
      <3>. QED BY <1>2, <1>6, <2>2, <3>1 DEF DiscountStep, Counted
    <2>. QED BY <2>1, <2>2
  <1>8. size = n % SizeMod BY <1>6 DEF Counted
  <1>. HIDE DEF n
  <1>9. size' = m % SizeMod
    <2>. HIDE DEF m
    <2>1. CASE size' = (size + 1) % SizeMod /\ m = n + 1
      BY <1>7, <1>8, <2>1, ConstantsOk, ModCount
    <2>2. CASE size' = (size - 1) % SizeMod /\ m = n - 1
      BY <1>7, <1>8, <2>2, ConstantsOk, ModCount
    <2>. QED BY <1>7, <2>1, <2>2
  <1>10. Counted' BY <1>7, <1>9 DEF Counted
  <1>. QED BY <1>4, <1>5, <1>10 DEF Sound

\* The cell _pop_slide moves over is left to the pop.
LEMMA CellsMove ==
    ASSUME IInv, IInv', Sound, NEW t \in Poppers, Others(t), MoveStep(t)
    PROVE  Sound'
  <1>1. /\ que_max \in Nat \ {0} /\ First \in 0..(que_max - 1)
        /\ TypeOK /\ TypeOK' /\ UNCHANGED <<que, que_max, push_slide, size>>
    BY RingShape DEF IInv, TypeOK, MoveStep, Shape
  <1>2. /\ \A i \in 0..(que_max - 1) : Between(i)' <=> Between(i) /\ i # First
        /\ Between(First) /\ Elements' = Elements - 1
    BY <1>1, RingMove DEF MoveStep
  <1>3. \A i : /\ Filling(i)' = Filling(i)
               /\ Taking(i)' = IF i = First THEN {t} ELSE Taking(i)
    BY ClaimsPop DEF MoveStep
  <1>4. OneClaim'
    <2>. SUFFICES ASSUME NEW i \in 0..(que_max - 1)
                  PROVE  /\ \A u, w \in Filling(i)' : u = w
                         /\ \A u, w \in Taking(i)' : u = w
      BY <1>1 DEF OneClaim
    <2>. QED BY <1>3 DEF Sound, OneClaim
  <1>5. CellsHold'
    <2>. SUFFICES ASSUME NEW i \in 0..(que_max - 1)
                  PROVE  /\ que[i] # Null /\ Filling(i) # {} <=> Between(i)' /\ Taking(i)' # {}
                         /\ que[i] # Null \/ Filling(i) # {} <=> Between(i)' \/ Taking(i)' # {}
      BY <1>1, <1>3 DEF CellsHold
    <2>1. /\ que[i] # Null /\ Filling(i) # {} <=> Between(i) /\ Taking(i) # {}
          /\ que[i] # Null \/ Filling(i) # {} <=> Between(i) \/ Taking(i) # {}
      BY DEF Sound, CellsHold
    <2>2. CASE i = First
      <3>1. Taking(i) = {} /\ Between(i) BY <1>2, <2>2 DEF MoveStep
      <3>2. Taking(i)' = {t} /\ ~ Between(i)' BY <1>2, <1>3, <2>2
      <3>. QED BY <2>1, <3>1, <3>2
    <2>3. CASE i # First BY <1>2, <1>3, <2>1, <2>3
    <2>. QED BY <2>2, <2>3
  <1>6. Counted'
    <2>1. Counted BY DEF Sound
    <2>2. /\ IsFiniteSet(Discounts') /\ Cardinality(Discounts') = Cardinality(Discounts) + 1
          /\ Cardinality(Due) \in Nat /\ Cardinality(Discounts) \in Nat /\ Due' = Due
      BY <2>1, DuePop, ClaimsPop
    <2>3. Elements \in Nat BY <1>1, RingShape DEF Shape
    <2>4. Elements' - Cardinality(Due') + Cardinality(Discounts')
             = Elements - Cardinality(Due) + Cardinality(Discounts)
      BY <1>2, <2>2, <2>3
    <2>. QED BY <1>1, <2>1, <2>2, <2>4 DEF Counted
  <1>. QED BY <1>4, <1>5, <1>6 DEF Sound

\* The cell is emptied, by the one pop that has claimed it.
LEMMA CellsTake ==
    ASSUME IInv, Sound, NEW t \in Poppers, Others(t), TakeStep(t)
    PROVE  Sound'
  <1>1. /\ UNCHANGED <<que_max, push_slide, pop_slide, size>> /\ TypeOK
        /\ tail[t] \in 0..(que_max - 1)
    BY DEF TakeStep, IInv
  <1>2. Elements' = Elements /\ \A i : Between(i)' <=> Between(i) BY <1>1, SameSlides
  <1>3. \A i : /\ Filling(i)' = Filling(i) /\ Taking(i)' = Taking(i) \ {t}
               /\ t \in Taking(i) <=> i = tail[t]
    BY ClaimsPop
  <1>4. Taking(tail[t]) = {t} BY <1>1, <1>3 DEF Sound, OneClaim
  <1>5. OneClaim' BY <1>1, <1>3 DEF Sound, OneClaim
  <1>6. CellsHold'
    <2>. SUFFICES ASSUME NEW i \in 0..(que_max - 1)
                  PROVE  /\ que'[i] # Null /\ Filling(i) # {} <=> Between(i) /\ Taking(i)' # {}
                         /\ que'[i] # Null \/ Filling(i) # {} <=> Between(i) \/ Taking(i)' # {}
      BY <1>1, <1>2, <1>3 DEF CellsHold
    <2>1. /\ que[i] # Null /\ Filling(i) # {} <=> Between(i) /\ Taking(i) # {}
          /\ que[i] # Null \/ Filling(i) # {} <=> Between(i) \/ Taking(i) # {}
      BY DEF Sound, CellsHold
    <2>2. CASE i = tail[t]
      <3>1. que[i] # Null /\ que'[i] = Null BY <1>1, <2>2 DEF TakeStep, TypeOK
      <3>2. Taking(i) # {} /\ Taking(i)' = {} BY <1>3, <1>4, <2>2
      <3>. QED BY <2>1, <3>1, <3>2
    <2>3. CASE i # tail[t]
      <3>1. que'[i] = que[i] BY <1>1, <2>3 DEF TakeStep, TypeOK
      <3>2. Taking(i)' = Taking(i) BY <1>3, <2>3
      <3>. QED BY <2>1, <3>1, <3>2
    <2>. QED BY <2>2, <2>3
  <1>7. Counted'
    <2>1. Counted BY DEF Sound
    <2>2. Discounts' = Discounts BY <2>1, DuePop DEF TakeStep, At
    <2>3. Due' = Due BY ClaimsPop
    <2>. QED BY <1>1, <1>2, <2>1, <2>2, <2>3 DEF Counted
  <1>. QED BY <1>5, <1>6, <1>7 DEF Sound

\* SInv is inductive, whatever the numbers of pushers and poppers.
LEMMA StepSInv == IInv /\ IInv' /\ SInv /\ [Next]_vars => SInv'
  <1>. SUFFICES ASSUME IInv, IInv', SInv, [Next]_vars, ~ misled' PROVE Sound'
    BY DEF SInv
  <1>1. CASE UNCHANGED vars
    <2>. USE DEF vars, ringVars, slideVars, histVars, callVars, muVars
    <2>1. Sound BY <1>1 DEF SInv
    <2>2. /\ Elements' = Elements /\ \A i : Between(i)' <=> Between(i)
      BY <1>1, SameSlides
    <2>3. \A i : Filling(i)' = Filling(i) /\ Taking(i)' = Taking(i)
      BY <1>1 DEF Filling, Taking, At
    <2>4. Due' = Due /\ Discounts' = Discounts BY <1>1 DEF Due, Discounts
    <2>5. OneClaim' BY <1>1, <2>1, <2>3 DEF Sound, OneClaim
    <2>6. CellsHold' BY <1>1, <2>1, <2>2, <2>3 DEF Sound, CellsHold
    <2>7. Counted' BY <1>1, <2>1, <2>2, <2>4 DEF Sound, Counted
    <2>. QED BY <2>5, <2>6, <2>7 DEF Sound
  <1>2. ASSUME NEW t \in Pushers, PushStep(t) PROVE Sound'
    <2>1. Others(t) /\ Sound /\ t \in Threads BY <1>2, OthersPush DEF SInv, Threads
    <2>2. CASE ClaimStep(t) BY <2>1, <2>2, CellsClaim
    <2>3. CASE FillStep(t) BY <2>1, <2>3, CellsFill
    <2>4. CASE ResizeStep(t) BY <2>1, <2>4, CellsResize
    <2>5. CASE CountStep(t) BY <2>1, <2>5, CellsCount
    <2>6. CASE OtherStep(t) BY <2>1, <2>6, CellsOther
    <2>. QED BY <1>2, <2>2, <2>3, <2>4, <2>5, <2>6, PushCases
  <1>3. ASSUME NEW t \in Poppers, PopStep(t) PROVE Sound'
    <2>1. Others(t) /\ Sound /\ t \in Threads BY <1>3, OthersPop DEF SInv, Threads
    <2>2. CASE MoveStep(t) BY <2>1, <2>2, CellsMove
    <2>3. CASE TakeStep(t) BY <2>1, <2>3, CellsTake
    <2>4. CASE DiscountStep(t) BY <2>1, <2>4, CellsCount
    <2>5. CASE OtherStep(t) BY <2>1, <2>5, CellsOther
    <2>. QED BY <1>3, <2>2, <2>3, <2>4, <2>5, PopCases
  <1>. QED BY <1>1, <1>2, <1>3 DEF Next

\* Until a call is misled, what each cell holds is known from the slides and from the calls
\* that have claimed it, for any number of threads.
THEOREM SoundInvariance == Spec => []SInv
  <1>1. Init => SInv BY InitSInv DEF SInv
  <1>. QED BY <1>1, StepSInv, Invariance, PTL DEF Spec

\* Until a call is misled, size() counts the elements, but for the calls that have claimed a
\* cell and not counted, for any number of threads.
THEOREM SizeExact == Spec => []SizeCounts
  <1>1. IInv /\ SInv => SizeCounts
    BY DEF IInv, SInv, Sound, Counted, SizeCounts, CountDue, DiscountDue, Due, Discounts
  <1>. QED BY <1>1, Invariance, SoundInvariance, PTL

\* Until a call is misled, the ring never loses, repeats or invents an element by the cells it
\* uses, also while it is replaced by a larger one, for any number of threads.
THEOREM CellsRight == Spec => []RingHolds
  <1>1. IInv /\ SInv => RingHolds
    <2>. SUFFICES ASSUME IInv, SInv PROVE RingHolds
      OBVIOUS
    <2>1. ASSUME NEW S, \A x, y \in S : x = y PROVE Cardinality(S) <= 1
      <3>1. CASE S = {} BY <3>1, FS_EmptySet
      <3>2. CASE S # {}
        <4>1. PICK x : x \in S BY <3>2
        <4>2. S = {x} BY <2>1, <4>1
        <4>3. Cardinality({x}) = 1 BY FS_Singleton
        <4>. QED BY <4>2, <4>3
      <3>. QED BY <3>1, <3>2
    <2>2. ASSUME ~ misled, NEW i \in 0..(que_max - 1)
          PROVE  /\ i \in InRing /\ que[i] = Null => Filling(i) # {}
                 /\ i \notin InRing /\ que[i] # Null => Taking(i) # {}
                 /\ Cardinality(Filling(i)) <= 1 /\ Cardinality(Taking(i)) <= 1
      <3>1. i \in InRing <=> Between(i) BY RingBetween DEF IInv
      <3>2. que[i] # Null \/ Filling(i) # {} <=> Between(i) \/ Taking(i) # {}
        BY <2>2 DEF SInv, Sound, CellsHold
      <3>3. /\ \A x, y \in Filling(i) : x = y
            /\ \A x, y \in Taking(i) : x = y
        BY <2>2 DEF SInv, Sound, OneClaim
      <3>4. que[i] # Null /\ Filling(i) # {} <=> Between(i) /\ Taking(i) # {}
        BY <2>2 DEF SInv, Sound, CellsHold
      <3>5. Cardinality(Filling(i)) <= 1 /\ Cardinality(Taking(i)) <= 1 BY <2>1, <3>3
      <3>. QED BY <3>1, <3>2, <3>4, <3>5
    <2>3. writer # Null => \A i : Filling(i) \cup Taking(i) = {}
      BY NoClaims DEF IInv, LocksOk
    <2>. QED BY <2>2, <2>3 DEF RingHolds
  <1>. QED BY <1>1, Invariance, SoundInvariance, PTL

-----------------------------------------------------------------------------
(* The linearizable queue *)

\* What Abstract makes of the state.
Queue == [n \in 1..Elements |-> Coming(Cell(n - 1))]
StateOf(label) ==
    IF label = "idle" THEN "idle"
    ELSE IF label \in {"fill", "pcount", "take", "count", "return"} THEN "done"
    ELSE "called"
State == [t \in Threads |-> StateOf(pc[t])]
Result == [t \in Threads |-> IF At(t, "take") THEN Leaving(tail[t]) ELSE item[t]]

\* The variables of the abstract queue are Queue, State and Result.
LEMMA AbstractVars ==
    /\ Abstract!vars = <<Queue, State, Result>>
    /\ Abstract!Threads = Threads
  BY DEF Abstract!vars, Abstract!Threads, Threads, Queue, State, StateOf, Result, At

\* A step that changes none of them is a stutter of the abstract queue.
LEMMA AbstractStutter == UNCHANGED <<Queue, State, Result>> => UNCHANGED Abstract!vars
  BY DEF Abstract!vars, Queue, State, StateOf, Result, At

\* The abstract queue starts empty, with every thread idle.
LEMMA AbstractInit ==
    ASSUME Queue = <<>>, \A t \in Threads : pc[t] = "idle" /\ item[t] = Null
    PROVE  Abstract!Init
  <1>1. State = [t \in Threads |-> "idle"] BY DEF State, StateOf
  <1>2. Result = [t \in Threads |-> Null] BY DEF Result, At
  <1>. QED
    BY <1>1, <1>2, AbstractVars DEF Abstract!Init, Queue, State, StateOf, Result, At

\* A thread that calls is called in the abstract queue.
LEMMA AbstractCall ==
    ASSUME NEW t \in Threads, State[t] = "idle", State' = [State EXCEPT ![t] = "called"],
           NEW v \in IF t \in Pushers THEN Values ELSE {Null},
           Result' = [Result EXCEPT ![t] = v], Queue' = Queue
    PROVE  Abstract!Next
  <1>1. Abstract!Call(t)
    BY DEF Abstract!Call, Queue, State, StateOf, Result, At
  <1>. QED BY <1>1, AbstractVars DEF Abstract!Next

\* A pop takes the head of the queue, or finds it empty.
LEMMA AbstractPop ==
    ASSUME NEW t \in Poppers, State[t] = "called", State' = [State EXCEPT ![t] = "done"],
           \/ Queue = <<>> /\ Queue' = Queue /\ Result' = Result
           \/ /\ Queue # <<>>
              /\ Queue' = Tail(Queue)
              /\ Result' = [Result EXCEPT ![t] = Head(Queue)]
    PROVE  Abstract!Next
  <1>1. Abstract!Pop(t)
    BY DEF Abstract!Pop, Queue, State, StateOf, Result, At
  <1>2. t \in Threads BY DEF Threads
  <1>. QED BY <1>1, <1>2, AbstractVars DEF Abstract!Next

\* A thread that returns is idle again in the abstract queue.
LEMMA AbstractReturn ==
    ASSUME NEW t \in Threads, State[t] = "done", State' = [State EXCEPT ![t] = "idle"],
           Result' = [Result EXCEPT ![t] = Null], Queue' = Queue
    PROVE  Abstract!Next
  <1>1. Abstract!Return(t)
    BY DEF Abstract!Return, Queue, State, StateOf, Result, At
  <1>. QED BY <1>1, AbstractVars DEF Abstract!Next

\* A push appends its value to the queue.
LEMMA AbstractPush ==
    ASSUME NEW t \in Pushers, State[t] = "called", State' = [State EXCEPT ![t] = "done"],
           Queue' = Queue \o <<Result[t]>>, Result' = Result
    PROVE  Abstract!Next
  <1>. DEFINE ts == <<t>>
  <1>1. ts \in Abstract!SetToSeqs({t})
    <2>1. Abstract!Cardinality({t}) = Cardinality({t})
      BY DEF Abstract!Cardinality, Cardinality
    <2>2. Abstract!Cardinality({t}) = 1 BY <2>1, FS_Singleton
    <2>3. Abstract!SetToSeqs({t}) =
             {f \in [1..1 -> {t}] : \A i, j \in 1..1 : i # j => f[i] # f[j]}
      BY <2>2, Zenon DEF Abstract!SetToSeqs
    <2>4. ts \in [1..1 -> {t}] OBVIOUS
    <2>5. \A i, j \in 1..1 : i = j OBVIOUS
    <2>. HIDE DEF ts
    <2>. QED BY <2>3, <2>4, <2>5
  <1>2. Abstract!ToSet(ts) = {t} /\ DOMAIN ts = {1} /\ ts[1] = t BY DEF Abstract!ToSet
  <1>3. t \in Threads BY DEF Threads
  <1>4. State' = [u \in Threads |-> IF u \in Abstract!ToSet(ts) THEN "done" ELSE State[u]]
    BY <1>2, <1>3 DEF State
  <1>5. [i \in DOMAIN ts |-> Result[ts[i]]] = <<Result[t]>> BY <1>2
  <1>. HIDE DEF ts
  <1>6. \A i \in DOMAIN ts : State[ts[i]] = "called" BY <1>2
  <1>7. Queue' = Queue \o [i \in DOMAIN ts |-> Result[ts[i]]] BY <1>5
  <1>8. Abstract!Push(ts)
    BY <1>4, <1>6, <1>7, AbstractVars DEF Abstract!Push, Queue, State, StateOf, Result, At
  <1>9. {t} \in (SUBSET Pushers) \ {{}} OBVIOUS
  <1>. QED BY <1>1, <1>8, <1>9 DEF Abstract!Next

\* What comes to a cell stays when those who fill it do, and what is there if nobody does.
LEMMA ComingSame ==
    ASSUME NEW i, Filling(i)' = Filling(i), Filling(i) = {} => que'[i] = que[i],
           \A u \in Filling(i) : item'[u] = item[u]
    PROVE  Coming(i)' = Coming(i)
  <1>. DEFINE Who(S) == CHOOSE t \in Pushers : t \in S
  <1>1. Coming(i)' = IF Filling(i)' # {} THEN item'[Who(Filling(i)')] ELSE que'[i]
    BY DEF Coming
  <1>2. Coming(i) = IF Filling(i) # {} THEN item[Who(Filling(i))] ELSE que[i]
    BY DEF Coming
  <1>3. Filling(i) # {} => Who(Filling(i)) \in Filling(i)
    <2>1. Filling(i) \subseteq Pushers BY DEF Filling
    <2>. QED BY <2>1
  <1>. HIDE DEF Who
  <1>. QED BY <1>1, <1>2, <1>3

\* What comes to a cell that one push is filling, and to one that nobody fills.
LEMMA ComingIs ==
    ASSUME NEW t \in Pushers, NEW i
    PROVE  /\ Filling(i) = {t} => Coming(i) = item[t]
           /\ Filling(i)' = {t} => Coming(i)' = item'[t]
           /\ Filling(i) = {} => Coming(i) = que[i]
           /\ Filling(i)' = {} => Coming(i)' = que'[i]
  <1>1. Filling(i) = {t} => Coming(i) = item[t]
    <2>. SUFFICES ASSUME Filling(i) = {t} PROVE Coming(i) = item[t]
      OBVIOUS
    <2>1. (CHOOSE u \in Pushers : u \in {t}) = t OBVIOUS
    <2>. QED BY <2>1 DEF Coming
  <1>2. Filling(i)' = {t} => Coming(i)' = item'[t]
    <2>. SUFFICES ASSUME Filling(i)' = {t} PROVE Coming(i)' = item'[t]
      OBVIOUS
    <2>1. (CHOOSE u \in Pushers : u \in {t}) = t OBVIOUS
    <2>2. Coming(i)' = item'[CHOOSE u \in Pushers : u \in Filling(i)'] BY DEF Coming
    <2>. QED BY <2>1, <2>2
  <1>3. Filling(i) = {} => Coming(i) = que[i] BY DEF Coming
  <1>4. Filling(i)' = {} => Coming(i)' = que'[i] BY DEF Coming
  <1>. QED BY <1>1, <1>2, <1>3, <1>4

\* What a cell will hold, in the next state, depends on its number alone.
LEMMA ComingCell ==
    ASSUME NEW n, NEW i, Cell(n)' = i
    PROVE  Coming(Cell(n))' = Coming(i)'
  <1>1. Filling(Cell(n))' = Filling(i)' BY DEF Filling, At
  <1>. DEFINE Who(S) == CHOOSE t \in Pushers : t \in S
  <1>2. Coming(Cell(n))' = IF Filling(Cell(n))' # {} THEN item'[Who(Filling(Cell(n))')]
                                                     ELSE que'[Cell(n)']
    BY DEF Coming
  <1>3. Coming(i)' = IF Filling(i)' # {} THEN item'[Who(Filling(i)')] ELSE que'[i]
    BY DEF Coming
  <1>. HIDE DEF Who
  <1>. QED BY <1>1, <1>2, <1>3

\* The queue is what the cells in use hold, in their order.
QueueIs ==
    /\ Queue \in Seq(Values \cup {Null})
    /\ Len(Queue) = Elements
    /\ \A n \in 1..Elements : Queue[n] = Coming(Cell(n - 1))

\* The queue is a sequence of that length and those elements.
LEMMA QueueSeq == TypeOK => QueueIs
  <1>. SUFFICES ASSUME TypeOK PROVE QueueIs
    OBVIOUS
  <1>1. Elements \in 0..(que_max - 1) /\ que_max \in Nat \ {0}
    BY RingShape DEF Shape, TypeOK
  <1>2. ASSUME NEW i \in 0..(que_max - 1) PROVE Coming(i) \in Values \cup {Null}
    <2>1. CASE Filling(i) = {} BY <2>1 DEF Coming, TypeOK
    <2>2. CASE Filling(i) # {}
      <3>1. Filling(i) \subseteq Pushers BY DEF Filling
      <3>2. \E t \in Pushers : t \in Filling(i) BY <2>2, <3>1
      <3>3. (CHOOSE t \in Pushers : t \in Filling(i)) \in Pushers BY <3>2
      <3>. QED BY <2>2, <3>3 DEF Coming, TypeOK, Threads
    <2>. QED BY <2>1, <2>2
  <1>3. ASSUME NEW n \in 1..Elements PROVE Cell(n - 1) \in 0..(que_max - 1)
    <2>. DEFINE k == n - 1
    <2>1. k \in 0..(que_max - 1) BY <1>1
    <2>. HIDE DEF k
    <2>2. Cell(k) \in 0..(que_max - 1) BY <1>1, <2>1, RingShape DEF Shape
    <2>. QED BY <2>2 DEF k
  <1>4. \A n \in 1..Elements : Coming(Cell(n - 1)) \in Values \cup {Null} BY <1>2, <1>3
  <1>. QED BY <1>1, <1>4 DEF QueueIs, Queue

\* How to recognise what a push and a pop make of a sequence.
LEMMA Appended ==
    ASSUME NEW S, NEW q \in Seq(S), NEW r \in Seq(S), NEW x \in S, Len(r) = Len(q) + 1,
           \A n \in 1..Len(q) : r[n] = q[n], r[Len(r)] = x
    PROVE  r = q \o <<x>>
  OBVIOUS

\* A sequence that lacks the first element of another is its tail.
LEMMA TailIs ==
    ASSUME NEW S, NEW q \in Seq(S), NEW r \in Seq(S), Len(q) = Len(r) + 1,
           \A n \in 1..Len(r) : r[n] = q[n + 1]
    PROVE  q # <<>> /\ r = Tail(q)
  OBVIOUS

\* The queue stays while the slides and the cells between them do.
LEMMA SameQueue ==
    ASSUME TypeOK, UNCHANGED <<que_max, push_slide, pop_slide>>,
           \A i \in 0..(que_max - 1) : Between(i) => Coming(i)' = Coming(i)
    PROVE  Queue' = Queue
  <1>1. First' = First /\ Elements' = Elements BY DEF First, Elements
  <1>2. Elements \in 0..(que_max - 1) /\ que_max \in Nat \ {0}
    BY RingShape DEF Shape, TypeOK
  <1>3. ASSUME NEW n \in 1..Elements PROVE Coming(Cell(n - 1))' = Coming(Cell(n - 1))
    <2>1. PICK i : i = Cell(n - 1) OBVIOUS
    <2>2. i \in 0..(que_max - 1)
      <3>. DEFINE k == n - 1
      <3>1. k \in 0..(que_max - 1) BY <1>2
      <3>. HIDE DEF k
      <3>2. Cell(k) \in 0..(que_max - 1) BY <1>2, <3>1, RingShape DEF Shape
      <3>. QED BY <2>1, <3>2 DEF k
    <2>3. i \in InRing BY <1>2, <2>1 DEF InRing
    <2>4. Between(i) BY <2>2, <2>3, RingBetween
    <2>5. Cell(n - 1)' = i BY <1>1, <2>1 DEF Cell
    <2>6. Coming(i)' = Coming(i) BY <2>2, <2>4
    <2>7. Coming(Cell(n - 1))' = Coming(i)' BY <2>5, ComingCell
    <2>. QED BY <2>1, <2>6, <2>7
  <1>. QED BY <1>1, <1>3 DEF Queue

\* A step changes the state of its own thread, and the results of others only if what they
\* have claimed changes.
LEMMA StateIs ==
    ASSUME IInv, NEW t \in Threads, Others(t)
    PROVE  State' = [State EXCEPT ![t] = StateOf(pc'[t])]
  BY DEF State, Others

LEMMA ResultIs ==
    ASSUME IInv, NEW t \in Threads, Others(t),
           \A i \in 0..(que_max - 1) : \A u \in Taking(i) \ {t} : Leaving(i)' = Leaving(i)
    PROVE  Result' = [Result EXCEPT ![t] = Result'[t]]
  <1>1. ASSUME NEW u \in Threads, u # t PROVE Result'[u] = Result[u]
    <2>1. pc'[u] = pc[u] /\ tail'[u] = tail[u] /\ item'[u] = item[u] BY <1>1 DEF Others
    <2>2. CASE pc[u] # "take" BY <2>1, <2>2 DEF Result, At
    <2>3. CASE pc[u] = "take"
      <3>1. Result[u] = Leaving(tail[u]) /\ Result'[u] = Leaving(tail[u])'
        BY <2>1, <2>3 DEF Result, At
      <3>2. PICK i : i = tail[u] OBVIOUS
      <3>3. u \in Poppers BY <2>3 DEF IInv, LocalsOk, PushLabels, Threads
      <3>4. u \in Taking(i) BY <2>3, <3>2, <3>3 DEF Taking, At
      <3>5. i \in 0..(que_max - 1) BY <2>3, <3>2, <3>3 DEF IInv, LocalsOk
      <3>6. Leaving(i)' = Leaving(i) BY <1>1, <3>4, <3>5
      <3>7. Leaving(tail[u])' = Leaving(i)'
        BY <2>1, <3>2 DEF Leaving, Coming, Filling, At
      <3>. QED BY <3>1, <3>2, <3>6, <3>7
    <2>. QED BY <2>2, <2>3
  <1>. QED BY <1>1 DEF Result

\* A step that claims nothing, and leaves ring and slides alone.
LEMMA Quiet ==
    ASSUME IInv, NEW t \in Threads, Others(t),
           pc[t] \notin {"fill", "take"}, pc'[t] \notin {"fill", "take"},
           UNCHANGED <<que, que_max, push_slide, pop_slide>>
    PROVE  /\ Queue' = Queue
           /\ State' = [State EXCEPT ![t] = StateOf(pc'[t])]
           /\ Result' = [Result EXCEPT ![t] = item'[t]]
  <1>1. \A i : Filling(i)' = Filling(i) BY ClaimsOf
  <1>2. \A i : Coming(i)' = Coming(i)
    <2>. SUFFICES ASSUME NEW i PROVE Coming(i)' = Coming(i)
      OBVIOUS
    <2>1. \A u \in Filling(i) : item'[u] = item[u]
      BY DEF Filling, At, Others, Threads
    <2>. QED BY <1>1, <2>1, ComingSame
  <1>3. \A i : Leaving(i)' = Leaving(i) BY <1>2 DEF Leaving
  <1>4. Queue' = Queue BY <1>2, SameQueue DEF IInv
  <1>5. Result'[t] = item'[t] BY DEF Result, At
  <1>. QED BY <1>3, <1>4, <1>5, ResultIs, StateIs

\* A push takes effect when it claims a cell.
LEMMA SimulateClaim ==
    ASSUME IInv, IInv', Sound, NEW t \in Pushers, Others(t), ClaimStep(t)
    PROVE  Abstract!Next
  <1>1. /\ t \in Threads /\ que_max \in Nat \ {0} /\ push_slide \in 0..(que_max - 1)
        /\ TypeOK /\ TypeOK' /\ item[t] \in Values \cup {Null}
        /\ UNCHANGED <<que, que_max, item>> /\ pc[t] = "claim" /\ pc'[t] = "fill"
    BY DEF Threads, IInv, TypeOK, ClaimStep, At
  <1>2. \A i : Filling(i)' = IF i = push_slide THEN {t} ELSE Filling(i)
    BY ClaimsPush DEF ClaimStep
  <1>3. \A i : i # push_slide => Coming(i)' = Coming(i) BY <1>1, <1>2, ComingSame
  <1>4. /\ Elements' = Elements + 1
        /\ Cell(Elements) = push_slide
        /\ \A n \in 0..(que_max - 1) : Cell(n)' = Cell(n)
    BY <1>1, RingClaim DEF ClaimStep
  <1>5. Elements \in 0..(que_max - 1) BY <1>1, RingShape DEF Shape
  <1>6. QueueIs /\ QueueIs' BY <1>1, QueueSeq, PTL
  <1>7. ASSUME NEW n \in 1..Elements PROVE Queue'[n] = Queue[n]
    <2>1. PICK i : i = Cell(n - 1) OBVIOUS
    <2>2. n - 1 \in 0..(Elements - 1) /\ n - 1 \in 0..(que_max - 1) BY <1>1, <1>5
    <2>3. i \in InRing BY <2>1, <2>2 DEF InRing
    <2>4. i \in 0..(que_max - 1)
      <3>. DEFINE k == n - 1
      <3>1. k \in 0..(que_max - 1) BY <2>2
      <3>. HIDE DEF k
      <3>2. Cell(k) \in 0..(que_max - 1) BY <1>1, <1>5, <3>1, RingShape DEF Shape
      <3>. QED BY <2>1, <3>2 DEF k
    <2>5. Between(i) BY <1>1, <2>3, <2>4, RingBetween
    <2>6. i # push_slide BY <1>1, <2>5, RingShape DEF Between, Shape
    <2>7. Cell(n - 1)' = i BY <1>4, <2>1, <2>2
    <2>8. Queue'[n] = Coming(Cell(n - 1))' BY <1>4, <1>5, <1>6 DEF QueueIs
    <2>9. Queue[n] = Coming(i) BY <1>6, <2>1 DEF QueueIs
    <2>. QED BY <1>3, <2>6, <2>7, <2>8, <2>9, ComingCell
  <1>8. Queue'[Elements + 1] = item[t]
    <2>1. PICK n : n = Elements OBVIOUS
    <2>2. PICK i : i = push_slide OBVIOUS
    <2>3. Cell(n)' = i BY <1>4, <1>5, <2>1, <2>2
    <2>4. Coming(i)' = item[t] BY <1>1, <1>2, <2>2, ComingIs
    <2>5. Queue'[n + 1] = Coming(Cell(n))'
      <3>. DEFINE k == n + 1
      <3>1. k \in 1..Elements' /\ n = k - 1 BY <1>4, <1>5, <2>1
      <3>. HIDE DEF k
      <3>2. Queue'[k] = Coming(Cell(k - 1))' BY <1>6, <3>1 DEF QueueIs
      <3>. QED BY <3>1, <3>2 DEF k
    <2>. QED BY <2>1, <2>3, <2>4, <2>5, ComingCell
  <1>9. Queue' = Queue \o <<item[t]>>
    <2>1. Queue \in Seq(Values \cup {Null}) /\ Queue' \in Seq(Values \cup {Null})
      BY <1>6 DEF QueueIs
    <2>2. Len(Queue') = Len(Queue) + 1 /\ Len(Queue) = Elements
      BY <1>4, <1>6 DEF QueueIs
    <2>. DEFINE q == Queue
                r == Queue'
                x == item[t]
    <2>3. /\ q \in Seq(Values \cup {Null}) /\ r \in Seq(Values \cup {Null})
          /\ x \in Values \cup {Null} /\ Len(r) = Len(q) + 1
          /\ \A n \in 1..Len(q) : r[n] = q[n]
          /\ r[Len(r)] = x
      BY <1>1, <1>7, <1>8, <2>1, <2>2
    <2>. HIDE DEF q, r, x
    <2>4. r = q \o <<x>> BY <2>3, Appended
    <2>. QED BY <2>4 DEF q, r, x
  <1>10. State[t] = "called" /\ State' = [State EXCEPT ![t] = "done"]
    BY <1>1, StateIs DEF State, StateOf
  <1>11. ASSUME NEW i \in 0..(que_max - 1), Taking(i) # {} PROVE Leaving(i)' = Leaving(i)
    <2>1. CASE i # push_slide BY <1>1, <1>3, <2>1 DEF Leaving
    <2>2. CASE i = push_slide
      <3>1. que[i] # Null BY <1>11, <2>2 DEF Sound, CellsHold, ClaimStep
      <3>. QED BY <1>1, <3>1 DEF Leaving
    <2>. QED BY <2>1, <2>2
  <1>12. Result[t] = item[t] /\ Result'[t] = item[t] BY <1>1 DEF Result, At
  <1>13. Result' = Result
    <2>1. Result' = [Result EXCEPT ![t] = Result'[t]] BY <1>1, <1>11, ResultIs
    <2>. QED BY <1>12, <2>1 DEF Result
  <1>. QED BY <1>9, <1>10, <1>12, <1>13, AbstractPush

\* Filling the cell changes nothing for the abstract queue.
LEMMA SimulateFill ==
    ASSUME IInv, IInv', Sound, NEW t \in Pushers, Others(t), FillStep(t)
    PROVE  UNCHANGED <<Queue, State, Result>>
  <1>. DEFINE s == slide[t]
  <1>1. /\ t \in Threads /\ TypeOK /\ pc[t] = "fill" /\ pc'[t] = "pcount"
        /\ s \in 0..(que_max - 1) /\ que[s] = Null /\ que'[s] = item[t] /\ item[t] # Null
        /\ \A i \in 0..(que_max - 1) : i # s => que'[i] = que[i]
        /\ UNCHANGED <<que_max, push_slide, pop_slide, item>>
    BY ConstantsOk DEF Threads, IInv, TypeOK, FillStep, At
  <1>2. \A i : Filling(i)' = Filling(i) \ {t} /\ (t \in Filling(i) <=> i = s)
    BY ClaimsPush
  <1>. HIDE DEF s
  <1>3. Filling(s) = {t} BY <1>1, <1>2 DEF Sound, OneClaim
  <1>4. ASSUME NEW i \in 0..(que_max - 1) PROVE Coming(i)' = Coming(i)
    <2>1. CASE i = s
      <3>1. Coming(i) = item[t] BY <1>3, <2>1, ComingIs
      <3>2. Coming(i)' = que'[i] BY <1>2, <1>3, <2>1, ComingIs
      <3>. QED BY <1>1, <2>1, <3>1, <3>2
    <2>2. CASE i # s
      <3>1. Filling(i)' = Filling(i) BY <1>2, <2>2
      <3>. QED BY <1>1, <2>2, <3>1, ComingSame
    <2>. QED BY <2>1, <2>2
  <1>5. ASSUME NEW i \in 0..(que_max - 1) PROVE Leaving(i)' = Leaving(i)
    <2>1. CASE i = s
      <3>1. Coming(i) = item[t] BY <1>3, <2>1, ComingIs
      <3>. QED BY <1>1, <2>1, <3>1 DEF Leaving
    <2>2. CASE i # s BY <1>1, <1>4, <2>2 DEF Leaving
    <2>. QED BY <2>1, <2>2
  <1>6. Queue' = Queue BY <1>1, <1>4, SameQueue
  <1>7. State' = State
    <2>1. StateOf(pc[t]) = StateOf(pc'[t]) BY <1>1 DEF StateOf
    <2>2. State' = [State EXCEPT ![t] = StateOf(pc'[t])] BY <1>1, StateIs
    <2>. QED BY <1>1, <2>1, <2>2 DEF State
  <1>8. Result' = Result
    <2>1. Result[t] = item[t] /\ Result'[t] = item[t] BY <1>1 DEF Result, At
    <2>2. Result' = [Result EXCEPT ![t] = Result'[t]] BY <1>1, <1>5, ResultIs
    <2>. QED BY <2>1, <2>2 DEF Result
  <1>. QED BY <1>6, <1>7, <1>8

\* So does replacing the ring.
LEMMA SimulateResize ==
    ASSUME IInv, IInv', Sound, NEW t \in Pushers, Others(t), ResizeStep(t)
    PROVE  UNCHANGED <<Queue, State, Result>>
  <1>1. /\ t \in Threads /\ TypeOK /\ TypeOK' /\ pc[t] = "resize" /\ pc'[t] = "relock"
        /\ UNCHANGED item /\ readers = {}
    BY DEF Threads, IInv, ResizeStep, At
  <1>2. \A i : Filling(i) = {} /\ Taking(i) = {} BY <1>1, NoClaims
  <1>3. \A i : Filling(i)' = {} BY <1>1, <1>2, ClaimsPush
  <1>4. \A i \in 0..(que_max - 1) : que[i] # Null <=> Between(i) BY <1>2 DEF Sound, CellsHold
  <1>5. Elements' = Elements /\ \A n \in 0..(Elements - 1) : que'[Cell(n)'] = que[Cell(n)]
    BY <1>1, <1>4, RingResize DEF ResizeStep
  <1>6. ASSUME NEW n \in 1..Elements PROVE Coming(Cell(n - 1))' = Coming(Cell(n - 1))
    <2>1. PICK i : i = Cell(n - 1)' OBVIOUS
    <2>2. Coming(Cell(n - 1))' = Coming(i)' BY <2>1, ComingCell
    <2>3. Coming(i)' = que'[i] BY <1>3, ComingIs
    <2>4. Coming(Cell(n - 1)) = que[Cell(n - 1)] BY <1>2 DEF Coming
    <2>5. que'[Cell(n - 1)'] = que[Cell(n - 1)]
      <3>. DEFINE k == n - 1
      <3>1. k \in 0..(Elements - 1) BY <1>1, RingShape DEF Shape
      <3>. HIDE DEF k
      <3>2. que'[Cell(k)'] = que[Cell(k)] BY <1>5, <3>1
      <3>. QED BY <3>2 DEF k
    <2>. QED BY <2>1, <2>2, <2>3, <2>4, <2>5
  <1>7. Queue' = Queue BY <1>5, <1>6 DEF Queue
  <1>8. State' = State BY <1>1, StateIs DEF State, StateOf
  <1>9. Result' = Result
    <2>1. Result[t] = item[t] /\ Result'[t] = item[t] BY <1>1 DEF Result, At
    <2>2. Result' = [Result EXCEPT ![t] = Result'[t]] BY <1>1, <1>2, ResultIs
    <2>. QED BY <2>1, <2>2 DEF Result
  <1>. QED BY <1>7, <1>8, <1>9

\* Each step of push that is not misled is a step of the abstract queue or a stutter.
LEMMA SimulatePush ==
    ASSUME IInv, IInv', Sound, NEW t \in Pushers, PushStep(t), ~ misled'
    PROVE  Abstract!Next \/ UNCHANGED <<Queue, State, Result>>
  <1>. USE DEF At, Goto, ringVars, slideVars, callVars, muVars
  <1>1. t \in Threads /\ Others(t) /\ pc \in [Threads -> Labels] /\ slide \in [Threads -> Nat]
        /\ item \in [Threads -> Values \cup {Null}]
    BY OthersPush DEF Threads, IInv, TypeOK
  <1>2. State[t] = StateOf(pc[t]) /\ (pc[t] # "take" => Result[t] = item[t])
    BY <1>1 DEF State, Result
  <1>3. CASE PushCall(t)
    <2>1. PICK v \in Values : item' = [item EXCEPT ![t] = v] BY <1>3 DEF PushCall
    <2>2. pc[t] = "idle" /\ pc'[t] = "lock" /\ item'[t] = v
          /\ UNCHANGED <<que, que_max, push_slide, pop_slide>>
      BY <1>1, <1>3, <2>1 DEF PushCall
    <2>3. /\ Queue' = Queue /\ State' = [State EXCEPT ![t] = "called"]
          /\ Result' = [Result EXCEPT ![t] = v]
      BY <1>1, <2>2, Quiet DEF StateOf
    <2>4. State[t] = "idle" BY <1>2, <2>2 DEF StateOf
    <2>. QED BY <1>1, <2>3, <2>4, AbstractCall
  <1>4. CASE Return(t)
    <2>1. pc[t] = "return" /\ pc'[t] = "idle" /\ item'[t] = Null
          /\ UNCHANGED <<que, que_max, push_slide, pop_slide>>
      BY <1>1, <1>4 DEF Return
    <2>2. /\ Queue' = Queue /\ State' = [State EXCEPT ![t] = "idle"]
          /\ Result' = [Result EXCEPT ![t] = Null]
      BY <1>1, <2>1, Quiet DEF StateOf
    <2>3. State[t] = "done" BY <1>2, <2>1 DEF StateOf
    <2>. QED BY <1>1, <2>2, <2>3, AbstractReturn
  <1>5. ASSUME pc[t] \notin {"fill", "take"}, pc'[t] \notin {"fill", "take"},
               StateOf(pc'[t]) = StateOf(pc[t]),
               UNCHANGED <<que, que_max, push_slide, pop_slide, item>>
        PROVE  UNCHANGED <<Queue, State, Result>>
    <2>1. /\ Queue' = Queue /\ State' = [State EXCEPT ![t] = StateOf(pc'[t])]
          /\ Result' = [Result EXCEPT ![t] = item'[t]]
      BY <1>1, <1>5, Quiet
    <2>2. State' = State BY <1>2, <1>5, <2>1 DEF State
    <2>3. Result' = Result BY <1>2, <1>5, <2>1 DEF Result
    <2>. QED BY <2>1, <2>2, <2>3
  <1>. USE DEF StateOf
  <1>6. CASE PushLock(t) BY <1>1, <1>5, <1>6 DEF PushLock
  <1>7. CASE PushLoad(t) BY <1>1, <1>5, <1>7 DEF PushLoad
  <1>8. CASE PushTest(t) BY <1>1, <1>5, <1>8 DEF PushTest
  <1>9. CASE PushTry(t) BY <1>1, <1>5, <1>9 DEF PushTry
  <1>10. CASE PushRelock(t) BY <1>1, <1>5, <1>10 DEF PushRelock
  <1>11. CASE PushCount(t) BY <1>1, <1>5, <1>11 DEF PushCount
  <1>12. CASE PushResize(t)
    <2>1. CASE ~ Full(t) BY <1>1, <1>5, <1>12, <2>1 DEF PushResize
    <2>2. CASE Full(t)
      <3>1. que_max' = 2 * que_max /\ que_max \in Nat \ {0} /\ pc[t] = "resize"
        BY <1>12, <2>2 DEF PushResize, IInv, TypeOK
      <3>2. ResizeStep(t)
        BY <1>12, <3>1, PushCases DEF ClaimStep, FillStep, CountStep, OtherStep
      <3>. QED BY <1>1, <3>2, SimulateResize
    <2>. QED BY <2>1, <2>2
  <1>13. CASE PushClaim(t)
    <2>1. CASE push_slide # slide[t] BY <1>1, <1>5, <1>13, <2>1 DEF PushClaim
    <2>2. CASE push_slide = slide[t]
      <3>1. pc[t] = "claim" /\ pc'[t] = "fill" BY <1>1, <1>13, <2>2 DEF PushClaim
      <3>2. ClaimStep(t)
        BY <3>1, PushCases DEF ResizeStep, FillStep, CountStep, OtherStep, Owing
      <3>. QED BY <1>1, <3>2, SimulateClaim
    <2>. QED BY <2>1, <2>2
  <1>14. CASE PushFill(t)
    <2>1. pc[t] = "fill" BY <1>14 DEF PushFill
    <2>2. FillStep(t)
      BY <2>1, PushCases DEF ResizeStep, ClaimStep, CountStep, OtherStep, Owing
    <2>. QED BY <1>1, <2>2, SimulateFill
  <1>. QED
    BY <1>3, <1>4, <1>6, <1>7, <1>8, <1>9, <1>10, <1>11, <1>12, <1>13, <1>14 DEF PushStep

\* A pop that finds an element takes effect when it moves _pop_slide.
LEMMA SimulateMove ==
    ASSUME IInv, IInv', Sound, NEW t \in Poppers, Others(t), MoveStep(t)
    PROVE  Abstract!Next
  <1>1. /\ t \in Threads /\ que_max \in Nat \ {0} /\ First \in 0..(que_max - 1)
        /\ TypeOK /\ TypeOK' /\ UNCHANGED <<que, que_max, push_slide, item>>
        /\ pc[t] = "move" /\ pc'[t] = "take" /\ tail'[t] = First
    BY RingShape DEF Threads, IInv, TypeOK, MoveStep, At, Shape
  <1>2. \A i : Filling(i)' = Filling(i) BY ClaimsPop
  <1>3. \A i : Coming(i)' = Coming(i) BY <1>1, <1>2, ComingSame
  <1>4. \A i : Leaving(i)' = Leaving(i) BY <1>1, <1>3 DEF Leaving
  <1>5. /\ Elements' = Elements - 1 /\ Elements > 0
        /\ Cell(0) = First
        /\ \A n \in 0..(que_max - 2) : Cell(n)' = Cell(n + 1)
    BY <1>1, RingMove DEF MoveStep
  <1>6. Elements \in 0..(que_max - 1) BY <1>1, RingShape DEF Shape
  <1>7. QueueIs /\ QueueIs' BY <1>1, QueueSeq, PTL
  <1>8. ASSUME NEW n \in 1..Elements' PROVE Queue'[n] = Queue[n + 1]
    <2>1. PICK i : i = Cell(n) OBVIOUS
    <2>2. n \in Nat /\ n >= 1 /\ n <= Elements - 1 BY <1>5, <1>6
    <2>. DEFINE k == n - 1
                m == n + 1
    <2>3. k \in 0..(que_max - 2) /\ k + 1 = n BY <1>1, <1>6, <2>2
    <2>4. m \in 1..Elements /\ m - 1 = n BY <1>6, <2>2
    <2>5. n - 1 = k OBVIOUS
    <2>. HIDE DEF k, m
    <2>6. Cell(k)' = i BY <1>5, <2>1, <2>3
    <2>7. Queue'[n] = Coming(Cell(k))' BY <1>7, <2>5 DEF QueueIs
    <2>8. Queue[m] = Coming(i) BY <1>7, <2>1, <2>4 DEF QueueIs
    <2>9. Queue'[n] = Queue[m] BY <1>3, <2>6, <2>7, <2>8, ComingCell
    <2>. QED BY <2>9 DEF m
  <1>9. Queue # <<>> /\ Queue' = Tail(Queue)
    <2>. DEFINE q == Queue
                r == Queue'
    <2>1. /\ q \in Seq(Values \cup {Null}) /\ r \in Seq(Values \cup {Null})
          /\ Len(q) = Len(r) + 1 /\ Len(r) = Elements'
      BY <1>5, <1>6, <1>7 DEF QueueIs
    <2>2. \A n \in 1..Len(r) : r[n] = q[n + 1] BY <1>8, <2>1
    <2>. HIDE DEF q, r
    <2>3. q # <<>> /\ r = Tail(q) BY <2>1, <2>2, TailIs
    <2>. QED BY <2>3 DEF q, r
  <1>10. Head(Queue) = Coming(First)
    <2>1. Queue[1] = Coming(Cell(0)) BY <1>5, <1>6, <1>7 DEF QueueIs
    <2>2. Head(Queue) = Queue[1] BY <1>7, <1>9 DEF QueueIs
    <2>. QED BY <1>5, <2>1, <2>2
  <1>11. Result'[t] = Head(Queue)
    <2>1. PICK i : i = First OBVIOUS
    <2>2. Result'[t] = Leaving(tail[t])' BY <1>1 DEF Result, At
    <2>3. Leaving(tail[t])' = Leaving(i)' BY <1>1, <2>1 DEF Leaving, Coming, Filling, At
    <2>4. que[i] # Null => Filling(i) = {}
      BY <1>1, <2>1 DEF Sound, CellsHold, MoveStep
    <2>5. Leaving(i) = Coming(i) BY <2>4 DEF Leaving, Coming
    <2>. QED BY <1>4, <1>10, <2>1, <2>2, <2>3, <2>5
  <1>12. State[t] = "called" /\ State' = [State EXCEPT ![t] = "done"]
    BY <1>1, StateIs DEF State, StateOf
  <1>13. Result' = [Result EXCEPT ![t] = Head(Queue)] BY <1>1, <1>4, <1>11, ResultIs
  <1>. QED BY <1>9, <1>12, <1>13, AbstractPop

\* Emptying the cell changes nothing for the abstract queue.
LEMMA SimulateTake ==
    ASSUME IInv, IInv', Sound, NEW t \in Poppers, Others(t), TakeStep(t)
    PROVE  UNCHANGED <<Queue, State, Result>>
  <1>. DEFINE s == tail[t]
  <1>1. /\ t \in Threads /\ t \notin Pushers /\ TypeOK /\ pc[t] = "take" /\ pc'[t] = "count"
        /\ s \in 0..(que_max - 1) /\ que[s] # Null /\ item'[t] = que[s]
        /\ \A i \in 0..(que_max - 1) : i # s => que'[i] = que[i]
        /\ UNCHANGED <<que_max, push_slide, pop_slide>>
    BY ConstantsOk DEF Threads, IInv, TypeOK, TakeStep, At
  <1>2. \A i : Filling(i)' = Filling(i) /\ (t \in Taking(i) <=> i = s) BY ClaimsPop
  <1>3. Result[t] = que[s] BY <1>1 DEF Result, At, Leaving
  <1>. HIDE DEF s
  <1>4. Taking(s) = {t} BY <1>1, <1>2 DEF Sound, OneClaim
  <1>5. ASSUME NEW i \in 0..(que_max - 1), i # s \/ Between(i) PROVE Coming(i)' = Coming(i)
    <2>1. \A u \in Filling(i) : item'[u] = item[u]
      BY <1>1 DEF Filling, Others, Threads
    <2>2. Filling(i) = {} => que'[i] = que[i]
      <3>1. CASE i # s BY <1>1, <3>1
      <3>2. CASE i = s
        <4>1. Between(i) BY <1>5, <3>2
        <4>2. Filling(i) # {} BY <1>4, <3>2, <4>1 DEF Sound, CellsHold
        <4>. QED BY <4>2
      <3>. QED BY <3>1, <3>2
    <2>. QED BY <1>2, <2>1, <2>2, ComingSame
  <1>6. Queue' = Queue BY <1>1, <1>5, SameQueue
  <1>7. State' = State
    <2>1. StateOf(pc[t]) = StateOf(pc'[t]) BY <1>1 DEF StateOf
    <2>2. State' = [State EXCEPT ![t] = StateOf(pc'[t])] BY <1>1, StateIs
    <2>. QED BY <1>1, <2>1, <2>2 DEF State
  <1>8. ASSUME NEW i \in 0..(que_max - 1), NEW u \in Taking(i) \ {t}
        PROVE  Leaving(i)' = Leaving(i)
    <2>1. i # s BY <1>4, <1>8
    <2>. QED BY <1>1, <1>5, <2>1 DEF Leaving
  <1>9. Result' = Result
    <2>1. Result'[t] = que[s] BY <1>1 DEF Result, At
    <2>2. Result' = [Result EXCEPT ![t] = Result'[t]] BY <1>1, <1>8, ResultIs
    <2>. QED BY <1>3, <2>1, <2>2 DEF Result
  <1>. QED BY <1>6, <1>7, <1>9

\* Each step of pop that is not misled is a step of the abstract queue or a stutter.
LEMMA SimulatePop ==
    ASSUME IInv, IInv', Sound, NEW t \in Poppers, PopStep(t), ~ misled'
    PROVE  Abstract!Next \/ UNCHANGED <<Queue, State, Result>>
  <1>. USE DEF At, Goto, ringVars, slideVars, callVars, muVars
  <1>1. t \in Threads /\ Others(t) /\ pc \in [Threads -> Labels] /\ t \notin Pushers
        /\ item \in [Threads -> Values \cup {Null}] /\ TypeOK
    BY OthersPop, ConstantsOk DEF Threads, IInv, TypeOK
  <1>2. State[t] = StateOf(pc[t]) /\ (pc[t] # "take" => Result[t] = item[t])
    BY <1>1 DEF State, Result
  <1>3. CASE PopCall(t)
    <2>1. pc[t] = "idle" /\ pc'[t] = "poplock" /\ item'[t] = Null
          /\ UNCHANGED <<que, que_max, push_slide, pop_slide>>
      BY <1>1, <1>3 DEF PopCall, IInv, LocalsOk, PopLabels
    <2>2. /\ Queue' = Queue /\ State' = [State EXCEPT ![t] = "called"]
          /\ Result' = [Result EXCEPT ![t] = Null]
      BY <1>1, <2>1, Quiet DEF StateOf
    <2>3. State[t] = "idle" BY <1>2, <2>1 DEF StateOf
    <2>. QED BY <1>1, <2>2, <2>3, AbstractCall
  <1>4. CASE Return(t)
    <2>1. pc[t] = "return" /\ pc'[t] = "idle" /\ item'[t] = Null
          /\ UNCHANGED <<que, que_max, push_slide, pop_slide>>
      BY <1>1, <1>4 DEF Return
    <2>2. /\ Queue' = Queue /\ State' = [State EXCEPT ![t] = "idle"]
          /\ Result' = [Result EXCEPT ![t] = Null]
      BY <1>1, <2>1, Quiet DEF StateOf
    <2>3. State[t] = "done" BY <1>2, <2>1 DEF StateOf
    <2>. QED BY <1>1, <2>2, <2>3, AbstractReturn
  <1>5. ASSUME pc[t] \notin {"fill", "take"}, pc'[t] \notin {"fill", "take"},
               StateOf(pc'[t]) = StateOf(pc[t]),
               UNCHANGED <<que, que_max, push_slide, pop_slide, item>>
        PROVE  UNCHANGED <<Queue, State, Result>>
    <2>1. /\ Queue' = Queue /\ State' = [State EXCEPT ![t] = StateOf(pc'[t])]
          /\ Result' = [Result EXCEPT ![t] = item'[t]]
      BY <1>1, <1>5, Quiet
    <2>2. State' = State BY <1>2, <1>5, <2>1 DEF State
    <2>3. Result' = Result BY <1>2, <1>5, <2>1 DEF Result
    <2>. QED BY <2>1, <2>2, <2>3
  <1>. USE DEF StateOf
  <1>6. CASE PopLock(t) BY <1>1, <1>5, <1>6 DEF PopLock
  <1>7. CASE PopLoad(t) BY <1>1, <1>5, <1>7 DEF PopLoad
  <1>8. CASE PopCount(t) BY <1>1, <1>5, <1>8 DEF PopCount
  <1>9. CASE PopTest(t)
    <2>1. CASE tail[t] # push_slide BY <1>1, <1>5, <1>9, <2>1 DEF PopTest
    <2>2. CASE tail[t] = push_slide
      <3>1. First = push_slide BY <1>9, <2>2 DEF PopTest, Mislead
      <3>2. Elements = 0 BY <1>1, <3>1, RingShape DEF Shape, TypeOK
      <3>3. Queue = <<>> BY <1>1, <3>2, QueueSeq DEF QueueIs
      <3>4. pc[t] = "test" /\ pc'[t] = "return" /\ item'[t] = item[t]
            /\ UNCHANGED <<que, que_max, push_slide, pop_slide>>
        BY <1>1, <1>9, <2>2 DEF PopTest
      <3>5. /\ Queue' = Queue /\ State' = [State EXCEPT ![t] = "done"]
            /\ Result' = [Result EXCEPT ![t] = item[t]]
        BY <1>1, <3>4, Quiet
      <3>6. State[t] = "called" /\ Result[t] = item[t] BY <1>2, <3>4
      <3>7. Result' = Result BY <3>5, <3>6 DEF Result
      <3>. QED BY <3>3, <3>5, <3>6, <3>7, AbstractPop
    <2>. QED BY <2>1, <2>2
  <1>10. CASE PopMove(t)
    <2>1. CASE pop_slide # slide[t] BY <1>1, <1>5, <1>10, <2>1 DEF PopMove
    <2>2. CASE pop_slide = slide[t]
      <3>1. pc[t] = "move" /\ pc'[t] = "take" BY <1>1, <1>10, <2>2 DEF PopMove
      <3>2. MoveStep(t)
        BY <3>1, PopCases DEF TakeStep, DiscountStep, OtherStep, Owing
      <3>. QED BY <1>1, <3>2, SimulateMove
    <2>. QED BY <2>1, <2>2
  <1>11. CASE PopTake(t)
    <2>1. pc[t] = "take" BY <1>11 DEF PopTake
    <2>2. TakeStep(t)
      BY <2>1, PopCases DEF MoveStep, DiscountStep, OtherStep, Owing
    <2>. QED BY <1>1, <2>2, SimulateTake
  <1>. QED
    BY <1>3, <1>4, <1>6, <1>7, <1>8, <1>9, <1>10, <1>11 DEF PopStep

\* Until a call is misled ringque implements the first-in first-out queue of LinQueue: each
\* push takes effect when it claims its cell, each pop when it moves _pop_slide or finds the
\* ring empty, also while the ring wraps around or is replaced by a larger one, for any
\* number of threads.
THEOREM ImplementsLinQueue == Spec => Linearizable
  <1>1. Init => Abstract!Init
    <2>. SUFFICES ASSUME Init PROVE Abstract!Init
      OBVIOUS
    <2>1. TypeOK BY InitIInv DEF IInv
    <2>2. First = 0 /\ push_slide = 0 BY DEF First, Init
    <2>3. Elements = 0 BY <2>1, <2>2, RingShape DEF Shape
    <2>4. Queue = <<>> BY <2>1, <2>3, QueueSeq DEF QueueIs
    <2>. QED BY <2>4, AbstractInit DEF Init
  <1>2. IInv /\ IInv' /\ SInv /\ [Next]_vars => [misled' \/ Abstract!Next]_(Abstract!vars)
    <2>. SUFFICES ASSUME IInv, IInv', SInv, [Next]_vars, ~ misled'
                  PROVE  Abstract!Next \/ UNCHANGED <<Queue, State, Result>>
      BY AbstractStutter
    <2>1. CASE UNCHANGED vars
      <3>. USE DEF vars, ringVars, slideVars, callVars
      <3>1. \A i : Filling(i)' = Filling(i) BY <2>1 DEF Filling, At
      <3>2. \A i : Coming(i)' = Coming(i) BY <2>1, <3>1, ComingSame
      <3>3. Queue' = Queue BY <2>1, <3>2, SameQueue DEF IInv
      <3>4. State' = State BY <2>1 DEF State
      <3>5. Result' = Result BY <2>1 DEF Result, At, Leaving, Coming, Filling
      <3>. QED BY <3>3, <3>4, <3>5
    <2>2. ASSUME NEW t \in Pushers, PushStep(t)
          PROVE  Abstract!Next \/ UNCHANGED <<Queue, State, Result>>
      <3>1. Sound BY <2>2, OthersPush DEF SInv
      <3>. QED BY <2>2, <3>1, SimulatePush
    <2>3. ASSUME NEW t \in Poppers, PopStep(t)
          PROVE  Abstract!Next \/ UNCHANGED <<Queue, State, Result>>
      <3>1. Sound BY <2>3, OthersPop DEF SInv
      <3>. QED BY <2>3, <3>1, SimulatePop
    <2>. QED BY <2>1, <2>2, <2>3 DEF Next
  <1>. QED
    BY <1>1, <1>2, Invariance, SoundInvariance, PTL DEF Spec, Linearizable

-----------------------------------------------------------------------------
(* Who misleads whom *)

Alone ==
    /\ \A t, u \in Pushers : pc[t] # "idle" /\ pc[u] # "idle" => t = u
    /\ \A t, u \in Poppers : pc[t] # "idle" /\ pc[u] # "idle" => t = u

\* A push that is alone moves _push_slide alone, so its slide is never stale, and the cell it
\* claims is not the last free one: one always stays free.
PushSees ==
    \A p \in Pushers :
       /\ pc[p] \in {"full", "try", "resize", "relock", "claim"} => slide[p] = push_slide
       /\ At(p, "claim") => push_slide + 1 # pop_slide

\* A pop that is alone moves _pop_slide alone; a ring it found not empty stays so.
PopSees ==
    \A c \in Poppers :
       /\ pc[c] \in {"test", "move"} => slide[c] = pop_slide /\ tail[c] = First
       /\ At(c, "move") => First # push_slide

Knowing == Alone /\ PushSees /\ PopSees /\ ~ misled

\* While no calls of a kind have overlapped, they know what they act on.
CInv == crowded \/ Knowing

\* Before any call all this holds.
LEMMA InitCInv == Init => CInv
  <1>. SUFFICES ASSUME Init PROVE Knowing
    BY DEF CInv
  <1>1. \A t \in Threads : pc[t] = "idle" BY DEF Init
  <1>. QED BY <1>1 DEF Knowing, Alone, PushSees, PopSees, At, Threads, Init

\* A push that does not overlap another is the only one there is.
LEMMA AlonePush ==
    ASSUME IInv, Alone, NEW t \in Pushers, PushStep(t), ~ crowded'
    PROVE  Alone' /\ \A u \in Pushers \ {t} : pc[u] = "idle" /\ pc'[u] = "idle"
  <1>1. Others(t) BY OthersPush
  <1>2. \A u \in Pushers \ {t} : pc[u] = "idle"
    <2>1. CASE PushCall(t) BY <2>1 DEF PushCall, Crowd
    <2>2. CASE pc[t] # "idle" BY <2>2 DEF Alone
    <2>. QED
      BY <2>1, <2>2 DEF PushStep, PushLock, PushLoad, PushTest, PushTry, PushResize, PushRelock,
         PushClaim, PushFill, PushCount, Return, At
  <1>3. \A u \in Pushers \ {t} : pc'[u] = "idle" BY <1>1, <1>2 DEF Others, Threads
  <1>4. \A u \in Poppers : pc'[u] = pc[u] BY <1>1, ConstantsOk DEF Others, Threads
  <1>5. Alone' BY <1>3, <1>4 DEF Alone
  <1>. QED BY <1>2, <1>3, <1>5

\* So is such a pop.
LEMMA AlonePop ==
    ASSUME IInv, Alone, NEW t \in Poppers, PopStep(t), ~ crowded'
    PROVE  Alone' /\ \A u \in Poppers \ {t} : pc[u] = "idle" /\ pc'[u] = "idle"
  <1>1. Others(t) BY OthersPop
  <1>2. \A u \in Poppers \ {t} : pc[u] = "idle"
    <2>1. CASE PopCall(t) BY <2>1 DEF PopCall, Crowd
    <2>2. CASE pc[t] # "idle" BY <2>2 DEF Alone
    <2>. QED
      BY <2>1, <2>2 DEF PopStep, PopLock, PopLoad, PopTest, PopMove, PopTake, PopCount, Return, At
  <1>3. \A u \in Poppers \ {t} : pc'[u] = "idle" BY <1>1, <1>2 DEF Others, Threads
  <1>4. \A u \in Pushers : pc'[u] = pc[u] BY <1>1, ConstantsOk DEF Others, Threads
  <1>5. Alone' BY <1>3, <1>4 DEF Alone
  <1>. QED BY <1>2, <1>3, <1>5

\* What a push that is alone does leaves what it knows of the slides true.
LEMMA PushSeesPush ==
    ASSUME IInv, PushSees, NEW t \in Pushers, PushStep(t),
           \A u \in Pushers \ {t} : pc'[u] = "idle"
    PROVE  PushSees'
  <1>. USE DEF At, Goto, ringVars, slideVars, callVars, muVars
  <1>1. /\ t \in Threads /\ pc \in [Threads -> Labels] /\ slide \in [Threads -> Nat]
        /\ \A u \in Pushers : u # t => pc'[u] = "idle"
    BY DEF Threads, IInv, TypeOK
  <1>2. CASE PushCall(t) BY <1>1, <1>2 DEF PushCall, PushSees
  <1>3. CASE PushLock(t) BY <1>1, <1>3 DEF PushLock, PushSees
  <1>4. CASE PushLoad(t) BY <1>1, <1>4 DEF PushLoad, PushSees
  <1>5. CASE PushTest(t) BY <1>1, <1>5 DEF PushTest, PushSees, Full
  <1>6. CASE PushTry(t) BY <1>1, <1>6 DEF PushTry, PushSees
  <1>7. CASE PushResize(t) BY <1>1, <1>7 DEF PushResize, PushSees
  <1>8. CASE PushRelock(t) BY <1>1, <1>8 DEF PushRelock, PushSees
  <1>9. CASE PushClaim(t) BY <1>1, <1>9 DEF PushClaim, PushSees
  <1>10. CASE PushFill(t) BY <1>1, <1>10 DEF PushFill, PushSees
  <1>11. CASE PushCount(t) BY <1>1, <1>11 DEF PushCount, PushSees
  <1>12. CASE Return(t) BY <1>1, <1>12 DEF Return, PushSees
  <1>. QED
    BY <1>2, <1>3, <1>4, <1>5, <1>6, <1>7, <1>8, <1>9, <1>10, <1>11, <1>12 DEF PushStep

\* A pop makes room: the cell a push is about to claim stays free.
LEMMA PushSeesPop ==
    ASSUME IInv, PushSees, PopSees, NEW t \in Poppers, PopStep(t)
    PROVE  PushSees'
  <1>. USE DEF At, slideVars
  <1>1. /\ \A p \in Pushers : slide'[p] = slide[p] /\ pc'[p] = pc[p]
        /\ push_slide' = push_slide
    BY OthersPop, ConstantsOk DEF Others, Threads, PopStep, PopCall, PopLock, PopLoad, PopTest,
       PopMove, PopTake, PopCount, Return
  <1>2. CASE UNCHANGED pop_slide BY <1>1, <1>2 DEF PushSees
  <1>3. CASE PopMove(t) /\ pop_slide = slide[t]
    <2>1. pop_slide' = First + 1 /\ First # push_slide BY <1>3 DEF PopMove, PopSees
    <2>2. First \in Nat /\ push_slide \in Nat BY RingShape DEF Shape, IInv, TypeOK
    <2>. QED BY <1>1, <2>1, <2>2 DEF PushSees
  <1>. QED
    BY <1>2, <1>3 DEF PopStep, PopCall, PopLock, PopLoad, PopTest, PopMove, PopTake, PopCount,
       Return

\* A push never makes a ring that is not empty look empty.
LEMMA PopSeesPush ==
    ASSUME IInv, PushSees, PopSees, NEW t \in Pushers, PushStep(t)
    PROVE  PopSees'
  <1>. USE DEF At, ringVars, slideVars, muVars
  <1>1. /\ t \in Threads /\ pc \in [Threads -> Labels]
        /\ que_max \in Nat \ {0} /\ push_slide \in 0..(que_max - 1) /\ pop_slide \in 1..que_max
    BY DEF Threads, IInv, TypeOK
  <1>2. \A c \in Poppers : slide'[c] = slide[c] /\ tail'[c] = tail[c] /\ pc'[c] = pc[c]
    BY OthersPush, ConstantsOk DEF Others, Threads
  <1>3. CASE UNCHANGED <<push_slide, pop_slide, que_max>>
    BY <1>2, <1>3 DEF PopSees, First
  <1>4. CASE PushResize(t)
    <2>1. readers = {} BY <1>1, <1>4, ConstantsOk DEF PushResize, IInv, LocksOk
    <2>2. \A c \in Poppers : pc[c] \notin {"test", "move"}
      BY <2>1 DEF IInv, LocksOk, Holding, Threads
    <2>. QED BY <1>2, <2>2 DEF PopSees
  <1>5. CASE PushClaim(t) /\ push_slide = slide[t]
    <2>1. push_slide' = Succ(push_slide) /\ push_slide + 1 # pop_slide
      BY <1>5 DEF PushClaim, PushSees
    <2>2. UNCHANGED <<pop_slide, que_max>> BY <1>5 DEF PushClaim
    <2>3. First' = First BY <2>2 DEF First
    <2>4. First # Succ(push_slide) BY <1>1, <2>1 DEF First, Succ
    <2>. QED BY <1>2, <2>1, <2>2, <2>3, <2>4 DEF PopSees
  <1>. QED
    BY <1>3, <1>4, <1>5 DEF PushStep, PushCall, PushLock, PushLoad, PushTest, PushTry,
       PushRelock, PushClaim, PushFill, PushCount, Return

\* What a pop that is alone has read of the slides is true while it works on it.
LEMMA PopSeesPop ==
    ASSUME IInv, PopSees, NEW t \in Poppers, PopStep(t),
           \A u \in Poppers \ {t} : pc'[u] = "idle"
    PROVE  PopSees'
  <1>. USE DEF At, Goto, First, ringVars, slideVars, callVars, muVars
  <1>1. /\ t \in Threads /\ pc \in [Threads -> Labels] /\ slide \in [Threads -> Nat]
        /\ tail \in [Threads -> Nat] /\ \A u \in Poppers : u # t => pc'[u] = "idle"
    BY DEF Threads, IInv, TypeOK
  <1>2. CASE PopCall(t) BY <1>1, <1>2 DEF PopCall, PopSees
  <1>3. CASE PopLock(t) BY <1>1, <1>3 DEF PopLock, PopSees
  <1>4. CASE PopLoad(t) BY <1>1, <1>4 DEF PopLoad, PopSees
  <1>5. CASE PopTest(t) BY <1>1, <1>5 DEF PopTest, PopSees
  <1>6. CASE PopMove(t) BY <1>1, <1>6 DEF PopMove, PopSees
  <1>7. CASE PopTake(t) BY <1>1, <1>7 DEF PopTake, PopSees
  <1>8. CASE PopCount(t) BY <1>1, <1>8 DEF PopCount, PopSees
  <1>9. CASE Return(t) BY <1>1, <1>9 DEF Return, PopSees
  <1>. QED BY <1>2, <1>3, <1>4, <1>5, <1>6, <1>7, <1>8, <1>9 DEF PopStep

\* A push that is alone is not misled, whatever a pop has done meanwhile.
LEMMA KnowsPush ==
    ASSUME IInv, Knowing, NEW t \in Pushers, PushStep(t),
           \A u \in Pushers \ {t} : pc[u] = "idle"
    PROVE  ~ misled'
  <1>. USE DEF Mislead, histVars, At
  <1>1. ~ misled /\ PushSees BY DEF Knowing
  <1>2. CASE PushResize(t)
    <2>1. slide[t] = push_slide BY <1>1, <1>2 DEF PushResize, PushSees
    <2>2. push_slide \in Nat BY DEF IInv, TypeOK
    <2>3. Full(t) => pop_slide # push_slide BY <2>1, <2>2 DEF Full
    <2>. QED BY <1>1, <1>2, <2>3 DEF PushResize
  <1>3. CASE PushClaim(t)
    <2>1. ~ Full(t) BY <1>1, <1>3 DEF PushClaim, PushSees, Full
    <2>2. Filling(slide[t]) = {} BY <1>3 DEF PushClaim, Filling
    <2>. QED BY <1>1, <1>3, <2>1, <2>2 DEF PushClaim
  <1>. QED
    BY <1>1, <1>2, <1>3 DEF PushStep, PushCall, PushLock, PushLoad, PushTest, PushTry,
       PushRelock, PushFill, PushCount, Return

\* Nor is a pop that is alone.
LEMMA KnowsPop ==
    ASSUME IInv, Knowing, NEW t \in Poppers, PopStep(t),
           \A u \in Poppers \ {t} : pc[u] = "idle"
    PROVE  ~ misled'
  <1>. USE DEF Mislead, histVars, At
  <1>1. ~ misled /\ PopSees BY DEF Knowing
  <1>2. CASE PopTest(t) BY <1>1, <1>2 DEF PopTest, PopSees
  <1>3. CASE PopMove(t)
    <2>1. tail[t] = First /\ First # push_slide BY <1>1, <1>3 DEF PopMove, PopSees
    <2>2. Taking(tail[t]) = {} BY <1>3 DEF PopMove, Taking
    <2>. QED BY <1>1, <1>3, <2>1, <2>2 DEF PopMove
  <1>. QED
    BY <1>1, <1>2, <1>3 DEF PopStep, PopCall, PopLock, PopLoad, PopTake, PopCount, Return

\* CInv is inductive.
LEMMA StepCInv == IInv /\ CInv /\ [Next]_vars => CInv'
  <1>. SUFFICES ASSUME IInv, CInv, [Next]_vars, ~ crowded' PROVE Knowing'
    BY DEF CInv
  <1>1. CASE UNCHANGED vars
    <2>. USE DEF vars, ringVars, slideVars, histVars, callVars, muVars
    <2>1. Knowing BY <1>1 DEF CInv
    <2>. QED BY <1>1, <2>1 DEF Knowing, Alone, PushSees, PopSees, At, First
  <1>2. ASSUME NEW t \in Pushers, PushStep(t) PROVE Knowing'
    <2>1. ~ crowded
      BY <1>2 DEF PushStep, PushCall, PushLock, PushLoad, PushTest, PushTry, PushResize,
         PushRelock, PushClaim, PushFill, PushCount, Return, histVars, Crowd
    <2>2. Knowing BY <2>1 DEF CInv
    <2>3. Alone' /\ \A u \in Pushers \ {t} : pc[u] = "idle" /\ pc'[u] = "idle"
      BY <1>2, <2>2, AlonePush DEF Knowing
    <2>4. PushSees' BY <1>2, <2>2, <2>3, PushSeesPush DEF Knowing
    <2>5. PopSees' BY <1>2, <2>2, PopSeesPush DEF Knowing
    <2>6. ~ misled' BY <1>2, <2>2, <2>3, KnowsPush
    <2>. QED BY <2>3, <2>4, <2>5, <2>6 DEF Knowing
  <1>3. ASSUME NEW t \in Poppers, PopStep(t) PROVE Knowing'
    <2>1. ~ crowded
      BY <1>3 DEF PopStep, PopCall, PopLock, PopLoad, PopTest, PopMove, PopTake, PopCount,
         Return, histVars, Crowd
    <2>2. Knowing BY <2>1 DEF CInv
    <2>3. Alone' /\ \A u \in Poppers \ {t} : pc[u] = "idle" /\ pc'[u] = "idle"
      BY <1>3, <2>2, AlonePop DEF Knowing
    <2>4. PushSees' BY <1>3, <2>2, PushSeesPop DEF Knowing
    <2>5. PopSees' BY <1>3, <2>2, <2>3, PopSeesPop DEF Knowing
    <2>6. ~ misled' BY <1>3, <2>2, <2>3, KnowsPop
    <2>. QED BY <2>3, <2>4, <2>5, <2>6 DEF Knowing
  <1>. QED BY <1>1, <1>2, <1>3 DEF Next

\* A push and a pop never mislead each other: whoever is misled is so by an overlapping call of
\* its own kind.
THEOREM OwnKindOnly == Spec => []KindsApart
  <1>1. CInv => KindsApart BY DEF CInv, Knowing, KindsApart
  <1>. QED BY <1>1, InitCInv, StepCInv, Invariance, PTL DEF Spec

=============================================================================
