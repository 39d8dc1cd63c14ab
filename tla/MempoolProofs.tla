--------------------------- MODULE MempoolProofs ----------------------------
(***************************************************************************)
(* For any number of threads and processors and any lengths: memory of the *)
(* small classes has one user, and everyone gets as much as was asked for. *)
(* Large chunks have no such theorem: TLC refutes it (Mempool_chunk.cfg).  *)
(***************************************************************************)
EXTENDS Mempool, TLAPS

-----------------------------------------------------------------------------
(* Length classes *)

\* The bounds of the classes, as standardization_lenght tests them.
LEMMA LimitValues ==
    /\ Limit[0] = 8 /\ Limit[1] = 32 /\ Limit[2] = 128 /\ Limit[3] = 512
    /\ Limit[4] = 32768 /\ Limit[5] = 65536 /\ Limit[6] = 4096 /\ Limit[7] = 8192
    /\ Limit[8] = 16384 /\ Limit[9] = 32768 /\ Limit[10] = 65536
BY DEF Limit, Classes

\* No class is larger than 64K.
LEMMA LimitRange == \A k \in Classes : Limit[k] \in Nat /\ Limit[k] <= 65536
BY LimitValues DEF Classes

\* A length has a class iff it is at most 64K.
LEMMA SmallLengths ==
    ASSUME NEW n \in Nat
    PROVE Small(n) <=> n <= 65536
<1>1. ASSUME Small(n) PROVE n <= 65536
  <2>1. PICK k \in Classes : n <= Limit[k]
      BY <1>1 DEF Small, Fits
  <2>. QED BY <2>1, LimitRange
<1>2. ASSUME n <= 65536 PROVE Small(n)
  <2> USE LimitValues DEF Fits, Classes
  <2>1. CASE n <= 8 BY <2>1, Fits(n, 0) DEF Small
  <2>2. CASE 8 < n /\ n <= 32 BY <2>2, Fits(n, 1) DEF Small
  <2>3. CASE 32 < n /\ n <= 128 BY <2>3, Fits(n, 2) DEF Small
  <2>4. CASE 128 < n /\ n <= 512 BY <2>4, Fits(n, 3) DEF Small
  <2>5. CASE 512 < n /\ n <= 32768 BY <2>5, Fits(n, 4) DEF Small
  <2>6. CASE 32768 < n BY <1>2, <2>6, Fits(n, 5) DEF Small
  <2>. QED BY <2>1, <2>2, <2>3, <2>4, <2>5, <2>6
<1>. QED BY <1>1, <1>2

\* standardization_lenght finds the first class that is large enough.
LEMMA ClassFits ==
    ASSUME NEW n \in Nat, Small(n)
    PROVE /\ ClassOf(n) \in Classes
          /\ Fits(n, ClassOf(n))
          /\ StdLen(n) = Limit[ClassOf(n)]
BY DEF Small, ClassOf, StdLen

\* standardization_lenght rounds up, and keeps small and large lengths apart.
LEMMA StdLenBounds ==
    ASSUME NEW n \in Nat
    PROVE /\ StdLen(n) \in Nat
          /\ StdLen(n) >= n
          /\ Small(n) <=> StdLen(n) <= 65536
<1>1. CASE Small(n)
  <2>1. ClassOf(n) \in Classes /\ n <= Limit[ClassOf(n)] /\ StdLen(n) = Limit[ClassOf(n)]
      BY <1>1, ClassFits DEF Fits
  <2>. QED BY <1>1, <2>1, LimitRange
<1>2. CASE ~ Small(n)
  <2>1. StdLen(n) = ((n + 4095) \div 4096) * 4096
      BY <1>2 DEF StdLen, K4
  <2>2. n > 65536
      BY <1>2, SmallLengths
  <2>. QED BY <1>2, <2>1, <2>2
<1>. QED BY <1>1, <1>2

\* The classes the constructor leaves uninitialised are never taken from: those of
\* 4096 bytes or less above class 4 have no length, since _1K is 32768.
LEMMA ReusedInitialised ==
    ASSUME NEW n \in Nat, Small(n), Limit[ClassOf(n)] <= K4
    PROVE ClassOf(n) <= 4
<1>1. ClassOf(n) \in 0..10 /\ Fits(n, ClassOf(n))
    BY ClassFits DEF Classes
<1>2. ASSUME NEW k \in 0..10, Fits(n, k), k > 4, Limit[k] <= 4096 PROVE FALSE
  <2>1. n > Limit[4] /\ n > 32768
      BY <1>2, LimitValues DEF Fits
  <2>2. n <= Limit[k] /\ Limit[k] \in Nat
      BY <1>2, LimitRange DEF Fits, Classes
  <2>. QED BY <1>2, <2>1, <2>2
<1>. QED BY <1>1, <1>2 DEF K4

-----------------------------------------------------------------------------
(* The inductive invariant *)

InLock(t) == pc[t] \in {"search", "unhead", "put", "sethead"}
HasMem(t) == pc[t] \in {"zero", "ftry", "put", "sethead"}

\* What the local variables hold where they are used; a thread between a
\* successful try_lock and the unlock is the one mu names.
LocalOk(t) ==
    /\ pc[t] # "idle" => len[t] \in Lengths
    /\ HasMem(t) => mem[t] \in Blocks
    /\ InLock(t) => mu[index[t]] = t
    /\ At(t, "unhead") =>
          /\ Reusable(len[t])
          /\ mem[t] = recvlist[ListOf(t)]
          /\ mem[t] # Null
    /\ At(t, "sethead") =>
          /\ Small(len[t])
          /\ word[mem[t]] = recvlist[ListOf(t)]
LocalsOk == \A t \in Threads : LocalOk(t)

\* A block of c bytes serves a request for n bytes; memory of the small classes
\* never serves a large one, nor the other way round.
Serves(c, n) == IF Small(n) THEN c = StdLen(n) ELSE c >= StdLen(n)

\* The size of a block tells what it is used for.
SizesOk ==
    /\ \A b \in heap : capacity[b] = 0
    /\ \A l \in Lists : \A b \in listed[l] : capacity[b] = Limit[l[2]]
    /\ \A c \in Cores : \A e \in recvlistchunk[c] : e[1] > 65536 /\ capacity[e[2]] >= e[1]
    /\ \A t \in Threads : \A e \in owned[t] : Serves(capacity[e[1]], e[2])
    /\ \A t \in Threads : HasMem(t) => Serves(capacity[mem[t]], len[t])

IInv == TypeOK /\ LocalsOk /\ SizesOk /\ SmallExclusive /\ ListsIntact

\* No block is Null or Garbage, and a list is a processor and a class.
LEMMA BlockTypes ==
    /\ Null \notin Blocks /\ Garbage \notin Blocks
    /\ Lists \subseteq Blocks /\ Heap \subseteq Blocks
    /\ \A l \in Lists : l[1] \in Cores /\ l[2] \in Classes
<1>1. \A l \in Lists : l[1] \in Cores /\ l[2] \in Classes
    BY ClassFits, ConstantsOk DEF Lists
<1>. QED BY <1>1, BlocksOk DEF Blocks

\* The list a small length leads to holds blocks of exactly that standard length.
LEMMA ListOfType ==
    ASSUME TypeOK, NEW t \in Threads, len[t] \in Lengths, Small(len[t])
    PROVE /\ ListOf(t) \in Lists
          /\ Limit[ListOf(t)[2]] = StdLen(len[t])
          /\ Reusable(len[t]) => ListOf(t) \in Reused
<1>1. ListOf(t) \in Lists /\ ListOf(t)[2] = ClassOf(len[t])
    BY DEF TypeOK, ListOf, Lists
<1>2. Limit[ListOf(t)[2]] = StdLen(len[t])
    BY <1>1, ClassFits, ConstantsOk
<1>. QED BY <1>1, <1>2 DEF Reusable, Reused

\* The constructor establishes the invariant.
LEMMA InitIInv == Init => IInv
<1> SUFFICES ASSUME Init PROVE IInv
    OBVIOUS
<1>1. TypeOK
    BY BlockTypes, LimitRange, ConstantsOk DEF Init, TypeOK, Cores, Labels
<1>2. LocalsOk
    BY DEF Init, LocalsOk, LocalOk, InLock, HasMem, At
<1>3. SizesOk
  <2>1. \A b \in heap : capacity[b] = 0
      BY BlockTypes, BlocksOk DEF Init
  <2>2. \A l \in Lists : \A b \in listed[l] : capacity[b] = Limit[l[2]]
      BY BlockTypes DEF Init
  <2>. QED BY <2>1, <2>2 DEF Init, SizesOk, HasMem
<1>4. SmallExclusive
    BY DEF Init, SmallExclusive, Holds, InHand, SmallOwned
<1>5. ListsIntact
  <2>1. \A l \in Reused : l \in Lists /\ l[2] <= 4
      BY ReusedInitialised, ConstantsOk DEF Reused, Lists
  <2>2. \A l \in Lists : recvlist[l] = l /\ listed[l] = {l} /\ l \in Blocks
      BY BlockTypes DEF Init
  <2>3. \A l \in Reused : word[l] = Null
      BY <2>1, <2>2 DEF Init
  <2>. QED BY <2>1, <2>2, <2>3, BlockTypes DEF ListsIntact
<1>. QED BY <1>1, <1>2, <1>3, <1>4, <1>5 DEF IInv

\* No step touches what another thread holds.
LEMMA OthersStep ==
    ASSUME TypeOK, NEW t \in Threads, Step(t), NEW u \in Threads, u # t
    PROVE /\ pc'[u] = pc[u] /\ len'[u] = len[u] /\ mem'[u] = mem[u]
          /\ index'[u] = index[u] /\ owned'[u] = owned[u]
<1> USE DEF TypeOK, Goto, Return, NextCore
<1>1. CASE AllocCall(t) BY <1>1 DEF AllocCall
<1>2. CASE AllocLock(t) BY <1>2 DEF AllocLock
<1>3. CASE TakeSmall(t) BY <1>3 DEF TakeSmall
<1>4. CASE Unhead(t) BY <1>4 DEF Unhead
<1>5. CASE TakeChunk(t) BY <1>5 DEF TakeChunk
<1>6. CASE TakeNothing(t) BY <1>6 DEF TakeNothing
<1>7. CASE Malloc(t) BY <1>7 DEF Malloc
<1>8. CASE Zero(t) BY <1>8 DEF Zero
<1>9. CASE FreeCall(t) BY <1>9 DEF FreeCall
<1>10. CASE FreeLock(t) BY <1>10 DEF FreeLock
<1>11. CASE PutSmall(t) BY <1>11 DEF PutSmall
<1>12. CASE SetHead(t) BY <1>12 DEF SetHead
<1>13. CASE PutChunk(t) BY <1>13 DEF PutChunk
<1>. QED
    BY <1>1, <1>2, <1>3, <1>4, <1>5, <1>6, <1>7, <1>8, <1>9, <1>10, <1>11, <1>12, <1>13
    DEF Step

\* What a thread at unhead has taken: the head of a list it holds the mutex of.
LEMMA UnheadTakes ==
    ASSUME IInv, NEW t \in Threads, At(t, "unhead")
    PROVE /\ ListOf(t) \in Reused /\ ListOf(t) \in Lists
          /\ mem[t] \in listed[ListOf(t)] /\ mem[t] \in Blocks
          /\ word[mem[t]] \in listed[ListOf(t)] \cup {Null}
          /\ Small(len[t]) /\ StdLen(len[t]) = Limit[ListOf(t)[2]]
<1>1. Reusable(len[t]) /\ len[t] \in Lengths /\ mem[t] = recvlist[ListOf(t)] /\ mem[t] # Null
    BY DEF IInv, LocalsOk, LocalOk, InLock, At
<1>2. ListOf(t) \in Reused /\ ListOf(t) \in Lists /\ StdLen(len[t]) = Limit[ListOf(t)[2]]
    BY <1>1, ListOfType DEF IInv, Reusable
<1>3. mem[t] \in listed[ListOf(t)] /\ word[mem[t]] \in listed[ListOf(t)] \cup {Null}
    BY <1>1, <1>2 DEF IInv, ListsIntact
<1>. QED BY <1>1, <1>2, <1>3 DEF IInv, TypeOK, Reusable

\* A step of allocator or deallocator keeps the types.
LEMMA TypeStep ==
    ASSUME IInv, NEW t \in Threads, Step(t)
    PROVE TypeOK'
<1>0. TypeOK /\ CoreNum \in Nat \ {0} /\ index[t] \in Cores
    BY ConstantsOk DEF IInv, TypeOK
<1>l. len[t] \in Nat
  <2>1. len[t] \in Lengths \cup {0}
      BY <1>0 DEF TypeOK
  <2>2. \A n \in Lengths : n \in Nat
      BY ConstantsOk
  <2>. QED BY <2>1, <2>2
<1>p. ASSUME NEW lbl \in Labels, Goto(t, lbl) PROVE pc' \in [Threads -> Labels]
    BY <1>0, <1>p DEF TypeOK, Goto
<1>i. ASSUME NEW c \in Cores, index' = [index EXCEPT ![t] = c] PROVE index' \in [Threads -> Cores]
    BY <1>0, <1>i DEF TypeOK
<1>n. ASSUME NextCore(t)
      PROVE index' \in [Threads -> Cores] /\ pc' \in [Threads -> Labels]
  <2>1. CASE index[t] < CoreNum /\ index' = [index EXCEPT ![t] = @ + 1] /\ Goto(t, "try")
    <3>1. index[t] + 1 \in Cores /\ "try" \in Labels
        BY <1>0, <2>1 DEF Cores, Labels
    <3>. QED BY <2>1, <3>1, <1>i, <1>p
  <2>2. CASE index' = index /\ Goto(t, "malloc")
      BY <1>0, <2>2, <1>p DEF TypeOK, Labels
  <2>. QED BY <1>n, <2>1, <2>2 DEF NextCore
<1>r. ASSUME Return(t)
      PROVE /\ index' \in [Threads -> Cores] /\ pc' \in [Threads -> Labels]
            /\ len' \in [Threads -> Lengths \cup {0}] /\ mem' \in [Threads -> Blocks \cup {Null}]
  <2>1. 1 \in Cores /\ "idle" \in Labels
      BY <1>0 DEF Cores, Labels
  <2>. QED BY <1>0, <1>r, <1>i, <1>p, <2>1 DEF Return, TypeOK
<1>1. CASE AllocCall(t) BY <1>0, <1>1 DEF AllocCall, TypeOK, Goto, Labels, poolVars, memVars
<1>2. CASE AllocLock(t)
  <2>1. mu' \in [Cores -> Threads \cup {Null}]
      BY <1>0, <1>2 DEF AllocLock, TypeOK
  <2>2. index' \in [Threads -> Cores] /\ pc' \in [Threads -> Labels]
      BY <1>0, <1>2, <1>n DEF AllocLock, TypeOK, Goto, Labels
  <2>. QED BY <1>0, <1>2, <2>1, <2>2 DEF AllocLock, TypeOK, poolVars, memVars
<1>3. CASE TakeSmall(t)
  <2>1. len[t] \in Lengths /\ Small(len[t]) /\ Reusable(len[t])
      BY <1>3 DEF TakeSmall, IInv, LocalsOk, LocalOk, InLock, Reusable, At
  <2>2. recvlist[ListOf(t)] \in Blocks
      BY <1>0, <2>1, <1>3, ListOfType DEF TakeSmall, IInv, ListsIntact, TypeOK
  <2>. QED BY <1>0, <1>3, <2>2 DEF TakeSmall, TypeOK, Goto, Labels, poolVars, memVars
<1>4. CASE Unhead(t)
  <2>1. ListOf(t) \in Lists /\ word[mem[t]] \in Blocks \cup {Null}
      BY <1>0, <1>4, UnheadTakes DEF Unhead, TypeOK
  <2>2. recvlist' \in [Lists -> Blocks \cup {Null, Garbage}] /\ listed' \in [Lists -> SUBSET Blocks]
      BY <1>0, <1>4, <2>1 DEF Unhead, TypeOK
  <2>. QED BY <1>0, <1>4, <2>2 DEF Unhead, TypeOK, Goto, Labels, Unlock, memVars
<1>5. CASE TakeChunk(t)
  <2>1. mem' \in [Threads -> Blocks \cup {Null}]
    <3>1. PICK e \in Found(t) : mem' = [mem EXCEPT ![t] = e[2]]
        BY <1>5 DEF TakeChunk
    <3>2. e[2] \in Blocks
        BY <1>0, <3>1 DEF Found, TypeOK
    <3>. QED BY <1>0, <3>1, <3>2 DEF TypeOK
  <2>. QED BY <1>0, <1>5, <2>1 DEF TakeChunk, TypeOK, Goto, Labels, Unlock, poolVars, memVars
<1>6. CASE TakeNothing(t)
  <2>1. mu' \in [Cores -> Threads \cup {Null}]
      BY <1>0, <1>6 DEF TakeNothing, TypeOK, Unlock
  <2>2. NextCore(t)
      BY <1>6 DEF TakeNothing
  <2>. QED BY <1>0, <1>6, <1>n, <2>1, <2>2 DEF TakeNothing, TypeOK, poolVars, memVars
<1>7. CASE Malloc(t)
  <2>1. PICK b \in heap : /\ heap' = heap \ {b}
                          /\ capacity' = [capacity EXCEPT ![b] = StdLen(len[t])]
                          /\ mem' = [mem EXCEPT ![t] = b]
      BY <1>7 DEF Malloc
  <2>2. b \in Blocks /\ StdLen(len[t]) \in Nat
      BY <1>0, <1>l, <2>1, StdLenBounds, BlockTypes DEF TypeOK
  <2>3. capacity' \in [Blocks -> Nat] /\ mem' \in [Threads -> Blocks \cup {Null}] /\ heap' \subseteq Heap
      BY <1>0, <2>1, <2>2 DEF TypeOK
  <2>. QED BY <1>0, <1>7, <2>3 DEF Malloc, TypeOK, Goto, Labels, poolVars
<1>8. CASE Zero(t)
  <2>1. mem[t] \in Blocks /\ len[t] \in Lengths
      BY <1>8 DEF Zero, IInv, LocalsOk, LocalOk, InLock, HasMem, At
  <2>2. word' \in [Blocks -> Blocks \cup {Null, Garbage}] /\ owned' \in [Threads -> SUBSET (Blocks \X Lengths)]
      BY <1>0, <1>8, <2>1 DEF Zero, TypeOK
  <2>. QED BY <1>0, <1>8, <1>r, <2>2 DEF Zero, TypeOK, poolVars
<1>9. CASE FreeCall(t) BY <1>0, <1>9 DEF FreeCall, TypeOK, Goto, Labels, poolVars
<1>10. CASE FreeLock(t)
  <2>1. mu' \in [Cores -> Threads \cup {Null}]
      BY <1>0, <1>10 DEF FreeLock, TypeOK
  <2>2. (index[t] % CoreNum) + 1 \in Cores
      BY <1>0 DEF Cores
  <2>3. index' \in [Threads -> Cores]
      BY <1>0, <1>10, <2>2 DEF FreeLock, TypeOK
  <2>. QED BY <1>0, <1>10, <2>1, <2>3 DEF FreeLock, TypeOK, Goto, Labels, poolVars, memVars
<1>11. CASE PutSmall(t)
  <2>1. mem[t] \in Blocks /\ ListOf(t) \in Lists
      BY <1>0, <1>11, ListOfType DEF PutSmall, IInv, LocalsOk, LocalOk, InLock, HasMem, At
  <2>. QED BY <1>0, <1>11, <2>1 DEF PutSmall, TypeOK, Goto, Labels, poolVars
<1>12. CASE SetHead(t)
  <2>1. mem[t] \in Blocks /\ ListOf(t) \in Lists
      BY <1>0, <1>12, ListOfType DEF SetHead, IInv, LocalsOk, LocalOk, InLock, HasMem, At
  <2>. QED BY <1>0, <1>12, <1>r, <2>1 DEF SetHead, TypeOK, Unlock, memVars
<1>13. CASE PutChunk(t)
  <2>1. mem[t] \in Blocks /\ StdLen(len[t]) \in Nat
      BY <1>l, <1>13, StdLenBounds DEF PutChunk, IInv, LocalsOk, LocalOk, InLock, HasMem, At
  <2>2. recvlistchunk' \in [Cores -> SUBSET (Nat \X Blocks)]
      BY <1>0, <1>13, <2>1 DEF PutChunk, TypeOK
  <2>. QED BY <1>0, <1>13, <1>r, <2>2 DEF PutChunk, TypeOK, Unlock, memVars
<1>. QED
    BY <1>1, <1>2, <1>3, <1>4, <1>5, <1>6, <1>7, <1>8, <1>9, <1>10, <1>11, <1>12, <1>13
    DEF Step

\* Memory of the small classes has a small size, whoever has it.
LEMMA SmallSizes ==
    ASSUME IInv
    PROVE /\ \A l \in Lists : \A b \in listed[l] : 0 < capacity[b] /\ capacity[b] <= 65536
          /\ \A u \in Threads : \A b \in Holds(u) :
                b \in Blocks /\ 0 < capacity[b] /\ capacity[b] <= 65536
<1>0. TypeOK /\ \A n \in Lengths : n \in Nat \ {0}
    BY ConstantsOk DEF IInv
<1>1. ASSUME NEW l \in Lists, NEW b \in listed[l] PROVE 0 < capacity[b] /\ capacity[b] <= 65536
  <2>1. l[2] \in Classes /\ capacity[b] = Limit[l[2]]
      BY <1>1, BlockTypes DEF IInv, SizesOk
  <2>. QED BY <2>1, LimitValues DEF Classes
<1>2. ASSUME NEW n \in Lengths, Small(n), NEW b \in Blocks, Serves(capacity[b], n)
      PROVE 0 < capacity[b] /\ capacity[b] <= 65536
  <2>1. capacity[b] = StdLen(n) /\ StdLen(n) \in Nat /\ StdLen(n) >= n /\ StdLen(n) <= 65536
      BY <1>0, <1>2, StdLenBounds DEF Serves
  <2>. QED BY <1>0, <2>1
<1>3. ASSUME NEW u \in Threads, NEW b \in Holds(u)
      PROVE b \in Blocks /\ 0 < capacity[b] /\ capacity[b] <= 65536
  <2>1. CASE \E e \in SmallOwned(u) : b = e[1]
    <3>1. PICK e \in owned[u] : b = e[1] /\ Small(e[2])
        BY <2>1 DEF SmallOwned
    <3>2. e[1] \in Blocks /\ e[2] \in Lengths /\ Serves(capacity[e[1]], e[2])
        BY <1>0, <3>1 DEF IInv, SizesOk, TypeOK
    <3>. QED BY <3>1, <3>2, <1>2
  <2>2. CASE b \in InHand(u)
    <3>1. HasMem(u) /\ Small(len[u]) /\ b = mem[u]
        BY <2>2 DEF InHand, HasMem
    <3>2. mem[u] \in Blocks /\ len[u] \in Lengths /\ Serves(capacity[mem[u]], len[u])
        BY <3>1 DEF IInv, SizesOk, LocalsOk, LocalOk, InLock, HasMem
    <3>. QED BY <3>1, <3>2, <1>2
  <2>. QED BY <1>3, <2>1, <2>2 DEF Holds
<1>. QED BY <1>1, <1>3

\* A block of a large request is in no free list, and held for no small one.
LEMMA LargeApart ==
    ASSUME IInv, NEW n \in Lengths, ~ Small(n), NEW b \in Blocks, Serves(capacity[b], n)
    PROVE /\ \A l \in Lists : b \notin listed[l]
          /\ \A u \in Threads : b \notin Holds(u)
<1>1. n \in Nat
    BY ConstantsOk
<1>2. StdLen(n) \in Nat /\ StdLen(n) > 65536 /\ capacity[b] >= StdLen(n) /\ capacity[b] \in Nat
    BY <1>1, StdLenBounds DEF Serves, IInv, TypeOK
<1>3. ~ (capacity[b] <= 65536)
    BY <1>2
<1>. QED BY <1>3, SmallSizes

\* What a thread has in hand or owns is in no free list, and nobody else's.
LEMMA MemApart ==
    ASSUME IInv, NEW t \in Threads, HasMem(t)
    PROVE /\ \A l \in Lists : mem[t] \notin listed[l]
          /\ \A u \in Threads : u # t => mem[t] \notin Holds(u)
<1>1. len[t] \in Lengths /\ mem[t] \in Blocks /\ Serves(capacity[mem[t]], len[t])
    BY DEF IInv, LocalsOk, LocalOk, InLock, SizesOk, HasMem
<1>2. CASE ~ Small(len[t])
    BY <1>1, <1>2, LargeApart
<1>3. CASE Small(len[t])
  <2>1. mem[t] \in Holds(t)
      BY <1>3 DEF Holds, InHand, HasMem
  <2>. QED BY <2>1 DEF IInv, SmallExclusive
<1>. QED BY <1>2, <1>3

\* What a thread owns is in no free list, and held by nobody else.
LEMMA OwnedApart ==
    ASSUME IInv, NEW t \in Threads, NEW e \in owned[t]
    PROVE /\ \A l \in Lists : e[1] \notin listed[l]
          /\ \A u \in Threads : u # t => e[1] \notin Holds(u)
<1>1. e[2] \in Lengths /\ e[1] \in Blocks /\ Serves(capacity[e[1]], e[2])
    BY DEF IInv, TypeOK, SizesOk
<1>2. CASE ~ Small(e[2])
    BY <1>1, <1>2, LargeApart
<1>3. CASE Small(e[2])
  <2>1. e[1] \in Holds(t)
      BY <1>3 DEF Holds, SmallOwned
  <2>. QED BY <2>1 DEF IInv, SmallExclusive
<1>. QED BY <1>2, <1>3

\* A step of one thread leaves to another the mutex it holds, the free list that
\* mutex protects and the block it is putting back.
LEMMA OthersKeep ==
    ASSUME IInv, NEW t \in Threads, Step(t), NEW u \in Threads, u # t
    PROVE /\ InLock(u) => mu'[index[u]] = mu[index[u]]
          /\ InLock(u) /\ ListOf(u) \in Lists => recvlist'[ListOf(u)] = recvlist[ListOf(u)]
          /\ At(u, "sethead") => word'[mem[u]] = word[mem[u]]
<1>0. TypeOK /\ index[u] \in Cores /\ index[t] \in Cores /\ Null \notin Threads
    BY ConstantsOk DEF IInv, TypeOK
<1>1. InLock(u) => mu[index[u]] = u
    BY DEF IInv, LocalsOk, LocalOk, InLock
<1>2. InLock(t) => mu[index[t]] = t
    BY DEF IInv, LocalsOk, LocalOk, InLock
<1>3. ListOf(t)[1] = index[t] /\ ListOf(u)[1] = index[u]
    BY DEF ListOf
<1>4. ASSUME At(u, "sethead"), Small(len[u])
      PROVE mem[u] \in Holds(u) /\ mem[u] \in Blocks
    BY <1>4 DEF Holds, InHand, At, IInv, LocalsOk, LocalOk, InLock, HasMem
<1>5. At(u, "sethead") => Small(len[u])
    BY DEF IInv, LocalsOk, LocalOk, InLock
<1> USE DEF poolVars, memVars
<1>6. CASE AllocCall(t) BY <1>6 DEF AllocCall
<1>7. CASE AllocLock(t) BY <1>0, <1>1, <1>7 DEF AllocLock, LockFree, TypeOK
<1>8. CASE TakeSmall(t) BY <1>8 DEF TakeSmall
<1>9. CASE Unhead(t)
  <2>1. mu[index[t]] = t /\ ListOf(t) \in Lists
      BY <1>2, <1>9, UnheadTakes DEF Unhead, InLock, At
  <2>2. InLock(u) => index[u] # index[t] /\ ListOf(u) # ListOf(t)
      BY <1>1, <1>3, <2>1
  <2>. QED BY <1>0, <1>9, <2>1, <2>2 DEF Unhead, Unlock, TypeOK
<1>10. CASE TakeChunk(t)
  <2>1. mu[index[t]] = t
      BY <1>2, <1>10 DEF TakeChunk, InLock, At
  <2>. QED BY <1>0, <1>1, <1>10, <2>1 DEF TakeChunk, Unlock, TypeOK
<1>11. CASE TakeNothing(t)
  <2>1. mu[index[t]] = t
      BY <1>2, <1>11 DEF TakeNothing, InLock, At
  <2>. QED BY <1>0, <1>1, <1>11, <2>1 DEF TakeNothing, Unlock, TypeOK
<1>12. CASE Malloc(t) BY <1>12 DEF Malloc
<1>13. CASE Zero(t)
  <2>1. HasMem(t)
      BY <1>13 DEF Zero, HasMem, At
  <2>2. At(u, "sethead") => mem[u] # mem[t]
      BY <1>4, <1>5, <2>1, MemApart
  <2>. QED BY <1>0, <1>13, <1>4, <1>5, <2>2 DEF Zero, TypeOK
<1>14. CASE FreeCall(t)
  <2>1. PICK e \in owned[t] : word' = [word EXCEPT ![e[1]] = Garbage]
      BY <1>14 DEF FreeCall
  <2>2. At(u, "sethead") => mem[u] # e[1]
      BY <1>4, <1>5, OwnedApart
  <2>. QED BY <1>0, <1>14, <1>4, <1>5, <2>1, <2>2 DEF FreeCall, TypeOK
<1>15. CASE FreeLock(t) BY <1>0, <1>1, <1>15 DEF FreeLock, LockFree, TypeOK
<1>16. CASE PutSmall(t)
  <2>1. HasMem(t)
      BY <1>16 DEF PutSmall, HasMem, At
  <2>2. At(u, "sethead") => mem[u] # mem[t]
      BY <1>4, <1>5, <2>1, MemApart
  <2>. QED BY <1>0, <1>16, <1>4, <1>5, <2>2 DEF PutSmall, TypeOK
<1>17. CASE SetHead(t)
  <2>1. mu[index[t]] = t
      BY <1>2, <1>17 DEF SetHead, InLock, At
  <2>2. InLock(u) => index[u] # index[t] /\ ListOf(u) # ListOf(t)
      BY <1>1, <1>3, <2>1
  <2>. QED BY <1>0, <1>17, <2>1, <2>2 DEF SetHead, Unlock, TypeOK
<1>18. CASE PutChunk(t)
  <2>1. mu[index[t]] = t
      BY <1>2, <1>18 DEF PutChunk, InLock, At
  <2>. QED BY <1>0, <1>1, <1>18, <2>1 DEF PutChunk, Unlock, TypeOK
<1>. QED
    BY <1>6, <1>7, <1>8, <1>9, <1>10, <1>11, <1>12, <1>13, <1>14, <1>15, <1>16, <1>17,
       <1>18 DEF Step

\* A step keeps what the local variables of all threads stand for.
LEMMA LocalsStep ==
    ASSUME IInv, NEW t \in Threads, Step(t)
    PROVE LocalsOk'
<1>0. TypeOK /\ LocalOk(t) /\ index[t] \in Cores /\ Null \notin Threads
    BY ConstantsOk DEF IInv, TypeOK, LocalsOk
<1>1. ASSUME NEW u \in Threads, u # t PROVE LocalOk(u)'
  <2>1. LocalOk(u)
      BY DEF IInv, LocalsOk
  <2>2. /\ pc'[u] = pc[u] /\ len'[u] = len[u] /\ mem'[u] = mem[u] /\ index'[u] = index[u]
        /\ ListOf(u)' = ListOf(u)
      BY <1>0, <1>1, OthersStep DEF ListOf
  <2>3. /\ InLock(u) => mu'[index[u]] = mu[index[u]]
        /\ InLock(u) /\ ListOf(u) \in Lists => recvlist'[ListOf(u)] = recvlist[ListOf(u)]
        /\ At(u, "sethead") => word'[mem[u]] = word[mem[u]]
      BY <1>1, OthersKeep
  <2>4. At(u, "unhead") \/ At(u, "sethead") => InLock(u) /\ ListOf(u) \in Lists
    <3>1. pc[u] # "idle" => len[u] \in Lengths
        BY <2>1 DEF LocalOk
    <3>2. At(u, "unhead") \/ At(u, "sethead") => Small(len[u])
        BY <2>1 DEF LocalOk, Reusable
    <3>. QED BY <1>0, <3>1, <3>2, ListOfType DEF At, InLock
  <2>. QED BY <2>1, <2>2, <2>3, <2>4 DEF LocalOk, HasMem, InLock, At
<1>2. LocalOk(t)'
  <2>i. ASSUME pc'[t] = "idle" PROVE LocalOk(t)'
      BY <2>i DEF LocalOk, HasMem, InLock, At
  <2>r. ASSUME Return(t) PROVE LocalOk(t)'
      BY <1>0, <2>i, <2>r DEF Return, Goto, TypeOK
  <2>n. ASSUME NextCore(t) PROVE pc'[t] \in {"try", "malloc"}
      BY <1>0, <2>n DEF NextCore, Goto, TypeOK
  <2>t. ASSUME pc'[t] \in {"try", "malloc", "ftry", "zero"}, len'[t] \in Lengths,
               HasMem(t)' => mem'[t] \in Blocks
        PROVE LocalOk(t)'
      BY <2>t DEF LocalOk, HasMem, InLock, At
  <2>1. CASE AllocCall(t)
      BY <1>0, <2>1, <2>t DEF AllocCall, Goto, TypeOK, HasMem
  <2>2. CASE AllocLock(t)
    <3>1. CASE LockFree(index[t]) /\ mu' = [mu EXCEPT ![index[t]] = t]
                /\ Goto(t, "search") /\ index' = index
        BY <1>0, <2>2, <3>1 DEF AllocLock, Goto, LocalOk, HasMem, InLock, At, TypeOK
    <3>2. CASE NextCore(t)
        BY <1>0, <2>2, <3>2, <2>n, <2>t DEF AllocLock, LocalOk, HasMem, At
    <3>. QED BY <2>2, <3>1, <3>2 DEF AllocLock
  <2>3. CASE TakeSmall(t)
    <3>1. /\ At(t, "search") /\ Reusable(len[t]) /\ recvlist[ListOf(t)] # Null
          /\ mem'[t] = recvlist[ListOf(t)] /\ pc'[t] = "unhead"
          /\ len' = len /\ index' = index /\ mu' = mu /\ recvlist' = recvlist
        BY <1>0, <2>3 DEF TakeSmall, Goto, TypeOK, poolVars
    <3>2. ListOf(t)' = ListOf(t)
        BY <3>1 DEF ListOf
    <3>. QED BY <1>0, <3>1, <3>2 DEF LocalOk, HasMem, InLock, At
  <2>4. CASE Unhead(t)
      BY <1>0, <2>4, <2>t, UnheadTakes DEF Unhead, Goto, LocalOk, At, TypeOK
  <2>5. CASE TakeChunk(t)
    <3>1. PICK e \in Found(t) : mem' = [mem EXCEPT ![t] = e[2]]
        BY <2>5 DEF TakeChunk
    <3>2. e[2] \in Blocks
        BY <1>0, <3>1 DEF Found, TypeOK
    <3>. QED BY <1>0, <2>5, <2>t, <3>1, <3>2 DEF TakeChunk, Goto, LocalOk, At, TypeOK
  <2>6. CASE TakeNothing(t)
      BY <1>0, <2>6, <2>n, <2>t DEF TakeNothing, LocalOk, HasMem, At
  <2>7. CASE Malloc(t)
    <3>1. PICK b \in heap : mem' = [mem EXCEPT ![t] = b]
        BY <2>7 DEF Malloc
    <3>2. b \in Blocks
        BY <1>0, BlockTypes DEF TypeOK
    <3>. QED BY <1>0, <2>7, <2>t, <3>1, <3>2 DEF Malloc, Goto, LocalOk, At, TypeOK
  <2>8. CASE Zero(t) BY <2>8, <2>r DEF Zero
  <2>9. CASE FreeCall(t)
    <3>1. PICK e \in owned[t] : /\ mem' = [mem EXCEPT ![t] = e[1]]
                                /\ len' = [len EXCEPT ![t] = e[2]]
        BY <2>9 DEF FreeCall
    <3>2. e[1] \in Blocks /\ e[2] \in Lengths
        BY <1>0 DEF TypeOK
    <3>. QED BY <1>0, <2>9, <2>t, <3>1, <3>2 DEF FreeCall, Goto, TypeOK
  <2>10. CASE FreeLock(t)
    <3>1. CASE LockFree(index[t]) /\ mu' = [mu EXCEPT ![index[t]] = t]
                /\ Goto(t, "put") /\ index' = index
        BY <1>0, <2>10, <3>1 DEF FreeLock, Goto, LocalOk, HasMem, InLock, At, TypeOK
    <3>2. CASE pc' = pc
        BY <1>0, <2>10, <3>2, <2>t DEF FreeLock, LocalOk, HasMem, At
    <3>. QED BY <2>10, <3>1, <3>2 DEF FreeLock
  <2>11. CASE PutSmall(t)
    <3>1. /\ At(t, "put") /\ Small(len[t]) /\ word'[mem[t]] = recvlist[ListOf(t)]
          /\ pc'[t] = "sethead" /\ mem' = mem
          /\ len' = len /\ index' = index /\ mu' = mu /\ recvlist' = recvlist
        BY <1>0, <2>11 DEF PutSmall, Goto, TypeOK, poolVars, LocalOk, HasMem, At
    <3>2. ListOf(t)' = ListOf(t)
        BY <3>1 DEF ListOf
    <3>. QED BY <1>0, <3>1, <3>2 DEF LocalOk, HasMem, InLock, At
  <2>12. CASE SetHead(t) BY <2>12, <2>r DEF SetHead
  <2>13. CASE PutChunk(t) BY <2>13, <2>r DEF PutChunk
  <2>. QED
      BY <2>1, <2>2, <2>3, <2>4, <2>5, <2>6, <2>7, <2>8, <2>9, <2>10, <2>11, <2>12, <2>13
      DEF Step
<1>. QED BY <1>1, <1>2 DEF LocalsOk

\* A block that serves a length has at least that many bytes.
LEMMA ServesSome ==
    ASSUME NEW n \in Lengths, NEW c \in Nat, Serves(c, n)
    PROVE c >= n /\ c # 0
<1>1. n \in Nat \ {0}
    BY ConstantsOk
<1>2. StdLen(n) \in Nat /\ StdLen(n) >= n
    BY <1>1, StdLenBounds
<1>3. c = StdLen(n) \/ c >= StdLen(n)
    BY DEF Serves
<1>. QED BY <1>1, <1>2, <1>3

\* What malloc has not returned is nowhere else.
LEMMA HeapApart ==
    ASSUME IInv, NEW b \in heap
    PROVE /\ \A l \in Lists : b \notin listed[l]
          /\ \A c \in Cores : \A e \in recvlistchunk[c] : e[2] # b
          /\ \A t \in Threads : b \notin Holds(t)
          /\ \A t \in Threads : \A e \in owned[t] : e[1] # b
          /\ \A t \in Threads : HasMem(t) => mem[t] # b
<1>0. TypeOK /\ capacity[b] = 0
    BY DEF IInv, SizesOk
<1>1. \A c \in Cores : \A e \in recvlistchunk[c] : e[2] # b
    BY <1>0 DEF IInv, SizesOk, TypeOK
<1>2. ASSUME NEW t \in Threads, NEW e \in owned[t] PROVE e[1] # b
    BY <1>0, ServesSome DEF IInv, SizesOk, TypeOK
<1>3. ASSUME NEW t \in Threads, HasMem(t) PROVE mem[t] # b
    BY <1>0, <1>3, ServesSome DEF IInv, SizesOk, TypeOK, LocalsOk, LocalOk, HasMem
<1>. QED BY <1>0, <1>1, <1>2, <1>3, SmallSizes

\* A step keeps the size of every block right for what the block is used for.
LEMMA SizesStep ==
    ASSUME IInv, NEW t \in Threads, Step(t)
    PROVE SizesOk'
<1>0. TypeOK /\ SizesOk /\ LocalOk(t) /\ index[t] \in Cores
    BY DEF IInv, TypeOK, LocalsOk
<1>l. len[t] # 0 => len[t] \in Lengths
    BY <1>0 DEF TypeOK
<1>o. ASSUME capacity' = capacity, heap' = heap, recvlistchunk' = recvlistchunk,
             \A l \in Lists : \A b \in listed'[l] : capacity[b] = Limit[l[2]],
             \A e \in owned'[t] : Serves(capacity[e[1]], e[2]),
             HasMem(t)' => Serves(capacity[mem'[t]], len'[t])
      PROVE SizesOk'
  <2>1. ASSUME NEW u \in Threads, u # t
        PROVE owned'[u] = owned[u] /\ HasMem(u)' = HasMem(u) /\ mem'[u] = mem[u] /\ len'[u] = len[u]
      BY <1>0, <2>1, OthersStep DEF HasMem
  <2>. QED BY <1>0, <1>o, <2>1 DEF SizesOk
<1>s. ASSUME capacity' = capacity, heap' = heap, recvlistchunk' = recvlistchunk,
             listed' = listed, owned' = owned,
             HasMem(t)' => HasMem(t) /\ mem'[t] = mem[t] /\ len'[t] = len[t]
      PROVE SizesOk'
    BY <1>0, <1>o, <1>s DEF SizesOk
<1>i. ASSUME capacity' = capacity, heap' = heap, recvlistchunk' = recvlistchunk,
             listed' = listed, owned' = owned, ~ HasMem(t)'
      PROVE SizesOk'
    BY <1>s, <1>i
<1>1. CASE AllocCall(t)
    BY <1>0, <1>1, <1>i DEF AllocCall, HasMem, Goto, TypeOK, poolVars, memVars
<1>2. CASE AllocLock(t)
    BY <1>0, <1>2, <1>i DEF AllocLock, NextCore, HasMem, Goto, TypeOK, poolVars, memVars
<1>3. CASE TakeSmall(t)
    BY <1>0, <1>3, <1>i DEF TakeSmall, HasMem, Goto, TypeOK, poolVars, memVars
<1>4. CASE Unhead(t)
  <2>1. /\ ListOf(t) \in Lists /\ mem[t] \in listed[ListOf(t)] /\ Small(len[t])
        /\ StdLen(len[t]) = Limit[ListOf(t)[2]]
      BY <1>4, UnheadTakes DEF Unhead
  <2>2. Serves(capacity[mem[t]], len[t])
      BY <1>0, <2>1 DEF SizesOk, Serves
  <2>3. \A l \in Lists : listed'[l] \subseteq listed[l]
      BY <1>0, <1>4 DEF Unhead, TypeOK
  <2>. QED BY <1>0, <1>4, <1>o, <2>2, <2>3 DEF Unhead, memVars, SizesOk
<1>5. CASE TakeChunk(t)
  <2>1. PICK e \in Found(t) : mem' = [mem EXCEPT ![t] = e[2]]
      BY <1>5 DEF TakeChunk
  <2>2. /\ e \in recvlistchunk[index[t]] /\ e[1] \in Nat /\ e[2] \in Blocks
        /\ e[1] >= StdLen(len[t]) /\ capacity[e[2]] >= e[1]
      BY <1>0, <2>1 DEF Found, SizesOk, TypeOK
  <2>3. capacity[e[2]] \in Nat /\ StdLen(len[t]) \in Nat /\ ~ Small(len[t])
    <3>1. len[t] \in Nat
        BY <1>0, <1>5, ConstantsOk DEF LocalOk, TakeChunk, At
    <3>. QED BY <1>0, <1>5, <2>2, <3>1, StdLenBounds DEF TypeOK, TakeChunk
  <2>4. capacity[e[2]] >= StdLen(len[t])
      BY <2>2, <2>3
  <2>5. Serves(capacity[e[2]], len[t])
      BY <2>3, <2>4 DEF Serves
  <2>. QED BY <1>0, <1>5, <1>o, <2>1, <2>5 DEF TakeChunk, TypeOK, poolVars, memVars, SizesOk
<1>6. CASE TakeNothing(t)
    BY <1>0, <1>6, <1>i DEF TakeNothing, NextCore, HasMem, Goto, TypeOK, poolVars, memVars
<1>7. CASE Malloc(t)
  <2>1. PICK b \in heap : /\ heap' = heap \ {b}
                          /\ capacity' = [capacity EXCEPT ![b] = StdLen(len[t])]
                          /\ mem' = [mem EXCEPT ![t] = b]
      BY <1>7 DEF Malloc
  <2>2. b \in Blocks /\ len[t] \in Nat
      BY <1>0, <1>7, BlockTypes, ConstantsOk DEF TypeOK, LocalOk, Malloc, At
  <2>3. StdLen(len[t]) \in Nat /\ capacity'[b] = StdLen(len[t])
      BY <1>0, <2>1, <2>2, StdLenBounds DEF TypeOK
  <2>4. Serves(capacity'[b], len[t])
      BY <2>3 DEF Serves
  <2>5. \A a \in Blocks : a # b => capacity'[a] = capacity[a]
      BY <1>0, <2>1, <2>2 DEF TypeOK
  <2>6. /\ recvlistchunk' = recvlistchunk /\ listed' = listed /\ owned' = owned /\ len' = len
        /\ mem'[t] = b
      BY <1>0, <1>7, <2>1 DEF Malloc, poolVars, TypeOK
  <2>7. \A a \in heap' : capacity'[a] = 0
      BY <1>0, <2>1, <2>5, BlockTypes DEF SizesOk, TypeOK
  <2>8. \A l \in Lists : \A a \in listed[l] : a \in Blocks /\ capacity'[a] = Limit[l[2]]
      BY <1>0, <2>1, <2>5, HeapApart DEF SizesOk, TypeOK
  <2>9. \A c \in Cores : \A e \in recvlistchunk[c] : e[1] > 65536 /\ capacity'[e[2]] >= e[1]
      BY <1>0, <2>1, <2>5, HeapApart DEF SizesOk, TypeOK
  <2>10. \A u \in Threads : \A e \in owned[u] : Serves(capacity'[e[1]], e[2])
      BY <1>0, <2>1, <2>5, HeapApart DEF SizesOk, TypeOK
  <2>11. ASSUME NEW u \in Threads, u # t, HasMem(u)' PROVE Serves(capacity'[mem'[u]], len'[u])
    <3>1. HasMem(u) /\ mem'[u] = mem[u] /\ len'[u] = len[u] /\ mem[u] \in Blocks
        BY <2>11, OthersStep DEF HasMem, IInv, LocalsOk, LocalOk
    <3>. QED BY <1>0, <2>1, <2>5, <3>1, HeapApart DEF SizesOk
  <2>. QED BY <2>4, <2>6, <2>7, <2>8, <2>9, <2>10, <2>11 DEF SizesOk
<1>8. CASE Zero(t)
  <2>1. HasMem(t) /\ ~ HasMem(t)'
      BY <1>0, <1>8 DEF Zero, Return, Goto, HasMem, At, TypeOK
  <2>2. owned'[t] = owned[t] \cup {<<mem[t], len[t]>>}
      BY <1>0, <1>8 DEF Zero, TypeOK
  <2>. QED BY <1>0, <1>8, <1>o, <2>1, <2>2 DEF Zero, poolVars, SizesOk
<1>9. CASE FreeCall(t)
  <2>1. PICK e \in owned[t] : /\ owned' = [owned EXCEPT ![t] = @ \ {e}]
                              /\ mem' = [mem EXCEPT ![t] = e[1]]
                              /\ len' = [len EXCEPT ![t] = e[2]]
      BY <1>9 DEF FreeCall
  <2>2. owned'[t] \subseteq owned[t] /\ mem'[t] = e[1] /\ len'[t] = e[2]
      BY <1>0, <2>1 DEF TypeOK
  <2>. QED BY <1>0, <1>9, <1>o, <2>2 DEF FreeCall, poolVars, SizesOk
<1>10. CASE FreeLock(t)
    BY <1>0, <1>10, <1>s DEF FreeLock, HasMem, At, poolVars, memVars
<1>11. CASE PutSmall(t)
    BY <1>0, <1>11, <1>s DEF PutSmall, HasMem, At, poolVars
<1>12. CASE SetHead(t)
  <2>1. HasMem(t) /\ Small(len[t]) /\ len[t] \in Lengths
      BY <1>0, <1>12 DEF SetHead, HasMem, LocalOk, At
  <2>2. ListOf(t) \in Lists /\ capacity[mem[t]] = Limit[ListOf(t)[2]]
      BY <1>0, <2>1, ListOfType DEF SizesOk, Serves
  <2>3. \A l \in Lists : \A b \in listed'[l] :
            b \in listed[l] \/ (l = ListOf(t) /\ b = mem[t])
      BY <1>0, <1>12, <2>2 DEF SetHead, TypeOK
  <2>4. ~ HasMem(t)'
      BY <1>0, <1>12 DEF SetHead, Return, Goto, HasMem, TypeOK
  <2>. QED BY <1>0, <1>12, <1>o, <2>2, <2>3, <2>4 DEF SetHead, memVars, SizesOk
<1>13. CASE PutChunk(t)
  <2>1. HasMem(t) /\ ~ Small(len[t]) /\ len[t] \in Nat
      BY <1>0, <1>13, ConstantsOk DEF PutChunk, HasMem, LocalOk, At
  <2>2. StdLen(len[t]) > 65536 /\ capacity[mem[t]] >= StdLen(len[t])
      BY <1>0, <2>1, StdLenBounds DEF SizesOk, Serves
  <2>3. \A c \in Cores : \A e \in recvlistchunk'[c] :
            e \in recvlistchunk[c] \/ e = <<StdLen(len[t]), mem[t]>>
      BY <1>0, <1>13 DEF PutChunk, TypeOK
  <2>4. \A c \in Cores : \A e \in recvlistchunk'[c] : e[1] > 65536 /\ capacity[e[2]] >= e[1]
      BY <1>0, <2>2, <2>3 DEF SizesOk
  <2>5. ~ HasMem(t)' /\ capacity' = capacity /\ heap' = heap /\ listed' = listed /\ owned' = owned
      BY <1>0, <1>13 DEF PutChunk, Return, Goto, HasMem, TypeOK, memVars
  <2>6. \A u \in Threads : HasMem(u)' => HasMem(u) /\ mem'[u] = mem[u] /\ len'[u] = len[u]
      BY <1>0, <2>5, OthersStep DEF HasMem
  <2>. QED BY <1>0, <2>4, <2>5, <2>6 DEF SizesOk
<1>. QED
    BY <1>1, <1>2, <1>3, <1>4, <1>5, <1>6, <1>7, <1>8, <1>9, <1>10, <1>11, <1>12, <1>13
    DEF Step

OwnsOnce(t) ==
    /\ \A e, f \in SmallOwned(t) : e[1] = f[1] => e = f
    /\ \A e \in SmallOwned(t) : e[1] \notin InHand(t)

\* Enough to look at the thread that steps, and at what it adds to free lists.
LEMMA ExclusiveFrame ==
    ASSUME IInv, NEW t \in Threads, Step(t),
           OwnsOnce(t)',
           \A u \in Threads : u # t => Holds(t)' \cap Holds(u) = {},
           \A l \in Lists : Holds(t)' \cap listed'[l] = {},
           \A u \in Threads : u # t => \A l \in Lists : Holds(u) \cap listed'[l] = {}
    PROVE SmallExclusive'
<1>1. ASSUME NEW u \in Threads, u # t
      PROVE Holds(u)' = Holds(u) /\ SmallOwned(u)' = SmallOwned(u) /\ InHand(u)' = InHand(u)
    BY <1>1, OthersStep DEF Holds, SmallOwned, InHand, IInv
<1>2. \A u \in Threads : OwnsOnce(u)'
    BY <1>1 DEF OwnsOnce, IInv, SmallExclusive
<1>3. \A u \in Threads : \A l \in Lists : Holds(u)' \cap listed'[l] = {}
    BY <1>1
<1>4. \A u, v \in Threads : u # v => Holds(u)' \cap Holds(v)' = {}
  <2>1. \A u, v \in Threads : u # v => Holds(u) \cap Holds(v) = {}
      BY DEF IInv, SmallExclusive
  <2>. QED BY <1>1, <2>1
<1>. QED BY <1>2, <1>3, <1>4 DEF SmallExclusive, OwnsOnce

\* A step that takes and gives nothing.
LEMMA ExclusiveSame ==
    ASSUME IInv, NEW t \in Threads, Step(t),
           OwnsOnce(t)', Holds(t)' \subseteq Holds(t), listed' = listed
    PROVE SmallExclusive'
<1>1. /\ \A u \in Threads : u # t => Holds(t) \cap Holds(u) = {}
      /\ \A u \in Threads : \A l \in Lists : Holds(u) \cap listed[l] = {}
    BY DEF IInv, SmallExclusive
<1>. QED BY <1>1, ExclusiveFrame

\* A step gives nobody memory of a small class that is somebody else's.
LEMMA ExclusiveStep ==
    ASSUME IInv, NEW t \in Threads, Step(t)
    PROVE SmallExclusive'
<1>0. TypeOK /\ LocalOk(t) /\ OwnsOnce(t)
    BY DEF IInv, LocalsOk, SmallExclusive, OwnsOnce
<1>e. /\ \A u \in Threads : u # t => Holds(t) \cap Holds(u) = {}
      /\ \A u \in Threads : \A l \in Lists : Holds(u) \cap listed[l] = {}
    BY DEF IInv, SmallExclusive
<1>h. ASSUME owned' = owned PROVE SmallOwned(t)' = SmallOwned(t)
    BY <1>h DEF SmallOwned
<1>s. ASSUME listed' = listed, owned' = owned, InHand(t)' \subseteq InHand(t)
      PROVE SmallExclusive'
  <2>1. OwnsOnce(t)' /\ Holds(t)' \subseteq Holds(t)
      BY <1>0, <1>h, <1>s DEF OwnsOnce, Holds
  <2>. QED BY <1>s, <2>1, ExclusiveSame
<1>n. ASSUME ~ HasMem(t)' \/ ~ Small(len'[t]) PROVE InHand(t)' = {}
    BY <1>n DEF InHand, HasMem
<1>1. CASE AllocCall(t)
    BY <1>0, <1>1, <1>s, <1>n DEF AllocCall, HasMem, Goto, TypeOK, poolVars, memVars
<1>2. CASE AllocLock(t)
    BY <1>0, <1>2, <1>s, <1>n DEF AllocLock, NextCore, HasMem, Goto, TypeOK, poolVars, memVars
<1>3. CASE TakeSmall(t)
    BY <1>0, <1>3, <1>s, <1>n DEF TakeSmall, HasMem, Goto, TypeOK, poolVars, memVars
<1>4. CASE Unhead(t)
  <2>1. /\ ListOf(t) \in Reused /\ ListOf(t) \in Lists /\ Small(len[t])
        /\ mem[t] \in listed[ListOf(t)]
      BY <1>4, UnheadTakes DEF Unhead
  <2>2. /\ listed' = [listed EXCEPT ![ListOf(t)] = @ \ {mem[t]}]
        /\ owned' = owned /\ mem' = mem /\ len' = len /\ pc'[t] = "zero"
      BY <1>0, <1>4 DEF Unhead, memVars, Goto, TypeOK
  <2>3. InHand(t)' = {mem[t]}
      BY <2>1, <2>2 DEF InHand
  <2>4. Holds(t)' \subseteq Holds(t) \cup {mem[t]}
      BY <1>h, <2>2, <2>3 DEF Holds
  <2>5. \A l \in Lists : listed'[l] \subseteq listed[l] /\ mem[t] \notin listed'[l]
    <3>1. \A l \in Lists : l # ListOf(t) => mem[t] \notin listed[l]
        BY <2>1 DEF IInv, ListsIntact
    <3>. QED BY <1>0, <2>2, <3>1 DEF TypeOK
  <2>6. \A u \in Threads : mem[t] \notin Holds(u)
      BY <1>e, <2>1
  <2>7. OwnsOnce(t)'
      BY <1>0, <1>h, <2>2, <2>3, <2>6 DEF OwnsOnce, Holds
  <2>. QED BY <1>e, <2>4, <2>5, <2>6, <2>7, ExclusiveFrame
<1>5. CASE TakeChunk(t)
    BY <1>0, <1>5, <1>s, <1>n DEF TakeChunk, poolVars, memVars
<1>6. CASE TakeNothing(t)
    BY <1>0, <1>6, <1>s, <1>n DEF TakeNothing, NextCore, HasMem, Goto, TypeOK, poolVars, memVars
<1>7. CASE Malloc(t)
  <2>1. PICK b \in heap : mem' = [mem EXCEPT ![t] = b]
      BY <1>7 DEF Malloc
  <2>2. owned' = owned /\ listed' = listed /\ mem'[t] = b
      BY <1>0, <1>7, <2>1 DEF Malloc, poolVars, TypeOK
  <2>3. InHand(t)' \subseteq {b}
      BY <2>2 DEF InHand
  <2>4. Holds(t)' \subseteq Holds(t) \cup {b}
      BY <1>h, <2>2, <2>3 DEF Holds
  <2>5. /\ \A l \in Lists : b \notin listed[l]
        /\ \A u \in Threads : b \notin Holds(u)
      BY HeapApart
  <2>6. OwnsOnce(t)'
      BY <1>0, <1>h, <2>2, <2>3, <2>5 DEF OwnsOnce, Holds
  <2>. QED BY <1>e, <2>2, <2>4, <2>5, <2>6, ExclusiveFrame
<1>8. CASE Zero(t)
  <2>1. /\ owned'[t] = owned[t] \cup {<<mem[t], len[t]>>} /\ listed' = listed
        /\ pc'[t] = "idle" /\ At(t, "zero")
      BY <1>0, <1>8 DEF Zero, Return, Goto, poolVars, TypeOK
  <2>2. InHand(t)' = {}
      BY <2>1 DEF InHand
  <2>3. CASE Small(len[t])
    <3>1. InHand(t) = {mem[t]}
        BY <2>1, <2>3 DEF InHand, At
    <3>2. SmallOwned(t)' = SmallOwned(t) \cup {<<mem[t], len[t]>>}
        BY <2>1, <2>3 DEF SmallOwned
    <3>3. Holds(t)' \subseteq Holds(t)
        BY <2>2, <3>1, <3>2 DEF Holds
    <3>4. OwnsOnce(t)'
        BY <1>0, <2>2, <3>1, <3>2 DEF OwnsOnce
    <3>. QED BY <2>1, <3>3, <3>4, ExclusiveSame
  <2>4. CASE ~ Small(len[t])
    <3>1. SmallOwned(t)' = SmallOwned(t)
        BY <2>1, <2>4 DEF SmallOwned
    <3>2. Holds(t)' \subseteq Holds(t) /\ OwnsOnce(t)'
        BY <1>0, <2>2, <3>1 DEF Holds, OwnsOnce
    <3>. QED BY <2>1, <3>2, ExclusiveSame
  <2>. QED BY <2>3, <2>4
<1>9. CASE FreeCall(t)
  <2>1. PICK e \in owned[t] : /\ owned' = [owned EXCEPT ![t] = @ \ {e}]
                              /\ mem' = [mem EXCEPT ![t] = e[1]]
                              /\ len' = [len EXCEPT ![t] = e[2]]
      BY <1>9 DEF FreeCall
  <2>2. owned'[t] = owned[t] \ {e} /\ mem'[t] = e[1] /\ len'[t] = e[2] /\ listed' = listed
      BY <1>0, <1>9, <2>1 DEF FreeCall, poolVars, TypeOK
  <2>3. SmallOwned(t)' = SmallOwned(t) \ {e} /\ (Small(e[2]) => e \in SmallOwned(t))
      BY <2>2 DEF SmallOwned
  <2>4. InHand(t)' \subseteq {e[1]} /\ (~ Small(e[2]) => InHand(t)' = {})
      BY <2>2 DEF InHand
  <2>5. Holds(t)' \subseteq Holds(t) /\ OwnsOnce(t)'
      BY <1>0, <2>3, <2>4 DEF Holds, OwnsOnce
  <2>. QED BY <2>2, <2>5, ExclusiveSame
<1>10. CASE FreeLock(t)
  <2>1. InHand(t)' \subseteq InHand(t)
      BY <1>0, <1>10 DEF FreeLock, InHand, At, memVars
  <2>. QED BY <1>10, <1>s, <2>1 DEF FreeLock, poolVars
<1>11. CASE PutSmall(t)
  <2>1. InHand(t)' \subseteq InHand(t)
      BY <1>0, <1>11 DEF PutSmall, InHand, At
  <2>. QED BY <1>11, <1>s, <2>1 DEF PutSmall, poolVars
<1>12. CASE SetHead(t)
  <2>1. HasMem(t) /\ Small(len[t]) /\ InHand(t) = {mem[t]}
      BY <1>0, <1>12 DEF SetHead, HasMem, LocalOk, At, InHand
  <2>2. owned' = owned /\ InHand(t)' = {} /\ listed' = [listed EXCEPT ![ListOf(t)] = @ \cup {mem[t]}]
      BY <1>0, <1>12 DEF SetHead, Return, Goto, InHand, TypeOK, memVars
  <2>3. \A l \in Lists : listed'[l] \subseteq listed[l] \cup {mem[t]}
      BY <1>0, <2>2 DEF TypeOK
  <2>4. \A u \in Threads : u # t => mem[t] \notin Holds(u)
      BY <2>1, MemApart
  <2>5. Holds(t)' \subseteq Holds(t) \ {mem[t]} /\ OwnsOnce(t)'
      BY <1>0, <1>h, <2>1, <2>2 DEF Holds, OwnsOnce
  <2>. QED BY <1>e, <2>3, <2>4, <2>5, ExclusiveFrame
<1>13. CASE PutChunk(t)
    BY <1>0, <1>13, <1>s, <1>n DEF PutChunk, Return, Goto, HasMem, TypeOK, memVars
<1>. QED
    BY <1>1, <1>2, <1>3, <1>4, <1>5, <1>6, <1>7, <1>8, <1>9, <1>10, <1>11, <1>12, <1>13
    DEF Step

\* A write outside the free lists.
LEMMA IntactSame ==
    ASSUME IInv, recvlist' = recvlist, listed' = listed,
           \A l \in Lists : \A b \in listed[l] : word'[b] = word[b]
    PROVE ListsIntact'
BY DEF IInv, ListsIntact, Reused

\* A step leaves every free list linked.
LEMMA IntactStep ==
    ASSUME IInv, NEW t \in Threads, Step(t)
    PROVE ListsIntact'
<1>0. TypeOK /\ LocalOk(t) /\ ListsIntact
    BY DEF IInv, LocalsOk
<1>1. ASSUME recvlist' = recvlist, listed' = listed, word' = word PROVE ListsIntact'
    BY <1>1, IntactSame
<1>2. CASE AllocCall(t) BY <1>1, <1>2 DEF AllocCall, poolVars, memVars
<1>3. CASE AllocLock(t) BY <1>1, <1>3 DEF AllocLock, poolVars, memVars
<1>4. CASE TakeSmall(t) BY <1>1, <1>4 DEF TakeSmall, poolVars, memVars
<1>5. CASE Unhead(t)
  <2>1. /\ ListOf(t) \in Reused /\ ListOf(t) \in Lists
        /\ mem[t] \in listed[ListOf(t)] /\ mem[t] \in Blocks
        /\ mem[t] = recvlist[ListOf(t)]
      BY <1>0, <1>5, UnheadTakes DEF Unhead, LocalOk
  <2>2. /\ word' = word
        /\ \A l \in Lists : l # ListOf(t) => recvlist'[l] = recvlist[l] /\ listed'[l] = listed[l]
        /\ recvlist'[ListOf(t)] = word[mem[t]]
        /\ listed'[ListOf(t)] = listed[ListOf(t)] \ {mem[t]}
      BY <1>0, <1>5, <2>1 DEF Unhead, TypeOK, memVars
  <2>3. ASSUME NEW b \in listed[ListOf(t)], b # mem[t]
        PROVE word[b] # mem[t] /\ word[b] # word[mem[t]]
      BY <1>0, <2>1, <2>3 DEF ListsIntact
  <2>4. word[mem[t]] # mem[t]
      BY <1>0, <2>1 DEF ListsIntact
  <2>. QED BY <1>0, <2>1, <2>2, <2>3, <2>4 DEF ListsIntact, Reused
<1>6. CASE TakeChunk(t) BY <1>1, <1>6 DEF TakeChunk, poolVars, memVars
<1>7. CASE TakeNothing(t) BY <1>1, <1>7 DEF TakeNothing, poolVars, memVars
<1>8. CASE Malloc(t) BY <1>1, <1>8 DEF Malloc, poolVars
<1>9. CASE Zero(t)
  <2>1. HasMem(t)
      BY <1>9 DEF Zero, HasMem, At
  <2>2. \A l \in Lists : \A b \in listed[l] : b \in Blocks /\ b # mem[t]
      BY <1>0, <2>1, MemApart DEF TypeOK
  <2>. QED BY <1>0, <1>9, <2>2, IntactSame DEF Zero, poolVars, TypeOK
<1>10. CASE FreeCall(t)
  <2>1. PICK e \in owned[t] : word' = [word EXCEPT ![e[1]] = Garbage]
      BY <1>10 DEF FreeCall
  <2>2. \A l \in Lists : \A b \in listed[l] : b \in Blocks /\ b # e[1]
      BY <1>0, OwnedApart DEF TypeOK
  <2>. QED BY <1>0, <1>10, <2>1, <2>2, IntactSame DEF FreeCall, poolVars, TypeOK
<1>11. CASE FreeLock(t) BY <1>1, <1>11 DEF FreeLock, poolVars, memVars
<1>12. CASE PutSmall(t)
  <2>1. HasMem(t)
      BY <1>12 DEF PutSmall, HasMem, At
  <2>2. \A l \in Lists : \A b \in listed[l] : b \in Blocks /\ b # mem[t]
      BY <1>0, <2>1, MemApart DEF TypeOK
  <2>. QED BY <1>0, <1>12, <2>2, IntactSame DEF PutSmall, poolVars, TypeOK
<1>13. CASE SetHead(t)
  <2>1. /\ HasMem(t) /\ Small(len[t]) /\ len[t] \in Lengths
        /\ word[mem[t]] = recvlist[ListOf(t)] /\ mem[t] \in Blocks
      BY <1>0, <1>13 DEF SetHead, HasMem, LocalOk, At
  <2>2. ListOf(t) \in Lists
      BY <1>0, <2>1, ListOfType
  <2>3. /\ word' = word
        /\ \A l \in Lists : l # ListOf(t) => recvlist'[l] = recvlist[l] /\ listed'[l] = listed[l]
        /\ recvlist'[ListOf(t)] = mem[t]
        /\ listed'[ListOf(t)] = listed[ListOf(t)] \cup {mem[t]}
      BY <1>0, <1>13, <2>2 DEF SetHead, TypeOK, memVars
  <2>4. mem[t] # Null /\ \A l \in Lists : mem[t] \notin listed[l]
      BY <2>1, MemApart, BlockTypes
  <2>5. ASSUME NEW l \in Reused, l # ListOf(t)
        PROVE /\ recvlist'[l] = recvlist[l] /\ listed'[l] = listed[l] /\ l \in Lists
              /\ \A m \in Lists \ {l} : listed'[l] \cap listed'[m] = {}
      BY <1>0, <2>3, <2>4, <2>5 DEF ListsIntact, Reused
  <2>6. ASSUME ListOf(t) \in Reused
        PROVE /\ \A b \in listed[ListOf(t)] :
                    /\ word[b] \in listed[ListOf(t)] \cup {Null}
                    /\ word[b] # word[mem[t]] /\ word[b] # mem[t]
              /\ word[mem[t]] \in listed[ListOf(t)] \cup {Null} /\ word[mem[t]] # mem[t]
              /\ \A m \in Lists \ {ListOf(t)} : listed'[ListOf(t)] \cap listed'[m] = {}
      BY <1>0, <2>1, <2>2, <2>3, <2>4, <2>6 DEF ListsIntact
  <2>7. ASSUME NEW l \in Reused, l # ListOf(t), NEW b \in listed'[l]
        PROVE /\ recvlist'[l] \in listed'[l] \cup {Null}
              /\ word'[b] \in listed'[l] \cup {Null} /\ word'[b] # recvlist'[l]
              /\ \A c \in listed'[l] : word'[b] = word'[c] => b = c
      BY <1>0, <2>3, <2>5, <2>7 DEF ListsIntact
  <2>8. ASSUME NEW l \in Reused, l = ListOf(t), NEW b \in listed'[l]
        PROVE /\ recvlist'[l] \in listed'[l] \cup {Null}
              /\ word'[b] \in listed'[l] \cup {Null} /\ word'[b] # recvlist'[l]
              /\ \A c \in listed'[l] : word'[b] = word'[c] => b = c
    <3>1. \A c, d \in listed[l] : word[c] = word[d] => c = d
        BY <1>0, <2>8 DEF ListsIntact
    <3>. QED BY <2>3, <2>6, <2>8, <3>1
  <2>9. \A l \in Reused : recvlist'[l] \in listed'[l] \cup {Null}
      BY <1>0, <2>3, <2>5 DEF ListsIntact
  <2>. QED BY <2>5, <2>6, <2>7, <2>8, <2>9 DEF ListsIntact, Reused
<1>14. CASE PutChunk(t) BY <1>1, <1>14 DEF PutChunk, poolVars, memVars
<1>. QED
    BY <1>2, <1>3, <1>4, <1>5, <1>6, <1>7, <1>8, <1>9, <1>10, <1>11, <1>12, <1>13, <1>14 DEF Step

\* The invariant is inductive.
LEMMA StepIInv ==
    ASSUME IInv, [Next]_vars
    PROVE IInv'
<1>1. ASSUME NEW t \in Threads, Step(t) PROVE IInv'
    BY <1>1, TypeStep, LocalsStep, SizesStep, ExclusiveStep, IntactStep DEF IInv
<1>2. CASE UNCHANGED vars
  <2> USE <1>2 DEF vars, poolVars, memVars, IInv
  <2>1. TypeOK'
      BY DEF TypeOK
  <2>2. LocalsOk'
      BY DEF LocalsOk, LocalOk, HasMem, InLock, At, ListOf
  <2>3. SizesOk'
      BY DEF SizesOk, HasMem
  <2>4. SmallExclusive'
    <3>1. \A t \in Threads : SmallOwned(t)' = SmallOwned(t) /\ InHand(t)' = InHand(t)
        BY DEF SmallOwned, InHand
    <3>2. \A t \in Threads : Holds(t)' = Holds(t)
        BY <3>1 DEF Holds
    <3>. QED BY <3>1, <3>2 DEF SmallExclusive
  <2>5. ListsIntact'
      BY IntactSame
  <2>. QED BY <2>1, <2>2, <2>3, <2>4, <2>5
<1>. QED BY <1>1, <1>2 DEF Next

-----------------------------------------------------------------------------
(* Theorems *)

\* The inductive invariant holds in every state of the program.
THEOREM Invariance == Spec => []IInv
<1>. QED BY InitIInv, StepIInv, PTL DEF Spec

\* The variables of mempool.cpp keep their types; in particular an index never
\* leaves the processors and a list never leads to a user's data.
THEOREM Typing == Spec => []TypeOK
<1>1. IInv => TypeOK
    BY DEF IInv
<1>. QED BY <1>1, Invariance, PTL

\* Memory of 64K or less is never handed out twice, nor while it is in a free
\* list, whichever threads run allocator and deallocator on whichever mutexes.
THEOREM SmallMemoryExclusive == Spec => []SmallExclusive
<1>1. IInv => SmallExclusive
    BY DEF IInv
<1>. QED BY <1>1, Invariance, PTL

\* The links through the first words of free memory stay those of lists.
THEOREM FreeListsIntact == Spec => []ListsIntact
<1>1. IInv => ListsIntact
    BY DEF IInv
<1>. QED BY <1>1, Invariance, PTL

\* allocator never returns less than it was asked for, whether the block is new,
\* from a free list or a chunk of some other request.
THEOREM AllocatedBigEnough == Spec => []BigEnough
<1>1. IInv => BigEnough
  <2> SUFFICES ASSUME IInv, NEW t \in Threads, NEW e \in owned[t]
               PROVE capacity[e[1]] >= e[2]
      BY DEF BigEnough
  <2>1. e[1] \in Blocks /\ e[2] \in Lengths /\ capacity[e[1]] \in Nat /\ Serves(capacity[e[1]], e[2])
      BY DEF IInv, TypeOK, SizesOk
  <2>. QED BY <2>1, ServesSome
<1>. QED BY <1>1, Invariance, PTL
=============================================================================
