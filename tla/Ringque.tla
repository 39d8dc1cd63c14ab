------------------------------ MODULE Ringque -------------------------------
(***************************************************************************)
(* container/ringque.h: a ring of atomic pointers between two slides.  A   *)
(* push claims the cell at _push_slide, then fills it; a pop claims the    *)
(* cell at _pop_slide, then empties it.  Both hold _mu shared; a push that *)
(* finds the ring full gives it up and doubles the ring under the unique   *)
(* lock, if it can have it.  _pop_slide runs from 1 to _que_max where      *)
(* _push_slide runs from 0 to _que_max - 1: a push that would make them    *)
(* equal finds the ring full, and slides that name one cell mean empty.    *)
(*                                                                         *)
(* One step is one access to shared memory.  Calls of a kind that overlap  *)
(* can mislead each other: a pop whose compare_exchange fails goes on with *)
(* the slidetail of the slide it has lost, a push tests a slide that       *)
(* others have moved.  misled says when one of them has acted on that.     *)
(***************************************************************************)
EXTENDS Integers, FiniteSets

CONSTANTS
    Pushers, Poppers,
    Values,
    Null,           \* an empty cell; no element
    DetailSize,     \* detailsize: the cells of a new ring, 1024
    MaxElements,    \* bound: no push starts with as many elements in the ring
    SizeMod         \* _size wraps around here: 2^32

Threads == Pushers \cup Poppers

ASSUME ConstantsOk ==
    /\ Pushers \cap Poppers = {}
    /\ Null \notin Values \cup Threads
    /\ DetailSize \in Nat \ {0}
    /\ MaxElements \in Nat
    /\ SizeMod \in Nat \ {0}

VARIABLES
    que, que_max,           \* the cells 0..que_max-1, and how many there are
    push_slide, pop_slide,
    size,
    readers, writer,        \* who holds _mu shared, who uniquely
    pc,
    slide,                  \* the slide a thread last read
    tail,                   \* pop: slidetail
    item,                   \* push: the element; pop: what data was assigned
    crowded,                \* history: calls of a kind have overlapped
    misled                  \* history: a call has acted on slides that were not so any more

ringVars == <<que, que_max>>
slideVars == <<push_slide, pop_slide>>
muVars == <<readers, writer>>
callVars == <<slide, tail, item>>
histVars == <<crowded, misled>>
vars == <<ringVars, slideVars, size, muVars, callVars, histVars, pc>>

Labels ==
    {"idle", "lock", "load", "full", "try", "resize", "relock", "claim", "fill", "pcount",
     "poplock", "popload", "test", "move", "take", "count", "return"}

TypeOK ==
    /\ que_max \in Nat \ {0}
    /\ que \in [0..(que_max - 1) -> Values \cup {Null}]
    /\ push_slide \in 0..(que_max - 1)
    /\ pop_slide \in 1..que_max
    /\ size \in 0..(SizeMod - 1)
    /\ readers \subseteq Threads
    /\ writer \in Threads \cup {Null}
    /\ pc \in [Threads -> Labels]
    /\ slide \in [Threads -> Nat]
    /\ tail \in [Threads -> Nat]
    /\ item \in [Threads -> Values \cup {Null}]
    /\ crowded \in BOOLEAN /\ misled \in BOOLEAN

Init ==
    /\ que_max = DetailSize
    /\ que = [i \in 0..(DetailSize - 1) |-> Null]
    /\ push_slide = 0
    /\ pop_slide = DetailSize
    /\ size = 0
    /\ readers = {}
    /\ writer = Null
    /\ pc = [t \in Threads |-> "idle"]
    /\ slide = [t \in Threads |-> 0]
    /\ tail = [t \in Threads |-> 0]
    /\ item = [t \in Threads |-> Null]
    /\ crowded = FALSE
    /\ misled = FALSE

At(t, label) == pc[t] = label
Goto(t, label) == pc' = [pc EXCEPT ![t] = label]

\* The first cell in use: que_max and 0 name the same one (132, 158).
First == IF pop_slide = que_max THEN 0 ELSE pop_slide
Elements == (push_slide - First) % que_max

\* Who has claimed a cell, and not filled or emptied it yet.
Filling(i) == {t \in Pushers : At(t, "fill") /\ slide[t] = i}
Taking(i) == {t \in Poppers : At(t, "take") /\ tail[t] = i}

Crowd(ts, t) == crowded' = (crowded \/ \E u \in ts \ {t} : pc[u] # "idle")
Mislead(stale) == misled' = (misled \/ stale)

\* shared_lock: waits for the unique lock only.
LockShared(t) ==
    /\ writer = Null
    /\ readers' = readers \cup {t}
    /\ UNCHANGED writer
UnlockShared(t) ==
    /\ readers' = readers \ {t}
    /\ UNCHANGED writer

-----------------------------------------------------------------------------
(* push: 87-123 *)

PushCall(t) ==
    /\ At(t, "idle")
    /\ Elements < MaxElements
    /\ \E v \in Values : item' = [item EXCEPT ![t] = v]
    /\ Crowd(Pushers, t)
    /\ Goto(t, "lock")
    /\ UNCHANGED <<ringVars, slideVars, size, muVars, slide, tail, misled>>

PushLock(t) ==
    /\ At(t, "lock")
    /\ LockShared(t)
    /\ Goto(t, "load")
    /\ UNCHANGED <<ringVars, slideVars, size, callVars, histVars>>

PushLoad(t) ==
    /\ At(t, "load")
    /\ slide' = [slide EXCEPT ![t] = push_slide]
    /\ Goto(t, "full")
    /\ UNCHANGED <<ringVars, slideVars, size, muVars, tail, item, histVars>>

Full(t) == slide[t] + 1 = pop_slide

\* Mutant: the shared lock is kept while the unique one is tried.
PushTestKeep(t) ==
    /\ At(t, "full")
    /\ Goto(t, IF Full(t) THEN "try" ELSE "claim")
    /\ UNCHANGED <<ringVars, slideVars, size, muVars, callVars, histVars>>

PushTest(t) ==
    /\ At(t, "full")
    /\ \/ /\ Full(t)
          /\ UnlockShared(t)
          /\ Goto(t, "try")
       \/ /\ ~ Full(t)
          /\ Goto(t, "claim")
          /\ UNCHANGED muVars
    /\ UNCHANGED <<ringVars, slideVars, size, callVars, histVars>>

PushTry(t) ==
    /\ At(t, "try")
    /\ \/ /\ readers = {} /\ writer = Null
          /\ writer' = t
          /\ Goto(t, "resize")
       \/ /\ ~ (readers = {} /\ writer = Null)
          /\ Goto(t, "relock")
          /\ UNCHANGED writer
    /\ UNCHANGED <<ringVars, slideVars, size, readers, callVars, histVars>>

\* Mutant: the cells behind _pop_slide stay where they are.
DoubledInPlace ==
    [i \in 0..(2 * que_max - 1) |-> IF i < que_max THEN que[i] ELSE Null]

\* The ring of twice the size (154-179): the cells from _pop_slide on move to
\* its end, the others keep their place.
Doubled ==
    [i \in 0..(2 * que_max - 1) |->
        CASE pop_slide >= push_slide /\ i < push_slide -> que[i]
          [] pop_slide >= push_slide /\ i >= que_max + pop_slide -> que[i - que_max]
          [] pop_slide < push_slide /\ i \in pop_slide..(push_slide - 1) -> que[i]
          [] OTHER -> Null]

\* Under the unique lock the slides are looked at once more (100).
PushResize(t) ==
    /\ At(t, "resize")
    /\ \/ /\ Full(t)
          /\ que' = Doubled
          /\ que_max' = 2 * que_max
          /\ pop_slide' = IF pop_slide >= push_slide THEN pop_slide + que_max ELSE pop_slide
          /\ Mislead(pop_slide = push_slide)
       \/ /\ ~ Full(t)
          /\ UNCHANGED <<ringVars, pop_slide, misled>>
    /\ writer' = Null
    /\ Goto(t, "relock")
    /\ UNCHANGED <<push_slide, size, readers, callVars, crowded>>

\* Mutant: the slides are not looked at again once the shared lock is back.
PushRelockClaim(t) ==
    /\ At(t, "relock")
    /\ LockShared(t)
    /\ Goto(t, "claim")
    /\ UNCHANGED <<ringVars, slideVars, size, callVars, histVars>>

PushRelock(t) ==
    /\ At(t, "relock")
    /\ LockShared(t)
    /\ Goto(t, "full")
    /\ UNCHANGED <<ringVars, slideVars, size, callVars, histVars>>

Succ(i) == IF i + 1 = que_max THEN 0 ELSE i + 1

PushClaim(t) ==
    /\ At(t, "claim")
    /\ \/ /\ push_slide = slide[t]
          /\ push_slide' = Succ(slide[t])
          /\ Mislead(Full(t) \/ Filling(slide[t]) # {})
          /\ Goto(t, "fill")
          /\ UNCHANGED slide
       \/ /\ push_slide # slide[t]
          /\ slide' = [slide EXCEPT ![t] = push_slide]
          /\ Goto(t, "full")
          /\ UNCHANGED <<push_slide, misled>>
    /\ UNCHANGED <<ringVars, pop_slide, size, muVars, tail, item, crowded>>

\* The compare_exchange from 0 is repeated until the cell has been emptied (116).
PushFill(t) ==
    /\ At(t, "fill")
    /\ que[slide[t]] = Null
    /\ que' = [que EXCEPT ![slide[t]] = item[t]]
    /\ Goto(t, "pcount")
    /\ UNCHANGED <<que_max, slideVars, size, muVars, callVars, histVars>>

PushCount(t) ==
    /\ At(t, "pcount")
    /\ size' = (size + 1) % SizeMod
    /\ Goto(t, "return")
    /\ UNCHANGED <<ringVars, slideVars, muVars, callVars, histVars>>

-----------------------------------------------------------------------------
(* pop: 128-151 *)

PopCall(t) ==
    /\ At(t, "idle")
    /\ Crowd(Poppers, t)
    /\ Goto(t, "poplock")
    /\ UNCHANGED <<ringVars, slideVars, size, muVars, callVars, misled>>

PopLock(t) ==
    /\ At(t, "poplock")
    /\ LockShared(t)
    /\ Goto(t, "popload")
    /\ UNCHANGED <<ringVars, slideVars, size, callVars, histVars>>

PopLoad(t) ==
    /\ At(t, "popload")
    /\ slide' = [slide EXCEPT ![t] = pop_slide]
    /\ tail' = [tail EXCEPT ![t] = First]
    /\ Goto(t, "test")
    /\ UNCHANGED <<ringVars, slideVars, size, muVars, item, histVars>>

\* Mutant: a pop that finds nothing still decrements _size.
PopTestCount(t) ==
    /\ At(t, "test")
    /\ Goto(t, IF tail[t] = push_slide THEN "count" ELSE "move")
    /\ Mislead(tail[t] = push_slide /\ First # push_slide)
    /\ UNCHANGED <<ringVars, slideVars, size, muVars, callVars, crowded>>

PopTest(t) ==
    /\ At(t, "test")
    /\ Goto(t, IF tail[t] = push_slide THEN "return" ELSE "move")
    /\ Mislead(tail[t] = push_slide /\ First # push_slide)
    /\ UNCHANGED <<ringVars, slideVars, size, muVars, callVars, crowded>>

\* A failure changes slide, and neither slidetail nor newslide (141).
PopMove(t) ==
    /\ At(t, "move")
    /\ \/ /\ pop_slide = slide[t]
          /\ pop_slide' = tail[t] + 1
          /\ Mislead(tail[t] # First \/ First = push_slide \/ Taking(tail[t]) # {})
          /\ Goto(t, "take")
          /\ UNCHANGED slide
       \/ /\ pop_slide # slide[t]
          /\ slide' = [slide EXCEPT ![t] = pop_slide]
          /\ Goto(t, "test")
          /\ UNCHANGED <<pop_slide, misled>>
    /\ UNCHANGED <<ringVars, push_slide, size, muVars, tail, item, crowded>>

\* Mutant: a load instead of the exchange.
PopTakeLoad(t) ==
    /\ At(t, "take")
    /\ que[tail[t]] # Null
    /\ item' = [item EXCEPT ![t] = que[tail[t]]]
    /\ Goto(t, "count")
    /\ UNCHANGED <<ringVars, slideVars, size, muVars, slide, tail, histVars>>

\* The exchange with 0 is repeated until the cell has been filled (142).
PopTake(t) ==
    /\ At(t, "take")
    /\ que[tail[t]] # Null
    /\ item' = [item EXCEPT ![t] = que[tail[t]]]
    /\ que' = [que EXCEPT ![tail[t]] = Null]
    /\ Goto(t, "count")
    /\ UNCHANGED <<que_max, slideVars, size, muVars, slide, tail, histVars>>

PopCount(t) ==
    /\ At(t, "count")
    /\ size' = (size - 1) % SizeMod
    /\ Goto(t, "return")
    /\ UNCHANGED <<ringVars, slideVars, muVars, callVars, histVars>>

-----------------------------------------------------------------------------

\* The lock and the local variables go out of scope.
Return(t) ==
    /\ At(t, "return")
    /\ UnlockShared(t)
    /\ slide' = [slide EXCEPT ![t] = 0]
    /\ tail' = [tail EXCEPT ![t] = 0]
    /\ item' = [item EXCEPT ![t] = Null]
    /\ Goto(t, "idle")
    /\ UNCHANGED <<ringVars, slideVars, size, histVars>>

PushStep(t) ==
    \/ PushCall(t) \/ PushLock(t) \/ PushLoad(t) \/ PushTest(t) \/ PushTry(t)
    \/ PushResize(t) \/ PushRelock(t) \/ PushClaim(t) \/ PushFill(t) \/ PushCount(t)
    \/ Return(t)

PopStep(t) ==
    \/ PopCall(t) \/ PopLock(t) \/ PopLoad(t) \/ PopTest(t) \/ PopMove(t)
    \/ PopTake(t) \/ PopCount(t) \/ Return(t)

Next == (\E t \in Pushers : PushStep(t)) \/ (\E t \in Poppers : PopStep(t))

Spec == Init /\ [][Next]_vars

\* Every thread inside a call is scheduled again; none has to start a call.
Fairness ==
    /\ \A t \in Pushers : WF_vars(PushStep(t) /\ pc[t] # "idle")
    /\ \A t \in Poppers : WF_vars(PopStep(t) /\ pc[t] # "idle")
FairSpec == Spec /\ Fairness

-----------------------------------------------------------------------------
(* Properties *)

Cell(n) == (First + n) % que_max
InRing == {Cell(n) : n \in 0..(Elements - 1)}

\* What the cell claimed by a push holds, or will hold.
Coming(i) ==
    IF Filling(i) # {} THEN item[CHOOSE t \in Pushers : t \in Filling(i)] ELSE que[i]
\* What the pop that claimed the cell gets: what is there now, unless nothing is.
Leaving(i) == IF que[i] # Null THEN que[i] ELSE Coming(i)

Abstract == INSTANCE LinQueue WITH
    Clearers <- {},
    Nothing <- Null,
    queue <- [n \in 1..Elements |-> Coming(Cell(n - 1))],
    state <- [t \in Threads |->
                IF At(t, "idle") THEN "idle"
                ELSE IF pc[t] \in {"fill", "pcount", "take", "count", "return"} THEN "done"
                ELSE "called"],
    item <- [t \in Threads |-> IF At(t, "take") THEN Leaving(tail[t]) ELSE item[t]]

\* Until a call is misled ringque is a linearizable FIFO queue, for any number of
\* threads, also when the ring wraps around and is replaced by a larger one.
Linearizable ==
    /\ Abstract!Init
    /\ [][misled' \/ Abstract!Next]_(Abstract!vars)

\* The cells between the slides hold an element each, or are being filled; the
\* others are empty but for those a pop has claimed.  No cell has two claims of
\* a kind, and no one has a claim while the ring is replaced.
RingHolds ==
    /\ ~ misled => \A i \in 0..(que_max - 1) :
          /\ i \in InRing /\ que[i] = Null => Filling(i) # {}
          /\ i \notin InRing /\ que[i] # Null => Taking(i) # {}
          /\ Cardinality(Filling(i)) <= 1 /\ Cardinality(Taking(i)) <= 1
    /\ writer # Null => \A i \in 0..(que_max - 1) : Filling(i) \cup Taking(i) = {}

CountDue == Cardinality({t \in Pushers : pc[t] \in {"fill", "pcount"}})
DiscountDue == Cardinality({t \in Poppers : pc[t] \in {"take", "count"}})

\* _size is the number of elements, but for the calls that have claimed a cell
\* and not counted yet: when all have returned, size() is exact.
SizeCounts ==
    /\ TypeOK
    /\ ~ misled => size = (Elements - CountDue + DiscountDue) % SizeMod

\* A push and a pop never mislead each other, whatever the slides and the ring do in
\* between: calls are misled by others of their kind only.
KindsApart == misled => crowded

\* Nobody waits for ever for a cell, for the lock or for room in the ring, as long as
\* calls of a kind do not overlap.
CallsReturn == \A t \in Threads : pc[t] # "idle" ~> At(t, "idle") \/ crowded
=============================================================================
