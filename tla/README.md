# A TLA+ model of Fossilizid

Fossilizid is a C++ library of server building blocks: lock-free containers with
hazard pointers, a per-processor memory pool, fibers, an RPC service (juggle)
with a stub generator, and a queue of network events over Windows completion
ports.  This directory models its concurrent core in TLA+, checks the models
with TLC and proves safety theorems about them with TLAPS.  Paths below are
relative to `src/`.

Contents: 1 inventory, 2 plan, 3 modules and their correspondence to the code,
4 runs, bounds and fairness, 5 theorems, 6 what disagrees with the code's own
words, 7 what is not modelled.

## 1. Inventory

| component | state | operations | what is hard |
|---|---|---|---|
| hazard pointers, `container/detail/_hazard_ptr.h` | a list of slots (`_hazard`, `active`, `next`) that only grows, `llen`, eight recover lists with a try-lock each | `acquire`, `release`, `retire` (scan, sweep, push_back) | the push is torn: head first, `next` after; `_hazard` is a plain field; a sweep against late publications |
| msque, `container/msque.h` | list record (`_begin`, `_end`, `_size`), nodes | `push`, `pop`, `size`, `empty`, `clear` | compare-and-swap races, ABA through the node pool, `_size` behind the list, `clear` frees the record in use |
| ringque, `container/ringque.h` | ring of atomic pointers, `_push_slide`, `_pop_slide`, `_que_max`, `_size`, shared mutex | `push` (with `resize`), `pop`, `clear` | slide claimed before the cell is filled, resize between two locks, 0 and `_que_max` name one cell |
| swapque, `container/swapque.h` | two inner lists, front and back, `_size`, shared mutex | `push`, `pop` (with swap), `clear` | swap without a second look, `_end` exchanged before `next` is stored, pushes counted in another order than they append |
| optimisticque, `container/optimisticque.h` | doubly linked list repaired by pop | `push`, `pop`, `clear` | stale null after a repair |
| small_hash_map, `container/small_hash_map.h` | buckets, each with a map made by its first insert and a lock; a lock per value; `_size` | `insert`, `set`, `search`, `erase`, `for_each`, `size` | the lock of the first insert is released at the end of the block that creates the map; values written under a shared lock; iterators across locks; a signed hash |
| mempool, `pool/mempool.cpp` | per processor: mutex, eleven free lists, a map of chunks | `allocator`, `deallocator` | try-lock chains, links kept in the memory itself, chunks never leave the map |
| objpool, factory, `pool/` | none | multiply a size, construct, destroy | (nothing of their own) |
| context, `context/context.cpp` | the current fiber | make, yield | (wrapper) |
| juggle service, `juggle/service/` | maps of methods, callbacks and channels; stacks of contexts to wake; semaphores, mutexes | `init`, `poll`, `register_*`, `wake_up`, `scheduler`, calls with and without an answer | handlers run under the service's locks, contexts resumed in stack order, callbacks that outlive their semaphore |
| juggle interfaces, rpcmake | declarations; a character state machine that prints stubs | | (text) |
| remoteq channel, `remoteq/windows/channelimpl.*` | receive buffer, `windex`, connection state | `push`, `pop` | messages in pieces, a buffer that grows, a receive armed only when the buffer is empty |
| remoteq queue and acceptor, `remoteq/windows/` | completion port, one outstanding `AcceptEx` | `queue` of events, `accept`, `close` | failed completions, events queued and never read |
| json framing, `third_party/json/json_protocol.h` | none | `buf_to_json`, `json_to_buf` | decides where a message ends |
| channel server, `test/test_service/juggle_achieve/` | channels of the service | `poll`, network thread | glue between remoteq and juggle |
| uuid, `uuid/uuid.cpp` | last byte | `UUID` | counter of one byte |
| chuckledb, vendored libraries, tests | | | not part of the system's core |

How they interact.  msque and swapque (and optimisticque) allocate nodes from
`objpool`, which is a shell around `mempool`, and give them back through
`_hazard_system::retire`; a node freed by one queue's sweep is the next node a
push gets.  So the three layers modelled first form one chain: the queue is
correct only if hazard pointers protect what they promise, and both only if the
pool hands memory to one user at a time.  The service keeps its work in these
queues: remoteq fills the channels, `service.poll` drains them into handlers,
handlers run in contexts, and a caller sleeps on a semaphore until the answer's
callback wakes its context.

What makes each component correct:

* hazard pointers: a slot has one holder; the slot list loses nothing; an object
  is freed once at most, is not lost, and not while someone has published and
  validated a pointer to it; `retire` returns.
* queues: linearizable FIFO; `size()` exact at rest; no access to freed nodes.
* mempool: memory has one user; the free lists stay linked; nobody gets less
  than asked for; `allocator` never waits.
* small_hash_map: a map per key; one map per bucket; no lost insert.
* service: an answer wakes its caller, once; no handler runs under a lock it
  needs; every context ready to run runs.
* remoteq: messages leave a channel once, whole and in order, whatever the pieces
  they arrive in; one receive is always outstanding.

The hazards, each at its line with the properties that would catch it, are in
`PROJECT.json`.

## 2. Plan

| order | module | composes or refines | state |
|---|---|---|---|
| 1 | `HazardSystem`, proofs in `HazardSystemProofs` | | done |
| 2 | `LinQueue`: abstract linearizable queue | | done |
| 3 | `Msque`, proofs in `MsqueProofs` | implements `LinQueue`; abstracts `HazardSystem`'s retire to one step | done, with `clear` |
| 4 | `Mempool`, proofs in `MempoolProofs` | | done, without the start-up |
| 5 | `Ringque`, proofs in `RingqueProofs` | implements `LinQueue` until a call is misled | done |
| 6 | `JuggleService` (proofs in `JuggleServiceProofs`): loop_main, poll, calls, callbacks and semaphore over two fibers, with the channel servers; `Uuid` for the names of calls | | done |
| 7 | `RemoteChannel` (proofs in `RemoteChannelProofs`): receive buffer, framing, completions, acceptor | | done |
| 8 | `Swapque`, proofs in `SwapqueProofs` | implements `LinQueue` for one popper | done |
| 9 | `LinMap`, `SmallHashMap`, proofs in `SmallHashMapProofs`; `HashFunctions` | implements `LinMap` but for buckets whose first insert met another call | done |

Every invariant, action property and refinement that a run finds to hold has its theorem
(section 5).

## 3. Modules and the code

### HazardSystem (`container/detail/_hazard_ptr.h`)

One action per atomic access of `acquire`, `release` and `retire`, plus the steps
of a client that follows a shared pointer the way `msque::pop` (122-150) does:
load it, publish it in a slot, load it again and compare, use it, or unlink and
retire it.

| code | model |
|---|---|
| `_head`, `_list_node::next`, `active`, `llen` | `head`, `next`, `active`, `llen` |
| `_hazard_ptr::_hazard` | `hazard`, and the thread's `buffer` |
| walk of `acquire` 119-125 | `Acquire`, `ReuseSlot`, `SkipSlot` |
| 127-138: new node, `_head.exchange`, store of `next`, return | `GrowList`, `PushSlot`, `LinkSlot`, `Take` |
| `retire` 147-163: try the eight lists in turn | `LockList`, `NextList`, `SkipList` |
| 165-179: scan of the slots if the list is long | `CheckSize`, `StartScan`, `ScanSlot`, `EndScan` |
| 178-196: sweep; 198-202: push_back, unlock | `Sweep`, `Store` |
| `release` 141-144 | `ClearSlot`, `ReleaseSlot` |

`_hazard` is not atomic.  A store to it goes to the thread's one-entry `buffer`
and reaches memory by the separate action `Drain`, which is what an x86
processor does; compilers could do worse.  Objects are model values: an object
is shared, unlinked, retired, freed, in that order, and never comes back
(`Msque` has the reuse).

### LinQueue and Msque (`container/msque.h`)

`LinQueue` is what the queues promise: each call takes effect in one step
between call and return, elements leave in the order they entered, and a pop
that takes effect on an empty queue returns false.

`Msque` has an action per access of `push` (80-110) and `pop` (115-151); the name
of an action says which one, and `PROJECT.json` maps it to its lines.  `h0` and
`h1` are the `_hazard` fields of the slots a call holds; that acquiring them
gives each thread slots of its own is `SlotExclusive` of `HazardSystem`.
A failed `compare_exchange_strong` stores what it found in `_hazard`, as the
code's does.  `clear` (71-75) is `ClearCall` (a new record and its dummy),
`ClearExchange` or `ClearInUse`, and one `ClearRetire` per node of the old list, the dummy too.
The exchange waits for nobody, and the code deallocates the old record at once
(`put_list`): if a call is at work on it (`UsesList`) the step is `ClearInUse`, and the state
it leads to is the last one, since what follows is undefined.  A call loads `__list` anew
whenever its loop begins, so that one at "end" or "begin" is not at work on a record yet,
and what follows the exchange, retiring the old nodes while others push to and pop from
the new list, runs beside everything.  Nodes are finite and reused: `retire` sweeps (`Swept`) when
`RecoverLimit` nodes are retired, then appends; it is one step here.  The
refinement mapping is `Abstract`: the queue is the part of `history` (every
element linked) behind `taken` (how many were unlinked or cleared); a push takes
effect when its link succeeds, a clear when it exchanges the record, a pop when
`_begin` moves, or, if it returns false, when it reads a null `next`.

### Ringque (`container/ringque.h`)

| code | model |
|---|---|
| `_que`, `_que_max`, `_push_slide`, `_pop_slide`, `_size` | the variables of these names |
| `_mu`, shared and unique | `readers`, `writer` |
| `push` 87-123 | `PushCall`, `PushLock`, `PushLoad`, `PushTest` (full?), `PushClaim`, `PushFill`, `PushCount`, `Return` |
| its way round a full ring 95-106, and `resize` 154-180 | `PushTry`, `PushResize` with `Doubled`, `PushRelock` |
| `pop` 128-151 | `PopCall`, `PopLock`, `PopLoad`, `PopTest` (empty?), `PopMove`, `PopTake`, `PopCount`, `Return` |

`resize` is one step: it runs under the unique lock, and everyone else reads what
it writes under the shared one (but for `size()`, which it leaves alone).  The
spinning of lines 116 and 142 is waiting here: a failed exchange changes nothing.
In the mapping to `LinQueue` (`Abstract`) a call takes effect when it claims its
cell, before the cell is filled or emptied; the queue is read off the cells
between the slides, so that the model needs no history of elements and pushes for ever.

Any number of threads push and pop.  Calls of one kind that overlap can mislead each
other: a pop whose `compare_exchange` fails keeps the `slidetail` of the slide it has lost
(141), and a push compares a slide that others have moved with a `_pop_slide` that
has moved too (94).  `misled` says when a call has acted on that: a push has claimed a cell
that is not free or another is still filling, or has enlarged an empty ring as a full one; a
pop has returned false though there was an element, or has claimed a cell that is not the
first, or is another's, or none.  `crowded` says that calls of a kind have overlapped.
`SizeCounts`, `RingHolds` and `Linearizable` speak of what is so until a call is misled,
and `KindsApart` says that this takes two pushes or two pops: a push and a pop never
mislead each other.

### Swapque (`container/swapque.h`)

| code | model |
|---|---|
| `_frond`, `_back`, `_size`, the shared holders of `_mu` | `frond`, `back`, `size`, `readers` |
| `push` 85-103 | `PushCall`, `PushLock`, `PushAppend` (the exchange of `_end`), `PushLink`, `PushCount`, `Return` |
| `pop` 108-163 | `PopCall`, `PopEmpty`, `PopLock`, `PopBegin`, `PopEnd`, `PopSize`, `PopSwap`, `PopNext`, `PopUnlink`, `PopRead`, `PopRetire`, `PopCount`, `Return` |
| `clear` 76-80, `get_que`, `put_que` | `ClearCall`, `ClearExchange` or `ClearInUse`, `ClearRetire` |

The unique lock is held for the exchange of two pointers only, so that `PopSwap` is
one step, which does nothing when its `try_lock` meets a holder; a `try_lock` in a loop
is waiting.  `_begin` is loaded and published in one step (`PopBegin`), since nobody but
the one popper unlinks.  A `clear` that
exchanges the record while a call is at work on it (`UsesQue`: from where it locks the
mutex to where it unlocks it for the last time) is `ClearInUse`, as in `Msque`: `put_que` waits for
those who hold the mutex and deallocates the record before those who wait for it.  Pushes count
in another order than they append, and a pop that reads 0 in `_size` returns false though an
element is linked; so a push takes effect in the step in which it, or a later one, is
counted, and several may in one step (`Push` of `LinQueue`): the queue is the part of
`history` from `taken` to `counted`.

### Mempool (`pool/mempool.cpp`)

| code | model |
|---|---|
| `block::mu`, `recvlist`, `recvlistchunk` of each processor | `mu`, `recvlist`, `recvlistchunk` |
| the first word of a block, `*(void**)mem` | `word` |
| `standardization_lenght` 26-73 | `Limit`, `ClassOf`, `StdLen` with the constants' real values (`_1K` is 32768, `_2K` 65536) |
| `allocator` 132-171 | `AllocCall`, `AllocLock`, `TakeSmall`, `Unhead`, `TakeChunk`, `TakeNothing`, `Malloc`, `Zero` |
| `deallocator` 173-198 | `FreeCall`, `FreeLock`, `PutSmall`, `SetHead`, `PutChunk` |

Reading the head and storing the next head are two steps (`TakeSmall`, `Unhead`),
and so are linking a block and making it the head (`PutSmall`, `SetHead`): if the
mutex did not exclude the others, the model would show it.  A caller overwrites
its memory before it frees it, so the first word is `Garbage` then.  `Init` is the
pool the constructor (75-117) leaves: one block per list, its first word cleared
in the first five classes and not in the others.  `listed` is a history
variable: which blocks each list is meant to hold.

### JuggleService (`juggle/service/`, `test/test_service/juggle_achieve/`)

The service has one thread and two fibers: the application (`Main`) and
`loop_main` (`Loop`).  `running` says which of them the thread runs; it changes
only where the code yields (`Wait`, `Poll`, `Wake`).

| code | model |
|---|---|
| `set_channel`, `array_new_channel`, `method_callback_map`, `wait_weak_up_context` | the variables of these names |
| the scoped locks `loop_main` holds | `held` |
| `caller.cpp` 32-46: a call | `Call`, `Register`, `Push`, then for a synchronous one `semaphore::wait` 32-54: `Wait`, `Take` |
| `poll`, `add_rpcsession`, `remove_rpcsession` | `Poll` and `PollReturn`, `AddSession`, `RemoveSession` |
| `loop_main` 62-88: one message of each channel | `Round`, `Visit` with `Handle` and `Post`, `EndVisit` |
| 90-107 | `NewChannels`, `Wake` |
| `connect::channelserver`: `connect`, `net_work` | `Connect`, `NetWork` |
| `acceptor::channelserver::poll` | `Accept` or `ServerRecv`, or no event; then `Poll` |

`Yield`, `get_current_context`, `wake_up_context` and `scheduler` are the operations
of `context.cpp` and `service.cpp` the rest is made of.  `get_current_context` is
`Main` whichever fiber asks, since only `init` sets it.

The queue of a channel (`que`) is a sequence: that msque is one, for one pusher and
one popper, is `msque_queue`.  The loop over `remoteq::pop` in the channel servers
makes one object for all the messages of an event, and the queue holds pointers
to it.  `Received` shows what is left when the event is over.  Messages that lie
in the buffer together are taken by one `pop`, which returns the first of them; of
the `n` messages the event takes off the wire the last `pop` returned number `b`,
and the queue has that message as many times as there were pops.  (The object
is constructed anew whenever the framing is asked, also when that finds no whole
message, so that a partial message behind a complete one erases it; that is left
out, see `Batch` below.  A message `Loop` takes before the next one overwrites it is a
message of an event of its own.)  The order in which a round visits the channels,
a `std::set` of pointers, is left open.  What methods and callbacks of the
application do is left out; a method answers its caller on the channel, which
is no matter of this side.

### Uuid (`uuid/uuid.cpp`)

The sixteen bytes of a name and the counter in them, as functions.
`JuggleService` takes the names of its calls as distinct; `CallsHaveNames`, an
assumption of `MCJuggleService` that TLC evaluates with both of its runs, is what
that rests on: any 255 calls in a row have different names whatever the clocks
return, and the 256th has the first one's name again if it comes in the same second,
at the same `clock()` modulo 65536, and `rand()` repeats its byte.

### RemoteChannel (`remoteq/windows/`, `third_party/json/json_protocol.h`)

| code | model |
|---|---|
| `buff`, `buflen`, `windex`, `rindex` of a channel | `buf` (its length is `buflen`), `windex`, `rindex` |
| the `WSARecv` of no bytes, sends, `AcceptEx` | `posted`, `sending`, `accepts`: how many are outstanding; `iocp`: what has completed |
| `evque` | `disconnects`: events put there, which nothing takes out |
| `sa` of the acceptor | the channel whose `conn` is "accepting" |
| `connect` 23-74, `push` 47-68 | `Connect`, `Push` |
| `queue` 35-60 | `Poll`, `EventOf` |
| `accept` (`acceptorimpl.cpp` 74-115) | `Accept` |
| `pop` 75-109, 111-116, 119-128, 130-155 | `Recv`, `Grow`, `Parse`, `Rearm` |
| `buf_to_json` | `Framed` (how far it takes the buffer), `FirstMessage` (what it parses) |

A stream is the bytes from 1 on, so that a byte is its own place in the
stream; `Ends` are the bytes that end a message, and a message is known by its last.
Bytes arrive a few at a time (`Arrive`), a peer sends, closes or is reset, and the
completions of outstanding operations come in any order.  `pop` is four actions,
since another poller can be in it too.  A buffer is parsed also after `recv` had
nothing or failed, as in the code.

### LinMap, SmallHashMap and HashFunctions (`container/small_hash_map.h`)

`LinMap` is a linearizable dictionary: a call takes effect in one step between its
start and its return.  `SmallHashMap` has an action for each lock taken or
upgraded, each look into the map and each access of a value.

| code | model |
|---|---|
| `_hash_array`, the map of a bucket, its `shared_mutex` | `created`, `value`, `shared` / `upgrade` / `unique` |
| the `shared_mutex` of a value | `nshared`, `nunique` |
| `search` 141-163, `set` 84-103 | `Call`, `LockShared`, `Find`, `LockNode`, `Access`, `Return` |
| `insert` 105-137 | `Call`, `LockUpgrade`, `CreateMap`, `Find`, `LockNode` and `Access`, or `Upgrade` and `Add`; `Count`, `Return` |
| `erase` 166-190 | `Call`, `LockUpgrade`, `Find`, `Upgrade`, `Remove`, `Count`, `Return` |
| `for_each` 67-78 | `ForEach`, `Each`, `NextElement`, `HandleElement`, `EachDone` |

`CreateMap` lets the bucket's mutex go, since the code moves it into a
`unique_lock` that ends with its block, and the insert goes on without it.
`loose` is who has made a map and goes on so, and `met` the buckets whose mutex another
call has taken meanwhile.  An access the code leaves undefined ends the behaviour (`Undefined`):
`set` where no insert has been, whose `find` follows a null pointer (90); a `std::map` changed
while another call walks or changes it; an element taken out that another call has found.
`_size` starts from whatever the memory held (the constructor leaves it).  `LinMap` promises
nothing of lost keys, and the keys of a bucket in `met` are lost; calls of other keys
keep their promise beside them.

`HashFunctions` computes the hashes over 32-bit words; `MCSmallHashMap` evaluates
them as assumptions of the run: those of 32-bit keys and strings are indexes of
the array, also for negative keys, and those of negative `int64_t` keys are not.  The
keys of the run and their buckets are real: 10 and 42 fall into one.

## 4. Runs, bounds and fairness

| run | configuration | shows |
|---|---|---|
| `hazard_shared` | 2 threads that follow, unlink and retire objects, one wanting two slots like `pop` and one wanting one, 6 objects, at most 3 slots, 1 recover list, limit 2 | slots and recover lists have one holder and no list stays locked, the slot list loses nothing for good, no object is freed twice or lost, none is freed under a validated pointer |
| `hazard_torn` (violation) | 3 threads, 2 warm slots, 3 retired objects | see section 6 |
| `msque_queue` | 2 pushers, 2 poppers, 1 thread that clears, 4 nodes, limit 2; calls of a kind overlap up to two elements, without reuse or clears, and then come one at a time, with both | msque implements `LinQueue`; `_begin` and `_end` move to successors only and never point to a freed node; `_size` is exact at rest |
| `msque_reclaim` (violation) | 1 pusher, 2 poppers, nobody clears, nodes swept at every retire | see section 6 |
| `ringque_calls` | 2 pushers, 2 poppers, 2 values, a ring of 2 cells that grows to 4, no push with 3 elements in it; one of the second threads joins once, and a behaviour is followed until it has returned or a call is misled | `LinQueue` until a call is misled; calls are misled by their own kind only; the cells between the slides are the elements; `_size` exact at rest; every call returns unless calls of a kind overlap |
| `swapque_mpsc` | 2 pushers, 1 popper, 1 thread that clears, 5 nodes, 4 elements, swept at every retire | `LinQueue` again; `_size` never passes below 0 and is exact at rest; nobody links to or follows a retired node |
| `mempool_small` | 2 threads, 2 processors, lengths 8, 2000, 66000, 70000, 2 blocks of malloc, one block owned at a time | small memory has one user, free lists intact, nobody gets too little, `allocator` returns |
| `juggle_calls` | a dialed and an accepted channel, 2 calls of Main, 1 of a peer, one message per event | Main is resumed by its own answer only, never with a mutex held, and is queued once; a synchronous call whose answer is on its way returns |
| `juggle_batch` (violation) | the same, up to two messages per event | see section 6 |
| `remote_channel` | 1 poller, an accepted channel with two messages of two bytes, a dialed one with one, a buffer of 2, one send, one reset | no byte lost or out of place, `recv` has room and the parser gets unread bytes only, an empty channel stays watched, one `AcceptEx` is out, what is sent is read |
| `small_hash_map` | 3 threads, 2 keys in one bucket, 2 values, `_size` modulo 2, first inserts beside every other call | only the insert that made a map shares it with who changes it; values are written exclusively; `LinMap`, and each element once in an iteration, where that insert met nobody |
| `small_hash_map_size` (violation) | 1 thread, 1 key, `_size` 0 at first | see section 6 |

Bounds.  `MaxSlots` is the number of slots the threads can want at once, so that
no thread is stopped by it: deadlock stays checked.  One recover list for two
threads is the case that matters: a thread finds it locked, moves on and wraps
around (a third thread would be needed for two lists, a ninth for the code's
eight); the number and the limit of 32 are constants, and the lower limit only makes sweeps
happen sooner.  In `hazard_shared` six objects let one be linked, one be read, two be
retired and two be left to link.  In `Msque` each element is pushed once
(`Values`), so that the order of elements can be told.  `MCMsque` bounds `msque_queue`
(`MCNext`): as long as two elements are in use (`CrowdLimit`) pushes and pops come in
twos, which fills and empties the list with the dummy moving; from the third on one pusher and one
popper go on beside clears, and reuse needs a node to come back while a slow
thread still holds a pointer to it, which four nodes allow.  Both at once is where the
properties fail (section 6).
`SizeMod` 8 stands for 2^32: `_size` passes below 0 in the run (in `swapque_mpsc` it
never does, and `SizeCounts` says so).  Five nodes leave three beside swapque's two
dummies, enough for two pushes under way while a node of an earlier element is reused.
In `Msque`, `Ringque`, `Swapque` and `JuggleService` the type invariant is checked as a
conjunct of `SizeCounts` and `QueuedOnce`, which presuppose it.  A ring of two
cells has room for one element, so that in `ringque_calls` a ring of two is replaced by
one of four in every position of the slides, which wrap around in both; elements and slides
then go round for ever.  `MCRingque` stops (`Beyond`) when the ring has grown once more,
when a call is misled, and when the second pusher or popper, which joins once at any
time while one of its kind is in a call, has returned; one value is pushed again only when
no other element has it, so that an element lost or doubled shows.  In `Mempool` the
four lengths fall into a list that is reused, a list blocks are put in and never
taken from, and two chunk lengths of which one fits the other's request; `Heap`
bounds what malloc returns.  Since memory is lost for good (see the hazards) that
bound is reached: the Mempool runs do not check deadlock.

In `remote_channel` a buffer of two bytes is filled, enlarged and filled again by the
four bytes of the accepted channel, a message is cut at every byte, and two lie in
the buffer together; one reset is enough for each of the places it can strike.  Peers
may send no more, so that deadlock is not checked.  In `small_hash_map` two keys
in one bucket is where calls meet in a map; three threads let a reader, a writer and
one who waits be there at once.  Modulo 2 `_size` wraps around at every
second step.

Two calls are what it takes for the answer to one to come while Main sleeps for
the other; `Batch` 1 in `juggle_calls` is an assumption rather than a bound, the
one under which a channel keeps its messages, each whole and in an event of its
own; it is met when a channel has one call outstanding, its peer makes none, and
the answer arrives in one piece.

Symmetry is used for objects, nodes, elements, and threads of a kind, in runs
without liveness only.

Fairness.  `FairSpec` says that a thread inside a call is scheduled again (weak
fairness of its steps), which the operating system gives; nothing makes a thread
start a call.  Under it the calls of
`Ringque` return while calls of a kind do not overlap (`CallsReturn`: the other side of a full
or empty cell is in the middle of a call, and a push that keeps finding the unique lock
taken finds room instead), and `allocator` returns (`AllocReturns`: it
tries each mutex once).  In `JuggleService` the thread of the service runs whichever fiber it is in, and so
does the network thread of `connect`; the application need not call, nor a peer
answer.  A synchronous call then returns once its answer is on the wire
(`AnsweredCallReturns`), on a dialed channel: on an accepted one the answer would
be received by the fiber that sleeps.  `deallocator` has no such property: it goes round the
mutexes until a `try_lock` succeeds, and the scheduler may let it look only while
they are taken.  The same can be said of `retire` and its recover lists; what is
checked, and proved, is that no list stays locked when nobody works on it
(`NoListLeftLocked`), which leaves that unlucky schedule as the only way to spin.
In `RemoteChannel` the poller goes round for ever, as the loops of the channel servers
do, what was sent arrives unless the connection is reset, and what can complete
does; nobody need connect, send or close.  For small_hash_map no liveness is claimed:
new readers may enter while an upgrade waits for the last one to leave.

Each property is also run against a small change of a mapped definition, a bug
such code plausibly has; the modules keep these definitions next to the original,
marked "Mutant:".

## 5. Theorems

All for every value of the constants that meets the modules' `ASSUME`s.  The
assumptions say what the constants are (finite sets, distinct model values);
none speaks of behaviour.

`HazardSystemProofs`: `Invariance` proves `IInv` inductive: `TypeOK`; what local
variables hold where they are used (`LocalsOk`); every pointer to a slot leads
to one already allocated (`PointersAllocated`, `OwnedAllocated`); `SlotExclusive`;
`RecoverExclusive`; `NoListLeftLocked`.  The middle parts are what makes it inductive: a new slot is
`llen + 1`, and that it is nobody's needs every slot in someone's hands to be at
most `llen`; that an exchange on `_active` takes a slot nobody holds needs
`active[s] = 0` for every slot held.  One lemma per part, one step per group of
actions that can disturb it.  `Typing`, `SlotMutex`, `RecoverMutex` and `RecoverListsUnlocked` follow.
`Safety` adds that `_head` leads to every slot that was pushed (`Listed`) and to none that
is yet to be (`Unreached`), that what a thread has validated is in its own slot's
`_hazard` (`UsesOwnSlot`, `HazardSet`), and that a scan for the list a used object is in
has found it, or has its slot still before it (`Covered`): `Protected` alone is not
inductive, since a pointer is published and validated before or while a scan passes.
`UseProtected`, `ObjectsAccounted` and `SlotListComplete` follow.  What the scan's
recursive walk reaches is proved from the least-number principle (`LeastNatural`,
`NaturalInduction`, `Iterated`), which in turn comes from the order of finite sets.

`MempoolProofs`: `Invariance` proves `TypeOK`, `LocalsOk`, `SizesOk`,
`SmallExclusive` and `ListsIntact` inductive together.  They need each other: that
the head of a list is nobody's block needs the links to stay in the list
(`ListsIntact`), which needs that no user holds a listed block (`SmallExclusive`),
since users overwrite the first word; that a block in a list has the list's size
(`SizesOk`) needs both, and keeps chunks and small blocks apart, which is why
the reuse of chunks does not spoil the small lists.  `ReusedInitialised` is where
the constants matter: a list of at most 4096 bytes that is ever used is one the
constructor has cleared, only because `_1K` is 32768.  `SmallMemoryExclusive`,
`FreeListsIntact`, `AllocatedBigEnough` and `Typing` follow.

`SmallHashMapProofs`: all for any threads, keys and buckets, first inserts beside other calls
included.  `Invariance` proves `TypeOK`, `CallsOk` (what the variables of a call hold), `MadeOk`
(an insert without lock has made its bucket's map, and maps are made once), `LooseApart`
(another call is beside such an insert in a bucket of `met` only), `BucketLocks` and
`NodeLocks` (who holds a mutex, by where it is in its call) inductive together.
`MapExclusive` is not inductive: that nobody looks into a map while it is changed needs the
rules of the mutex; `MapMutex` derives it, with the insert that made the map as the
only exception, and `NodeMutex` needs no exception.  `EachElementOnce` adds `ItemPresent` and
`Iterates` (the iterator has behind it the least elements, all handled): outside `met`
a step of another thread leaves a bucket somebody looks into as it is (`OthersStay`,
from `MapExclusive`).  `Looked` says the same of what an insert or erase has found, so that
`Add` adds one element and `Remove` takes one (`FoundStays`), and with `Results` (what a call has to
return before it takes effect) `ImplementsLinMap` follows: calls of lost keys are
`LinMap`'s steps that promise nothing (`AbstractLost`), and a lock that puts a bucket in `met` loses
its keys (`Lose`).

`JuggleServiceProofs`: `Invariance` proves, for any number of messages per receive event,
types, what `loop_main` holds while it runs a call (`LoopHolds`), what a call's variables
hold (`CallOk`) and who is asleep (`Asleep`); `NoSelfDeadlock` follows.  That a fiber is
woken once, and by its own answer, needs that an answer is in one place only (wire,
event, queue, wake set), which `OneMessageInvariance` proves under `Batch = 1`: with
two messages in one event the second overwrites the first, and `juggle_batch` shows
what becomes of that.  `WokenOnce` and `OwnReply` follow.

`RingqueProofs`: all for any number of pushers and poppers.  `Invariance` is types, the lock, and
local variables.  `SoundInvariance` proves `Sound` until a call is misled: no two calls of a
kind have claimed one cell (`OneClaim`), the cells between the slides hold the elements or are
being filled, and the others are empty or being emptied (`CellsHold`), and what is still to be
counted is known (`Counted`).  Each step keeps it that claims a cell for which the conditions
in `misled` do not hold, and no other condition is needed: that is what makes `misled` the right
place to stop.  `RingShape`, `RingBetween`, `RingClaim`, `RingMove` and `RingResize` are the arithmetic
of the ring, from `ModNear`, `DivMod` and `ModOf`.  `SizeExact` and `CellsRight` follow, and
`ImplementsLinQueue`: each action that misleads nobody is the abstract call, step or
return, or a stutter.  `OwnKindOnly` is the other half: while no two calls of a kind have
overlapped (`crowded`), the slides only run ahead of what a call has read of them in the
direction that does no harm (`PushSees`, `PopSees`, in `CInv`), whatever the other kind
does and however the ring grows, so that nobody is misled.  With one pusher and one popper
calls of a kind cannot overlap, and everything holds without condition.

`RemoteChannelProofs`: `AcceptOnly` needs no assumption but that the pollers are finitely
many; its invariant counts the AcceptEx where it may be (`AcceptInv`), and says that once
its failure is in the port nothing follows it.  The rest is about `OnePoller`, which
`acceptor::channelserver` is; `connect::channelserver` polls from two threads, and the
properties are false there (section 6).  With one poller a channel's indexes are
known from the label the poller is at (`Sized`): the parser takes all or nothing,
since nothing separates two messages, so that `rindex` is 0 everywhere but at "rearm".
`Watch` strengthens `Watched` by what the poller still knows: until it has read, bytes
are there or a receive is posted.  `Received`, `EnlargedKeeps` and `FoundMessage` say what
recv, the enlarging and the parser do to a buffer that holds the stream.  `Streaming`,
`Arguments`, `Watching` and `Typing` follow.

`SwapqueProofs`: all under `OnePopper`, since with two elements come out of order (section
6); pushers, clears and nodes are any.  The list part of `IInv` says that there are two
numberings of nodes and a border (`Lists`): from the number of the last element taken up
to the border they are the front list, from the border up to the last element appended
the back list, each after its dummy (`Frond`, `Back`), and no node is in two places
(`Apart`), where the places are the lists, `free`, `retired` and what a push, a pop or a
clear has to itself (`Owns`).  A link may be missing in the back list only where a push
is at "link", and the exchange needs there to be none: that is what the mutex is for
(`LocalsOk`), and it is why everything behind the border is still being pushed once
`counted` has reached it.  `NodesKept` follows.  `SizeExact` and `ImplementsLinQueue` need
besides that there are no more nodes than `_size` can count (`FewNodes`; a node is larger
than a byte, and addresses of 32 bits are as many).  That a popper reads 0 only
when the queue is empty is `DueLeft`: the pushes that have not counted are as many as the
elements left only if none of those counts, by an injection of calls into elements; that
`_size` does not wrap around is `RoomLeft`, by one of elements into nodes.  A count that
completes several pushes is `LinQueue`'s push of a sequence (`SimulateCount`).

`MsqueProofs`: `Invariance` and `SizeExact` hold for any threads and any reuse of nodes,
since they do not depend on the list: a link and the swing of `_begin` are the only steps
that change what is to be counted (`TallyLink`, `TallyUnlink`).  The rest assumes that no
sweep ever frees a node (`NeverSwept`, the Michael-Scott argument without reuse, for any
number of threads) or that one thread pushes and one pops (`OneEach`, with reuse); with more
of a kind and reuse these properties are false (section 6).  `Shape` says that the nodes
can be numbered as the elements are (`ListOk`): `next` leads from each to the following
one, `_begin` is at `taken`, `_end` at the last or the last but one, and nothing from some
number `s` on was freed.  `Apart` says that list, free list, retired nodes and what a
call has to itself (`Owns`; for a clear the rest of the old list, `D`) are disjoint, `PushOk`
and `PopOk` that every pointer a call holds has a number, from `s` on.  Where nodes are
reused a pointer needs more than a number: `PairOk` says that with one of each it is
still the end itself, so that the node `_end` lags at, retired by the pop, is the one
the push has published, and the sweep passes it by (`SweptApart`).  Each kind of step
renumbers the list or leaves it alone (`LinkMoves`, `EndMoves`, `UnlinkMoves`, `NewMoves`,
`RetireMoves`, `ExchangeMoves`, `Quiet`).  `EndsKept`, `EndsFollow`, `FalseIsEmpty` (with `Told`:
what was pushed before the call is taken when a null `next` is read) and
`ImplementsLinQueue` follow.

Only model-checked: the liveness properties (`CallsReturn`, `AllocReturns`,
`AnsweredCallReturns`, `SentIsRead`), since TLAPS has no `ENABLED`.  `HashFunctions` computes
with recursive definitions, which is out of reach as well.

## 6. Where code and words disagree

* `hazard_torn`: `_node->next = _head.exchange(_node)` (`_hazard_ptr.h:134`) shows
  the new slot to others before its `next` is stored.  A scan in between ends
  there and misses every slot behind it, although the comment says it collects
  all non-null pointers, and the sweep frees an object in use.  `Protected`
  therefore speaks of scans that met no such slot.
* `msque_reclaim`: `pop` returns false on a null `next` before it has checked that
  the node is still `_begin` (`msque.h:128`); a node that was freed and allocated
  again has a null `next`.  With one popper it cannot happen (`FalseIsEmpty`).  With
  two pushers and reuse the same lack of validation in `push`'s help (91-93) also
  breaks `EndsNotFreed`, which is why calls of a kind overlap in `msque_queue` only as long as no
  node is reused.
* `small_hash_map_size`: an insert counts the element it has overwritten
  (`small_hash_map.h:134`), although `size()` is to "get hash_map size" (190-192): after two
  inserts of one key it is 2.  Besides, nothing initialises `_size` (49-53); the run starts it from
  0, so that what it shows does not rest on that.
* `juggle_batch`: all messages of one receive event are read into the same object
  (`channelserver.cpp:134`, and 57 for the acceptor), the second after the first was
  pushed to the channel; and of messages that are in the buffer together `pop` returns
  the first only.  An answer is lost, or another handled twice, and the caller sleeps
  for ever; `pop` of a channel is said to get an object from it, and the client test
  prints the results of its calls.

Not made a run: `remove_rpcsession` takes a channel out of `set_channel`, and the next
round puts it back, since `array_new_channel` is never cleared (`service.cpp:90-96`).
`AnsweredCallReturns` holds for a removed channel too, for that reason.

A chunk found in `recvlistchunk` is handed out without being erased
(`mempool.cpp:146`), so that the next request for as much gets the same memory:
the model does so too, which is why `SmallExclusive` speaks of small memory only.

Other limits, which the properties name or the runs leave out by their constants, each found by
lifting it:

* small_hash_map: the insert that makes a bucket's map goes on without its mutex
  (`small_hash_map.h:115-120`), so that another call can be in the map while it adds its
  element.  The model has this (`loose`, `met`, `Undefined`); `MapExclusive`, `EachOnce` and
  `Linearizable` name the case, since they fail in it.
* msque and swapque: a `clear` that exchanges the record under a call at work on it
  deallocates it there (`msque.h:71-75`, `swapque.h:76-80`); the models end there
  (`ClearInUse`).
* swapque with two poppers: both find the front list empty, one exchanges the lists, a
  push follows, and the other exchanges them again (`swapque.h:136`), so that `Linearizable`
  fails: "a fifo que" (line 5) it is for one popper only.
* remoteq with two pollers of one channel, which `connect::channelserver` has (`net_work`
  and `poll`, `channelserver.cpp:159`): both receive into the same cells, and
  `PopArguments` and `StreamKept` fail.
* remoteq: a buffer left with part of a message has no receive posted, so that the rest is
  never read (`channelimpl.h:130`; `Stalled` in `SentIsRead`), and an `AcceptEx` that fails
  is not followed by another (`queueimpl.cpp:45`; `AcceptLost` in `OneAccept`).

`ringque` with several threads of a kind, as in `test/test_container/main.cpp:201-203`, which has four
pushers: a push that compares a stale slide with `_pop_slide` (94) takes an empty ring for a
full one, and `resize` then moves `_pop_slide` to cells nobody will fill; a pop whose
`compare_exchange` fails (141) keeps the old `slidetail`.  These are the steps that set `misled`, and
past them `SizeCounts`, `RingHolds` and `Linearizable` fail.  A push whose slide others have moved
may also stay in the inner loop (94-107), which does not load `_push_slide` again, and double
the ring at each turn until a pop moves `_pop_slide`, where the slides are in the order in which
`resize` leaves `_pop_slide` as it is (171-174); that misleads nobody, and the run stops at a
ring of `MaxCells`.

In addition a plain store to `_hazard` can wait in the store buffer while the
pointer is validated; `Protected` excludes that by `fenced`.

## 7. Not modelled, and why

* Destructors, which run when nobody uses the object any more; the mempool's start-up
  before `main`, which writes beyond a list's memory and locks `mu` before it is
  constructed; `clear` of `ringque`, which does not compile when it is instantiated.
* Compilers' reorderings of the plain fields; `Msque`, `Ringque`, `Swapque`, `Mempool`
  and `SmallHashMap` are sequentially consistent, as boost's default atomics and mutexes
  make them but for `_hazard`.
* optimisticque: its `pop` exchanges `_head` for a null pointer after it has repaired
  the list (`optimisticque.h:133-134`), so that there is little to state of it; `clear`
  does not compile.
* `objpool`, `factory`, interfaces, endpoint and start-up code of remoteq: no behaviour of
  their own.  `chuckledb` is an unfinished stub, boost and jsoncpp are used as they
  are, rpcmake prints text before the program is built.
* remoteq's `close`, which is called on disconnect events; `queue` never reports one, since
  it waits for the completion port and not for `evque`.  UDP.  Constructors and
  `connect`s that fail.
* context: `closecontext` is never called.
* In the service: calls made from methods and callbacks (`loop_main` holds their
  locks, so that they wait for themselves), channels that are destroyed, peers that
  answer twice, the timeout of `wait` and `vsemaphore` (nothing registers a
  semaphore), `juggle::mutex` (lock of a free mutex suspends and sets nothing, so
  that it excludes nobody), and a second thread in the service (it has no context to
  resume).  `JuggleService` and `RemoteChannel` are not composed: the service takes
  messages that arrive whole.
* uuid: calls of two threads at once, which race on the counter.
