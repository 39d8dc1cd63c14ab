--------------------------- MODULE JuggleService ----------------------------
(***************************************************************************)
(* juggle/service: remote calls over fibers.  One thread runs two fibers,  *)
(* the application's (Main) and loop_main's (Loop); a yield switches       *)
(* between them and nothing else does.  A synchronous call registers a     *)
(* callback, pushes the call on its channel and sleeps on a semaphore; the *)
(* loop pops the channels, runs methods and callbacks, and resumes the     *)
(* contexts that were woken.                                               *)
(*                                                                         *)
(* With it the channel servers that feed it: messages arrive on dialed     *)
(* channels by the network thread of connect::channelserver, on accepted   *)
(* ones in poll of acceptor::channelserver.  The peers and the network are *)
(* external: messages of a channel arrive whole and in order, a peer       *)
(* answers a call at most once, and calls only who has accepted it.        *)
(***************************************************************************)
EXTENDS Integers, Sequences

CONSTANTS
    Dialed, Accepted,   \* channels we connect to, channels we accept
    Calls,              \* bound: the calls Main makes, named by their suuid
    Requests,           \* bound: the calls peers make
    Batch,              \* the most messages one receive event brings
    Main, Loop,
    None

Channels == Dialed \cup Accepted

ASSUME ConstantsOk ==
    /\ Dialed \cap Accepted = {}
    /\ Calls \cap Requests = {}
    /\ Main # Loop
    /\ Batch \in Nat \ {0}
    /\ None \notin Calls \cup Channels \cup {Main, "sync", "async"}

VARIABLES
    running,            \* the fiber the service's thread runs
    mpc, lpc,           \* where Main and Loop are
    held,               \* the mutexes Loop holds: no other thread takes any
    set_channel, array_new_channel,
    method_callback_map,    \* suuids with a callback, and of which kind
    wait_weak_up_context,
    todo,               \* channels loop_main has still to visit in this round
    call,               \* the call Main is making, with its channel and kind
    signal, wait_ct,    \* the semaphore of Main's synchronous call
    wire,               \* messages on their way to us
    que,                \* messages in each channel's msque
    asked,              \* calls a peer has received and not answered
    requested,          \* requests peers have made
    removed             \* channels the application has removed

sessionVars == <<set_channel, array_new_channel, removed>>
callVars == <<method_callback_map, call, signal, wait_ct>>
netVars == <<wire, que, asked, requested>>
vars == <<running, mpc, lpc, held, sessionVars, wait_weak_up_context, todo, callVars,
          netVars>>

Kinds == {"sync", "async"}
NoCall == [suuid |-> None, ch |-> None, kind |-> "sync"]
Messages == [rpcevent : {"call"}, suuid : Requests] \cup [rpcevent : {"reply"}, suuid : Calls]
Mutexes == {"mu_channel", "mu_method_map", "mu_method_callback_map", "mu_wake_up_vector"}

TypeOK ==
    /\ running \in {Main, Loop}
    /\ mpc \in {"user", "register", "push", "sem", "wait", "server", "poll"}
    /\ lpc \in {"round", "visit", "new", "wake"}
    /\ held \subseteq Mutexes
    /\ set_channel \subseteq Channels
    /\ array_new_channel \subseteq Channels
    /\ method_callback_map \in [Calls -> Kinds \cup {None}]
    /\ wait_weak_up_context \in Seq({Main})
    /\ todo \subseteq Channels
    /\ call \in [suuid : Calls, ch : Channels, kind : Kinds] \cup {NoCall}
    /\ signal \in Seq(Calls)
    /\ wait_ct \in {Main, None}
    /\ wire \in [Channels -> Seq(Messages)]
    /\ que \in [Channels -> Seq(Messages)]
    /\ asked \in [Channels -> SUBSET Calls]
    /\ requested \subseteq Requests
    /\ removed \subseteq Channels

\* After init (37-47): Main runs, the fiber of loop_main has not started.
Init ==
    /\ running = Main
    /\ mpc = "user"
    /\ lpc = "round"
    /\ held = {}
    /\ set_channel = {}
    /\ array_new_channel = {}
    /\ method_callback_map = [k \in Calls |-> None]
    /\ wait_weak_up_context = <<>>
    /\ todo = {}
    /\ call = NoCall
    /\ signal = <<>>
    /\ wait_ct = None
    /\ wire = [c \in Channels |-> <<>>]
    /\ que = [c \in Channels |-> <<>>]
    /\ asked = [c \in Channels |-> {}]
    /\ requested = {}
    /\ removed = {}

-----------------------------------------------------------------------------
(* Fibers *)

Yield(ct) == running' = ct

\* Whichever fiber asks: set_current_context runs in init only.
get_current_context == Main

wake_up_context(ct) == wait_weak_up_context' = Append(wait_weak_up_context, ct)

\* The current context is never _main_context, the fiber of loop_main.
scheduler == get_current_context # Loop /\ Yield(Loop)

-----------------------------------------------------------------------------
(* Main: the application, in calls to the service *)

Free(mu) == mu \notin held

AddSession(c) ==
    /\ c \notin array_new_channel
    /\ array_new_channel' = array_new_channel \cup {c}

\* connect::channelserver::connect (97-108)
Connect(c) ==
    /\ running = Main /\ mpc = "user"
    /\ c \in Dialed
    /\ AddSession(c)
    /\ UNCHANGED <<running, mpc, lpc, held, set_channel, removed, wait_weak_up_context,
                   todo, callVars, netVars>>

\* acceptor::channelserver::poll, when its event is an accept (42-51)
Accept(c) ==
    /\ running = Main /\ mpc = "user"
    /\ c \in Accepted
    /\ AddSession(c)
    /\ mpc' = "server"
    /\ UNCHANGED <<running, lpc, held, set_channel, removed, wait_weak_up_context, todo,
                   callVars, netVars>>

RemoveSession(c) ==
    /\ running = Main /\ mpc = "user"
    /\ Free("mu_channel")
    /\ c \in array_new_channel \ removed
    /\ set_channel' = set_channel \ {c}
    /\ removed' = removed \cup {c}
    /\ UNCHANGED <<running, mpc, lpc, held, array_new_channel, wait_weak_up_context,
                   todo, callVars, netVars>>

\* call_module_method_sync has a semaphore of its own, call_module_method_async none.
Call(k, c, kind) ==
    /\ running = Main /\ mpc = "user"
    /\ method_callback_map[k] = None
    /\ c \in array_new_channel \ removed
    /\ call' = [suuid |-> k, ch |-> c, kind |-> kind]
    /\ mpc' = "register"
    /\ UNCHANGED <<running, lpc, held, sessionVars, wait_weak_up_context, todo,
                   method_callback_map, signal, wait_ct, netVars>>

Register ==
    /\ running = Main /\ mpc = "register"
    /\ Free("mu_method_callback_map")
    /\ method_callback_map' = [method_callback_map EXCEPT ![call.suuid] = call.kind]
    /\ mpc' = "push"
    /\ UNCHANGED <<running, lpc, held, sessionVars, wait_weak_up_context, todo, call,
                   signal, wait_ct, netVars>>

Push ==
    /\ running = Main /\ mpc = "push"
    /\ asked' = [asked EXCEPT ![call.ch] = @ \cup {call.suuid}]
    /\ \/ /\ call.kind = "sync"
          /\ mpc' = "sem"
          /\ UNCHANGED call
       \/ /\ call.kind = "async"
          /\ mpc' = "user"
          /\ call' = NoCall
    /\ UNCHANGED <<running, lpc, held, sessionVars, wait_weak_up_context, todo,
                   method_callback_map, signal, wait_ct, wire, que, requested>>

\* semaphore::wait: with no signal yet, it switches to the loop.
\* The loop does not run before that, so that wait never finds a signal already there.
Wait ==
    /\ running = Main /\ mpc = "sem"
    /\ \/ /\ signal = <<>>
          /\ wait_ct' = get_current_context
          /\ scheduler
       \/ /\ signal # <<>>
          /\ UNCHANGED <<wait_ct, running>>
    /\ mpc' = "wait"
    /\ UNCHANGED <<lpc, held, sessionVars, wait_weak_up_context, todo,
                   method_callback_map, call, signal, netVars>>

\* wait goes on (47-53) and the semaphore goes out of scope.  It has no second
\* look at _signal: back() of an empty queue is undefined.
Take ==
    /\ running = Main /\ mpc = "wait"
    /\ signal # <<>>
    /\ signal' = <<>>
    /\ wait_ct' = None
    /\ call' = NoCall
    /\ mpc' = "user"
    /\ UNCHANGED <<running, lpc, held, sessionVars, wait_weak_up_context, todo,
                   method_callback_map, netVars>>

\* By itself, or at the end of poll of a channel server (80).
Poll ==
    /\ running = Main /\ mpc \in {"user", "server"}
    /\ Free("mu_wake_up_vector")
    /\ wake_up_context(get_current_context)
    /\ Yield(Loop)
    /\ mpc' = "poll"
    /\ UNCHANGED <<lpc, held, sessionVars, todo, callVars, netVars>>

PollReturn ==
    /\ running = Main /\ mpc = "poll"
    /\ mpc' = "user"
    /\ UNCHANGED <<running, lpc, held, sessionVars, wait_weak_up_context, todo, callVars,
                   netVars>>

-----------------------------------------------------------------------------
(* loop_main: 62-122 *)

Round ==
    /\ running = Loop /\ lpc = "round"
    /\ held' = {"mu_channel", "mu_method_map", "mu_method_callback_map"}
    /\ todo' = set_channel
    /\ lpc' = "visit"
    /\ UNCHANGED <<running, mpc, sessionVars, wait_weak_up_context, callVars, netVars>>

\* semaphore::post, on the semaphore of the synchronous call in progress.
Post(k) ==
    /\ signal' = Append(signal, k)
    /\ IF wait_ct # None THEN wake_up_context(wait_ct) ELSE UNCHANGED wait_weak_up_context

\* Mutant: the waiter is woken by the reply to any call.
HandleAny(m) ==
    IF m.rpcevent = "reply" /\ method_callback_map[m.suuid] # None
    THEN Post(m.suuid)
    ELSE UNCHANGED <<signal, wait_weak_up_context>>

\* A reply runs its callback, which stays in the map.  The callback of an
\* asynchronous call, and a method, run code of the application.
Handle(m) ==
    IF m.rpcevent = "reply" /\ method_callback_map[m.suuid] = "sync"
    THEN Post(m.suuid)
    ELSE UNCHANGED <<signal, wait_weak_up_context>>

\* One message of each channel is handled in a round.
Visit(c) ==
    /\ running = Loop /\ lpc = "visit"
    /\ c \in todo
    /\ todo' = todo \ {c}
    /\ \/ /\ que[c] = <<>>
          /\ UNCHANGED <<que, signal, wait_weak_up_context>>
       \/ /\ que[c] # <<>>
          /\ que' = [que EXCEPT ![c] = Tail(@)]
          /\ Handle(Head(que[c]))
    /\ UNCHANGED <<running, mpc, lpc, held, sessionVars, method_callback_map, call, wait_ct,
                   wire, asked, requested>>

EndVisit ==
    /\ running = Loop /\ lpc = "visit"
    /\ todo = {}
    /\ held' = {}
    /\ lpc' = "new"
    /\ UNCHANGED <<running, mpc, sessionVars, wait_weak_up_context, todo, callVars, netVars>>

\* Mutant: the channels that were added are forgotten instead.
NewChannelsLost ==
    /\ running = Loop /\ lpc = "new"
    /\ lpc' = "wake"
    /\ UNCHANGED <<running, mpc, held, sessionVars, wait_weak_up_context, todo, callVars,
                   netVars>>

\* array_new_channel is not cleared (90-96).
NewChannels ==
    /\ running = Loop /\ lpc = "new"
    /\ set_channel' = set_channel \cup array_new_channel
    /\ lpc' = "wake"
    /\ UNCHANGED <<running, mpc, held, array_new_channel, removed, wait_weak_up_context,
                   todo, callVars, netVars>>

\* Mutant: the context stays in the vector.
WakeKeep ==
    /\ running = Loop /\ lpc = "wake"
    /\ lpc' = "round"
    /\ running' = IF wait_weak_up_context = <<>> THEN Loop
                  ELSE wait_weak_up_context[Len(wait_weak_up_context)]
    /\ UNCHANGED <<mpc, held, sessionVars, wait_weak_up_context, todo, callVars, netVars>>

\* Mutant: yields without having unlocked mu_wake_up_vector.
WakeLocked ==
    /\ running = Loop /\ lpc = "wake"
    /\ lpc' = "round"
    /\ \/ /\ wait_weak_up_context = <<>>
          /\ UNCHANGED <<running, wait_weak_up_context, held>>
       \/ /\ wait_weak_up_context # <<>>
          /\ Yield(wait_weak_up_context[Len(wait_weak_up_context)])
          /\ wait_weak_up_context' =
                SubSeq(wait_weak_up_context, 1, Len(wait_weak_up_context) - 1)
          /\ held' = {"mu_wake_up_vector"}
    /\ UNCHANGED <<mpc, sessionVars, todo, callVars, netVars>>

\* The context added last is resumed (98-107).  Nothing ever registers a semaphore
\* with a timeout: vsemaphore (110-120) stays empty.
Wake ==
    /\ running = Loop /\ lpc = "wake"
    /\ lpc' = "round"
    /\ \/ /\ wait_weak_up_context = <<>>
          /\ UNCHANGED <<running, wait_weak_up_context>>
       \/ /\ wait_weak_up_context # <<>>
          /\ Yield(wait_weak_up_context[Len(wait_weak_up_context)])
          /\ wait_weak_up_context' =
                SubSeq(wait_weak_up_context, 1, Len(wait_weak_up_context) - 1)
    /\ UNCHANGED <<mpc, held, sessionVars, todo, callVars, netVars>>

-----------------------------------------------------------------------------
(* The network and the peers *)

\* The loop over remoteq::pop (57-64, 134-141) makes one object for all messages of
\* an event.  A pop takes the messages that are in the buffer together, of which it
\* returns the first (RemoteChannel), and reads it into the object that was pushed
\* for the one before: j pops took n messages, and the last pop began at message b.
Received(c) ==
    \E n \in 1..Batch : \E b \in 1..n : \E j \in 1..b :
        /\ n <= Len(wire[c])
        /\ j = 1 <=> b = 1
        /\ wire' = [wire EXCEPT ![c] = SubSeq(@, n + 1, Len(@))]
        /\ que' = [que EXCEPT ![c] = @ \o [i \in 1..j |-> wire[c][b]]]

\* net_work (123-143) on the thread of connect::channelserver.  Main runs it too, in
\* poll; its thread is there at any time.
NetWork(c) ==
    /\ c \in Dialed
    /\ Received(c)
    /\ UNCHANGED <<running, mpc, lpc, held, sessionVars, wait_weak_up_context, todo,
                   callVars, asked, requested>>

\* acceptor::channelserver::poll, when its event is a receive (53-66)
ServerRecv(c) ==
    /\ running = Main /\ mpc = "user"
    /\ c \in Accepted
    /\ Received(c)
    /\ mpc' = "server"
    /\ UNCHANGED <<running, lpc, held, sessionVars, wait_weak_up_context, todo,
                   callVars, asked, requested>>

PeerReply(c) ==
    /\ \E k \in asked[c] :
          /\ asked' = [asked EXCEPT ![c] = @ \ {k}]
          /\ wire' = [wire EXCEPT ![c] = Append(@, [rpcevent |-> "reply", suuid |-> k])]
    /\ UNCHANGED <<running, mpc, lpc, held, sessionVars, wait_weak_up_context, todo,
                   callVars, que, requested>>

PeerCall(c) ==
    /\ c \in Accepted \cap array_new_channel
    /\ \E r \in Requests \ requested :
          /\ requested' = requested \cup {r}
          /\ wire' = [wire EXCEPT ![c] = Append(@, [rpcevent |-> "call", suuid |-> r])]
    /\ UNCHANGED <<running, mpc, lpc, held, sessionVars, wait_weak_up_context, todo,
                   callVars, que, asked>>

-----------------------------------------------------------------------------

InCall ==
    \/ Register \/ Push \/ Wait \/ Take \/ PollReturn
    \/ mpc = "server" /\ Poll
MainStep ==
    \/ InCall
    \/ Poll
    \/ \E c \in Channels : Connect(c) \/ Accept(c) \/ RemoveSession(c) \/ ServerRecv(c)
    \/ \E k \in Calls, c \in Channels, kind \in Kinds : Call(k, c, kind)
LoopStep ==
    \/ Round \/ EndVisit \/ NewChannels \/ Wake
    \/ \E c \in Channels : Visit(c)
NetStep == \E c \in Channels : NetWork(c) \/ PeerReply(c) \/ PeerCall(c)

Next == MainStep \/ LoopStep \/ NetStep

Spec == Init /\ [][Next]_vars

\* The service's thread is scheduled, whichever fiber it runs, and so is the
\* network thread.  The application need not make a call, nor a peer answer.
FairSpec ==
    /\ Spec
    /\ WF_vars(InCall)
    /\ WF_vars(LoopStep)
    /\ \A c \in Dialed : WF_vars(NetWork(c))

-----------------------------------------------------------------------------
(* Properties *)

\* Main sleeps in wait until its semaphore has the answer to its own call, and no
\* other: wait takes back() and drops front() without looking.
WokenByOwnReply ==
    running = Main /\ mpc = "wait" => signal = <<call.suuid>>

\* Main is in the vector once at most, and only while it is asleep and has a reason
\* to run: in poll, or with its answer there.
QueuedOnce ==
    /\ TypeOK
    /\ \/ wait_weak_up_context = <<>>
       \/ /\ wait_weak_up_context = <<Main>>
          /\ running = Loop
          /\ mpc = "poll" \/ (mpc = "wait" /\ signal # <<>>)

\* The two fibers share a thread, and the mutexes are not recursive: a switch to
\* Main with a mutex held would make the next call to the service wait for itself.
NoLockAcrossYield == running = Main => held = {}

InTransit(m, c) == \E i \in 1..Len(wire[c]) : wire[c][i] = m
Arrived(m, c) == \E i \in 1..Len(que[c]) : que[c][i] = m

\* A synchronous call whose answer is on its way returns, whatever else the channels
\* bring and whenever the channel was added.
AnsweredCallReturns ==
    \A k \in Calls, c \in Dialed :
        LET reply == [rpcevent |-> "reply", suuid |-> k]
        IN  (call.suuid = k /\ call.kind = "sync" /\ (InTransit(reply, c) \/ Arrived(reply, c)))
                ~> call = NoCall

\* Line 34 of channel.h, "get a object from channel": what was received is there to
\* be got.  The answer Main sleeps for is on its way, in the queue or taken from it.
AnswerNotLost ==
    LET reply == [rpcevent |-> "reply", suuid |-> call.suuid]
    IN  mpc \in {"sem", "wait"} /\ call.suuid \notin asked[call.ch]
            => signal # <<>> \/ InTransit(reply, call.ch) \/ Arrived(reply, call.ch)
=============================================================================
