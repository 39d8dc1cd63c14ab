------------------------ MODULE JuggleServiceProofs -------------------------
(***************************************************************************)
(* For any number of channels and calls: no fiber is resumed while the     *)
(* loop holds a mutex and, when each receive event brings one message, the *)
(* fiber that sleeps in a call is woken once, by the answer to that call.  *)
(***************************************************************************)
EXTENDS JuggleService, SequenceTheorems, TLAPS

\* The mutexes of a round are held while its channels are visited and no longer, and
\* Main runs only between two rounds.
LoopHolds ==
    /\ held # {} => lpc = "visit"
    /\ running = Main => lpc = "round"

\* The loop runs only while Main waits for it.
Asleep == running = Loop => mpc \in {"wait", "poll"}

\* What Main knows about the call it is making.
CallOk ==
    /\ mpc \in {"register", "push", "sem", "wait"} => call # NoCall
    /\ mpc = "register" => method_callback_map[call.suuid] = None
    /\ mpc \in {"push", "sem", "wait"} => method_callback_map[call.suuid] = call.kind
    /\ mpc \in {"sem", "wait"} => call.kind = "sync"

IInv ==
    /\ TypeOK
    /\ LoopHolds
    /\ Asleep
    /\ CallOk

\* After init the invariant holds.
LEMMA InitIInv == Init => IInv
BY ConstantsOk DEF Init, IInv, TypeOK, LoopHolds, Asleep, CallOk, Channels, Kinds

\* The steps of each fiber, and of the network, as in JuggleService.
CallStep == Register \/ Push \/ Wait \/ Take
UserStep ==
    \/ Poll \/ PollReturn
    \/ \E c \in Channels : Connect(c) \/ Accept(c) \/ RemoveSession(c)
    \/ \E k \in Calls, c \in Channels, kind \in Kinds : Call(k, c, kind)
RoundStep == Round \/ EndVisit \/ NewChannels \/ Wake
VisitStep == \E c \in Channels : Visit(c)
ReceiveStep == \E c \in Channels : NetWork(c) \/ ServerRecv(c)
PeerStep == \E c \in Channels : PeerReply(c) \/ PeerCall(c)

\* A step of the system is one of these.
LEMMA StepCases ==
    ASSUME Next
    PROVE CallStep \/ UserStep \/ RoundStep \/ VisitStep \/ ReceiveStep \/ PeerStep
BY DEF Next, MainStep, InCall, LoopStep, NetStep, CallStep, UserStep, RoundStep, VisitStep,
       ReceiveStep, PeerStep

\* n messages leave the wire; j copies of the one at b go to the queue.
Moved(c, n, b, j) ==
    /\ n <= Len(wire[c])
    /\ wire' = [wire EXCEPT ![c] = SubSeq(@, n + 1, Len(@))]
    /\ que' = [que EXCEPT ![c] = @ \o [i \in 1..j |-> wire[c][b]]]

\* A receive event is such a move, of the messages of one read.
LEMMA ReceivedMoved ==
    ASSUME NEW c, Received(c)
    PROVE \E n \in 1..Batch : \E b \in 1..n : \E j \in 1..b : Moved(c, n, b, j)
BY DEF Received, Moved

\* A receive event moves messages of the channel; it makes none of another kind.
LEMMA ReceivedMessages ==
    ASSUME TypeOK, NEW c \in Channels, Received(c)
    PROVE /\ wire' \in [Channels -> Seq(Messages)]
          /\ que' \in [Channels -> Seq(Messages)]
<1>1. PICK n \in 1..Batch : \E b \in 1..n : \E j \in 1..b : Moved(c, n, b, j)
    BY ReceivedMoved
<1>2. PICK b \in 1..n : \E j \in 1..b : Moved(c, n, b, j)
    BY <1>1
<1>2a. PICK j \in 1..b : Moved(c, n, b, j)
    BY <1>2
<1>3. n \in Nat /\ b \in Nat /\ j \in Nat /\ n + 1 \in 1..(Len(wire[c]) + 1)
    BY <1>2a, ConstantsOk DEF TypeOK, Moved
<1>4. wire[c] \in Seq(Messages) /\ que[c] \in Seq(Messages)
    BY DEF TypeOK
<1>5. SubSeq(wire[c], n + 1, Len(wire[c])) \in Seq(Messages)
    BY <1>3, <1>4, LenProperties, SubSeqProperties
<1>6. wire[c][b] \in Messages
    BY <1>2a, <1>3, <1>4, ElementOfSeq DEF Moved
<1>7. [i \in 1..j |-> wire[c][b]] \in Seq(Messages)
    BY <1>3, <1>6
<1>8. que[c] \o [i \in 1..j |-> wire[c][b]] \in Seq(Messages)
    BY <1>4, <1>7, ConcatProperties
<1>. QED BY <1>2a, <1>5, <1>8 DEF TypeOK, Moved

\* What becomes of a message that is handled.
LEMMA Handled ==
    ASSUME TypeOK, NEW m \in Messages, Handle(m)
    PROVE \/ /\ m.suuid \in Calls
             /\ method_callback_map[m.suuid] = "sync"
             /\ signal' = Append(signal, m.suuid)
             /\ wait_weak_up_context' = IF wait_ct # None
                                        THEN Append(wait_weak_up_context, wait_ct)
                                        ELSE wait_weak_up_context
          \/ /\ m.suuid \in Calls => method_callback_map[m.suuid] # "sync"
             /\ UNCHANGED <<signal, wait_weak_up_context>>
<1>1. m.rpcevent = "reply" <=> m.suuid \in Calls
    BY ConstantsOk DEF Messages
<1>2. CASE m.rpcevent = "reply" /\ method_callback_map[m.suuid] = "sync"
    BY <1>1, <1>2 DEF Handle, Post, wake_up_context
<1>3. CASE ~ (m.rpcevent = "reply" /\ method_callback_map[m.suuid] = "sync")
    BY <1>1, <1>3 DEF Handle
<1>. QED BY <1>2, <1>3

\* A step keeps the types.
LEMMA TypeStep ==
    ASSUME IInv, Next
    PROVE TypeOK'
<1> USE ConstantsOk DEF IInv, TypeOK, CallOk, Channels, sessionVars, callVars, netVars
<1>1. CASE CallStep
  <2>1. CASE Register BY <2>1 DEF Register
  <2>2. CASE Push BY <2>2 DEF Push
  <2>3. CASE Wait BY <2>3 DEF Wait, scheduler, Yield, get_current_context
  <2>4. CASE Take BY <2>4 DEF Take
  <2>. QED BY <1>1, <2>1, <2>2, <2>3, <2>4 DEF CallStep
<1>2. CASE UserStep
  <2>1. CASE Poll BY <2>1 DEF Poll, wake_up_context, get_current_context, Yield
  <2>2. CASE PollReturn BY <2>2 DEF PollReturn
  <2>3. ASSUME NEW c \in Channels, Connect(c) \/ Accept(c) \/ RemoveSession(c) PROVE TypeOK'
      BY <2>3 DEF Connect, Accept, RemoveSession, AddSession
  <2>4. ASSUME NEW k \in Calls, NEW c \in Channels, NEW kind \in Kinds, Call(k, c, kind)
        PROVE TypeOK'
      BY <2>4 DEF Call
  <2>. QED BY <1>2, <2>1, <2>2, <2>3, <2>4 DEF UserStep
<1>3. CASE RoundStep
  <2>1. CASE Round BY <2>1 DEF Round, Mutexes
  <2>2. CASE EndVisit BY <2>2 DEF EndVisit
  <2>3. CASE NewChannels BY <2>3 DEF NewChannels
  <2>4. CASE Wake
    <3>1. CASE wait_weak_up_context = <<>>
        BY <2>4, <3>1 DEF Wake
    <3>2. CASE wait_weak_up_context # <<>>
      <4>1. Len(wait_weak_up_context) \in Nat \ {0}
          BY <3>2, EmptySeq, LenProperties
      <4>2. wait_weak_up_context[Len(wait_weak_up_context)] = Main
          BY <4>1, ElementOfSeq
      <4>3. SubSeq(wait_weak_up_context, 1, Len(wait_weak_up_context) - 1) \in Seq({Main})
          BY <4>1, SubSeqProperties
      <4>. QED BY <2>4, <3>2, <4>2, <4>3 DEF Wake, Yield
    <3>. QED BY <3>1, <3>2
  <2>. QED BY <1>3, <2>1, <2>2, <2>3, <2>4 DEF RoundStep
<1>4. ASSUME NEW c \in Channels, Visit(c) PROVE TypeOK'
  <2>1. CASE que[c] = <<>>
      BY <1>4, <2>1 DEF Visit
  <2>2. CASE que[c] # <<>>
    <3> DEFINE m == Head(que[c])
    <3>1. que[c] \in Seq(Messages) /\ m \in Messages /\ Tail(que[c]) \in Seq(Messages)
        BY <2>2, HeadTailProperties
    <3>2. que' = [que EXCEPT ![c] = Tail(@)] /\ Handle(m)
        BY <1>4, <2>2 DEF Visit
    <3>4. signal' \in Seq(Calls) /\ wait_weak_up_context' \in Seq({Main})
      <4>. HIDE DEF m
      <4>1. signal \in Seq(Calls) /\ wait_weak_up_context \in Seq({Main})
          OBVIOUS
      <4>. HIDE DEF TypeOK, IInv, CallOk
      <4>2. CASE /\ m.suuid \in Calls
                 /\ signal' = Append(signal, m.suuid)
                 /\ wait_weak_up_context' = IF wait_ct # None
                                            THEN Append(wait_weak_up_context, wait_ct)
                                            ELSE wait_weak_up_context
          BY <4>1, <4>2, AppendProperties DEF TypeOK, IInv
      <4>3. CASE UNCHANGED <<signal, wait_weak_up_context>>
          BY <4>1, <4>3
      <4>. QED BY <3>1, <3>2, <4>2, <4>3, Handled DEF IInv
    <3>5. que' \in [Channels -> Seq(Messages)]
        BY <3>1, <3>2
    <3>. QED BY <1>4, <3>4, <3>5 DEF Visit
  <2>. QED BY <2>1, <2>2
<1>5. ASSUME NEW c \in Channels, NetWork(c) \/ ServerRecv(c) PROVE TypeOK'
  <2>1. Received(c)
      BY <1>5 DEF NetWork, ServerRecv
  <2>2. wire' \in [Channels -> Seq(Messages)] /\ que' \in [Channels -> Seq(Messages)]
      BY <2>1, ReceivedMessages
  <2>. QED BY <1>5, <2>2 DEF NetWork, ServerRecv
<1>6. ASSUME NEW c \in Channels, PeerReply(c) \/ PeerCall(c) PROVE TypeOK'
  <2>1. CASE PeerReply(c)
    <3>1. PICK k \in asked[c] :
              /\ asked' = [asked EXCEPT ![c] = @ \ {k}]
              /\ wire' = [wire EXCEPT ![c] = Append(@, [rpcevent |-> "reply", suuid |-> k])]
        BY <2>1 DEF PeerReply
    <3>2. [rpcevent |-> "reply", suuid |-> k] \in Messages
        BY DEF Messages
    <3>3. wire' \in [Channels -> Seq(Messages)]
        BY <3>1, <3>2, AppendProperties
    <3>. QED BY <2>1, <3>1, <3>3 DEF PeerReply
  <2>2. CASE PeerCall(c)
    <3>1. PICK r \in Requests \ requested :
              /\ requested' = requested \cup {r}
              /\ wire' = [wire EXCEPT ![c] = Append(@, [rpcevent |-> "call", suuid |-> r])]
        BY <2>2 DEF PeerCall
    <3>2. [rpcevent |-> "call", suuid |-> r] \in Messages
        BY DEF Messages
    <3>3. wire' \in [Channels -> Seq(Messages)]
        BY <3>1, <3>2, AppendProperties
    <3>. QED BY <2>2, <3>1, <3>3 DEF PeerCall
  <2>. QED BY <1>6, <2>1, <2>2
<1>. QED BY <1>1, <1>2, <1>3, <1>4, <1>5, <1>6, StepCases
         DEF VisitStep, ReceiveStep, PeerStep

\* A step keeps the turns of the fibers and what Main knows about its call.
LEMMA FiberStep ==
    ASSUME IInv, Next
    PROVE LoopHolds' /\ Asleep' /\ CallOk'
<1> USE ConstantsOk DEF IInv, TypeOK, LoopHolds, Asleep, CallOk, NoCall, Kinds, sessionVars, callVars,
        Yield, get_current_context, scheduler
<1>1. CASE CallStep
  <2>1. CASE Register BY <2>1 DEF Register
  <2>2. CASE Push BY <2>2 DEF Push
  <2>3. CASE Wait BY <2>3 DEF Wait
  <2>4. CASE Take BY <2>4 DEF Take
  <2>. QED BY <1>1, <2>1, <2>2, <2>3, <2>4 DEF CallStep
<1>2. CASE UserStep
  <2>1. CASE Poll BY <2>1 DEF Poll
  <2>2. CASE PollReturn BY <2>2 DEF PollReturn
  <2>3. ASSUME NEW c \in Channels, Connect(c) \/ Accept(c) \/ RemoveSession(c)
        PROVE LoopHolds' /\ Asleep' /\ CallOk'
      BY <2>3 DEF Connect, Accept, RemoveSession
  <2>4. ASSUME NEW k \in Calls, NEW c \in Channels, NEW kind \in Kinds, Call(k, c, kind)
        PROVE LoopHolds' /\ Asleep' /\ CallOk'
      BY <2>4 DEF Call
  <2>. QED BY <1>2, <2>1, <2>2, <2>3, <2>4 DEF UserStep
<1>3. CASE RoundStep
    BY <1>3 DEF RoundStep, Round, EndVisit, NewChannels, Wake
<1>4. CASE VisitStep
    BY <1>4 DEF VisitStep, Visit
<1>5. CASE ReceiveStep
    BY <1>5 DEF ReceiveStep, NetWork, ServerRecv
<1>6. CASE PeerStep
    BY <1>6 DEF PeerStep, PeerReply, PeerCall
<1>. QED BY <1>1, <1>2, <1>3, <1>4, <1>5, <1>6, StepCases

\* A stuttering step keeps the invariant.
LEMMA StutterIInv == IInv /\ UNCHANGED vars => IInv'
BY DEF IInv, TypeOK, LoopHolds, Asleep, CallOk, vars, sessionVars, callVars, netVars

\* IInv is inductive, whatever an event brings.
THEOREM Invariance == Spec => []IInv
<1>1. IInv /\ [Next]_vars => IInv'
    BY TypeStep, FiberStep, StutterIInv DEF IInv
<1>. QED BY InitIInv, <1>1, PTL DEF Spec

\* Every variable keeps its type, for any number of channels, calls and messages.
THEOREM Typing == Spec => []TypeOK
<1>1. IInv => TypeOK BY DEF IInv
<1>. QED BY Invariance, <1>1, PTL

\* loop_main holds no mutex when it yields: the application never waits for itself.
THEOREM NoSelfDeadlock == Spec => []NoLockAcrossYield
<1>1. IInv => NoLockAcrossYield BY DEF IInv, LoopHolds, NoLockAcrossYield
<1>. QED BY Invariance, <1>1, PTL

-----------------------------------------------------------------------------
(* One answer for each call *)

\* What has arrived on a channel and what is still to arrive.
Way(c) == que[c] \o wire[c]
Positions(c) == 1..Len(Way(c))

\* The peer has still to answer the call, or its answer is on its way.
OnWay(k) ==
    \E c \in Channels : k \in asked[c] \/ (\E i \in Positions(c) : Way(c)[i].suuid = k)

\* No call is asked or answered twice.
OneAnswer ==
    /\ \A c, d \in Channels : c # d => asked[c] \cap asked[d] = {}
    /\ \A c, d \in Channels : \A i \in Positions(c) : Way(c)[i].suuid \notin asked[d]
    /\ \A c, d \in Channels : \A i \in Positions(c), j \in Positions(d) :
          Way(c)[i].suuid = Way(d)[j].suuid /\ Way(c)[i].suuid \in Calls => c = d /\ i = j

\* Only the synchronous call Main makes can be answered, once.
Answers ==
    /\ \A k \in Calls : OnWay(k) => method_callback_map[k] # None
    /\ mpc = "push" => ~ OnWay(call.suuid)
    /\ \A k \in Calls : method_callback_map[k] = "sync" /\ OnWay(k) =>
          mpc \in {"sem", "wait"} /\ call.suuid = k /\ signal = <<>>
    /\ signal # <<>> => mpc = "wait" /\ signal = <<call.suuid>>
    /\ wait_ct = IF mpc = "wait" THEN Main ELSE None

SInv ==
    /\ OneAnswer
    /\ Answers
    /\ WokenByOwnReply
    /\ QueuedOnce

\* The first element of a sequence, moved to the end of the one before it, comes where
\* it was.
LEMMA HeadMoved ==
    ASSUME NEW S, NEW q \in Seq(S), NEW w \in Seq(S), w # <<>>
    PROVE (q \o [i \in 1..1 |-> w[1]]) \o SubSeq(w, 2, Len(w)) = q \o w
<1>1. Len(w) \in Nat \ {0} /\ \A i \in 1..Len(w) : w[i] \in S
  <2>1. Len(w) \in Nat \ {0}
      BY EmptySeq
  <2>. QED BY <2>1, ElementOfSeq
<1> DEFINE one == SubSeq(w, 1, 1)
           rest == SubSeq(w, 2, Len(w))
<1>2. one \in Seq(S) /\ Len(one) = 1 /\ one[1] = w[1]
  <2>1. \A i \in 1..1 : w[i] \in S
      BY <1>1
  <2>2. /\ SubSeq(w, 1, 1) \in Seq(S)
        /\ Len(SubSeq(w, 1, 1)) = (IF 1 <= 1 THEN 1-1+1 ELSE 0)
        /\ \A i \in 1 .. 1-1+1 : SubSeq(w,1,1)[i] = w[1+i-1]
      BY <2>1, SubSeqProperties
  <2>. QED BY <2>2
<1>3. one = [i \in 1..1 |-> w[1]]
  <2>1. one \in [1..1 -> S]
      BY <1>2, LenProperties
  <2>. HIDE DEF one
  <2>. QED BY <1>2, <2>1
<1>4. rest \in Seq(S)
  <2>1. \A i \in 2..Len(w) : w[i] \in S
      BY <1>1
  <2>. QED BY <1>1, <2>1, SubSeqProperties
<1>5. one \o rest = w
  <2>1. 1 \in 1..(Len(w) + 1) /\ 1 \in (1 - 1)..Len(w) /\ Len(w) \in 1..Len(w)
      BY <1>1
  <2>2. SubSeq(w, 1, 1) \o SubSeq(w, 1 + 1, Len(w)) = SubSeq(w, 1, Len(w))
      BY <2>1, ConcatAdjacentSubSeq
  <2>3. 1 + 1 = 2
      OBVIOUS
  <2>. QED BY <2>2, <2>3, SubSeqFull
<1>6. \A a, b \in Seq(S) : (q \o a) \o b = q \o (a \o b)
    BY ConcatAssociative
<1>. HIDE DEF one, rest
<1>7. (q \o one) \o rest = q \o w
    BY <1>2, <1>4, <1>5, <1>6
<1>. QED BY <1>3, <1>7 DEF rest

\* The head of the first of two sequences is that of both together.
LEMMA HeadTaken ==
    ASSUME NEW S, NEW q \in Seq(S), NEW w \in Seq(S), q # <<>>
    PROVE /\ Len(q \o w) \in Nat \ {0}
          /\ Head(q) \in S /\ (q \o w)[1] = Head(q)
          /\ Tail(q) \o w \in Seq(S)
          /\ Len(Tail(q) \o w) = Len(q \o w) - 1
          /\ \A i \in 1..(Len(q \o w) - 1) : (Tail(q) \o w)[i] = (q \o w)[i + 1]
<1>1. Len(q) \in Nat \ {0} /\ Len(w) \in Nat
  <2>1. Len(q) \in Nat \ {0}
      BY EmptySeq
  <2>2. Len(w) \in Nat
      BY LenProperties
  <2>. QED BY <2>1, <2>2
<1>2. /\ Head(q) \in S
      /\ Tail(q) \in Seq(S)
      /\ Len(Tail(q)) = Len(q) - 1
      /\ \A i \in 1..(Len(q) - 1) : Tail(q)[i] = q[i + 1]
    BY HeadTailProperties
<1>3. Head(q) = q[1]
    OBVIOUS
<1>4. /\ Len(q \o w) = Len(q) + Len(w)
      /\ \A i \in 1..(Len(q) + Len(w)) :
            (q \o w)[i] = IF i <= Len(q) THEN q[i] ELSE w[i - Len(q)]
    BY ConcatProperties
<1> DEFINE p == Tail(q)
<1>5. p \in Seq(S)
    BY <1>2
<1>6. Len(p) = Len(q) - 1 /\ \A i \in 1..(Len(q) - 1) : p[i] = q[i + 1]
    BY <1>2
<1>. HIDE DEF p
<1>7. /\ p \o w \in Seq(S)
      /\ Len(p \o w) = Len(p) + Len(w)
      /\ \A i \in 1..(Len(p) + Len(w)) :
            (p \o w)[i] = IF i <= Len(p) THEN p[i] ELSE w[i - Len(p)]
    BY <1>5, ConcatProperties
<1>8. ASSUME NEW i \in 1..(Len(q \o w) - 1) PROVE (p \o w)[i] = (q \o w)[i + 1]
  <2>1. i \in 1..(Len(p) + Len(w)) /\ i + 1 \in 1..(Len(q) + Len(w))
      BY <1>1, <1>4, <1>6
  <2>2. CASE i <= Len(p)
    <3>1. i \in 1..(Len(q) - 1) /\ i + 1 <= Len(q)
        BY <1>1, <1>6, <2>2
    <3>. QED BY <1>4, <1>6, <1>7, <2>1, <2>2, <3>1
  <2>3. CASE ~ (i <= Len(p))
    <3>1. i - Len(p) = i + 1 - Len(q) /\ ~ (i + 1 <= Len(q))
        BY <1>1, <1>6, <2>3
    <3>2. (p \o w)[i] = w[i - Len(p)]
        BY <1>7, <2>1, <2>3
    <3>3. (q \o w)[i + 1] = w[i + 1 - Len(q)]
        BY <1>4, <2>1, <3>1
    <3>. QED BY <3>1, <3>2, <3>3
  <2>. QED BY <2>2, <2>3
<1>9. Len(p \o w) = Len(q \o w) - 1 /\ Len(q \o w) \in Nat \ {0}
    BY <1>1, <1>4, <1>6, <1>7
<1>10. (q \o w)[1] = Head(q)
    BY <1>1, <1>3, <1>4
<1>. QED BY <1>2, <1>7, <1>8, <1>9, <1>10 DEF p

\* An element appended to the second comes last in both together.
LEMMA LastAppended ==
    ASSUME NEW S, NEW q \in Seq(S), NEW w \in Seq(S), NEW m \in S
    PROVE /\ Len(q \o Append(w, m)) = Len(q \o w) + 1
          /\ (q \o Append(w, m))[Len(q \o w) + 1] = m
          /\ \A i \in 1..Len(q \o w) : (q \o Append(w, m))[i] = (q \o w)[i]
<1> DEFINE e == <<m>> qw == q \o w
<1>1. e \in Seq(S) /\ qw \in Seq(S)
    BY ConcatProperties
<1>2. Append(w, m) = w \o e
    BY AppendIsConcat
<1>3. Append(qw, m) = qw \o e
    BY <1>1, AppendIsConcat
<1>. HIDE DEF e
<1>4. (q \o w) \o e = q \o (w \o e)
    BY <1>1, ConcatAssociative
<1>5. q \o Append(w, m) = Append(qw, m)
    BY <1>2, <1>3, <1>4
<1>. HIDE DEF qw
<1>6. /\ Len(Append(qw, m)) = Len(qw) + 1
      /\ \A i \in 1..Len(qw) : Append(qw, m)[i] = qw[i]
      /\ Append(qw, m)[Len(qw) + 1] = m
    BY <1>1, AppendProperties
<1>. QED BY <1>5, <1>6 DEF qw

\* The messages of a channel, by position.
LEMMA WayType ==
    ASSUME TypeOK, NEW c \in Channels
    PROVE /\ que[c] \in Seq(Messages) /\ wire[c] \in Seq(Messages)
          /\ Way(c) \in Seq(Messages)
          /\ Len(Way(c)) \in Nat
          /\ \A i \in Positions(c) : Way(c)[i] \in Messages
<1>1. que[c] \in Seq(Messages) /\ wire[c] \in Seq(Messages)
    BY DEF TypeOK
<1>2. Way(c) \in Seq(Messages)
    BY <1>1, ConcatProperties DEF Way
<1>. QED BY <1>1, <1>2, LenProperties, ElementOfSeq DEF Positions

\* An event that brings one message leaves it where it is among the others.
LEMMA WayReceived ==
    ASSUME TypeOK, Batch = 1, NEW c \in Channels, Received(c), NEW d \in Channels
    PROVE Way(d)' = Way(d)
<1>1. PICK n \in 1..Batch : \E b \in 1..n : \E j \in 1..b : Moved(c, n, b, j)
    BY ReceivedMoved
<1>2. n = 1
    OBVIOUS
<1>3. PICK b \in 1..n : \E j \in 1..b : Moved(c, n, b, j)
    BY <1>1
<1>4. PICK j \in 1..b : Moved(c, n, b, j)
    BY <1>3
<1>5. b = 1 /\ j = 1 /\ n + 1 = 2
    BY <1>2
<1>6. /\ Len(wire[c]) >= 1
      /\ wire' = [wire EXCEPT ![c] = SubSeq(@, 2, Len(@))]
      /\ que' = [que EXCEPT ![c] = @ \o [i \in 1..1 |-> wire[c][1]]]
  <2>1. Len(wire[c]) \in Nat
      BY WayType, LenProperties
  <2>2. 1 <= Len(wire[c]) => Len(wire[c]) >= 1
      BY <2>1
  <2>. QED BY <1>2, <1>4, <1>5, <2>2 DEF Moved
<1>7. (que[c] \o [i \in 1..1 |-> wire[c][1]]) \o SubSeq(wire[c], 2, Len(wire[c]))
        = que[c] \o wire[c]
  <2>1. wire[c] \in Seq(Messages) /\ que[c] \in Seq(Messages)
      BY WayType
  <2>2. wire[c] # <<>>
      BY <1>6
  <2>. QED BY <2>1, <2>2, HeadMoved
<1>8. Way(c)' = Way(c)
    BY <1>6, <1>7 DEF Way, TypeOK
<1>9. d # c => Way(d)' = Way(d)
    BY <1>6 DEF Way, TypeOK
<1>. QED BY <1>8, <1>9

\* The loop takes the first message of a channel.
LEMMA WayVisited ==
    ASSUME TypeOK, NEW c \in Channels, que[c] # <<>>,
           que' = [que EXCEPT ![c] = Tail(@)], wire' = wire
    PROVE /\ Len(Way(c)) \in Nat \ {0}
          /\ Positions(c)' = 1..(Len(Way(c)) - 1)
          /\ Way(c)[1] = Head(que[c]) /\ Head(que[c]) \in Messages
          /\ \A i \in 1..(Len(Way(c)) - 1) : Way(c)'[i] = Way(c)[i + 1]
          /\ \A d \in Channels \ {c} : Way(d)' = Way(d)
<1>1. que[c] \in Seq(Messages) /\ wire[c] \in Seq(Messages)
    BY WayType
<1>2. Way(c)' = Tail(que[c]) \o wire[c]
    BY DEF Way, TypeOK
<1>3. \A d \in Channels \ {c} : Way(d)' = Way(d)
    BY DEF Way, TypeOK
<1>4. /\ Len(que[c] \o wire[c]) \in Nat \ {0}
      /\ Head(que[c]) \in Messages /\ (que[c] \o wire[c])[1] = Head(que[c])
      /\ Len(Tail(que[c]) \o wire[c]) = Len(que[c] \o wire[c]) - 1
      /\ \A i \in 1..(Len(que[c] \o wire[c]) - 1) :
            (Tail(que[c]) \o wire[c])[i] = (que[c] \o wire[c])[i + 1]
  <2> DEFINE q == que[c] w == wire[c]
  <2>1. q \in Seq(Messages) /\ w \in Seq(Messages) /\ q # <<>>
      BY <1>1
  <2>. HIDE DEF q, w
  <2>2. /\ Len(q \o w) \in Nat \ {0}
        /\ Head(q) \in Messages /\ (q \o w)[1] = Head(q)
        /\ Len(Tail(q) \o w) = Len(q \o w) - 1
        /\ \A i \in 1..(Len(q \o w) - 1) : (Tail(q) \o w)[i] = (q \o w)[i + 1]
      BY <2>1, HeadTaken
  <2>. QED BY <2>2 DEF q, w
<1>. QED BY <1>2, <1>3, <1>4 DEF Way, Positions

\* A message that is sent comes after the others.
LEMMA WaySent ==
    ASSUME TypeOK, NEW c \in Channels, NEW m \in Messages,
           wire' = [wire EXCEPT ![c] = Append(@, m)], que' = que
    PROVE /\ Len(Way(c)) \in Nat
          /\ Positions(c)' = 1..(Len(Way(c)) + 1)
          /\ Way(c)'[Len(Way(c)) + 1] = m
          /\ \A i \in Positions(c) : Way(c)'[i] = Way(c)[i]
          /\ \A d \in Channels \ {c} : Way(d)' = Way(d)
<1>1. que[c] \in Seq(Messages) /\ wire[c] \in Seq(Messages) /\ Len(Way(c)) \in Nat
    BY WayType
<1>2. Way(c)' = que[c] \o Append(wire[c], m)
    BY DEF Way, TypeOK
<1>3. \A d \in Channels \ {c} : Way(d)' = Way(d)
    BY DEF Way, TypeOK
<1>4. /\ Len(que[c] \o Append(wire[c], m)) = Len(que[c] \o wire[c]) + 1
      /\ (que[c] \o Append(wire[c], m))[Len(que[c] \o wire[c]) + 1] = m
      /\ \A i \in 1..Len(que[c] \o wire[c]) :
            (que[c] \o Append(wire[c], m))[i] = (que[c] \o wire[c])[i]
  <2> DEFINE q == que[c] w == wire[c]
  <2>1. q \in Seq(Messages) /\ w \in Seq(Messages)
      BY <1>1
  <2>. HIDE DEF q, w
  <2>2. /\ Len(q \o Append(w, m)) = Len(q \o w) + 1
        /\ (q \o Append(w, m))[Len(q \o w) + 1] = m
        /\ \A i \in 1..Len(q \o w) : (q \o Append(w, m))[i] = (q \o w)[i]
      BY <2>1, LastAppended
  <2>. QED BY <2>2 DEF q, w
<1>. QED BY <1>1, <1>2, <1>3, <1>4 DEF Way, Positions

\* Nothing is on its way when the service starts.
LEMMA InitSInv == Init => SInv
<1> SUFFICES ASSUME Init PROVE SInv
    OBVIOUS
<1>1. TypeOK
    BY InitIInv DEF IInv
<1>2. \A c \in Channels : Way(c) = <<>> /\ Positions(c) = {} /\ asked[c] = {}
    BY DEF Init, Way, Positions
<1>3. OneAnswer
    BY <1>2 DEF OneAnswer
<1>4. \A k \in Calls : ~ OnWay(k)
    BY <1>2 DEF OnWay
<1>5. Answers
    BY <1>4, ConstantsOk DEF Answers, Init
<1>. QED BY <1>1, <1>3, <1>5 DEF SInv, WokenByOwnReply, QueuedOnce, Init

\* A step that leaves the ways and the asked calls as they are.
LEMMA SameWays ==
    ASSUME UNCHANGED asked, \A c \in Channels : Way(c)' = Way(c), OneAnswer
    PROVE OneAnswer' /\ \A k : OnWay(k)' = OnWay(k)
<1>1. \A c \in Channels : Positions(c)' = Positions(c)
    BY DEF Positions
<1>. QED BY <1>1 DEF OneAnswer, OnWay

\* Calls Main makes.
LEMMA CallSInv ==
    ASSUME IInv, SInv, CallStep
    PROVE OneAnswer' /\ Answers' /\ WokenByOwnReply'
<1> USE ConstantsOk DEF IInv, SInv, TypeOK, CallOk, Asleep, LoopHolds, Kinds, sessionVars, callVars, netVars
<1>1. CASE Register
  <2>1. UNCHANGED asked /\ \A c \in Channels : Way(c)' = Way(c)
      BY <1>1 DEF Register, Way
  <2>2. OneAnswer' /\ \A k \in Calls : OnWay(k)' = OnWay(k)
    <3>. HIDE DEF IInv, TypeOK
    <3>. QED BY <2>1, SameWays
  <2>3. /\ mpc = "register" /\ mpc' = "push" /\ call' = call /\ call.suuid \in Calls
        /\ UNCHANGED <<signal, wait_ct>>
        /\ method_callback_map' = [method_callback_map EXCEPT ![call.suuid] = call.kind]
        /\ call.kind # None
      BY <1>1 DEF Register, NoCall
  <2>4. ~ OnWay(call.suuid)
      BY <2>3 DEF Answers
  <2>5. Answers'
      BY <2>2, <2>3, <2>4 DEF Answers
  <2>. QED BY <2>2, <2>3, <2>5 DEF WokenByOwnReply
<1>2. CASE Push
  <2>1. /\ mpc = "push" /\ call.suuid \in Calls /\ call.ch \in Channels
        /\ asked' = [asked EXCEPT ![call.ch] = @ \cup {call.suuid}]
        /\ UNCHANGED <<signal, wait_ct, method_callback_map, que, wire>>
        /\ \/ call.kind = "sync" /\ mpc' = "sem" /\ call' = call
           \/ call.kind = "async" /\ mpc' = "user"
      BY <1>2 DEF Push, NoCall
  <2>2. \A c \in Channels : Way(c)' = Way(c) /\ Positions(c)' = Positions(c)
      BY <2>1 DEF Way, Positions
  <2>3. ~ OnWay(call.suuid)
      BY <2>1 DEF Answers
  <2>4. OneAnswer'
    <3> DEFINE s == call.suuid
    <3>1. \A c \in Channels : s \notin asked[c] /\ \A i \in Positions(c) : Way(c)[i].suuid # s
        BY <2>3 DEF OnWay
    <3>2. \A c \in Channels : asked'[c] = IF c = call.ch THEN asked[c] \cup {s} ELSE asked[c]
        BY <2>1
    <3>. HIDE DEF s, IInv, TypeOK
    <3>3. ASSUME NEW b \in Channels, NEW d \in Channels, b # d
          PROVE asked'[b] \cap asked'[d] = {}
      <4>1. asked[b] \cap asked[d] = {}
          BY <3>3 DEF OneAnswer
      <4>2. asked'[b] \subseteq asked[b] \cup {s} /\ asked'[d] \subseteq asked[d] \cup {s}
          BY <3>2
      <4>3. ~ (s \in asked'[b] /\ s \in asked'[d])
          BY <3>1, <3>2, <3>3
      <4>. QED BY <4>1, <4>2, <4>3
    <3>4. ASSUME NEW b \in Channels, NEW d \in Channels, NEW i \in Positions(b)'
          PROVE Way(b)'[i].suuid \notin asked'[d]
      <4>1. i \in Positions(b) /\ Way(b)'[i] = Way(b)[i]
          BY <2>2
      <4>2. Way(b)[i].suuid \notin asked[d] /\ Way(b)[i].suuid # s
          BY <3>1, <4>1 DEF OneAnswer
      <4>. QED BY <3>2, <4>1, <4>2
    <3>5. \A b, d \in Channels : \A i \in Positions(b)', j \in Positions(d)' :
              Way(b)'[i].suuid = Way(d)'[j].suuid /\ Way(b)'[i].suuid \in Calls => b = d /\ i = j
        BY <2>2 DEF OneAnswer
    <3>. QED BY <3>3, <3>4, <3>5 DEF OneAnswer
  <2>5. \A k \in Calls : OnWay(k)' => OnWay(k) \/ k = call.suuid
    <3>1. \A c \in Channels : \A k \in asked'[c] : k \in asked[c] \/ k = call.suuid
        BY <2>1
    <3>. QED BY <2>2, <3>1 DEF OnWay
  <2>6. method_callback_map[call.suuid] = call.kind /\ signal = <<>> /\ wait_ct = None
      BY <2>1 DEF Answers
  <2>7. Answers'
      BY <2>1, <2>5, <2>6 DEF Answers
  <2>. QED BY <2>1, <2>4, <2>7 DEF WokenByOwnReply
<1>3. CASE Wait
  <2>1. UNCHANGED asked /\ \A c \in Channels : Way(c)' = Way(c)
      BY <1>3 DEF Wait, Way
  <2>2. OneAnswer' /\ \A k \in Calls : OnWay(k)' = OnWay(k)
    <3>. HIDE DEF IInv, TypeOK
    <3>. QED BY <2>1, SameWays
  <2>3. mpc = "sem" /\ signal = <<>>
      BY <1>3 DEF Wait, Answers
  <2>4. /\ mpc' = "wait" /\ wait_ct' = Main /\ running' = Loop
        /\ UNCHANGED <<signal, call, method_callback_map>>
      BY <1>3, <2>3 DEF Wait, scheduler, Yield, get_current_context
  <2>5. Answers'
      BY <2>2, <2>3, <2>4 DEF Answers
  <2>. QED BY <2>2, <2>4, <2>5 DEF WokenByOwnReply
<1>4. CASE Take
  <2>1. UNCHANGED asked /\ \A c \in Channels : Way(c)' = Way(c)
      BY <1>4 DEF Take, Way
  <2>2. OneAnswer' /\ \A k \in Calls : OnWay(k)' = OnWay(k)
    <3>. HIDE DEF IInv, TypeOK
    <3>. QED BY <2>1, SameWays
  <2>3. /\ mpc = "wait" /\ signal # <<>> /\ signal' = <<>> /\ wait_ct' = None /\ mpc' = "user"
        /\ UNCHANGED method_callback_map
      BY <1>4 DEF Take
  <2>4. Answers'
      BY <2>2, <2>3 DEF Answers
  <2>. QED BY <2>2, <2>3, <2>4 DEF WokenByOwnReply
<1>. QED BY <1>1, <1>2, <1>3, <1>4 DEF CallStep

\* What else the application does, and what loop_main does between the channels.
LEMMA OtherSInv ==
    ASSUME IInv, SInv, UserStep \/ RoundStep
    PROVE OneAnswer' /\ Answers' /\ WokenByOwnReply'
<1> USE DEF IInv, SInv, TypeOK, CallOk, Asleep, LoopHolds, sessionVars, callVars, netVars
<1>1. CASE UserStep
  <2>1. /\ UNCHANGED <<que, wire, asked, signal, method_callback_map, wait_ct>>
        /\ mpc \notin {"push", "sem", "wait"} /\ mpc' \notin {"push", "sem", "wait"}
      BY <1>1 DEF UserStep, Poll, PollReturn, Connect, Accept, RemoveSession, Call
  <2>2. \A c \in Channels : Way(c)' = Way(c)
      BY <2>1 DEF Way
  <2>3. OneAnswer' /\ \A k \in Calls : OnWay(k)' = OnWay(k)
    <3>. HIDE DEF IInv, TypeOK
    <3>. QED BY <2>1, <2>2, SameWays
  <2>4. Answers'
      BY <2>1, <2>3 DEF Answers
  <2>. QED BY <2>1, <2>3, <2>4 DEF WokenByOwnReply
<1>2. CASE RoundStep
  <2>1. UNCHANGED <<que, wire, asked, signal, method_callback_map, wait_ct, mpc, call>>
      BY <1>2 DEF RoundStep, Round, EndVisit, NewChannels, Wake
  <2>2. \A c \in Channels : Way(c)' = Way(c)
      BY <2>1 DEF Way
  <2>3. OneAnswer' /\ \A k \in Calls : OnWay(k)' = OnWay(k)
    <3>. HIDE DEF IInv, TypeOK
    <3>. QED BY <2>1, <2>2, SameWays
  <2>4. Answers'
      BY <2>1, <2>3 DEF Answers
  <2>5. WokenByOwnReply'
    <3>1. CASE Round \/ EndVisit \/ NewChannels
        BY <2>1, <3>1 DEF Round, EndVisit, NewChannels, WokenByOwnReply
    <3>2. CASE Wake
        BY <2>1, <3>2 DEF Wake, WokenByOwnReply, QueuedOnce, Answers
    <3>. QED BY <1>2, <3>1, <3>2 DEF RoundStep
  <2>. QED BY <2>3, <2>4, <2>5
<1>. QED BY <1>1, <1>2

\* Messages that arrive or are sent.
LEMMA NetSInv ==
    ASSUME IInv, SInv, Batch = 1, ReceiveStep \/ PeerStep
    PROVE OneAnswer' /\ Answers' /\ WokenByOwnReply'
<1> USE DEF IInv, SInv
<1>1. ASSUME \A k \in Calls : OnWay(k)' = OnWay(k),
             UNCHANGED <<signal, method_callback_map, wait_ct, call, running>>,
             mpc' = mpc \/ (mpc = "user" /\ mpc' = "server")
      PROVE Answers' /\ WokenByOwnReply'
  <2>1. mpc = "push" => call.suuid \in Calls
      BY DEF CallOk, TypeOK, NoCall
  <2>2. Answers'
      BY <1>1, <2>1 DEF Answers
  <2>. QED BY <1>1, <2>2 DEF WokenByOwnReply
<1>2. ASSUME NEW c \in Channels, NetWork(c) \/ ServerRecv(c)
      PROVE OneAnswer' /\ Answers' /\ WokenByOwnReply'
  <2>1. \A d \in Channels : Way(d)' = Way(d)
      BY <1>2, WayReceived DEF NetWork, ServerRecv
  <2>2. /\ UNCHANGED <<asked, signal, method_callback_map, wait_ct, call, running>>
        /\ mpc' = mpc \/ (mpc = "user" /\ mpc' = "server")
      BY <1>2 DEF NetWork, ServerRecv, callVars
  <2>3. OneAnswer' /\ \A k \in Calls : OnWay(k)' = OnWay(k)
      BY <2>1, <2>2, SameWays
  <2>. QED BY <1>1, <2>2, <2>3
<1>3. ASSUME NEW c \in Channels, PeerReply(c)
      PROVE OneAnswer' /\ Answers' /\ WokenByOwnReply'
  <2>1. PICK k \in asked[c] :
            /\ asked' = [asked EXCEPT ![c] = @ \ {k}]
            /\ wire' = [wire EXCEPT ![c] = Append(@, [rpcevent |-> "reply", suuid |-> k])]
      BY <1>3 DEF PeerReply
  <2> DEFINE m == [rpcevent |-> "reply", suuid |-> k]
             n == Len(Way(c)) + 1
  <2>2. m \in Messages /\ m.suuid = k /\ k \in Calls /\ que' = que
      BY <1>3 DEF Messages, TypeOK, PeerReply
  <2>3. /\ Len(Way(c)) \in Nat
        /\ Positions(c)' = 1..n
        /\ Way(c)'[n] = m
        /\ \A i \in Positions(c) : Way(c)'[i] = Way(c)[i]
        /\ \A d \in Channels \ {c} : Way(d)' = Way(d)
    <3>1. wire' = [wire EXCEPT ![c] = Append(@, m)]
        BY <2>1
    <3>. HIDE DEF m
    <3>. QED BY <2>2, <3>1, WaySent
  <2>4. /\ Positions(c)' = Positions(c) \cup {n} /\ n \notin Positions(c)
        /\ \A d \in Channels \ {c} : Positions(d)' = Positions(d)
      BY <2>3 DEF Positions
  <2>5. /\ asked'[c] = asked[c] \ {k}
        /\ \A d \in Channels \ {c} : asked'[d] = asked[d]
      BY <2>1 DEF TypeOK
  <2>6. \A d \in Channels : \A i \in Positions(d) : Way(d)[i].suuid # k
      BY DEF OneAnswer
  <2>7. \A d \in Channels \ {c} : k \notin asked[d]
      BY DEF OneAnswer
  <2>. HIDE DEF n, m, IInv
  <2>8. OneAnswer'
    <3>1. \A b, d \in Channels : b # d => asked'[b] \cap asked'[d] = {}
        BY <2>5 DEF OneAnswer
    <3>2. \A b, d \in Channels : \A i \in Positions(b)' : Way(b)'[i].suuid \notin asked'[d]
      <4> SUFFICES ASSUME NEW b \in Channels, NEW d \in Channels, NEW i \in Positions(b)'
                   PROVE Way(b)'[i].suuid \notin asked'[d]
          OBVIOUS
      <4>1. CASE b = c /\ i = n
          BY <2>2, <2>3, <2>5, <2>7, <4>1
      <4>2. CASE ~ (b = c /\ i = n)
        <5>1. i \in Positions(b) /\ Way(b)'[i] = Way(b)[i]
            BY <2>3, <2>4, <4>2
        <5>. QED BY <2>5, <5>1 DEF OneAnswer
      <4>. QED BY <4>1, <4>2
    <3>3. \A b, d \in Channels : \A i \in Positions(b)', j \in Positions(d)' :
              Way(b)'[i].suuid = Way(d)'[j].suuid /\ Way(b)'[i].suuid \in Calls => b = d /\ i = j
      <4> SUFFICES ASSUME NEW b \in Channels, NEW d \in Channels,
                          NEW i \in Positions(b)', NEW j \in Positions(d)',
                          Way(b)'[i].suuid = Way(d)'[j].suuid, Way(b)'[i].suuid \in Calls
                   PROVE b = d /\ i = j
          OBVIOUS
      <4>1. (b = c /\ i = n) \/ (i \in Positions(b) /\ Way(b)'[i] = Way(b)[i])
          BY <2>3, <2>4
      <4>2. (d = c /\ j = n) \/ (j \in Positions(d) /\ Way(d)'[j] = Way(d)[j])
          BY <2>3, <2>4
      <4>. QED BY <2>2, <2>3, <2>6, <4>1, <4>2 DEF OneAnswer
    <3>. QED BY <3>1, <3>2, <3>3 DEF OneAnswer
  <2>9. \A h \in Calls : OnWay(h)' = OnWay(h)
    <3> SUFFICES ASSUME NEW h \in Calls PROVE OnWay(h)' <=> OnWay(h)
        BY DEF OnWay
    <3>1. CASE h = k
      <4>1. OnWay(k)
          BY DEF OnWay
      <4>2. n \in Positions(c)' /\ Way(c)'[n].suuid = k
          BY <2>2, <2>3, <2>4
      <4>. QED BY <3>1, <4>1, <4>2 DEF OnWay
    <3>2. CASE h # k
      <4>1. \A d \in Channels : h \in asked'[d] <=> h \in asked[d]
          BY <2>5, <3>2
      <4>2. \A d \in Channels : (\E i \in Positions(d)' : Way(d)'[i].suuid = h)
                                 <=> (\E i \in Positions(d) : Way(d)[i].suuid = h)
          BY <2>2, <2>3, <2>4, <3>2
      <4>. QED BY <4>1, <4>2 DEF OnWay
    <3>. QED BY <3>1, <3>2
  <2>10. UNCHANGED <<signal, method_callback_map, wait_ct, call, mpc, running>>
      BY <1>3 DEF PeerReply, callVars
  <2>. QED BY <1>1, <2>8, <2>9, <2>10
<1>4. ASSUME NEW c \in Channels, PeerCall(c)
      PROVE OneAnswer' /\ Answers' /\ WokenByOwnReply'
  <2>1. PICK r \in Requests \ requested :
            wire' = [wire EXCEPT ![c] = Append(@, [rpcevent |-> "call", suuid |-> r])]
      BY <1>4 DEF PeerCall
  <2> DEFINE m == [rpcevent |-> "call", suuid |-> r]
             n == Len(Way(c)) + 1
  <2>2. m \in Messages /\ m.suuid \notin Calls /\ que' = que /\ asked' = asked
      BY <1>4, ConstantsOk DEF Messages, PeerCall
  <2>3. /\ Len(Way(c)) \in Nat
        /\ Positions(c)' = 1..n
        /\ Way(c)'[n] = m
        /\ \A i \in Positions(c) : Way(c)'[i] = Way(c)[i]
        /\ \A d \in Channels \ {c} : Way(d)' = Way(d)
    <3>1. wire' = [wire EXCEPT ![c] = Append(@, m)]
        BY <2>1
    <3>. HIDE DEF m
    <3>. QED BY <2>2, <3>1, WaySent
  <2>4. /\ Positions(c)' = Positions(c) \cup {n} /\ n \notin Positions(c)
        /\ \A d \in Channels \ {c} : Positions(d)' = Positions(d)
      BY <2>3 DEF Positions
  <2>5. \A d \in Channels : asked[d] \subseteq Calls
      BY DEF TypeOK
  <2>. HIDE DEF n, m, IInv
  <2>6. \A d \in Channels : \A i \in Positions(d)' :
            \/ i \in Positions(d) /\ Way(d)'[i] = Way(d)[i]
            \/ Way(d)'[i].suuid \notin Calls
      BY <2>2, <2>3, <2>4
  <2>7. OneAnswer'
      BY <2>2, <2>5, <2>6 DEF OneAnswer
  <2>8. \A h \in Calls : OnWay(h)' = OnWay(h)
    <3> SUFFICES ASSUME NEW h \in Calls PROVE OnWay(h)' <=> OnWay(h)
        BY DEF OnWay
    <3>1. \A d \in Channels : (\E i \in Positions(d)' : Way(d)'[i].suuid = h)
                               <=> (\E i \in Positions(d) : Way(d)[i].suuid = h)
        BY <2>3, <2>4, <2>6
    <3>. QED BY <2>2, <3>1 DEF OnWay
  <2>9. UNCHANGED <<signal, method_callback_map, wait_ct, call, mpc, running>>
      BY <1>4 DEF PeerCall, callVars
  <2>. QED BY <1>1, <2>7, <2>8, <2>9
<1>. QED BY <1>2, <1>3, <1>4 DEF ReceiveStep, PeerStep

\* A message that is handled: if it is the answer Main sleeps for, it wakes Main.
LEMMA VisitSInv ==
    ASSUME IInv, SInv, NEW c \in Channels, Visit(c)
    PROVE OneAnswer' /\ Answers' /\ WokenByOwnReply' /\ QueuedOnce'
<1> USE DEF IInv, SInv
<1>0. /\ UNCHANGED <<running, mpc, call, method_callback_map, wait_ct, wire, asked>>
      /\ running = Loop
    BY DEF Visit
<1>t. TypeOK'
    BY TypeStep DEF Next, LoopStep
<1>1. CASE que[c] = <<>>
  <2>1. UNCHANGED <<que, signal, wait_weak_up_context>>
      BY <1>1 DEF Visit
  <2>2. \A d \in Channels : Way(d)' = Way(d)
      BY <1>0, <2>1 DEF Way
  <2>3. OneAnswer' /\ \A k : OnWay(k)' = OnWay(k)
      BY <1>0, <2>2, SameWays
  <2>4. Answers'
      BY <1>0, <2>1, <2>3 DEF Answers
  <2>. QED BY <1>0, <1>t, <2>1, <2>3, <2>4 DEF WokenByOwnReply, QueuedOnce
<1>2. CASE que[c] # <<>>
  <2> DEFINE m == Head(que[c])
             n == Len(Way(c))
  <2>1. que' = [que EXCEPT ![c] = Tail(@)] /\ wire' = wire /\ Handle(m)
      BY <1>2 DEF Visit
  <2>2. /\ n \in Nat \ {0}
        /\ Positions(c)' = 1..(n - 1)
        /\ Way(c)[1] = m /\ m \in Messages
        /\ \A i \in 1..(n - 1) : Way(c)'[i] = Way(c)[i + 1]
        /\ \A d \in Channels \ {c} : Way(d)' = Way(d)
      BY <1>2, <2>1, WayVisited
  <2>3. /\ 1 \in Positions(c)
        /\ \A i \in Positions(c)' : i + 1 \in Positions(c) /\ i + 1 # 1
        /\ \A d \in Channels \ {c} : Positions(d)' = Positions(d)
      BY <2>2 DEF Positions
  <2>4. \A i, j \in Positions(c)' : i + 1 = j + 1 => i = j
      BY <2>2
  <2>5. \/ /\ m.suuid \in Calls
           /\ method_callback_map[m.suuid] = "sync"
           /\ signal' = Append(signal, m.suuid)
           /\ wait_weak_up_context' = IF wait_ct # None
                                      THEN Append(wait_weak_up_context, wait_ct)
                                      ELSE wait_weak_up_context
        \/ UNCHANGED <<signal, wait_weak_up_context>>
      BY <2>1, <2>2, Handled
  <2>. HIDE DEF n, m, IInv
  <2>6. OneAnswer'
    <3>1. \A b, d \in Channels : \A i \in Positions(b)' : Way(b)'[i].suuid \notin asked'[d]
      <4> SUFFICES ASSUME NEW b \in Channels, NEW d \in Channels, NEW i \in Positions(b)'
                   PROVE Way(b)'[i].suuid \notin asked'[d]
          OBVIOUS
      <4>1. CASE b = c
          BY <1>0, <2>2, <2>3, <4>1 DEF OneAnswer
      <4>2. CASE b # c
          BY <1>0, <2>2, <2>3, <4>2 DEF OneAnswer
      <4>. QED BY <4>1, <4>2
    <3>2. \A b, d \in Channels : \A i \in Positions(b)', j \in Positions(d)' :
              Way(b)'[i].suuid = Way(d)'[j].suuid /\ Way(b)'[i].suuid \in Calls => b = d /\ i = j
      <4> SUFFICES ASSUME NEW b \in Channels, NEW d \in Channels,
                          NEW i \in Positions(b)', NEW j \in Positions(d)',
                          Way(b)'[i].suuid = Way(d)'[j].suuid, Way(b)'[i].suuid \in Calls
                   PROVE b = d /\ i = j
          OBVIOUS
      <4>1. \/ b = c /\ i + 1 \in Positions(b) /\ Way(b)'[i] = Way(b)[i + 1]
            \/ b # c /\ i \in Positions(b) /\ Way(b)'[i] = Way(b)[i]
          BY <2>2, <2>3
      <4>2. \/ d = c /\ j + 1 \in Positions(d) /\ Way(d)'[j] = Way(d)[j + 1]
            \/ d # c /\ j \in Positions(d) /\ Way(d)'[j] = Way(d)[j]
          BY <2>2, <2>3
      <4>3. b = d
          BY <4>1, <4>2 DEF OneAnswer
      <4>4. CASE b = c
        <5>1. i + 1 = j + 1
            BY <4>1, <4>2, <4>3, <4>4 DEF OneAnswer
        <5>. QED BY <2>4, <4>3, <4>4, <5>1
      <4>5. CASE b # c
          BY <4>1, <4>2, <4>3, <4>5 DEF OneAnswer
      <4>. QED BY <4>3, <4>4, <4>5
    <3>. QED BY <1>0, <3>1, <3>2 DEF OneAnswer
  <2>7. \A k \in Calls : OnWay(k)' => OnWay(k) /\ k # m.suuid
    <3> SUFFICES ASSUME NEW k \in Calls, OnWay(k)' PROVE OnWay(k) /\ k # m.suuid
        OBVIOUS
    <3>1. PICK d \in Channels : k \in asked[d] \/ (\E i \in Positions(d)' : Way(d)'[i].suuid = k)
        BY <1>0 DEF OnWay
    <3>2. CASE k \in asked[d]
        BY <2>2, <2>3, <3>2 DEF OnWay, OneAnswer
    <3>3. CASE \E i \in Positions(d)' : Way(d)'[i].suuid = k
      <4>1. PICK i \in Positions(d)' : Way(d)'[i].suuid = k
          BY <3>3
      <4>2. CASE d = c
        <5>1. i + 1 \in Positions(c) /\ Way(c)[i + 1].suuid = k /\ i + 1 # 1
            BY <2>2, <2>3, <4>1, <4>2
        <5>. QED BY <2>2, <2>3, <5>1 DEF OnWay, OneAnswer
      <4>3. CASE d # c
        <5>1. i \in Positions(d) /\ Way(d)[i].suuid = k
            BY <2>2, <2>3, <4>1, <4>3
        <5>. QED BY <2>2, <2>3, <4>3, <5>1 DEF OnWay, OneAnswer
      <4>. QED BY <4>2, <4>3
    <3>. QED BY <3>1, <3>2, <3>3
  <2>8. mpc = "push" => FALSE
      BY <1>0, ConstantsOk DEF IInv, Asleep
  <2>9. CASE /\ m.suuid \in Calls
             /\ method_callback_map[m.suuid] = "sync"
             /\ signal' = Append(signal, m.suuid)
             /\ wait_weak_up_context' = IF wait_ct # None
                                        THEN Append(wait_weak_up_context, wait_ct)
                                        ELSE wait_weak_up_context
    <3>1. OnWay(m.suuid)
        BY <2>2, <2>3 DEF OnWay
    <3>2. mpc = "wait" /\ call.suuid = m.suuid /\ signal = <<>> /\ wait_ct = Main
        BY <1>0, <2>9, <3>1, ConstantsOk DEF Answers, IInv, Asleep
    <3>3. wait_weak_up_context = <<>>
        BY <3>2 DEF QueuedOnce
    <3>4. signal' = <<m.suuid>> /\ wait_weak_up_context' = <<Main>> /\ signal' # <<>>
        BY <2>9, <3>2, <3>3, ConstantsOk
    <3>5. Answers'
        BY <1>0, <2>7, <2>8, <3>2, <3>4 DEF Answers
    <3>6. QueuedOnce' /\ WokenByOwnReply'
        BY <1>0, <1>t, <3>2, <3>4, ConstantsOk DEF QueuedOnce, WokenByOwnReply
    <3>. QED BY <2>6, <3>5, <3>6
  <2>10. CASE UNCHANGED <<signal, wait_weak_up_context>>
    <3>1. Answers'
        BY <1>0, <2>7, <2>8, <2>10 DEF Answers
    <3>. QED BY <1>0, <1>t, <2>6, <2>10, <3>1 DEF QueuedOnce, WokenByOwnReply
  <2>. QED BY <2>5, <2>9, <2>10
<1>. QED BY <1>1, <1>2

\* Main is added to the vector by poll and by the answer, and leaves it when it runs.
LEMMA QueueStep ==
    ASSUME IInv, SInv, Next, ~ VisitStep
    PROVE QueuedOnce'
<1> USE ConstantsOk DEF IInv, SInv, QueuedOnce, sessionVars, callVars, netVars
<1>t. TypeOK'
    BY TypeStep
<1>1. CASE Poll
  <2>1. wait_weak_up_context = <<>>
      BY <1>1 DEF Poll
  <2>2. wait_weak_up_context' = <<Main>> /\ running' = Loop /\ mpc' = "poll"
      BY <1>1, <2>1 DEF Poll, wake_up_context, get_current_context, Yield
  <2>. QED BY <1>t, <2>2
<1>2. CASE Wake
    BY <1>2, <1>t DEF Wake, Yield
<1>3. CASE Take \/ Wait \/ PollReturn \/ Push \/ Register
    BY <1>3, <1>t DEF Take, Wait, PollReturn, Push, Register
<1>4. CASE \E c \in Channels : Connect(c) \/ Accept(c) \/ RemoveSession(c)
    BY <1>4, <1>t DEF Connect, Accept, RemoveSession
<1>5. CASE \E k \in Calls, c \in Channels, kind \in Kinds : Call(k, c, kind)
    BY <1>5, <1>t DEF Call
<1>6. CASE Round \/ EndVisit \/ NewChannels
    BY <1>6, <1>t DEF Round, EndVisit, NewChannels
<1>7. CASE ReceiveStep \/ PeerStep
    BY <1>7, <1>t DEF ReceiveStep, PeerStep, NetWork, ServerRecv, PeerReply, PeerCall
<1>. QED BY <1>1, <1>2, <1>3, <1>4, <1>5, <1>6, <1>7, StepCases DEF CallStep, UserStep, RoundStep

\* A stuttering step keeps it.
LEMMA StutterSInv == SInv /\ UNCHANGED vars => SInv'
<1> SUFFICES ASSUME SInv, UNCHANGED vars PROVE SInv'
    OBVIOUS
<1> USE DEF SInv, vars, sessionVars, callVars, netVars
<1>1. \A c \in Channels : Way(c)' = Way(c)
    BY DEF Way
<1>2. OneAnswer' /\ \A k : OnWay(k)' = OnWay(k)
    BY <1>1, SameWays
<1>3. Answers'
    BY <1>2 DEF Answers
<1>. QED BY <1>2, <1>3 DEF WokenByOwnReply, QueuedOnce, TypeOK

\* If each receive event brings one message, one answer at most is under way for each
\* call and wakes the fiber that made it, once.
THEOREM OneMessageInvariance == Batch = 1 => (Spec => []SInv)
<1> SUFFICES ASSUME Batch = 1 PROVE Spec => []SInv
    OBVIOUS
<1>1. IInv /\ SInv /\ [Next]_vars => SInv'
  <2> SUFFICES ASSUME IInv, SInv, [Next]_vars PROVE SInv'
      OBVIOUS
  <2>1. CASE UNCHANGED vars
      BY <2>1, StutterSInv
  <2>2. CASE VisitStep
      BY <2>2, VisitSInv DEF VisitStep, SInv
  <2>3. CASE Next /\ ~ VisitStep
      BY <2>3, StepCases, CallSInv, OtherSInv, NetSInv, QueueStep DEF SInv
  <2>. QED BY <2>1, <2>2, <2>3
<1>. QED BY InitSInv, Invariance, <1>1, PTL DEF Spec

\* Main is in the vector of contexts once at most, and only while it has a reason to run.
THEOREM WokenOnce == Batch = 1 => (Spec => []QueuedOnce)
<1> SUFFICES ASSUME Batch = 1 PROVE Spec => []QueuedOnce
    OBVIOUS
<1>1. SInv => QueuedOnce BY DEF SInv
<1>. QED BY OneMessageInvariance, <1>1, PTL

\* A synchronous call goes on with the answer to it, and with no other.
THEOREM OwnReply == Batch = 1 => (Spec => []WokenByOwnReply)
<1> SUFFICES ASSUME Batch = 1 PROVE Spec => []WokenByOwnReply
    OBVIOUS
<1>1. SInv => WokenByOwnReply BY DEF SInv
<1>. QED BY OneMessageInvariance, <1>1, PTL
=============================================================================
