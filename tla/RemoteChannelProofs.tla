------------------------ MODULE RemoteChannelProofs -------------------------
(***************************************************************************)
(* Proofs about RemoteChannel.  First, for any finite number of pollers,   *)
(* that there is one AcceptEx and one connection in sa.  Then, for one     *)
(* poller, which is what an acceptor's channel server has, that a channel  *)
(* keeps its stream, that recv and the parser get proper arguments, and    *)
(* that a receive is posted wherever one is needed.                        *)
(***************************************************************************)
EXTENDS RemoteChannel, FiniteSetTheorems, WellFoundedInduction, TLAPS

-----------------------------------------------------------------------------
(* Counting in a sequence *)

\* Where a member of S stands in the sequence.
Of(s, S) == {i \in DOMAIN s : s[i] \in S}

\* The positions of the members of a set in a sequence are finitely many.
LEMMA OfFinite ==
    ASSUME NEW T, NEW s \in Seq(T), NEW S
    PROVE  IsFiniteSet(Of(s, S)) /\ Cardinality(Of(s, S)) \in Nat
  <1>1. Of(s, S) \in SUBSET (1..Len(s)) BY DEF Of
  <1>2. IsFiniteSet(1..Len(s)) BY FS_Interval
  <1>. QED BY <1>1, <1>2, FS_Subset, FS_CardinalityType

\* An appended element adds its position, and one to the count, when it is in the set.
LEMMA OfAppend ==
    ASSUME NEW T, NEW s \in Seq(T), NEW e \in T, NEW S
    PROVE  /\ Of(Append(s, e), S) = Of(s, S) \cup (IF e \in S THEN {Len(s) + 1} ELSE {})
           /\ Cardinality(Of(Append(s, e), S)) =
                 Cardinality(Of(s, S)) + (IF e \in S THEN 1 ELSE 0)
  <1>. DEFINE r == Append(s, e)
  <1>1. /\ Len(r) = Len(s) + 1 /\ DOMAIN r = 1..(Len(s) + 1) /\ DOMAIN s = 1..Len(s)
        /\ \A i \in 1..Len(s) : r[i] = s[i]
        /\ r[Len(s) + 1] = e /\ Len(s) \in Nat
    OBVIOUS
  <1>. HIDE DEF r
  <1>2. Of(r, S) = Of(s, S) \cup (IF e \in S THEN {Len(s) + 1} ELSE {})
    BY <1>1 DEF Of
  <1>3. Len(s) + 1 \notin Of(s, S) BY <1>1 DEF Of
  <1>4. IsFiniteSet(Of(s, S)) /\ Cardinality(Of(s, S)) \in Nat BY OfFinite
  <1>5. Cardinality(Of(r, S)) = Cardinality(Of(s, S)) + (IF e \in S THEN 1 ELSE 0)
    <2>1. CASE e \in S BY <1>2, <1>3, <1>4, <2>1, FS_AddElement
    <2>2. CASE e \notin S
      <3>1. Of(r, S) = Of(s, S) BY <1>2, <2>2
      <3>. QED BY <1>4, <2>2, <3>1
    <2>. QED BY <2>1, <2>2
  <1>. QED BY <1>2, <1>5 DEF r

\* Without its head, a sequence keeps the other positions, one lower.
LEMMA OfTail ==
    ASSUME NEW T, NEW s \in Seq(T), s # <<>>, NEW S
    PROVE  /\ \A i : i \in Of(Tail(s), S) => i + 1 \in Of(s, S) /\ Tail(s)[i] = s[i + 1]
           /\ \A i \in Of(s, S) : i # 1 => i - 1 \in Of(Tail(s), S)
           /\ Cardinality(Of(Tail(s), S)) =
                 Cardinality(Of(s, S)) - (IF Head(s) \in S THEN 1 ELSE 0)
  <1>. DEFINE r == Tail(s)
  <1>1. /\ Len(s) \in Nat \ {0} /\ Len(r) = Len(s) - 1 /\ DOMAIN r = 1..(Len(s) - 1)
        /\ DOMAIN s = 1..Len(s) /\ r \in Seq(T)
        /\ \A i \in 1..(Len(s) - 1) : r[i] = s[i + 1]
        /\ Head(s) = s[1]
    OBVIOUS
  <1>. HIDE DEF r
  <1>2. \A i : i \in Of(r, S) => i \in Int /\ i + 1 \in Of(s, S) /\ r[i] = s[i + 1] /\ i + 1 # 1
    BY <1>1 DEF Of
  <1>3. \A i \in Of(s, S) : i \in Int /\ (i # 1 => i - 1 \in Of(r, S)) BY <1>1 DEF Of
  <1>4. /\ IsFiniteSet(Of(s, S)) /\ Cardinality(Of(s, S)) \in Nat
        /\ IsFiniteSet(Of(r, S)) /\ Cardinality(Of(r, S)) \in Nat
    BY <1>1, OfFinite
  <1>5. Cardinality(Of(s, S) \ {1}) = Cardinality(Of(r, S))
    <2>. DEFINE f == [i \in Of(r, S) |-> i + 1]
                D == Of(s, S) \ {1}
    <2>1. f \in [Of(r, S) -> D] BY <1>2
    <2>2. \A i, j \in Of(r, S) : f[i] = f[j] => i = j BY <1>2
    <2>3. \A d \in D : \E i \in Of(r, S) : f[i] = d
      <3>1. ASSUME NEW d \in D PROVE \E i \in Of(r, S) : f[i] = d
        <4>1. d \in Int /\ d - 1 \in Of(r, S) BY <1>3
        <4>2. f[d - 1] = d BY <4>1
        <4>. QED BY <4>1, <4>2
      <3>. QED BY <3>1
    <2>. HIDE DEF f, D
    <2>4. f \in Bijection(Of(r, S), D)
      BY <2>1, <2>2, <2>3 DEF Bijection, Injection, Surjection, IsInjective
    <2>5. ExistsBijection(Of(r, S), D) BY <2>4 DEF ExistsBijection
    <2>6. Cardinality(D) = Cardinality(Of(r, S)) BY <1>4, <2>5, FS_Bijection
    <2>. QED BY <2>6 DEF D
  <1>6. 1 \in Of(s, S) <=> Head(s) \in S BY <1>1 DEF Of
  <1>7. Cardinality(Of(r, S)) = Cardinality(Of(s, S)) - (IF Head(s) \in S THEN 1 ELSE 0)
    <2>1. CASE 1 \in Of(s, S) BY <1>4, <1>5, <1>6, <2>1, FS_RemoveElement
    <2>2. CASE 1 \notin Of(s, S)
      <3>1. Of(s, S) \ {1} = Of(s, S) BY <2>2
      <3>2. Cardinality(Of(s, S) \ {1}) = Cardinality(Of(s, S)) BY <3>1
      <3>3. Cardinality(Of(s, S)) = Cardinality(Of(r, S)) BY <1>5, <3>2
      <3>4. Head(s) \notin S BY <1>6, <2>2
      <3>. QED BY <1>4, <3>3, <3>4
    <2>. QED BY <2>1, <2>2
  <1>. QED BY <1>2, <1>3, <1>7 DEF r

\* One more or one fewer of a finite set.
LEMMA CardPlus ==
    ASSUME NEW S, NEW x, IsFiniteSet(S), x \notin S
    PROVE  IsFiniteSet(S \cup {x}) /\ Cardinality(S \cup {x}) = Cardinality(S) + 1
  BY FS_AddElement

\* A set without one of its elements has one less.
LEMMA CardMinus ==
    ASSUME NEW S, NEW x, IsFiniteSet(S), x \in S
    PROVE  IsFiniteSet(S \ {x}) /\ Cardinality(S \ {x}) = Cardinality(S) - 1
  BY FS_RemoveElement

-----------------------------------------------------------------------------
(* One AcceptEx *)

AcceptsTaken == {e \in Completions : e.type = "accept"}
AcceptsOk == {e \in Completions : e.type = "accept" /\ e.ok}
Tokens(c) == {e \in Completions : e.type = "recv" /\ e.h = c}
Taking == {p \in Pollers : At(p, "accept")}
Accepting == {c \in Channels : conn[c] = "accepting"}

\* The types of what the acceptor uses, and what goes with what: the acceptor's completions
\* have no channel, a receive fails on a connection that is reset, a poller has the channel of
\* its event.
NetOk ==
    /\ conn \in [Channels -> {"none", "backlog", "accepting", "open"}]
    /\ peer \in [Channels -> {"up", "closed", "reset"}]
    /\ accepts \in Nat
    /\ iocp \in Seq(Completions)
    /\ pc \in [Pollers -> {"poll", "accept", "recv", "grow", "parse", "rearm"}]
    /\ ev \in [Pollers -> Handles]
    /\ \A i \in DOMAIN iocp :
          /\ iocp[i].h = None <=> iocp[i].type = "accept"
          /\ iocp[i].type = "recv" /\ ~ iocp[i].ok => peer[iocp[i].h] = "reset"
    /\ \A p \in Pollers : ev[p] = None <=> pc[p] \in {"poll", "accept"}
    /\ \A c \in Channels : conn[c] = "none" => peer[c] = "up"

\* The AcceptEx is posted, completed or in a poller's hands; its failure is the last that is
\* heard of it.
AcceptInv ==
    /\ ~ AcceptLost =>
          /\ accepts + Cardinality(Of(iocp, AcceptsTaken)) + Cardinality(Taking) = 1
          /\ Of(iocp, AcceptsTaken) = Of(iocp, AcceptsOk)
    /\ AcceptLost =>
          /\ accepts = 0 /\ Taking = {} /\ Of(iocp, AcceptsOk) = {}
          /\ Cardinality(Of(iocp, AcceptsTaken)) <= 1
    /\ Cardinality(Accepting) = Cardinality(Of(iocp, AcceptsOk)) + Cardinality(Taking)

\* At the start there is nothing in the port and no connection.
LEMMA NetInit == Init => NetOk
  BY ConstantsOk DEF Init, NetOk, Channels, Handles

\* What a completion taken from the port is.
LEMMA HeadOk ==
    ASSUME NetOk, iocp # <<>>
    PROVE  /\ Head(iocp) \in Completions
           /\ Head(iocp).h = None <=> Head(iocp).type = "accept"
           /\ Head(iocp).type = "recv" /\ ~ Head(iocp).ok => peer[Head(iocp).h] = "reset"
           /\ Tail(iocp) \in Seq(Completions)
           /\ \A i \in DOMAIN Tail(iocp) : i + 1 \in DOMAIN iocp /\ Tail(iocp)[i] = iocp[i + 1]
  <1>. DEFINE s == iocp
  <1>1. s \in Seq(Completions) /\ s # <<>> BY DEF NetOk
  <1>. HIDE DEF s
  <1>2. /\ Head(s) = s[1] /\ 1 \in DOMAIN s /\ Head(s) \in Completions
        /\ Tail(s) \in Seq(Completions)
        /\ \A i \in DOMAIN Tail(s) : i + 1 \in DOMAIN s /\ Tail(s)[i] = s[i + 1]
    BY <1>1
  <1>. QED BY <1>2 DEF s, NetOk

\* Taking a completion leaves the rest of the port as it was.
LEMMA NetPoll ==
    ASSUME NetOk, NEW p \in Pollers, Poll(p)
    PROVE  NetOk'
  <1>1. /\ iocp # <<>> /\ iocp' = Tail(iocp) /\ At(p, "poll") /\ UNCHANGED <<conn, peer, accepts>>
    BY DEF Poll, netVars
  <1>. DEFINE e == Head(iocp)
  <1>2. /\ e \in Completions
        /\ e.h = None <=> e.type = "accept"
    BY <1>1, HeadOk
  <1>3. iocp' \in Seq(Completions) BY <1>1, HeadOk
  <1>4. \A i \in DOMAIN iocp' : i + 1 \in DOMAIN iocp /\ iocp'[i] = iocp[i + 1] BY <1>1, HeadOk
  <1>5. \A i \in DOMAIN iocp' :
           /\ iocp'[i].h = None <=> iocp'[i].type = "accept"
           /\ iocp'[i].type = "recv" /\ ~ iocp'[i].ok => peer'[iocp'[i].h] = "reset"
    BY <1>1, <1>4 DEF NetOk
  <1>6. CASE EventOf(e) = "none"
    BY <1>1, <1>3, <1>5, <1>6 DEF NetOk, Poll
  <1>7. CASE EventOf(e) # "none"
    <2>1. /\ pc' = [pc EXCEPT ![p] = e.type] /\ ev' = [ev EXCEPT ![p] = e.h]
          /\ e.type \in {"accept", "recv"} /\ e.h \in Handles
      BY <1>2, <1>7 DEF Poll, Goto, EventOf, Completions
    <2>. HIDE DEF e
    <2>. QED BY <1>1, <1>2, <1>3, <1>5, <2>1 DEF NetOk
  <1>. QED BY <1>6, <1>7

\* So does every other step of a poller; those that open a channel or arm it keep NetOk.
LEMMA NetPoller ==
    ASSUME NetOk, NEW p \in Pollers, PollStep(p)
    PROVE  NetOk'
  <1>. USE DEF Goto, Done, At, netVars, bufVars, portVars, outVars, pollVars
  <1>1. None \notin Channels /\ Handles = Channels \cup {None} BY ConstantsOk DEF Handles
  <1>2. CASE Poll(p) BY <1>2, NetPoll
  <1>3. CASE Accept(p) BY <1>1, <1>3 DEF Accept, NetOk
  <1>4. CASE Recv(p) BY <1>1, <1>4 DEF Recv, NetOk
  <1>5. CASE Grow(p) BY <1>1, <1>5 DEF Grow, NetOk
  <1>6. CASE Parse(p) BY <1>1, <1>6 DEF Parse, NetOk
  <1>7. CASE Rearm(p) BY <1>1, <1>7 DEF Rearm, Return, NetOk
  <1>. QED BY <1>2, <1>3, <1>4, <1>5, <1>6, <1>7 DEF PollStep

\* A completion that is posted is of a kind the port holds.
LEMMA NetComplete ==
    ASSUME NetOk, NEW type \in {"accept", "send", "recv"}, NEW h \in Handles, NEW ok \in BOOLEAN,
           Complete(type, h, ok),
           h = None <=> type = "accept",
           type = "recv" /\ ~ ok => peer'[h] = "reset",
           peer' \in [Channels -> {"up", "closed", "reset"}],
           \A c \in Channels : peer[c] = "reset" => peer'[c] = "reset"
    PROVE  /\ iocp' \in Seq(Completions)
           /\ \A i \in DOMAIN iocp' :
                 /\ iocp'[i].h = None <=> iocp'[i].type = "accept"
                 /\ iocp'[i].type = "recv" /\ ~ iocp'[i].ok => peer'[iocp'[i].h] = "reset"
  <1>. DEFINE s == iocp
              e == Completion(type, h, ok)
  <1>1. /\ s \in Seq(Completions) /\ e \in Completions /\ iocp' = Append(s, e)
        /\ e.type = type /\ e.h = h /\ e.ok = ok
    BY DEF NetOk, Complete, Completion, Completions
  <1>. HIDE DEF e
  <1>2. \A i \in DOMAIN s :
           /\ s[i] \in Completions
           /\ s[i].h = None <=> s[i].type = "accept"
           /\ s[i].type = "recv" /\ ~ s[i].ok => peer[s[i].h] = "reset"
    BY <1>1 DEF NetOk
  <1>3. \A i \in DOMAIN s : s[i].type = "recv" => s[i].h \in Channels
    BY <1>2 DEF Completions, Handles
  <1>. HIDE DEF s
  <1>4. /\ iocp' \in Seq(Completions)
        /\ \A i \in DOMAIN iocp' : (i \in DOMAIN s /\ iocp'[i] = s[i]) \/ iocp'[i] = e
    BY <1>1
  <1>. QED BY <1>1, <1>2, <1>3, <1>4

\* The steps of the system and of the users keep NetOk.
LEMMA NetOther ==
    ASSUME NetOk, NEW c \in Channels, OsStep(c) \/ UserStep(c)
    PROVE  NetOk'
  <1>. USE DEF netVars, bufVars, portVars, outVars, pollVars
  <1>1. None \notin Channels /\ c \in Handles /\ None \in Handles
    BY ConstantsOk DEF Handles
  <1>2. CASE AcceptDone(c)
    <2>1. peer' = peer /\ Complete("accept", None, TRUE) BY <1>2 DEF AcceptDone
    <2>2. /\ iocp' \in Seq(Completions)
          /\ \A i \in DOMAIN iocp' :
                /\ iocp'[i].h = None <=> iocp'[i].type = "accept"
                /\ iocp'[i].type = "recv" /\ ~ iocp'[i].ok => peer'[iocp'[i].h] = "reset"
      BY <1>1, <2>1, NetComplete DEF NetOk
    <2>. QED BY <1>2, <2>2 DEF AcceptDone, NetOk
  <1>3. CASE AcceptFail(c)
    <2>1. /\ peer' = [peer EXCEPT ![c] = "reset"] /\ conn[c] = "backlog"
          /\ Complete("accept", None, FALSE)
      BY <1>3 DEF AcceptFail
    <2>2. /\ peer' \in [Channels -> {"up", "closed", "reset"}]
          /\ \A d \in Channels : peer[d] = "reset" => peer'[d] = "reset"
      BY <2>1 DEF NetOk
    <2>3. /\ iocp' \in Seq(Completions)
          /\ \A i \in DOMAIN iocp' :
                /\ iocp'[i].h = None <=> iocp'[i].type = "accept"
                /\ iocp'[i].type = "recv" /\ ~ iocp'[i].ok => peer'[iocp'[i].h] = "reset"
      BY <1>1, <2>1, <2>2, NetComplete
    <2>. QED BY <1>3, <2>1, <2>2, <2>3 DEF AcceptFail, NetOk
  <1>4. CASE RecvDone(c)
    <2>1. /\ peer' = peer /\ Complete("recv", c, peer[c] # "reset")
          /\ (peer[c] # "reset") \in BOOLEAN
      BY <1>4 DEF RecvDone
    <2>2. /\ iocp' \in Seq(Completions)
          /\ \A i \in DOMAIN iocp' :
                /\ iocp'[i].h = None <=> iocp'[i].type = "accept"
                /\ iocp'[i].type = "recv" /\ ~ iocp'[i].ok => peer'[iocp'[i].h] = "reset"
      BY <1>1, <2>1, NetComplete DEF NetOk
    <2>. QED BY <1>4, <2>2 DEF RecvDone, NetOk
  <1>5. CASE SendDone(c)
    <2>1. /\ peer' = peer /\ Complete("send", c, peer[c] # "reset")
          /\ (peer[c] # "reset") \in BOOLEAN
      BY <1>5 DEF SendDone
    <2>2. /\ iocp' \in Seq(Completions)
          /\ \A i \in DOMAIN iocp' :
                /\ iocp'[i].h = None <=> iocp'[i].type = "accept"
                /\ iocp'[i].type = "recv" /\ ~ iocp'[i].ok => peer'[iocp'[i].h] = "reset"
      BY <1>1, <2>1, NetComplete DEF NetOk
    <2>. QED BY <1>5, <2>2 DEF SendDone, NetOk
  <1>6. CASE Arrive(c) BY <1>6 DEF Arrive, NetOk
  <1>7. CASE Connect(c) BY <1>7 DEF Connect, NetOk
  <1>8. CASE Push(c) BY <1>8 DEF Push, NetOk
  <1>9. CASE Dial(c) BY <1>9 DEF Dial, NetOk
  <1>10. CASE PeerSend(c) BY <1>10 DEF PeerSend, NetOk
  <1>11. CASE PeerClose(c)
    <2>1. /\ conn[c] # "none" /\ peer[c] = "up" /\ UNCHANGED <<conn, accepts, iocp, pc, ev>>
          /\ \E x \in {"closed", "reset"} : peer' = [peer EXCEPT ![c] = x]
      BY <1>11 DEF PeerClose
    <2>2. /\ peer' \in [Channels -> {"up", "closed", "reset"}]
          /\ \A d \in Channels : peer[d] = "reset" => peer'[d] = "reset"
          /\ \A d \in Channels : d # c => peer'[d] = peer[d]
      BY <2>1 DEF NetOk
    <2>3. \A i \in DOMAIN iocp : iocp[i].type = "recv" => iocp[i].h \in Channels
      <3>. DEFINE s == iocp
      <3>1. s \in Seq(Completions) BY DEF NetOk
      <3>2. \A i \in DOMAIN s : s[i] \in Completions BY <3>1
      <3>3. \A i \in DOMAIN s : s[i].h = None <=> s[i].type = "accept" BY DEF NetOk
      <3>. HIDE DEF s
      <3>4. \A i \in DOMAIN s : s[i].type = "recv" => s[i].h \in Channels
        BY <3>2, <3>3 DEF Completions, Handles
      <3>. QED BY <3>4 DEF s
    <2>. QED BY <2>1, <2>2, <2>3 DEF NetOk
  <1>. QED
    BY <1>2, <1>3, <1>4, <1>5, <1>6, <1>7, <1>8, <1>9, <1>10, <1>11 DEF OsStep, UserStep

\* NetOk is inductive.
LEMMA NetStep == NetOk /\ [Next]_vars => NetOk'
  <1>. SUFFICES ASSUME NetOk, [Next]_vars PROVE NetOk'
    OBVIOUS
  <1>1. CASE UNCHANGED vars
    BY <1>1 DEF NetOk, vars, netVars, portVars, pollVars
  <1>2. ASSUME NEW p \in Pollers, PollStep(p) PROVE NetOk' BY <1>2, NetPoller
  <1>3. ASSUME NEW c \in Channels, OsStep(c) \/ UserStep(c) PROVE NetOk' BY <1>3, NetOther
  <1>. QED BY <1>1, <1>2, <1>3 DEF Next

\* What the steps do to the sets AcceptInv counts.
LEMMA AcceptCounts ==
    ASSUME NetOk, IsFiniteSet(Pollers)
    PROVE  /\ IsFiniteSet(Taking) /\ Cardinality(Taking) \in Nat
           /\ IsFiniteSet(Accepting) /\ Cardinality(Accepting) \in Nat
           /\ IsFiniteSet(Of(iocp, AcceptsTaken)) /\ Cardinality(Of(iocp, AcceptsTaken)) \in Nat
           /\ IsFiniteSet(Of(iocp, AcceptsOk)) /\ Cardinality(Of(iocp, AcceptsOk)) \in Nat
           /\ Of(iocp, AcceptsOk) \subseteq Of(iocp, AcceptsTaken)
  <1>1. Taking \subseteq Pollers /\ Accepting \subseteq Channels /\ IsFiniteSet(Channels)
    BY ConstantsOk DEF Taking, Accepting
  <1>2. iocp \in Seq(Completions) BY DEF NetOk
  <1>3. Of(iocp, AcceptsOk) \subseteq Of(iocp, AcceptsTaken) BY DEF Of, AcceptsOk, AcceptsTaken
  <1>. QED BY <1>1, <1>2, <1>3, OfFinite, FS_Subset, FS_CardinalityType

\* At the start one AcceptEx is out and nothing has come of it.
LEMMA AcceptInit == Init => AcceptInv
  <1>. SUFFICES ASSUME Init PROVE AcceptInv
    OBVIOUS
  <1>1. Taking = {} /\ Accepting = {} /\ ~ AcceptLost
    BY DEF Init, Taking, Accepting, AcceptLost, At
  <1>2. Of(iocp, AcceptsTaken) = {} /\ Of(iocp, AcceptsOk) = {} BY DEF Init, Of
  <1>3. accepts = 1 BY DEF Init
  <1>. QED BY <1>1, <1>2, <1>3, FS_EmptySet DEF AcceptInv

\* A step that touches none of it.
LEMMA AcceptFrame ==
    ASSUME AcceptInv, accepts' = accepts, Taking' = Taking, Accepting' = Accepting,
           Of(iocp, AcceptsTaken)' = Of(iocp, AcceptsTaken),
           Of(iocp, AcceptsOk)' = Of(iocp, AcceptsOk),
           AcceptLost' <=> AcceptLost
    PROVE  AcceptInv'
  BY DEF AcceptInv

\* The poller takes a completion: if it is a connection's, the poller has it now.
LEMMA AcceptPoll ==
    ASSUME NetOk, AcceptInv, IsFiniteSet(Pollers), NEW p \in Pollers, Poll(p)
    PROVE  AcceptInv'
  <1>. DEFINE e == Head(iocp)
              s == iocp
  <1>1. /\ s # <<>> /\ iocp' = Tail(s) /\ pc[p] = "poll" /\ UNCHANGED <<conn, peer, accepts>>
        /\ s \in Seq(Completions)
    BY DEF Poll, At, netVars, NetOk
  <1>2. /\ e \in Completions
        /\ e.h = None <=> e.type = "accept"
    BY <1>1, HeadOk
  <1>3. Accepting' = Accepting /\ (AcceptLost' <=> AcceptLost)
    BY <1>1 DEF Accepting, AcceptLost
  <1>4. p \notin Taking BY <1>1 DEF Taking, At
  <1>5. /\ e \in AcceptsTaken <=> e.type = "accept"
        /\ e \in AcceptsOk <=> e.type = "accept" /\ e.ok
        /\ e = Head(s)
    BY <1>2 DEF AcceptsTaken, AcceptsOk
  <1>. DEFINE CA == Cardinality(Of(s, AcceptsTaken))
              CO == Cardinality(Of(s, AcceptsOk))
              k == IF e \in AcceptsTaken THEN 1 ELSE 0
              m == IF e \in AcceptsOk THEN 1 ELSE 0
  <1>6. /\ Cardinality(Of(iocp, AcceptsTaken))' = CA - k
        /\ Cardinality(Of(iocp, AcceptsOk))' = CO - m
        /\ CA \in Nat /\ CO \in Nat
    <2>1. Cardinality(Of(Tail(s), AcceptsTaken)) = CA - k BY <1>1, <1>5, OfTail
    <2>2. Cardinality(Of(Tail(s), AcceptsOk)) = CO - m BY <1>1, <1>5, OfTail
    <2>. QED BY <1>1, <2>1, <2>2, AcceptCounts DEF AcceptsTaken, AcceptsOk, Completions
  <1>7. Of(iocp, AcceptsTaken) = Of(iocp, AcceptsOk)
           => Of(iocp, AcceptsTaken)' = Of(iocp, AcceptsOk)'
    <2>1. \A i \in DOMAIN iocp' : i + 1 \in DOMAIN iocp /\ iocp'[i] = iocp[i + 1]
      BY <1>1, HeadOk
    <2>2. \A x \in AcceptsTaken : x \in AcceptsOk <=> x.ok BY DEF AcceptsTaken, AcceptsOk
    <2>. QED BY <2>1, <2>2 DEF Of, AcceptsTaken, AcceptsOk
  <1>8. Of(iocp, AcceptsOk) = {} => Of(iocp, AcceptsOk)' = {}
    <2>1. \A i \in DOMAIN iocp' : i + 1 \in DOMAIN iocp /\ iocp'[i] = iocp[i + 1]
      BY <1>1, HeadOk
    <2>. QED BY <2>1 DEF Of, AcceptsOk
  <1>9. 1 \in Of(iocp, AcceptsTaken) <=> e \in AcceptsTaken
    BY <1>1 DEF Of
  <1>10. 1 \in Of(iocp, AcceptsOk) <=> e \in AcceptsOk
    BY <1>1 DEF Of
  <1>11. CASE e \in AcceptsOk
    <2>1. pc' = [pc EXCEPT ![p] = "accept"]
      BY <1>5, <1>11 DEF Poll, Goto, EventOf
    <2>2. Taking' = Taking \cup {p} BY <2>1 DEF Taking, At, NetOk
    <2>3. Cardinality(Taking') = Cardinality(Taking) + 1
      BY <1>4, <2>2, AcceptCounts, CardPlus
    <2>4. ~ AcceptLost BY <1>10, <1>11 DEF AcceptInv
    <2>5. k = 1 /\ m = 1 BY <1>5, <1>11
    <2>6. Cardinality(Taking) \in Nat BY AcceptCounts
    <2>. HIDE DEF e, k, m
    <2>. QED BY <1>1, <1>3, <1>6, <1>7, <2>3, <2>4, <2>5, <2>6 DEF AcceptInv, NetOk
  <1>12. CASE e \notin AcceptsOk
    <2>1. Taking' = Taking
      <3>1. EventOf(e) # "accept" BY <1>5, <1>12 DEF EventOf
      <3>2. pc' = pc \/ pc' = [pc EXCEPT ![p] = EventOf(e)] BY DEF Poll, Goto
      <3>. HIDE DEF e
      <3>. QED BY <1>1, <3>1, <3>2 DEF Taking, At, NetOk
    <2>2. m = 0 BY <1>12
    <2>3. e \in AcceptsTaken => AcceptLost BY <1>9, <1>10, <1>12 DEF AcceptInv
    <2>4. k \in {0, 1} /\ (~ AcceptLost => k = 0) BY <2>3
    <2>. HIDE DEF e, k, m
    <2>. QED BY <1>1, <1>3, <1>6, <1>7, <1>8, <2>1, <2>2, <2>4 DEF AcceptInv
  <1>. QED BY <1>11, <1>12

\* accept makes a channel of the connection and posts the AcceptEx again.
LEMMA AcceptAccept ==
    ASSUME NetOk, AcceptInv, IsFiniteSet(Pollers), NEW p \in Pollers, Accept(p)
    PROVE  AcceptInv'
  <1>1. PICK c \in Channels : conn[c] = "accepting" /\ conn' = [conn EXCEPT ![c] = "open"]
    BY DEF Accept
  <1>2. /\ pc[p] = "accept" /\ pc' = [pc EXCEPT ![p] = "poll"]
        /\ accepts' = accepts + 1 /\ UNCHANGED <<peer, iocp>>
    BY DEF Accept, Done, Goto, At, netVars
  <1>3. p \in Taking /\ Taking' = Taking \ {p} BY <1>2 DEF Taking, At, NetOk
  <1>4. c \in Accepting /\ Accepting' = Accepting \ {c} BY <1>1 DEF Accepting, NetOk
  <1>5. /\ Cardinality(Taking') = Cardinality(Taking) - 1
        /\ Cardinality(Accepting') = Cardinality(Accepting) - 1
    BY <1>3, <1>4, AcceptCounts, CardMinus
  <1>6. AcceptLost' <=> AcceptLost BY <1>1, <1>2 DEF AcceptLost, NetOk
  <1>7. ~ AcceptLost BY <1>3 DEF AcceptInv
  <1>8. /\ Of(iocp, AcceptsTaken)' = Of(iocp, AcceptsTaken)
        /\ Of(iocp, AcceptsOk)' = Of(iocp, AcceptsOk)
    BY <1>2 DEF AcceptsTaken, AcceptsOk, Of, Completions
  <1>9. accepts \in Nat BY DEF NetOk
  <1>. QED BY <1>2, <1>5, <1>6, <1>7, <1>8, <1>9, AcceptCounts DEF AcceptInv

\* The completion of the AcceptEx with a connection.
LEMMA AcceptAcceptDone ==
    ASSUME NetOk, AcceptInv, IsFiniteSet(Pollers), NEW c \in Channels, AcceptDone(c)
    PROVE  AcceptInv'
  <1>. DEFINE s == iocp
              e == Completion("accept", None, TRUE)
  <1>1. /\ accepts > 0 /\ accepts' = accepts - 1 /\ accepts \in Nat
        /\ conn[c] = "backlog" /\ conn' = [conn EXCEPT ![c] = "accepting"]
        /\ s \in Seq(Completions) /\ iocp' = Append(s, e) /\ UNCHANGED <<peer, pc>>
    BY DEF AcceptDone, Complete, NetOk, netVars, pollVars
  <1>2. e \in Completions /\ e \in AcceptsTaken /\ e \in AcceptsOk
    BY DEF Completion, Completions, AcceptsTaken, AcceptsOk, Handles
  <1>3. ~ AcceptLost BY <1>1 DEF AcceptInv
  <1>4. ~ AcceptLost' BY <1>1, <1>3 DEF AcceptLost, NetOk
  <1>5. Taking' = Taking BY <1>1 DEF Taking, At
  <1>6. c \notin Accepting /\ Accepting' = Accepting \cup {c} BY <1>1 DEF Accepting, NetOk
  <1>7. Cardinality(Accepting') = Cardinality(Accepting) + 1
    BY <1>6, AcceptCounts, CardPlus
  <1>8. /\ Of(iocp, AcceptsTaken)' = Of(s, AcceptsTaken) \cup {Len(s) + 1}
        /\ Of(iocp, AcceptsOk)' = Of(s, AcceptsOk) \cup {Len(s) + 1}
        /\ Cardinality(Of(iocp, AcceptsTaken))' = Cardinality(Of(s, AcceptsTaken)) + 1
        /\ Cardinality(Of(iocp, AcceptsOk))' = Cardinality(Of(s, AcceptsOk)) + 1
    <2>. HIDE DEF e
    <2>1. /\ Of(Append(s, e), AcceptsTaken) = Of(s, AcceptsTaken) \cup {Len(s) + 1}
          /\ Cardinality(Of(Append(s, e), AcceptsTaken)) = Cardinality(Of(s, AcceptsTaken)) + 1
      BY <1>1, <1>2, OfAppend
    <2>2. /\ Of(Append(s, e), AcceptsOk) = Of(s, AcceptsOk) \cup {Len(s) + 1}
          /\ Cardinality(Of(Append(s, e), AcceptsOk)) = Cardinality(Of(s, AcceptsOk)) + 1
      BY <1>1, <1>2, OfAppend
    <2>. QED BY <1>1, <2>1, <2>2 DEF AcceptsTaken, AcceptsOk, Completions
  <1>. HIDE DEF e
  <1>. QED BY <1>1, <1>3, <1>4, <1>5, <1>7, <1>8, AcceptCounts DEF AcceptInv

\* Its completion without one.
LEMMA AcceptAcceptFail ==
    ASSUME NetOk, AcceptInv, IsFiniteSet(Pollers), NEW c \in Channels, AcceptFail(c)
    PROVE  AcceptInv'
  <1>. DEFINE s == iocp
              e == Completion("accept", None, FALSE)
  <1>1. /\ accepts > 0 /\ accepts' = accepts - 1 /\ accepts \in Nat
        /\ conn[c] = "backlog" /\ peer' = [peer EXCEPT ![c] = "reset"]
        /\ s \in Seq(Completions) /\ iocp' = Append(s, e) /\ UNCHANGED <<conn, pc>>
    BY DEF AcceptFail, Complete, NetOk, netVars, pollVars
  <1>2. e \in Completions /\ e \in AcceptsTaken /\ e \notin AcceptsOk
    BY DEF Completion, Completions, AcceptsTaken, AcceptsOk, Handles
  <1>3. ~ AcceptLost BY <1>1 DEF AcceptInv
  <1>4. AcceptLost' BY <1>1 DEF AcceptLost, NetOk
  <1>5. Taking' = Taking /\ Accepting' = Accepting BY <1>1 DEF Taking, Accepting, At
  <1>6. /\ accepts = 1
        /\ Cardinality(Of(iocp, AcceptsTaken)) = 0 /\ Cardinality(Taking) = 0
        /\ Of(iocp, AcceptsTaken) = Of(iocp, AcceptsOk)
    BY <1>1, <1>3, AcceptCounts DEF AcceptInv
  <1>7. Taking = {} /\ Of(iocp, AcceptsOk) = {}
    BY <1>6, AcceptCounts, FS_EmptySet
  <1>8. /\ Of(iocp, AcceptsOk)' = Of(s, AcceptsOk)
        /\ Cardinality(Of(iocp, AcceptsTaken))' = Cardinality(Of(s, AcceptsTaken)) + 1
    <2>. HIDE DEF e
    <2>1. Cardinality(Of(Append(s, e), AcceptsTaken)) = Cardinality(Of(s, AcceptsTaken)) + 1
      BY <1>1, <1>2, OfAppend
    <2>2. Of(Append(s, e), AcceptsOk) = Of(s, AcceptsOk) \cup {}
      BY <1>1, <1>2, OfAppend
    <2>. QED BY <1>1, <2>1, <2>2 DEF AcceptsTaken, AcceptsOk, Completions
  <1>9. accepts' = 0 /\ Taking' = {} /\ Of(iocp, AcceptsOk)' = {}
    <2>1. accepts' = 0 BY <1>1, <1>6
    <2>2. Taking' = {} BY <1>5, <1>7
    <2>3. Of(iocp, AcceptsOk)' = {} BY <1>7, <1>8
    <2>. QED BY <2>1, <2>2, <2>3
  <1>10. Cardinality(Of(iocp, AcceptsTaken))' = 1 BY <1>6, <1>8
  <1>11. Cardinality(Accepting') = Cardinality(Of(iocp, AcceptsOk)') + Cardinality(Taking')
    BY <1>5, <1>8 DEF AcceptInv
  <1>. QED BY <1>4, <1>9, <1>10, <1>11 DEF AcceptInv

\* A completion of another kind.
LEMMA AcceptAppend ==
    ASSUME NetOk, NEW type \in {"send", "recv"}, NEW h \in Handles, NEW ok \in BOOLEAN,
           Complete(type, h, ok)
    PROVE  /\ Of(iocp, AcceptsTaken)' = Of(iocp, AcceptsTaken)
           /\ Of(iocp, AcceptsOk)' = Of(iocp, AcceptsOk)
  <1>. DEFINE s == iocp
              e == Completion(type, h, ok)
  <1>1. s \in Seq(Completions) /\ iocp' = Append(s, e)
    BY DEF Complete, NetOk
  <1>2. e \in Completions /\ e \notin AcceptsTaken /\ e \notin AcceptsOk
    BY DEF Completion, Completions, AcceptsTaken, AcceptsOk
  <1>. HIDE DEF e
  <1>3. /\ Of(Append(s, e), AcceptsTaken) = Of(s, AcceptsTaken) \cup {}
        /\ Of(Append(s, e), AcceptsOk) = Of(s, AcceptsOk) \cup {}
    BY <1>1, <1>2, OfAppend
  <1>. QED BY <1>1, <1>3 DEF AcceptsTaken, AcceptsOk, Completions

\* AcceptInv is inductive, for finitely many pollers.
LEMMA AcceptStep ==
    IsFiniteSet(Pollers) /\ NetOk /\ AcceptInv /\ [Next]_vars => AcceptInv'
  <1>. SUFFICES ASSUME IsFiniteSet(Pollers), NetOk, AcceptInv, [Next]_vars PROVE AcceptInv'
    OBVIOUS
  <1>. USE DEF netVars, bufVars, portVars, outVars, pollVars
  <1>1. ASSUME UNCHANGED <<conn, peer, accepts, iocp, pc>> PROVE AcceptInv'
    <2>1. /\ Taking' = Taking /\ Accepting' = Accepting /\ (AcceptLost' <=> AcceptLost)
          /\ Of(iocp, AcceptsTaken)' = Of(iocp, AcceptsTaken)
          /\ Of(iocp, AcceptsOk)' = Of(iocp, AcceptsOk)
      BY <1>1 DEF Taking, Accepting, AcceptLost, At, Of, AcceptsTaken, AcceptsOk, Completions
    <2>. QED BY <1>1, <2>1, AcceptFrame
  <1>2. ASSUME NEW p \in Pollers, Recv(p) \/ Grow(p) \/ Parse(p) \/ Rearm(p) PROVE AcceptInv'
    <2>1. /\ UNCHANGED <<conn, peer, accepts, iocp>>
          /\ pc[p] # "accept" /\ \E l \in {"poll", "recv", "grow", "parse", "rearm"} :
                                    pc' = [pc EXCEPT ![p] = l]
      BY <1>2 DEF Recv, Grow, Parse, Rearm, Return, Done, Goto, At
    <2>2. Taking' = Taking BY <2>1 DEF Taking, At, NetOk
    <2>3. /\ Accepting' = Accepting /\ (AcceptLost' <=> AcceptLost)
          /\ Of(iocp, AcceptsTaken)' = Of(iocp, AcceptsTaken)
          /\ Of(iocp, AcceptsOk)' = Of(iocp, AcceptsOk)
      BY <2>1 DEF Accepting, AcceptLost, Of, AcceptsTaken, AcceptsOk, Completions
    <2>. QED BY <2>1, <2>2, <2>3, AcceptFrame
  <1>3. ASSUME NEW p \in Pollers, PollStep(p) PROVE AcceptInv'
    BY <1>2, <1>3, AcceptPoll, AcceptAccept DEF PollStep
  <1>4. ASSUME NEW c \in Channels, RecvDone(c) \/ SendDone(c) PROVE AcceptInv'
    <2>1. /\ UNCHANGED <<conn, peer, accepts, pc>> /\ c \in Handles
          /\ \E type \in {"send", "recv"}, ok \in BOOLEAN : Complete(type, c, ok)
      BY <1>4 DEF RecvDone, SendDone, Handles
    <2>2. /\ Of(iocp, AcceptsTaken)' = Of(iocp, AcceptsTaken)
          /\ Of(iocp, AcceptsOk)' = Of(iocp, AcceptsOk)
      BY <2>1, AcceptAppend
    <2>3. Taking' = Taking /\ Accepting' = Accepting /\ (AcceptLost' <=> AcceptLost)
      BY <2>1 DEF Taking, Accepting, AcceptLost, At
    <2>. QED BY <2>1, <2>2, <2>3, AcceptFrame
  <1>5. ASSUME NEW c \in Channels, Connect(c) \/ Dial(c) \/ PeerClose(c) PROVE AcceptInv'
    <2>1. UNCHANGED <<accepts, iocp, pc>> BY <1>5 DEF Connect, Dial, PeerClose
    <2>2. Accepting' = Accepting
      BY <1>5 DEF Connect, Dial, PeerClose, Accepting, NetOk
    <2>3. AcceptLost' <=> AcceptLost
      BY <1>5 DEF Connect, Dial, PeerClose, AcceptLost, NetOk
    <2>4. /\ Taking' = Taking
          /\ Of(iocp, AcceptsTaken)' = Of(iocp, AcceptsTaken)
          /\ Of(iocp, AcceptsOk)' = Of(iocp, AcceptsOk)
      BY <2>1 DEF Taking, At, Of, AcceptsTaken, AcceptsOk, Completions
    <2>. QED BY <2>1, <2>2, <2>3, <2>4, AcceptFrame
  <1>6. ASSUME NEW c \in Channels, Arrive(c) \/ Push(c) \/ PeerSend(c) PROVE AcceptInv'
    BY <1>1, <1>6 DEF Arrive, Push, PeerSend
  <1>7. ASSUME NEW c \in Channels, OsStep(c) \/ UserStep(c) PROVE AcceptInv'
    BY <1>4, <1>5, <1>6, <1>7, AcceptAcceptDone, AcceptAcceptFail DEF OsStep, UserStep
  <1>8. CASE UNCHANGED vars BY <1>1, <1>8 DEF vars
  <1>. QED BY <1>3, <1>7, <1>8 DEF Next

\* Counting with Count is counting with Of.
LEMMA CountAccepts == NetOk => Count("accept", None) = Cardinality(Of(iocp, AcceptsTaken))
  <1>. SUFFICES ASSUME NetOk PROVE Count("accept", None) = Cardinality(Of(iocp, AcceptsTaken))
    OBVIOUS
  <1>. DEFINE s == iocp
  <1>1. s \in Seq(Completions) BY DEF NetOk
  <1>2. \A i \in DOMAIN s : s[i] \in Completions BY <1>1
  <1>3. \A i \in DOMAIN s : s[i].h = None <=> s[i].type = "accept" BY DEF NetOk
  <1>4. {i \in DOMAIN s : s[i].type = "accept" /\ s[i].h = None} = Of(s, AcceptsTaken)
    BY <1>2, <1>3 DEF Of, AcceptsTaken
  <1>. QED BY <1>4 DEF Count

\* For any finite number of pollers there is one AcceptEx, and sa holds one connection until
\* accept has taken it (acceptorimpl.cpp:74-115).
THEOREM AcceptOnly == ASSUME IsFiniteSet(Pollers) PROVE Spec => []OneAccept
  <1>1. Init => NetOk /\ AcceptInv BY NetInit, AcceptInit
  <1>2. NetOk /\ AcceptInv /\ [Next]_vars => NetOk' /\ AcceptInv' BY NetStep, AcceptStep
  <1>3. NetOk /\ AcceptInv => OneAccept
    <2>. SUFFICES ASSUME NetOk, AcceptInv PROVE OneAccept
      OBVIOUS
    <2>. DEFINE s == iocp
    <2>1. s \in Seq(Completions) BY DEF NetOk
    <2>2. \A i \in DOMAIN s : s[i] \in Completions BY <2>1
    <2>3. {i \in DOMAIN s : s[i].type = "accept" /\ s[i].ok} = Of(s, AcceptsOk)
      BY <2>2 DEF Of, AcceptsOk
    <2>4. /\ {p \in Pollers : At(p, "accept")} = Taking
          /\ {c \in Channels : conn[c] = "accepting"} = Accepting
      BY DEF Taking, Accepting
    <2>5. Cardinality(Taking) = 0 \/ ~ AcceptLost BY FS_EmptySet DEF AcceptInv
    <2>6. accepts \in Nat BY DEF NetOk
    <2>7. Count("accept", None) = Cardinality(Of(iocp, AcceptsTaken)) BY CountAccepts
    <2>8. accepts + Cardinality(Of(iocp, AcceptsTaken)) + Cardinality(Taking)
             \in IF AcceptLost THEN {0, 1} ELSE {1}
      <3>1. Cardinality(Of(iocp, AcceptsTaken)) \in Nat /\ Cardinality(Taking) \in Nat
        BY AcceptCounts, FS_EmptySet, FS_CardinalityType DEF AcceptInv
      <3>. QED BY <2>5, <2>6, <3>1 DEF AcceptInv
    <2>9. Cardinality(Accepting) = Cardinality(Of(s, AcceptsOk)) + Cardinality(Taking)
      BY DEF AcceptInv
    <2>. QED BY <2>3, <2>4, <2>7, <2>8, <2>9 DEF OneAccept
  <1>. QED BY <1>1, <1>2, <1>3, PTL DEF Spec

-----------------------------------------------------------------------------
(* The numbers of the bytes *)

\* A set of naturals has a least member, and a finite one a greatest.
LEMMA LeastNatural ==
    ASSUME NEW S \in SUBSET Nat, S # {}
    PROVE  \E m \in S : \A n \in S : m <= n
  <1>. DEFINE U == {1..n : n \in S}
  <1>1. ASSUME NEW n \in S PROVE IsFiniteSet(1..n)
    <2>1. n \in Int /\ 1 \in Int OBVIOUS
    <2>. QED BY <2>1, FS_Interval
  <1>2. U \subseteq FiniteSubsetsOf(Nat) BY <1>1 DEF FiniteSubsetsOf
  <1>3. U # {} OBVIOUS
  <1>4. PICK x \in U : \A y \in U : ~ (<<y, x>> \in StrictSubsetOrdering(Nat))
    <2>. HIDE DEF U
    <2>. QED BY <1>2, <1>3, FS_StrictSubsetOrderingWellFounded, WFMin
  <1>5. PICK m \in S : x = 1..m OBVIOUS
  <1>6. ASSUME NEW n \in S, n < m PROVE FALSE
    <2>1. 1..n \in U /\ 1..n \subseteq 1..m /\ 1..m \subseteq Nat /\ m \in 1..m /\ m \notin 1..n
      BY <1>6
    <2>. QED BY <1>4, <1>5, <2>1 DEF StrictSubsetOrdering
  <1>. QED BY <1>6

\* A finite set of numbers has a greatest element.
LEMMA GreatestNatural ==
    ASSUME NEW S \in SUBSET Nat, S # {}, IsFiniteSet(S)
    PROVE  \E m \in S : \A n \in S : n <= m
  <1>. DEFINE Above(n) == {x \in S : x > n}
              U == {Above(n) : n \in S}
  <1>1. \A n \in S : IsFiniteSet(Above(n)) BY FS_Subset
  <1>2. U \subseteq FiniteSubsetsOf(S) BY <1>1 DEF FiniteSubsetsOf
  <1>3. U # {} OBVIOUS
  <1>4. PICK x \in U : \A y \in U : ~ (<<y, x>> \in StrictSubsetOrdering(S))
    <2>. HIDE DEF U
    <2>. QED BY <1>2, <1>3, FS_StrictSubsetOrderingWellFounded, WFMin
  <1>5. PICK m \in S : x = Above(m) OBVIOUS
  <1>6. ASSUME NEW n \in S, n > m PROVE FALSE
    <2>1. Above(n) \in U OBVIOUS
    <2>2. n \in Int /\ m \in Int /\ \A y \in S : y \in Int OBVIOUS
    <2>3. n \in Above(m) /\ n \notin Above(n) /\ Above(n) \subseteq Above(m)
      <3>1. n \in Above(m) BY <1>6
      <3>2. n \notin Above(n) BY <2>2
      <3>3. ASSUME NEW y \in S, y > n PROVE y > m BY <1>6, <2>2, <3>3
      <3>. QED BY <3>1, <3>2, <3>3
    <2>4. ~ (<<Above(n), Above(m)>> \in StrictSubsetOrdering(S)) BY <1>4, <1>5, <2>1
    <2>5. Above(n) \in SUBSET S /\ Above(m) \in SUBSET S OBVIOUS
    <2>. HIDE DEF Above
    <2>. QED BY <2>3, <2>4, <2>5 DEF StrictSubsetOrdering
  <1>. QED BY <1>6

\* A stream's bytes are numbered from 1 to the last that ends a message of any channel.
LEMMA ByteNumbers ==
    /\ AllEnds \subseteq Bytes /\ Bytes \subseteq Nat \ {0}
    /\ \A b \in Bytes : \A n \in 1..b : n \in Bytes
    /\ \A c \in Channels : Ends[c] \subseteq AllEnds
  <1>1. AllEnds \in SUBSET Nat /\ AllEnds # {} /\ IsFiniteSet(AllEnds) /\ 0 \notin AllEnds
    BY ConstantsOk DEF AllEnds
  <1>2. \E m \in AllEnds : \A n \in AllEnds : m >= n
    <2>. HIDE DEF AllEnds
    <2>. QED BY <1>1, GreatestNatural
  <1>3. Max(AllEnds) \in AllEnds /\ \A n \in AllEnds : Max(AllEnds) >= n
    <2>. HIDE DEF AllEnds
    <2>. QED BY <1>2 DEF Max
  <1>4. \A c \in Channels : Ends[c] \subseteq AllEnds BY DEF AllEnds
  <1>. DEFINE M == Max(AllEnds)
  <1>5. M \in AllEnds /\ (\A n \in AllEnds : M >= n) /\ Bytes = 1..M BY <1>3 DEF Bytes
  <1>. HIDE DEF AllEnds, M
  <1>. QED BY <1>1, <1>4, <1>5

-----------------------------------------------------------------------------
(* The buffer *)

Cells == Bytes \cup {None}

\* The w bytes that stand at the start of s are the stream up to byte r.
Holds(s, w, r) == \A i \in 1..w : s[i] = r - w + i

\* recv writes n bytes behind the w that are there.
Written(s, w, r, n) ==
    [i \in DOMAIN s |-> IF i \in w + 1 .. w + n THEN r + i - w ELSE s[i]]

\* A receive writes the next bytes of the stream behind those the buffer holds.
LEMMA Received ==
    ASSUME NEW s \in Seq(Cells), NEW w \in Nat, NEW r \in Nat, NEW n \in Nat,
           w + n <= Len(s), r + n \in Bytes \cup {0}, Holds(s, w, r)
    PROVE  /\ Written(s, w, r, n) \in Seq(Cells) /\ Len(Written(s, w, r, n)) = Len(s)
           /\ Holds(Written(s, w, r, n), w + n, r + n)
  <1>. DEFINE t == Written(s, w, r, n)
  <1>1. /\ Len(s) \in Nat /\ DOMAIN s = 1..Len(s)
        /\ t = [i \in DOMAIN s |-> IF i \in w + 1 .. w + n THEN r + i - w ELSE s[i]]
    BY DEF Written
  <1>. HIDE DEF t
  <1>2. ASSUME NEW i \in 1..Len(s) PROVE t[i] \in Cells
    <2>1. CASE i \in w + 1 .. w + n
      <3>1. t[i] = r + i - w /\ r + i - w \in 1..(r + n) /\ r + n # 0 BY <1>1, <2>1
      <3>. QED BY <3>1, ByteNumbers DEF Cells
    <2>2. CASE i \notin w + 1 .. w + n BY <1>1, <2>2
    <2>. QED BY <2>1, <2>2
  <1>3. t \in [1..Len(s) -> Cells] BY <1>1, <1>2
  <1>4. t \in Seq(Cells) /\ Len(t) = Len(s) BY <1>1, <1>3
  <1>5. Holds(t, w + n, r + n) BY <1>1 DEF Holds
  <1>. QED BY <1>4, <1>5 DEF t

\* Enlarging the buffer keeps them.
LEMMA EnlargedKeeps ==
    ASSUME NEW s \in Seq(Cells), NEW w \in Nat, NEW r \in Nat, w <= Len(s), Holds(s, w, r)
    PROVE  /\ Enlarged(s) \in Seq(Cells) /\ Len(Enlarged(s)) = 2 * Len(s)
           /\ Holds(Enlarged(s), w, r)
  <1>. DEFINE j == Junk(Len(s))
  <1>1. j \in Seq(Cells) /\ Len(j) = Len(s) BY DEF Junk, Cells
  <1>. HIDE DEF j
  <1>2. /\ s \o j \in Seq(Cells) /\ Len(s \o j) = Len(s) + Len(j)
        /\ \A i \in 1..Len(s) : (s \o j)[i] = s[i]
    BY <1>1
  <1>3. Holds(s \o j, w, r) BY <1>2 DEF Holds
  <1>. QED BY <1>1, <1>2, <1>3 DEF Enlarged, j

\* What the framing finds: all that is unread, if it ends a message; and the first message is
\* one of its bytes.
LEMMA FoundMessage ==
    ASSUME NEW s \in Seq(Cells), NEW w \in Nat \ {0}, NEW r \in Nat, w <= Len(s), w <= r,
           Holds(s, w, r), NEW E \in SUBSET (Nat \ {0}),
           Framed(SubSeq(s, 1, w), E) >= 0
    PROVE  /\ Framed(SubSeq(s, 1, w), E) = w
           /\ FirstMessage(SubSeq(s, 1, w), E) \in E
           /\ r - w < FirstMessage(SubSeq(s, 1, w), E)
           /\ FirstMessage(SubSeq(s, 1, w), E) <= r
  <1>. DEFINE g == SubSeq(s, 1, w)
  <1>0. Framed(g, E) >= 0 OBVIOUS
  <1>1. /\ g \in Seq(Cells) /\ Len(g) = w /\ g # <<>> /\ Len(g) \in Nat
        /\ \A i \in 1..w : g[i] = r - w + i
    BY DEF Holds
  <1>. HIDE DEF g
  <1>2. g[w] \in E /\ Framed(g, E) = w BY <1>0, <1>1 DEF Framed, Last
  <1>. DEFINE I == {i \in 1..Len(g) : g[i] \in E}
  <1>3. I \in SUBSET Nat /\ w \in I /\ I \subseteq 1..w BY <1>1, <1>2
  <1>. HIDE DEF I
  <1>4. \E m \in I : \A n \in I : m <= n BY <1>3, LeastNatural
  <1>5. Min(I) \in I BY <1>4 DEF Min
  <1>6. SelectInSeq(g, LAMBDA b : b \in E) = Min(I) BY <1>3 DEF SelectInSeq, I
  <1>7. FirstMessage(g, E) = g[Min(I)] BY <1>6 DEF FirstMessage
  <1>8. Min(I) \in 1..w /\ g[Min(I)] \in E BY <1>3, <1>5 DEF I
  <1>. QED BY <1>1, <1>2, <1>7, <1>8 DEF g

-----------------------------------------------------------------------------
(* The invariant, for one poller *)

\* acceptor::channelserver calls queue and pop from one loop.  With a second poller, as
\* connect::channelserver has (channelserver.cpp:117 and 159), both can be in pop for the same
\* channel, from which nothing protects it.
OnePoller == \E p : Pollers = {p}

\* A poller is at the label of the code for channel c.
Busy(c, label) == \E p \in Pollers : At(p, label) /\ ev[p] = c

\* Bytes are sent before they arrive and arrive before they are read; a buffer is full only
\* until it is enlarged, and rindex is 0 but while the receive is posted, the buffer drained.
Sized(c) ==
    /\ sent[c] \in Ends[c] \cup {0}
    /\ windex[c] <= read[c] /\ read[c] <= arrived[c] /\ arrived[c] <= sent[c]
    /\ Len(buf[c]) > 0
    /\ windex[c] = Len(buf[c]) => Busy(c, "grow")
    /\ Busy(c, "rearm") => rindex[c] = windex[c] /\ windex[c] > 0
    /\ ~ Busy(c, "rearm") => rindex[c] = 0

\* StreamKept, of one channel.
Buffered(c) == \A i \in 1..Unread(c) : buf[c][rindex[c] + i] = Eaten(c) + i
Messages(c) ==
    \A i \in DOMAIN delivered[c] :
        /\ delivered[c][i] <= Eaten(c)
        /\ i > 1 => delivered[c][i] > delivered[c][i-1]

\* The message pop is about to return is younger than those it has returned.
AtRearm(p) ==
    At(p, "rearm") =>
        /\ cmd[p] \in AllEnds /\ cmd[p] <= Eaten(ev[p])
        /\ \A i \in DOMAIN delivered[ev[p]] : delivered[ev[p]][i] < cmd[p]

\* Of a channel whose buffer is empty a receive is posted, or there is something to read; and a
\* receive is posted or completed unless the poller is yet to read.
Watch(c) ==
    conn[c] = "open" /\ peer[c] = "up" /\ windex[c] = 0 =>
        /\ posted[c] > 0 \/ arrived[c] > read[c]
        /\ Busy(c, "parse") \/ ~ Serving(c) => posted[c] > 0 \/ Of(iocp, Tokens(c)) # {}

IInv ==
    /\ NetOk
    /\ TypeOK
    /\ \A c \in Channels : Sized(c) /\ Buffered(c) /\ Messages(c) /\ Watch(c)
    /\ \A p \in Pollers : AtRearm(p)

\* IInv holds at the start.
LEMMA InitInv == Init => IInv
  <1>. SUFFICES ASSUME Init PROVE IInv
    OBVIOUS
  <1>1. NetOk BY NetInit
  <1>. USE ConstantsOk, ByteNumbers
  <1>2. TypeOK
    <2>. DEFINE j == Junk(BufLen)
    <2>1. j \in Seq(Bytes \cup {None}) /\ Len(j) = BufLen BY DEF Junk
    <2>. HIDE DEF j
    <2>2. buf = [c \in Channels |-> j] BY DEF Init, j
    <2>3. /\ conn \in [Channels -> {"none", "backlog", "accepting", "open"}]
          /\ peer \in [Channels -> {"up", "closed", "reset"}]
          /\ pc \in [Pollers -> {"poll", "accept", "recv", "grow", "parse", "rearm"}]
          /\ ev \in [Pollers -> Handles]
      BY <1>1 DEF NetOk
    <2>4. buf \in [Channels -> Seq(Bytes \cup {None})] BY <2>1, <2>2
    <2>5. \A c \in Channels : rindex[c] <= windex[c] /\ windex[c] <= Len(buf[c])
      BY <2>1, <2>2 DEF Init
    <2>. QED BY <2>3, <2>4, <2>5 DEF Init, TypeOK
  <1>3. ASSUME NEW c \in Channels PROVE Sized(c) /\ Buffered(c) /\ Messages(c) /\ Watch(c)
    <2>1. \A label \in {"grow", "rearm", "parse"} : ~ Busy(c, label) BY DEF Busy, At, Init
    <2>2. Len(buf[c]) = BufLen BY DEF Init, Junk
    <2>. QED BY <2>1, <2>2 DEF Init, Sized, Buffered, Messages, Watch, Unread, Eaten
  <1>4. \A p \in Pollers : AtRearm(p) BY DEF Init, AtRearm, At
  <1>. QED BY <1>1, <1>2, <1>3, <1>4 DEF IInv

\* The numbers TypeOK types.
LEMMA Numbers ==
    ASSUME TypeOK, NEW c \in Channels
    PROVE  /\ sent[c] \in Nat /\ arrived[c] \in Nat /\ read[c] \in Nat
           /\ rindex[c] \in Nat /\ windex[c] \in Nat
           /\ rindex[c] <= windex[c] /\ windex[c] <= Len(buf[c])
           /\ posted[c] \in Nat /\ sending[c] \in Nat
           /\ buf[c] \in Seq(Cells) /\ Len(buf[c]) \in Nat
           /\ delivered[c] \in Seq(AllEnds) /\ Ends[c] \in SUBSET (Nat \ {0})
  <1>1. Ends[c] \subseteq Nat \ {0} BY ByteNumbers
  <1>2. sent[c] \in AllEnds \cup {0} /\ arrived[c] \in Bytes \cup {0} /\ read[c] \in Bytes \cup {0}
    BY DEF TypeOK
  <1>3. buf[c] \in Seq(Cells) BY DEF TypeOK, Cells
  <1>4. Len(buf[c]) \in Nat BY <1>3
  <1>5. Ends[c] \in SUBSET (Nat \ {0}) BY <1>1
  <1>6. sent[c] \in Nat /\ arrived[c] \in Nat /\ read[c] \in Nat
    <2>1. \A b \in Bytes : b \in Nat BY ByteNumbers
    <2>2. \A b \in AllEnds : b \in Nat BY ByteNumbers
    <2>. QED BY <1>2, <2>1, <2>2
  <1>. QED BY <1>3, <1>4, <1>5, <1>6 DEF TypeOK

\* With one poller, where it is tells which channels are busy.
LEMMA OneBusy ==
    ASSUME NEW p, Pollers = {p}, NEW c, NEW label
    PROVE  /\ Busy(c, label) <=> pc[p] = label /\ ev[p] = c
           /\ Busy(c, label)' <=> pc'[p] = label /\ ev'[p] = c
           /\ Serving(c) <=> ev[p] = c
           /\ Serving(c)' <=> ev'[p] = c
  BY DEF Busy, At, Serving

\* What leaves a channel as it is.
LEMMA Kept ==
    ASSUME NEW c \in Channels, Sized(c), Buffered(c), Messages(c),
           sent'[c] = sent[c], arrived'[c] = arrived[c], read'[c] = read[c],
           buf'[c] = buf[c], rindex'[c] = rindex[c], windex'[c] = windex[c],
           delivered'[c] = delivered[c],
           Busy(c, "grow")' <=> Busy(c, "grow"), Busy(c, "rearm")' <=> Busy(c, "rearm")
    PROVE  Sized(c)' /\ Buffered(c)' /\ Messages(c)'
  BY DEF Sized, Buffered, Messages, Unread, Eaten

\* A channel stays watched when what it waits for stays, and nothing more is asked of it.
LEMMA KeptWatch ==
    ASSUME NEW c \in Channels, Watch(c),
           conn'[c] = conn[c], peer'[c] = "up" => peer[c] = "up",
           windex'[c] = windex[c], read'[c] = read[c],
           arrived'[c] = arrived[c] \/ arrived[c] > read[c] => arrived'[c] > read'[c],
           posted'[c] = posted[c],
           Of(iocp, Tokens(c)) # {} => Of(iocp, Tokens(c))' # {},
           Busy(c, "parse")' => Busy(c, "parse"), Serving(c) => Serving(c)'
    PROVE  Watch(c)'
  BY DEF Watch

\* The receives that have completed stay in the port when others do.
LEMMA TokensAppend ==
    ASSUME NetOk, NEW type \in {"accept", "send", "recv"}, NEW h \in Handles, NEW ok \in BOOLEAN,
           Complete(type, h, ok), NEW c \in Channels
    PROVE  /\ Of(iocp, Tokens(c)) # {} => Of(iocp, Tokens(c))' # {}
           /\ type = "recv" /\ h = c => Of(iocp, Tokens(c))' # {}
  <1>. DEFINE s == iocp
              e == Completion(type, h, ok)
  <1>1. s \in Seq(Completions) /\ iocp' = Append(s, e)
    BY DEF Complete, NetOk
  <1>2. e \in Completions /\ (type = "recv" /\ h = c => e \in Tokens(c))
    BY DEF Completion, Completions, Tokens
  <1>. HIDE DEF e
  <1>3. Of(Append(s, e), Tokens(c)) =
           Of(s, Tokens(c)) \cup (IF e \in Tokens(c) THEN {Len(s) + 1} ELSE {})
    BY <1>1, <1>2, OfAppend
  <1>. QED BY <1>1, <1>2, <1>3 DEF Tokens, Completions

-----------------------------------------------------------------------------
(* What the system and its users do *)

\* The steps of the system and of the users keep the types.
LEMMA TypesOther ==
    ASSUME IInv, NetOk', NEW c \in Channels, OsStep(c) \/ UserStep(c)
    PROVE  TypeOK'
  <1>. USE DEF netVars, bufVars, portVars, outVars, pollVars
  <1>1. TypeOK /\ Sized(c) BY DEF IInv
  <1>2. /\ conn' \in [Channels -> {"none", "backlog", "accepting", "open"}]
        /\ peer' \in [Channels -> {"up", "closed", "reset"}]
        /\ accepts' \in Nat
        /\ iocp' \in Seq(Completions)
    BY DEF NetOk
  <1>3. CASE AcceptDone(c) BY <1>1, <1>2, <1>3 DEF AcceptDone, TypeOK
  <1>4. CASE AcceptFail(c) BY <1>1, <1>2, <1>4 DEF AcceptFail, TypeOK
  <1>5. CASE RecvDone(c) 
    <2>1. posted[c] - 1 \in Nat BY <1>1, <1>5, Numbers DEF RecvDone
    <2>. QED BY <1>1, <1>2, <1>5, <2>1 DEF RecvDone, TypeOK
  <1>6. CASE SendDone(c) 
    <2>1. sending[c] - 1 \in Nat BY <1>1, <1>6, Numbers DEF SendDone
    <2>. QED BY <1>1, <1>2, <1>6, <2>1 DEF SendDone, TypeOK
  <1>7. CASE Arrive(c)
    <2>1. PICK n \in arrived[c] + 1 .. sent[c] : arrived' = [arrived EXCEPT ![c] = n]
      BY <1>7 DEF Arrive
    <2>2. arrived[c] \in Nat /\ sent[c] \in AllEnds \cup {0} /\ sent[c] \in Nat
      BY <1>1, Numbers DEF TypeOK
    <2>3. n \in 1..sent[c] /\ sent[c] \in Bytes BY <2>2, ByteNumbers
    <2>4. n \in Bytes BY <2>3, ByteNumbers
    <2>. QED BY <1>1, <1>2, <1>7, <2>1, <2>4 DEF Arrive, TypeOK
  <1>8. CASE Connect(c) BY <1>1, <1>2, <1>8 DEF Connect, TypeOK
  <1>9. CASE Push(c) 
    <2>1. pushed + 1 \in 0..MaxSends BY <1>1, <1>9, ConstantsOk DEF Push, TypeOK
    <2>2. sending[c] + 1 \in Nat BY <1>1, Numbers
    <2>. QED BY <1>1, <1>2, <1>9, <2>1, <2>2 DEF Push, TypeOK
  <1>10. CASE Dial(c) BY <1>1, <1>2, <1>10 DEF Dial, TypeOK
  <1>11. CASE PeerSend(c) 
    <2>1. PICK e \in Ends[c] : sent' = [sent EXCEPT ![c] = e] BY <1>11 DEF PeerSend
    <2>2. e \in AllEnds BY ByteNumbers
    <2>. QED BY <1>1, <1>2, <1>11, <2>1, <2>2 DEF PeerSend, TypeOK
  <1>12. CASE PeerClose(c) BY <1>1, <1>2, <1>12 DEF PeerClose, TypeOK
  <1>. QED
    BY <1>3, <1>4, <1>5, <1>6, <1>7, <1>8, <1>9, <1>10, <1>11, <1>12 DEF OsStep, UserStep

\* They leave the buffers alone; the bytes only arrive and are sent.
LEMMA DataOther ==
    ASSUME IInv, NEW c \in Channels, OsStep(c) \/ UserStep(c), NEW d \in Channels
    PROVE  Sized(d)' /\ Buffered(d)' /\ Messages(d)'
  <1>. USE DEF netVars, bufVars, portVars, outVars, pollVars
  <1>1. Sized(d) /\ Buffered(d) /\ Messages(d) /\ TypeOK BY DEF IInv
  <1>2. UNCHANGED <<read, buf, rindex, windex, delivered, pc, ev, cmd>>
    BY DEF OsStep, UserStep, AcceptDone, AcceptFail, RecvDone, SendDone, Arrive, Connect, Push,
           Dial, PeerSend, PeerClose
  <1>3. \A label : Busy(d, label)' <=> Busy(d, label) BY <1>2 DEF Busy, At
  <1>4. Buffered(d)' /\ Messages(d)'
    BY <1>1, <1>2 DEF Buffered, Messages, Unread, Eaten
  <1>5. sent'[d] \in Ends[d] \cup {0} /\ read[d] <= arrived'[d] /\ arrived'[d] <= sent'[d]
    <2>1. /\ sent[d] \in Nat /\ arrived[d] \in Nat /\ read[d] \in Nat
          /\ sent[d] \in Ends[d] \cup {0} /\ read[d] <= arrived[d] /\ arrived[d] <= sent[d]
      BY <1>1, Numbers DEF Sized
    <2>2. CASE Arrive(c)
      <3>1. sent' = sent /\ \E n \in arrived[c] + 1 .. sent[c] : arrived' = [arrived EXCEPT ![c] = n]
        BY <2>2 DEF Arrive
      <3>. QED BY <1>1, <2>1, <3>1 DEF TypeOK
    <2>3. CASE PeerSend(c)
      <3>1. PICK e \in Ends[c] : e > sent[c] /\ sent' = [sent EXCEPT ![c] = e]
        BY <2>3 DEF PeerSend
      <3>2. e \in Nat /\ arrived' = arrived BY <2>3, ByteNumbers DEF PeerSend
      <3>. QED BY <1>1, <2>1, <3>1, <3>2 DEF TypeOK
    <2>4. CASE ~ Arrive(c) /\ ~ PeerSend(c)
      <3>1. UNCHANGED <<sent, arrived>>
        BY <2>4 DEF OsStep, UserStep, AcceptDone, AcceptFail, RecvDone, SendDone, Connect, Push,
                    Dial, PeerClose
      <3>. QED BY <2>1, <3>1
    <2>. QED BY <2>2, <2>3, <2>4
  <1>6. Sized(d)' BY <1>1, <1>2, <1>3, <1>5 DEF Sized
  <1>. QED BY <1>4, <1>6

\* They leave each channel watched: a receive that completes is in the port.
LEMMA WatchOther ==
    ASSUME IInv, NEW c \in Channels, OsStep(c) \/ UserStep(c), NEW d \in Channels
    PROVE  Watch(d)'
  <1>. USE DEF netVars, bufVars, portVars, outVars, pollVars
  <1>1. Watch(d) /\ TypeOK /\ NetOk /\ Sized(d) BY DEF IInv
  <1>2. UNCHANGED <<read, windex, pc, ev>>
    BY DEF OsStep, UserStep, AcceptDone, AcceptFail, RecvDone, SendDone, Arrive, Connect, Push,
           Dial, PeerSend, PeerClose
  <1>3. (Busy(d, "parse")' <=> Busy(d, "parse")) /\ (Serving(d)' <=> Serving(d))
    BY <1>2 DEF Busy, At, Serving
  <1>4. /\ read[d] \in Nat /\ arrived[d] \in Nat /\ posted[d] \in Nat /\ c \in Handles
        /\ None \in Handles
    BY <1>1, Numbers DEF Handles
  <1>5. ASSUME iocp' = iocp PROVE Of(iocp, Tokens(d))' = Of(iocp, Tokens(d))
    BY <1>5 DEF Of, Tokens, Completions
  <1>6. CASE AcceptDone(c) \/ AcceptFail(c)
    <2>1. /\ UNCHANGED <<posted, arrived>>
          /\ Complete("accept", None, TRUE) \/ Complete("accept", None, FALSE)
          /\ conn'[d] = "open" => conn[d] = "open"
          /\ peer'[d] = "up" => peer[d] = "up"
      BY <1>1, <1>6 DEF AcceptDone, AcceptFail, NetOk
    <2>2. Of(iocp, Tokens(d)) # {} => Of(iocp, Tokens(d))' # {}
      BY <1>1, <1>4, <2>1, TokensAppend
    <2>. QED BY <1>1, <1>2, <1>3, <2>1, <2>2 DEF Watch
  <1>7. CASE SendDone(c)
    <2>1. UNCHANGED <<posted, arrived, conn, peer>> /\ Complete("send", c, peer[c] # "reset")
      BY <1>7 DEF SendDone
    <2>2. Of(iocp, Tokens(d)) # {} => Of(iocp, Tokens(d))' # {}
      BY <1>1, <1>4, <2>1, TokensAppend
    <2>. QED BY <1>1, <1>2, <1>3, <2>1, <2>2 DEF Watch
  <1>8. CASE RecvDone(c)
    <2>1. /\ UNCHANGED <<arrived, conn, peer>> /\ Complete("recv", c, peer[c] # "reset")
          /\ posted' = [posted EXCEPT ![c] = @ - 1]
          /\ peer[c] = "up" => arrived[c] > read[c]
      BY <1>8 DEF RecvDone, Readable, Finished
    <2>2. /\ Of(iocp, Tokens(d)) # {} => Of(iocp, Tokens(d))' # {}
          /\ d = c => Of(iocp, Tokens(d))' # {}
      BY <1>1, <1>4, <2>1, TokensAppend
    <2>3. d # c => posted'[d] = posted[d] BY <1>1, <2>1 DEF TypeOK
    <2>4. CASE d = c BY <1>2, <2>1, <2>2, <2>4 DEF Watch
    <2>5. CASE d # c BY <1>1, <1>2, <1>3, <2>1, <2>2, <2>3, <2>5 DEF Watch
    <2>. QED BY <2>4, <2>5
  <1>9. CASE Arrive(c)
    <2>1. UNCHANGED <<conn, peer, posted, iocp>> BY <1>9 DEF Arrive
    <2>2. PICK n \in arrived[c] + 1 .. sent[c] : arrived' = [arrived EXCEPT ![c] = n]
      BY <1>9 DEF Arrive
    <2>3. arrived'[d] \in Int /\ arrived'[d] >= arrived[d]
      <3>1. arrived[c] \in Nat /\ sent[c] \in Nat BY <1>1, Numbers
      <3>2. d = c => arrived'[d] = n BY <1>1, <2>2 DEF TypeOK
      <3>3. d # c => arrived'[d] = arrived[d] BY <1>1, <2>2 DEF TypeOK
      <3>. QED BY <1>4, <3>1, <3>2, <3>3
    <2>. QED BY <1>1, <1>2, <1>3, <1>4, <1>5, <2>1, <2>3 DEF Watch
  <1>10. CASE Connect(c)
    <2>1. /\ UNCHANGED <<peer, arrived, iocp>> /\ posted' = [posted EXCEPT ![c] = 1]
          /\ conn' = [conn EXCEPT ![c] = "open"]
      BY <1>10 DEF Connect
    <2>2. CASE d = c
      <3>1. posted'[d] = 1 BY <1>1, <2>1, <2>2 DEF TypeOK
      <3>. QED BY <3>1 DEF Watch
    <2>3. CASE d # c
      <3>1. posted'[d] = posted[d] /\ conn'[d] = conn[d] BY <1>1, <2>1, <2>3 DEF TypeOK
      <3>. QED BY <1>1, <1>2, <1>3, <1>5, <2>1, <3>1 DEF Watch
    <2>. QED BY <2>2, <2>3
  <1>11. CASE Push(c) \/ Dial(c) \/ PeerSend(c) \/ PeerClose(c)
    <2>1. /\ UNCHANGED <<posted, iocp, arrived>>
          /\ conn'[d] = "open" => conn[d] = "open"
          /\ peer'[d] = "up" => peer[d] = "up"
      BY <1>1, <1>11 DEF Push, Dial, PeerSend, PeerClose, NetOk
    <2>. QED BY <1>1, <1>2, <1>3, <1>5, <2>1 DEF Watch
  <1>. QED BY <1>6, <1>7, <1>8, <1>9, <1>10, <1>11 DEF OsStep, UserStep

\* They keep IInv.
LEMMA InvOther ==
    ASSUME IInv, NEW c \in Channels, OsStep(c) \/ UserStep(c)
    PROVE  IInv'
  <1>1. NetOk' BY NetOther DEF IInv
  <1>2. TypeOK' BY <1>1, TypesOther
  <1>3. UNCHANGED <<read, rindex, windex, delivered, pc, ev, cmd>>
    BY DEF OsStep, UserStep, AcceptDone, AcceptFail, RecvDone, SendDone, Arrive, Connect, Push,
           Dial, PeerSend, PeerClose, netVars, bufVars, portVars, outVars, pollVars
  <1>4. \A p \in Pollers : AtRearm(p)'
    BY <1>3 DEF IInv, AtRearm, At, Eaten, Unread
  <1>. QED BY <1>1, <1>2, <1>4, DataOther, WatchOther DEF IInv

-----------------------------------------------------------------------------
(* What the poller does *)

\* Where the poller is in pop it has a channel, and is the only one that has.
LEMMA InPop ==
    ASSUME IInv, NEW p, Pollers = {p}, pc[p] \in {"recv", "grow", "parse", "rearm"}
    PROVE  /\ ev[p] \in Channels
           /\ pc[p] # "rearm" => rindex[ev[p]] = 0
           /\ pc[p] # "grow" => windex[ev[p]] < Len(buf[ev[p]])
           /\ pc[p] = "rearm" => rindex[ev[p]] = windex[ev[p]] /\ windex[ev[p]] > 0
  <1>1. ev[p] \in Channels BY DEF IInv, NetOk, Handles
  <1>2. PICK c \in Channels : c = ev[p] BY <1>1
  <1>3. Sized(c) /\ TypeOK BY DEF IInv
  <1>4. Busy(c, "rearm") <=> pc[p] = "rearm" BY <1>2, OneBusy
  <1>5. Busy(c, "grow") <=> pc[p] = "grow" BY <1>2, OneBusy
  <1>6. windex[c] \in Nat /\ windex[c] <= Len(buf[c]) /\ Len(buf[c]) \in Nat BY <1>3, Numbers
  <1>. QED BY <1>2, <1>3, <1>4, <1>5, <1>6 DEF Sized

\* The other channels do not notice.
LEMMA OtherChannel ==
    ASSUME IInv, NEW p, Pollers = {p}, NEW c \in Channels, c = ev[p], ev'[p] \in {c, None},
           NEW d \in Channels, d # c,
           UNCHANGED <<sent[d], arrived[d], read[d], buf[d], rindex[d], windex[d], delivered[d]>>,
           UNCHANGED <<conn[d], peer[d], posted[d], iocp>>
    PROVE  Sized(d)' /\ Buffered(d)' /\ Messages(d)' /\ Watch(d)'
  <1>1. Sized(d) /\ Buffered(d) /\ Messages(d) /\ Watch(d) BY DEF IInv
  <1>2. ev[p] # d /\ ev'[p] # d BY ConstantsOk
  <1>3. \A l : ~ Busy(d, l) /\ ~ Busy(d, l)' BY <1>2, OneBusy
  <1>4. ~ Serving(d) /\ ~ Serving(d)' BY <1>2, OneBusy
  <1>5. Of(iocp, Tokens(d))' = Of(iocp, Tokens(d)) BY DEF Of, Tokens, Completions
  <1>6. Sized(d)' /\ Buffered(d)' /\ Messages(d)' BY <1>1, <1>3, Kept
  <1>7. Watch(d)' BY <1>1, <1>3, <1>4, <1>5 DEF Watch
  <1>. QED BY <1>6, <1>7

\* queue: the poller has taken a completion from the port.
LEMMA InvPoll ==
    ASSUME IInv, NetOk', NEW p, Pollers = {p}, Poll(p)
    PROVE  IInv'
  <1>. DEFINE e == Head(iocp)
              s == iocp
  <1>1. /\ iocp # <<>> /\ iocp' = Tail(iocp) /\ pc[p] = "poll" /\ s \in Seq(Completions)
        /\ UNCHANGED <<conn, peer, sent, arrived, read, buf, rindex, windex, posted, sending,
                       pushed, accepts, disconnects, delivered, cmd>>
    BY DEF Poll, At, IInv, NetOk, netVars, bufVars, outVars
  <1>2. /\ e \in Completions
        /\ e.h = None <=> e.type = "accept"
        /\ e.type = "recv" /\ ~ e.ok => peer[e.h] = "reset"
    BY <1>1, HeadOk DEF IInv
  <1>3. \/ EventOf(e) = "none" /\ UNCHANGED <<pc, ev>>
        \/ /\ e.ok /\ e.type \in {"accept", "recv"}
           /\ pc' = [pc EXCEPT ![p] = e.type] /\ ev' = [ev EXCEPT ![p] = e.h]
    BY <1>2 DEF Poll, Goto, EventOf, Completions
  <1>4. ev[p] = None BY <1>1 DEF IInv, NetOk
  <1>5. pc'[p] \in {"poll", "accept", "recv"} BY <1>1, <1>3 DEF IInv, NetOk
  <1>6. TypeOK'
    <2>1. TypeOK BY DEF IInv
    <2>. QED BY <1>1, <2>1 DEF TypeOK, NetOk
  <1>7. AtRearm(p)' BY <1>5 DEF AtRearm, At
  <1>8. ASSUME NEW d \in Channels PROVE Sized(d)' /\ Buffered(d)' /\ Messages(d)' /\ Watch(d)'
    <2>1. Sized(d) /\ Buffered(d) /\ Messages(d) /\ Watch(d) BY DEF IInv
    <2>2. \A l \in {"grow", "rearm", "parse"} : ~ Busy(d, l) /\ ~ Busy(d, l)'
      BY <1>1, <1>5, OneBusy
    <2>3. Sized(d)' /\ Buffered(d)' /\ Messages(d)' BY <1>1, <2>1, <2>2, Kept
    <2>4. ~ Serving(d) BY <1>4, ConstantsOk, OneBusy
    <2>5. ASSUME ~ Serving(d)', peer[d] = "up", Of(s, Tokens(d)) # {}
          PROVE  Of(Tail(s), Tokens(d)) # {}
      <3>1. e \notin Tokens(d)
        <4>1. CASE e.type = "recv" /\ e.h = d
          <5>1. e.ok BY <1>2, <2>5, <4>1
          <5>2. ev'[p] = d BY <1>3, <4>1, <5>1 DEF EventOf, IInv, NetOk
          <5>. QED BY <2>5, <5>2, OneBusy
        <4>2. CASE ~ (e.type = "recv" /\ e.h = d) BY <4>2 DEF Tokens
        <4>. QED BY <4>1, <4>2
      <3>2. 1 \notin Of(s, Tokens(d)) BY <3>1, <1>1 DEF Of
      <3>3. \A i \in Of(s, Tokens(d)) : i # 1 => i - 1 \in Of(Tail(s), Tokens(d))
        BY <1>1, OfTail
      <3>. QED BY <2>5, <3>2, <3>3
    <2>6. Of(iocp, Tokens(d))' = Of(Tail(s), Tokens(d)) BY <1>1 DEF Tokens, Completions
    <2>7. Watch(d)' BY <1>1, <2>1, <2>2, <2>4, <2>5, <2>6 DEF Watch
    <2>. QED BY <2>3, <2>7
  <1>. QED BY <1>6, <1>7, <1>8 DEF IInv

\* accept: a receive is posted on the new channel.
LEMMA InvAccept ==
    ASSUME IInv, NetOk', NEW p, Pollers = {p}, Accept(p)
    PROVE  IInv'
  <1>1. PICK c \in Channels :
           /\ conn' = [conn EXCEPT ![c] = "open"]
           /\ posted' = [posted EXCEPT ![c] = IF peer[c] = "reset" THEN 0 ELSE 1]
    BY DEF Accept
  <1>2. /\ pc[p] = "accept" /\ accepts' = accepts + 1
        /\ pc' = [pc EXCEPT ![p] = "poll"] /\ ev' = [ev EXCEPT ![p] = None]
        /\ UNCHANGED <<peer, sent, arrived, read, buf, rindex, windex, sending, pushed, iocp,
                       disconnects, delivered, cmd>>
    BY DEF Accept, Done, Goto, At, netVars, bufVars, outVars
  <1>3. pc'[p] = "poll" /\ ev'[p] = None /\ ev[p] = None
    BY <1>2 DEF IInv, NetOk
  <1>4. TypeOK'
    <2>1. TypeOK BY DEF IInv
    <2>2. posted' \in [Channels -> Nat] BY <1>1, <2>1 DEF TypeOK
    <2>. QED BY <1>2, <2>1, <2>2 DEF TypeOK, NetOk
  <1>5. AtRearm(p)' BY <1>3 DEF AtRearm, At
  <1>6. ASSUME NEW d \in Channels PROVE Sized(d)' /\ Buffered(d)' /\ Messages(d)' /\ Watch(d)'
    <2>1. Sized(d) /\ Buffered(d) /\ Messages(d) /\ Watch(d) /\ TypeOK BY DEF IInv
    <2>2. \A l \in {"grow", "rearm", "parse"} : ~ Busy(d, l) /\ ~ Busy(d, l)'
      BY <1>2, <1>3, OneBusy
    <2>3. Sized(d)' /\ Buffered(d)' /\ Messages(d)' BY <1>2, <2>1, <2>2, Kept
    <2>4. ~ Serving(d) /\ ~ Serving(d)' BY <1>3, ConstantsOk, OneBusy
    <2>5. Of(iocp, Tokens(d))' = Of(iocp, Tokens(d)) BY <1>2 DEF Of, Tokens, Completions
    <2>6. CASE d = c
      <3>1. peer'[d] = "up" => posted'[d] = 1 BY <1>1, <1>2, <2>1, <2>6 DEF TypeOK
      <3>. QED BY <2>3, <3>1 DEF Watch
    <2>7. CASE d # c
      <3>1. conn'[d] = conn[d] /\ posted'[d] = posted[d] BY <1>1, <2>1, <2>7 DEF TypeOK
      <3>2. Watch(d)' BY <1>2, <2>1, <2>2, <2>4, <2>5, <3>1 DEF Watch
      <3>. QED BY <2>3, <3>2
    <2>. QED BY <2>6, <2>7
  <1>. QED BY <1>4, <1>5, <1>6 DEF IInv

\* recv: bytes of the stream come to stand behind those that are there.
LEMMA InvRecv ==
    ASSUME IInv, NetOk', NEW p, Pollers = {p}, Recv(p)
    PROVE  IInv'
  <1>. DEFINE room(c) == Len(buf[c]) - windex[c]
              len(c) == IF peer[c] = "reset" THEN 0 ELSE Least(room(c), arrived[c] - read[c])
              cells(c, n) == Written(buf[c], windex[c], read[c], n)
  <1>1. pc[p] = "recv" BY DEF Recv, At
  <1>2. /\ ev[p] \in Channels /\ rindex[ev[p]] = 0 /\ windex[ev[p]] < Len(buf[ev[p]])
    BY <1>1, InPop
  <1>3. PICK c \in Channels : c = ev[p] BY <1>2
  <1>4. TypeOK /\ Sized(c) /\ Buffered(c) /\ Messages(c) /\ Watch(c) BY DEF IInv
  <1>5. PICK n : n = len(c) OBVIOUS
  <1>6. PICK t : t = cells(c, n) OBVIOUS
  <1>7. /\ read' = [read EXCEPT ![c] = read[c] + n]
        /\ buf' = [buf EXCEPT ![c] = t]
        /\ windex' = [windex EXCEPT ![c] = windex[c] + n]
        /\ pc' = [pc EXCEPT ![p] = IF n > 0 /\ n = room(c) THEN "grow" ELSE "parse"]
        /\ \/ disconnects' = [disconnects EXCEPT ![c] = disconnects[c] + 1]
           \/ disconnects' = disconnects
        /\ UNCHANGED <<conn, peer, sent, arrived, rindex, posted, sending, pushed, accepts, iocp,
                       delivered, ev, cmd>>
    BY <1>3, <1>5, <1>6 DEF Recv, Goto, netVars, portVars, Written
  <1>8. /\ read[c] \in Nat /\ arrived[c] \in Nat /\ windex[c] \in Nat /\ Len(buf[c]) \in Nat
        /\ buf[c] \in Seq(Cells) /\ rindex[c] = 0 /\ windex[c] < Len(buf[c])
        /\ windex[c] <= read[c] /\ read[c] <= arrived[c]
    BY <1>2, <1>3, <1>4, Numbers DEF Sized
  <1>9. /\ n \in Nat /\ windex[c] + n <= Len(buf[c]) /\ read[c] + n <= arrived[c]
        /\ peer[c] # "reset" /\ n = 0 => arrived[c] = read[c]
    BY <1>5, <1>8 DEF Least
  <1>10. read[c] + n \in Bytes \cup {0}
    <2>1. arrived[c] \in Bytes \cup {0} BY <1>4 DEF TypeOK
    <2>2. arrived[c] = 0 => read[c] + n = 0 BY <1>8, <1>9
    <2>3. read[c] + n # 0 => read[c] + n \in 1..arrived[c] BY <1>8, <1>9
    <2>. QED BY <2>1, <2>2, <2>3, ByteNumbers
  <1>11. Holds(buf[c], windex[c], read[c])
    BY <1>4, <1>8 DEF Buffered, Holds, Unread, Eaten
  <1>12. t \in Seq(Cells) /\ Len(t) = Len(buf[c]) /\ Holds(t, windex[c] + n, read[c] + n)
    <2>1. \E s \in Seq(Cells), w \in Nat, r \in Nat : s = buf[c] /\ w = windex[c] /\ r = read[c]
      BY <1>8
    <2>2. PICK s \in Seq(Cells), w \in Nat, r \in Nat : s = buf[c] /\ w = windex[c] /\ r = read[c]
      BY <2>1
    <2>3. t = Written(s, w, r, n) BY <1>6, <2>2
    <2>4. w + n <= Len(s) /\ r + n \in Bytes \cup {0} /\ Holds(s, w, r)
      BY <1>9, <1>10, <1>11, <2>2
    <2>5. t \in Seq(Cells) /\ Len(t) = Len(s) /\ Holds(t, w + n, r + n)
      BY <1>9, <2>3, <2>4, Received
    <2>. QED BY <2>2, <2>5
  <1>13. /\ read'[c] = read[c] + n /\ buf'[c] = t /\ windex'[c] = windex[c] + n
         /\ rindex'[c] = 0 /\ arrived'[c] = arrived[c] /\ sent'[c] = sent[c]
         /\ delivered'[c] = delivered[c]
    BY <1>4, <1>7, <1>8 DEF TypeOK
  <1>14. /\ pc'[p] = (IF windex[c] + n = Len(t) THEN "grow" ELSE "parse")
         /\ ev'[p] = c
    <2>1. pc'[p] = IF n > 0 /\ n = room(c) THEN "grow" ELSE "parse"
      BY <1>7 DEF IInv, NetOk
    <2>2. n > 0 /\ n = room(c) <=> windex[c] + n = Len(t) BY <1>8, <1>9, <1>12
    <2>. QED BY <1>3, <1>7, <2>1, <2>2
  <1>15. TypeOK'
    <2>1. read' \in [Channels -> Bytes \cup {0}] BY <1>4, <1>7, <1>10 DEF TypeOK
    <2>2. buf' \in [Channels -> Seq(Bytes \cup {None})] BY <1>4, <1>7, <1>12 DEF TypeOK, Cells
    <2>3. windex' \in [Channels -> Nat] BY <1>4, <1>7, <1>8, <1>9 DEF TypeOK
    <2>4. \A d \in Channels : rindex'[d] <= windex'[d] /\ windex'[d] <= Len(buf'[d])
      <3>1. ASSUME NEW d \in Channels PROVE rindex'[d] <= windex'[d] /\ windex'[d] <= Len(buf'[d])
        <4>1. CASE d = c BY <1>8, <1>9, <1>12, <1>13, <4>1
        <4>2. CASE d # c BY <1>4, <1>7, <4>2 DEF TypeOK
        <4>. QED BY <4>1, <4>2
      <3>. QED BY <3>1
    <2>5. disconnects' \in [Channels -> Nat]
      <3>1. disconnects \in [Channels -> Nat] BY <1>4 DEF TypeOK
      <3>2. disconnects[c] + 1 \in Nat BY <3>1
      <3>. QED BY <1>7, <3>1, <3>2
    <2>. QED BY <1>4, <1>7, <2>1, <2>2, <2>3, <2>4, <2>5 DEF TypeOK, NetOk
  <1>16. AtRearm(p)' BY <1>14 DEF AtRearm, At
  <1>17. Sized(c)' /\ Buffered(c)' /\ Messages(c)'
    <2>1. ~ Busy(c, "rearm")' BY <1>14, OneBusy
    <2>2. Busy(c, "grow")' <=> windex[c] + n = Len(t) BY <1>14, OneBusy
    <2>3. Sized(c)' BY <1>4, <1>8, <1>9, <1>12, <1>13, <2>1, <2>2 DEF Sized
    <2>4. Buffered(c)'
      BY <1>8, <1>9, <1>12, <1>13 DEF Buffered, Holds, Unread, Eaten
    <2>5. Unread(c) = windex[c] /\ Eaten(c) = read[c] - windex[c] /\ Eaten(c)' = Eaten(c)
      BY <1>8, <1>9, <1>13 DEF Unread, Eaten
    <2>6. Messages(c)' BY <1>4, <1>13, <2>5 DEF Messages
    <2>. QED BY <2>3, <2>4, <2>6
  <1>18. Watch(c)'
    <2>1. SUFFICES ASSUME conn'[c] = "open", peer'[c] = "up", windex'[c] = 0
                   PROVE  /\ posted'[c] > 0 \/ arrived'[c] > read'[c]
                          /\ posted'[c] > 0 \/ Of(iocp, Tokens(c))' # {}
      BY DEF Watch
    <2>2. n = 0 /\ windex[c] = 0 /\ arrived[c] = read[c]
      BY <1>7, <1>8, <1>9, <1>13, <2>1
    <2>3. posted[c] > 0 BY <1>4, <1>7, <1>8, <2>1, <2>2 DEF Watch
    <2>. QED BY <1>7, <2>3
  <1>19. ASSUME NEW d \in Channels, d # c PROVE Sized(d)' /\ Buffered(d)' /\ Messages(d)' /\ Watch(d)'
    <2>1. UNCHANGED <<sent[d], arrived[d], read[d], buf[d], rindex[d], windex[d], delivered[d]>>
      BY <1>4, <1>7, <1>19 DEF TypeOK
    <2>2. UNCHANGED <<conn[d], peer[d], posted[d], iocp>> BY <1>7
    <2>. QED BY <1>3, <1>14, <1>19, <2>1, <2>2, OtherChannel
  <1>. QED BY <1>15, <1>16, <1>17, <1>18, <1>19 DEF IInv

\* The buffer is enlarged, and recv goes on.
LEMMA InvGrow ==
    ASSUME IInv, NetOk', NEW p, Pollers = {p}, Grow(p)
    PROVE  IInv'
  <1>1. pc[p] = "grow" BY DEF Grow, At
  <1>2. ev[p] \in Channels /\ rindex[ev[p]] = 0 BY <1>1, InPop
  <1>3. PICK c \in Channels : c = ev[p] BY <1>2
  <1>4. TypeOK /\ Sized(c) /\ Buffered(c) /\ Messages(c) /\ Watch(c) BY DEF IInv
  <1>5. PICK t : t = Enlarged(buf[c]) OBVIOUS
  <1>6. /\ buf' = [buf EXCEPT ![c] = t]
        /\ pc' = [pc EXCEPT ![p] = "recv"]
        /\ UNCHANGED <<conn, peer, sent, arrived, read, rindex, windex, posted, sending, pushed,
                       accepts, iocp, disconnects, delivered, ev, cmd>>
    BY <1>3, <1>5 DEF Grow, Goto, netVars, portVars, outVars
  <1>7. /\ read[c] \in Nat /\ windex[c] \in Nat /\ Len(buf[c]) \in Nat
        /\ buf[c] \in Seq(Cells) /\ rindex[c] = 0 /\ windex[c] <= Len(buf[c])
        /\ windex[c] <= read[c] /\ Len(buf[c]) > 0
    BY <1>2, <1>3, <1>4, Numbers DEF Sized
  <1>8. Holds(buf[c], windex[c], read[c])
    BY <1>4, <1>7 DEF Buffered, Holds, Unread, Eaten
  <1>9. t \in Seq(Cells) /\ Len(t) = 2 * Len(buf[c]) /\ Holds(t, windex[c], read[c])
    BY <1>5, <1>7, <1>8, EnlargedKeeps
  <1>10. windex[c] < Len(t) BY <1>7, <1>9
  <1>11. /\ read'[c] = read[c] /\ buf'[c] = t /\ windex'[c] = windex[c] /\ rindex'[c] = 0
         /\ arrived'[c] = arrived[c] /\ sent'[c] = sent[c] /\ delivered'[c] = delivered[c]
    BY <1>4, <1>6, <1>7 DEF TypeOK
  <1>12. pc'[p] = "recv" /\ ev'[p] = c BY <1>3, <1>6 DEF IInv, NetOk
  <1>13. TypeOK'
    <2>1. buf' \in [Channels -> Seq(Bytes \cup {None})] BY <1>4, <1>6, <1>9 DEF TypeOK, Cells
    <2>2. \A d \in Channels : rindex'[d] <= windex'[d] /\ windex'[d] <= Len(buf'[d])
      <3>1. ASSUME NEW d \in Channels PROVE rindex'[d] <= windex'[d] /\ windex'[d] <= Len(buf'[d])
        <4>1. CASE d = c BY <1>7, <1>9, <1>10, <1>11, <4>1
        <4>2. CASE d # c BY <1>4, <1>6, <4>2 DEF TypeOK
        <4>. QED BY <4>1, <4>2
      <3>. QED BY <3>1
    <2>. QED BY <1>4, <1>6, <2>1, <2>2 DEF TypeOK, NetOk
  <1>14. AtRearm(p)' BY <1>12 DEF AtRearm, At
  <1>15. \A l \in {"grow", "rearm", "parse"} : ~ Busy(c, l)' BY <1>12, OneBusy
  <1>16. Sized(c)' BY <1>4, <1>7, <1>9, <1>10, <1>11, <1>15 DEF Sized
  <1>17. Buffered(c)' BY <1>7, <1>9, <1>11 DEF Buffered, Holds, Unread, Eaten
  <1>18. Messages(c)' BY <1>4, <1>7, <1>11 DEF Messages, Eaten, Unread
  <1>19. Watch(c)'
    <2>1. Serving(c)' BY <1>12, OneBusy
    <2>. QED BY <1>4, <1>6, <1>11, <1>15, <2>1 DEF Watch
  <1>20. ASSUME NEW d \in Channels, d # c PROVE Sized(d)' /\ Buffered(d)' /\ Messages(d)' /\ Watch(d)'
    <2>1. UNCHANGED <<sent[d], arrived[d], read[d], buf[d], rindex[d], windex[d], delivered[d]>>
      BY <1>4, <1>6, <1>20 DEF TypeOK
    <2>2. UNCHANGED <<conn[d], peer[d], posted[d], iocp>> BY <1>6
    <2>. QED BY <1>3, <1>12, <1>20, <2>1, <2>2, OtherChannel
  <1>. QED BY <1>13, <1>14, <1>16, <1>17, <1>18, <1>19, <1>20 DEF IInv

\* The parser finds nothing, or all that is unread.
LEMMA InvParse ==
    ASSUME IInv, NetOk', NEW p, Pollers = {p}, Parse(p)
    PROVE  IInv'
  <1>. DEFINE given(c) == SubSeq(buf[c], rindex[c] + 1, rindex[c] + windex[c])
  <1>1. pc[p] = "parse" BY DEF Parse, At
  <1>2. ev[p] \in Channels /\ rindex[ev[p]] = 0 /\ windex[ev[p]] < Len(buf[ev[p]])
    BY <1>1, InPop
  <1>3. PICK c \in Channels : c = ev[p] BY <1>2
  <1>4. TypeOK /\ Sized(c) /\ Buffered(c) /\ Messages(c) /\ Watch(c) BY DEF IInv
  <1>5. PICK g : g = given(c) OBVIOUS
  <1>6. /\ UNCHANGED <<conn, peer, sent, arrived, read, buf, windex, posted, sending, pushed,
                       accepts, iocp, disconnects, delivered>>
        /\ \/ /\ pc' = [pc EXCEPT ![p] = "poll"] /\ ev' = [ev EXCEPT ![p] = None]
              /\ UNCHANGED <<rindex, cmd>>
           \/ /\ windex[c] # rindex[c] /\ Framed(g, Ends[c]) >= 0
              /\ rindex' = [rindex EXCEPT ![c] = rindex[c] + Framed(g, Ends[c])]
              /\ cmd' = [cmd EXCEPT ![p] = FirstMessage(g, Ends[c])]
              /\ pc' = [pc EXCEPT ![p] = "rearm"] /\ ev' = ev
    BY <1>3, <1>5 DEF Parse, Done, Goto, netVars, portVars, outVars
  <1>7. /\ read[c] \in Nat /\ windex[c] \in Nat /\ Len(buf[c]) \in Nat
        /\ buf[c] \in Seq(Cells) /\ rindex[c] = 0 /\ windex[c] < Len(buf[c])
        /\ windex[c] <= read[c] /\ Ends[c] \in SUBSET (Nat \ {0})
        /\ Ends[c] \subseteq AllEnds
    BY <1>2, <1>3, <1>4, Numbers, ByteNumbers DEF Sized
  <1>8. Unread(c) = windex[c] /\ Eaten(c) = read[c] - windex[c]
    BY <1>7 DEF Unread, Eaten
  <1>9. ASSUME NEW d \in Channels, d # c,
               rindex'[d] = rindex[d], ev'[p] \in {c, None}
        PROVE Sized(d)' /\ Buffered(d)' /\ Messages(d)' /\ Watch(d)'
    <2>1. UNCHANGED <<sent[d], arrived[d], read[d], buf[d], rindex[d], windex[d], delivered[d]>>
      BY <1>6, <1>9
    <2>2. UNCHANGED <<conn[d], peer[d], posted[d], iocp>> BY <1>6
    <2>. QED BY <1>3, <1>9, <2>1, <2>2, OtherChannel
  <1>10. CASE /\ pc' = [pc EXCEPT ![p] = "poll"] /\ ev' = [ev EXCEPT ![p] = None]
              /\ UNCHANGED <<rindex, cmd>>
    <2>1. pc'[p] = "poll" /\ ev'[p] = None BY <1>10 DEF IInv, NetOk
    <2>2. TypeOK' BY <1>4, <1>6, <1>10 DEF TypeOK, NetOk
    <2>3. AtRearm(p)' BY <2>1 DEF AtRearm, At
    <2>4. \A l \in {"grow", "rearm"} : ~ Busy(c, l) /\ ~ Busy(c, l)' BY <1>1, <2>1, OneBusy
    <2>5. Sized(c)' /\ Buffered(c)' /\ Messages(c)' BY <1>4, <1>6, <1>10, <2>4, Kept
    <2>6. Busy(c, "parse") /\ ~ Busy(c, "parse")' BY <1>1, <1>3, <2>1, OneBusy
    <2>7. Of(iocp, Tokens(c))' = Of(iocp, Tokens(c)) BY <1>6 DEF Of, Tokens, Completions
    <2>8. Watch(c)' BY <1>4, <1>6, <2>6, <2>7 DEF Watch
    <2>. QED BY <1>9, <1>10, <2>1, <2>2, <2>3, <2>5, <2>8 DEF IInv
  <1>11. CASE /\ windex[c] # rindex[c] /\ Framed(g, Ends[c]) >= 0
              /\ rindex' = [rindex EXCEPT ![c] = rindex[c] + Framed(g, Ends[c])]
              /\ cmd' = [cmd EXCEPT ![p] = FirstMessage(g, Ends[c])]
              /\ pc' = [pc EXCEPT ![p] = "rearm"] /\ ev' = ev
    <2>1. Holds(buf[c], windex[c], read[c])
      BY <1>4, <1>7 DEF Buffered, Holds, Unread, Eaten
    <2>2. PICK s \in Seq(Cells), w \in Nat \ {0}, r \in Nat :
             s = buf[c] /\ w = windex[c] /\ r = read[c]
      BY <1>7, <1>11
    <2>3. g = SubSeq(s, 1, w) BY <1>5, <1>7, <2>2
    <2>4. PICK E \in SUBSET (Nat \ {0}) : E = Ends[c] BY <1>7
    <2>5. w <= Len(s) /\ w <= r /\ Holds(s, w, r) /\ Framed(g, E) >= 0
      BY <1>7, <1>11, <2>1, <2>2, <2>4
    <2>6. /\ Framed(g, E) = w /\ FirstMessage(g, E) \in E
          /\ r - w < FirstMessage(g, E) /\ FirstMessage(g, E) <= r
      <3>1. Framed(SubSeq(s, 1, w), E) >= 0 BY <2>3, <2>5
      <3>2. /\ Framed(SubSeq(s, 1, w), E) = w
            /\ FirstMessage(SubSeq(s, 1, w), E) \in E
            /\ r - w < FirstMessage(SubSeq(s, 1, w), E)
            /\ FirstMessage(SubSeq(s, 1, w), E) <= r
        BY <2>5, <3>1, FoundMessage
      <3>. QED BY <2>3, <3>2
    <2>7. PICK m \in Nat \ {0} : m = FirstMessage(g, E) BY <2>6
    <2>8. /\ m \in AllEnds /\ r - w < m /\ m <= r
          /\ rindex' = [rindex EXCEPT ![c] = w] /\ cmd' = [cmd EXCEPT ![p] = m]
      BY <1>7, <1>11, <2>4, <2>6, <2>7
    <2>9. /\ rindex'[c] = w /\ windex'[c] = w /\ read'[c] = r /\ cmd'[p] = m
          /\ buf'[c] = s /\ pc'[p] = "rearm" /\ ev'[p] = c
          /\ delivered'[c] = delivered[c]
      BY <1>3, <1>4, <1>6, <1>11, <2>2, <2>8 DEF TypeOK
    <2>10. Unread(c)' = 0 /\ Eaten(c)' = r BY <2>9 DEF Unread, Eaten
    <2>11. \A i \in DOMAIN delivered[c] : delivered[c][i] \in Nat /\ delivered[c][i] <= r - w
      <3>1. delivered[c] \in Seq(AllEnds) /\ AllEnds \subseteq Nat
        BY <1>4, Numbers, ByteNumbers
      <3>2. \A i \in DOMAIN delivered[c] : delivered[c][i] \in AllEnds
        <4>. DEFINE q == delivered[c]
        <4>1. q \in Seq(AllEnds) BY <3>1
        <4>. HIDE DEF q
        <4>2. \A i \in DOMAIN q : q[i] \in AllEnds BY <4>1
        <4>. QED BY <4>2 DEF q
      <3>3. Eaten(c) = r - w BY <1>8, <2>2
      <3>. QED BY <1>4, <3>1, <3>2, <3>3 DEF Messages
    <2>12. AtRearm(p)'
      <3>1. \A i \in DOMAIN delivered[c] : delivered[c][i] < m BY <2>8, <2>11
      <3>. QED BY <2>8, <2>9, <2>10, <3>1 DEF AtRearm
    <2>13. TypeOK'
      <3>1. rindex' \in [Channels -> Nat] /\ cmd' \in [Pollers -> AllEnds \cup {None}]
        BY <1>4, <2>8 DEF TypeOK
      <3>2. \A d \in Channels : rindex'[d] <= windex'[d] /\ windex'[d] <= Len(buf'[d])
        <4>1. ASSUME NEW d \in Channels PROVE rindex'[d] <= windex'[d] /\ windex'[d] <= Len(buf'[d])
          <5>1. CASE d = c BY <2>5, <2>9, <5>1
          <5>2. CASE d # c BY <1>4, <1>6, <2>8, <5>2 DEF TypeOK
          <5>. QED BY <5>1, <5>2
        <4>. QED BY <4>1
      <3>. QED BY <1>4, <1>6, <1>11, <3>1, <3>2 DEF TypeOK, NetOk
    <2>14. Busy(c, "rearm")' /\ ~ Busy(c, "grow") /\ ~ Busy(c, "rearm")
      BY <1>1, <2>9, OneBusy
    <2>15. Sized(c)' BY <1>4, <1>6, <1>7, <2>2, <2>9, <2>14 DEF Sized
    <2>16. Buffered(c)' BY <2>10 DEF Buffered
    <2>17. Messages(c)'
      <3>1. \A i \in DOMAIN delivered[c] : delivered[c][i] <= r BY <2>5, <2>11
      <3>. QED BY <1>4, <2>9, <2>10, <3>1 DEF Messages
    <2>18. Watch(c)' BY <2>2, <2>9 DEF Watch
    <2>19. \A d \in Channels : d # c => rindex'[d] = rindex[d] BY <1>4, <2>8 DEF TypeOK
    <2>. QED BY <1>9, <2>9, <2>12, <2>13, <2>15, <2>16, <2>17, <2>18, <2>19 DEF IInv
  <1>. QED BY <1>6, <1>10, <1>11

\* The buffer is drained: pop posts a receive and returns the message, or loses it with the
\* connection.
LEMMA InvRearm ==
    ASSUME IInv, NetOk', NEW p, Pollers = {p}, Rearm(p)
    PROVE  IInv'
  <1>1. pc[p] = "rearm" BY DEF Rearm, At
  <1>2. ev[p] \in Channels /\ rindex[ev[p]] = windex[ev[p]] /\ windex[ev[p]] < Len(buf[ev[p]])
    BY <1>1, InPop
  <1>3. PICK c \in Channels : c = ev[p] BY <1>2
  <1>4. TypeOK /\ Sized(c) /\ Buffered(c) /\ Messages(c) /\ Watch(c) BY DEF IInv
  <1>5. PICK m : m = cmd[p] OBVIOUS
  <1>6. /\ rindex' = [rindex EXCEPT ![c] = 0] /\ windex' = [windex EXCEPT ![c] = 0]
        /\ posted' = [posted EXCEPT ![c] = IF peer[c] # "reset" THEN @ + 1 ELSE @]
        /\ cmd' = [cmd EXCEPT ![p] = None]
        /\ \/ /\ pc' = [pc EXCEPT ![p] = "poll"] /\ ev' = [ev EXCEPT ![p] = None]
              /\ peer[c] = "reset" /\ delivered' = delivered
           \/ /\ pc' = [pc EXCEPT ![p] = "recv"] /\ ev' = ev
              /\ peer[c] # "reset" /\ delivered' = [delivered EXCEPT ![c] = Append(@, m)]
        /\ UNCHANGED <<conn, peer, sent, arrived, read, buf, sending, pushed, accepts, iocp,
                       disconnects>>
    BY <1>2, <1>3, <1>5 DEF Rearm, Return, Done, Goto, netVars
  <1>7. /\ read[c] \in Nat /\ windex[c] \in Nat /\ Len(buf[c]) \in Nat /\ posted[c] \in Nat
        /\ rindex[c] = windex[c] /\ windex[c] < Len(buf[c])
        /\ delivered[c] \in Seq(AllEnds)
    BY <1>2, <1>3, <1>4, Numbers
  <1>8. Unread(c) = 0 /\ Eaten(c) = read[c] BY <1>7 DEF Unread, Eaten
  <1>9. /\ m \in AllEnds /\ m <= read[c]
        /\ \A i \in DOMAIN delivered[c] : delivered[c][i] < m
    BY <1>1, <1>3, <1>5, <1>8 DEF IInv, AtRearm, At
  <1>10. /\ rindex'[c] = 0 /\ windex'[c] = 0 /\ read'[c] = read[c] /\ buf'[c] = buf[c]
         /\ peer'[c] = "up" => posted'[c] = posted[c] + 1
    BY <1>4, <1>6 DEF TypeOK
  <1>11. pc'[p] \in {"poll", "recv"} /\ ev'[p] \in {c, None}
    BY <1>3, <1>6 DEF IInv, NetOk
  <1>12. Unread(c)' = 0 /\ Eaten(c)' = read[c] BY <1>7, <1>10 DEF Unread, Eaten
  <1>13. /\ delivered' \in [Channels -> Seq(AllEnds)]
         /\ \A d \in Channels : d # c => delivered'[d] = delivered[d]
         /\ \A i \in DOMAIN delivered'[c] :
               \/ i \in DOMAIN delivered[c] /\ delivered'[c][i] = delivered[c][i]
               \/ i = Len(delivered[c]) + 1 /\ delivered'[c][i] = m
    <2>1. delivered \in [Channels -> Seq(AllEnds)] BY <1>4 DEF TypeOK
    <2>2. CASE delivered' = delivered BY <2>1, <2>2
    <2>3. CASE delivered' = [delivered EXCEPT ![c] = Append(@, m)]
      <3>. DEFINE q == delivered[c]
                  r == Append(q, m)
      <3>1. q \in Seq(AllEnds) /\ delivered' = [delivered EXCEPT ![c] = r] BY <1>7, <2>3
      <3>. HIDE DEF q
      <3>2. /\ r \in Seq(AllEnds)
            /\ \A i \in DOMAIN r : \/ i \in DOMAIN q /\ r[i] = q[i]
                                   \/ i = Len(q) + 1 /\ r[i] = m
        BY <1>9, <3>1
      <3>. HIDE DEF r
      <3>3. delivered'[c] = r BY <2>1, <3>1
      <3>. QED BY <2>1, <3>1, <3>2, <3>3 DEF q
    <2>. QED BY <1>6, <2>2, <2>3
  <1>14. TypeOK'
    <2>1. /\ rindex' \in [Channels -> Nat] /\ windex' \in [Channels -> Nat]
          /\ cmd' \in [Pollers -> AllEnds \cup {None}]
      BY <1>4, <1>6 DEF TypeOK
    <2>2. posted' \in [Channels -> Nat]
      <3>1. posted \in [Channels -> Nat] /\ posted[c] + 1 \in Nat BY <1>4, <1>7 DEF TypeOK
      <3>. QED BY <1>6, <3>1
    <2>3. \A d \in Channels : rindex'[d] <= windex'[d] /\ windex'[d] <= Len(buf'[d])
      <3>1. ASSUME NEW d \in Channels PROVE rindex'[d] <= windex'[d] /\ windex'[d] <= Len(buf'[d])
        <4>1. CASE d = c BY <1>7, <1>10, <4>1
        <4>2. CASE d # c BY <1>4, <1>6, <4>2 DEF TypeOK
        <4>. QED BY <4>1, <4>2
      <3>. QED BY <3>1
    <2>. QED BY <1>4, <1>6, <1>13, <2>1, <2>2, <2>3 DEF TypeOK, NetOk
  <1>15. AtRearm(p)' BY <1>11 DEF AtRearm, At
  <1>16. \A l \in {"grow", "rearm", "parse"} : ~ Busy(c, l)' BY <1>11, OneBusy
  <1>17. Sized(c)' BY <1>4, <1>6, <1>7, <1>10, <1>16 DEF Sized
  <1>18. Buffered(c)' BY <1>12 DEF Buffered
  <1>19. Messages(c)'
    <2>1. /\ DOMAIN delivered[c] = 1..Len(delivered[c]) /\ Len(delivered[c]) \in Nat
          /\ \A i \in DOMAIN delivered[c] : delivered[c][i] \in Nat
      <3>. DEFINE q == delivered[c]
      <3>1. q \in Seq(AllEnds) BY <1>7
      <3>. HIDE DEF q
      <3>2. DOMAIN q = 1..Len(q) /\ Len(q) \in Nat /\ \A i \in DOMAIN q : q[i] \in AllEnds BY <3>1
      <3>3. \A b \in AllEnds : b \in Nat BY ByteNumbers
      <3>. QED BY <3>2, <3>3 DEF q
    <2>2. m \in Nat BY <1>9, ByteNumbers
    <2>3. ASSUME NEW i \in DOMAIN delivered'[c]
          PROVE  /\ delivered'[c][i] <= read[c]
                 /\ i > 1 => delivered'[c][i] > delivered'[c][i-1]
      <3>1. i - 1 \in DOMAIN delivered'[c] \/ i = 1
        <4>1. DOMAIN delivered'[c] = 1..Len(delivered'[c])
          BY <1>13
        <4>. QED BY <2>1, <4>1, <1>13
      <3>2. delivered'[c][i] <= read[c] BY <1>4, <1>7, <1>8, <1>9, <1>13 DEF Messages
      <3>3. CASE i = Len(delivered[c]) + 1 /\ delivered'[c][i] = m
        <4>1. ASSUME i > 1 PROVE delivered'[c][i] > delivered'[c][i-1]
          <5>1. i - 1 \in DOMAIN delivered[c] BY <2>1, <3>3, <4>1
          <5>2. i - 1 # Len(delivered[c]) + 1 BY <2>1, <3>3
          <5>3. delivered'[c][i-1] = delivered[c][i-1] BY <1>13, <3>1, <3>3, <4>1, <5>2, <2>1
          <5>. QED BY <1>9, <2>1, <2>2, <3>3, <5>1, <5>3
        <4>. QED BY <3>2, <4>1
      <3>4. CASE i \in DOMAIN delivered[c] /\ delivered'[c][i] = delivered[c][i]
        <4>1. ASSUME i > 1 PROVE delivered'[c][i] > delivered'[c][i-1]
          <5>1. i - 1 \in DOMAIN delivered[c] /\ i - 1 # Len(delivered[c]) + 1
            BY <2>1, <3>4, <4>1
          <5>2. delivered'[c][i-1] = delivered[c][i-1] BY <1>13, <2>1, <3>1, <3>4, <4>1, <5>1
          <5>3. delivered[c][i] > delivered[c][i-1] BY <1>4, <3>4, <4>1 DEF Messages
          <5>. QED BY <3>4, <5>2, <5>3
        <4>. QED BY <3>2, <4>1
      <3>. QED BY <1>13, <3>3, <3>4
    <2>. QED BY <1>12, <2>3 DEF Messages
  <1>20. Watch(c)' BY <1>7, <1>10 DEF Watch
  <1>21. ASSUME NEW d \in Channels, d # c PROVE Sized(d)' /\ Buffered(d)' /\ Messages(d)' /\ Watch(d)'
    <2>1. UNCHANGED <<sent[d], arrived[d], read[d], buf[d], rindex[d], windex[d], delivered[d]>>
      BY <1>4, <1>6, <1>13, <1>21 DEF TypeOK
    <2>2. UNCHANGED <<conn[d], peer[d], posted[d], iocp>> BY <1>4, <1>6, <1>21 DEF TypeOK
    <2>. QED BY <1>3, <1>11, <1>21, <2>1, <2>2, OtherChannel
  <1>. QED BY <1>14, <1>15, <1>17, <1>18, <1>19, <1>20, <1>21 DEF IInv

\* So does a step that changes nothing.
LEMMA InvStutter == IInv /\ UNCHANGED vars => IInv'
  <1>. SUFFICES ASSUME IInv, UNCHANGED vars PROVE IInv'
    OBVIOUS
  <1>. USE DEF vars, netVars, bufVars, portVars, outVars, pollVars
  <1>1. NetOk' BY DEF IInv, NetOk
  <1>2. TypeOK' BY DEF IInv, TypeOK
  <1>3. ASSUME NEW c \in Channels PROVE Sized(c)' /\ Buffered(c)' /\ Messages(c)' /\ Watch(c)'
    <2>1. \A l : Busy(c, l)' <=> Busy(c, l) BY DEF Busy, At
    <2>2. Serving(c)' <=> Serving(c) BY DEF Serving
    <2>3. Of(iocp, Tokens(c))' = Of(iocp, Tokens(c)) BY DEF Of, Tokens, Completions
    <2>. QED BY <2>1, <2>2, <2>3 DEF IInv, Sized, Buffered, Messages, Watch, Unread, Eaten
  <1>4. \A p \in Pollers : AtRearm(p)' BY DEF IInv, AtRearm, At, Eaten, Unread
  <1>. QED BY <1>1, <1>2, <1>3, <1>4 DEF IInv

\* With one poller, IInv is inductive.
LEMMA NextInv == OnePoller /\ IInv /\ [Next]_vars => IInv'
  <1>. SUFFICES ASSUME OnePoller, IInv, [Next]_vars PROVE IInv'
    OBVIOUS
  <1>1. NetOk' BY NetStep DEF IInv
  <1>2. PICK p : Pollers = {p} BY DEF OnePoller
  <1>3. CASE UNCHANGED vars BY <1>3, InvStutter
  <1>4. ASSUME NEW c \in Channels, OsStep(c) \/ UserStep(c) PROVE IInv' BY <1>4, InvOther
  <1>5. CASE PollStep(p)
    BY <1>1, <1>2, <1>5, InvPoll, InvAccept, InvRecv, InvGrow, InvParse, InvRearm DEF PollStep
  <1>. QED BY <1>2, <1>3, <1>4, <1>5 DEF Next

-----------------------------------------------------------------------------
(* Theorems, for one poller *)

\* The inductive invariant.
THEOREM Invariance == ASSUME OnePoller PROVE Spec => []IInv
  <1>1. OnePoller /\ Init => IInv BY InitInv
  <1>. QED BY <1>1, NextInv, PTL DEF Spec

\* Type correctness.
THEOREM Typing == ASSUME OnePoller PROVE Spec => []TypeOK
  <1>1. IInv => TypeOK BY DEF IInv
  <1>. QED BY <1>1, Invariance, PTL

\* No byte of a stream is lost, doubled or out of place in the buffer, and pop returns messages
\* once and in order (channelimpl.h:75-155).
THEOREM Streaming == ASSUME OnePoller PROVE Spec => []StreamKept
  <1>1. IInv => StreamKept BY DEF IInv, StreamKept, Buffered, Messages
  <1>. QED BY <1>1, Invariance, PTL

\* recv always has room, and the parser is given unread bytes only (channelimpl.h:75-117, 119-128).
THEOREM Arguments == ASSUME OnePoller PROVE Spec => []PopArguments
  <1>1. OnePoller /\ IInv => PopArguments
    <2>. SUFFICES ASSUME OnePoller, IInv, NEW p \in Pollers
                  PROVE  /\ At(p, "recv") => windex[ev[p]] < Len(buf[ev[p]])
                         /\ At(p, "parse") => rindex[ev[p]] = 0
      BY DEF PopArguments
    <2>1. Pollers = {p} BY DEF OnePoller
    <2>. QED BY <2>1, InPop DEF At
  <1>. QED BY <1>1, Invariance, PTL

\* A channel whose buffer is empty has a receive posted or completed, or is being served
\* (acceptorimpl.cpp:86-98, channelimpl.cpp:54-71, channelimpl.h:130-151).
THEOREM Watching == ASSUME OnePoller PROVE Spec => []Watched
  <1>1. IInv => Watched
    <2>. SUFFICES ASSUME IInv, NEW c \in Channels,
                         conn[c] = "open", peer[c] = "up", windex[c] = 0, ~ Serving(c)
                  PROVE  posted[c] + Count("recv", c) > 0
      BY DEF Watched
    <2>. DEFINE s == iocp
    <2>1. Watch(c) /\ TypeOK BY DEF IInv
    <2>2. posted[c] \in Nat BY <2>1, Numbers
    <2>3. posted[c] > 0 \/ Of(s, Tokens(c)) # {} BY <2>1 DEF Watch
    <2>4. s \in Seq(Completions) BY <2>1 DEF TypeOK
    <2>5. \A i \in DOMAIN s : s[i] \in Completions BY <2>4
    <2>6. Count("recv", c) = Cardinality(Of(s, Tokens(c)))
      <3>1. {i \in DOMAIN s : s[i].type = "recv" /\ s[i].h = c} = Of(s, Tokens(c))
        BY <2>5 DEF Of, Tokens
      <3>. QED BY <3>1 DEF Count
    <2>7. /\ Cardinality(Of(s, Tokens(c))) \in Nat
          /\ Of(s, Tokens(c)) # {} => Cardinality(Of(s, Tokens(c))) # 0
      BY <2>4, OfFinite, FS_EmptySet
    <2>. QED BY <2>2, <2>3, <2>6, <2>7
  <1>. QED BY <1>1, Invariance, PTL

=============================================================================
