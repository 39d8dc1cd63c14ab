--------------------------- MODULE RemoteChannel ----------------------------
(***************************************************************************)
(* remoteq/windows: TCP channels over an I/O completion port.  A receive   *)
(* of no bytes is posted on every channel; when bytes arrive it completes, *)
(* queue() makes an event of the completion, and the poller calls pop      *)
(* until it returns false.  pop reads the socket into the channel's        *)
(* buffer, has the framing (json_protocol.h) find a message in it, and     *)
(* posts the next receive when the buffer is drained.  An acceptor keeps   *)
(* one AcceptEx posted in the same way.                                    *)
(*                                                                         *)
(* What a peer sends is a stream of bytes numbered from 1; Ends are the    *)
(* bytes that end a message, and name it.  The loop of a poller is the one *)
(* of poll and net_work in test_service's channelserver.cpp.  The network  *)
(* and the peers are external: the stream arrives in order, a few bytes at *)
(* a time, until the peer closes the connection or it is reset.            *)
(***************************************************************************)
EXTENDS Integers, Sequences, FiniteSets, SequencesExt

CONSTANTS
    Dialed, Accepted,   \* channels connect makes, channels accept makes
    Pollers,            \* threads that call queue and pop
    Ends,               \* bound: the messages of each channel's stream, by their last bytes
    BufLen,             \* the buffer a channel starts with: 65536 (channelimpl.h:35)
    MaxSends,           \* bound: the messages we push
    Faults,             \* bound: connections that are reset
    None

Channels == Dialed \cup Accepted
AllEnds == UNION {Ends[c] : c \in Channels}
Bytes == 1..Max(AllEnds)
Handles == Channels \cup {None}     \* None is the acceptor's

ASSUME ConstantsOk ==
    /\ Dialed \cap Accepted = {}
    /\ IsFiniteSet(Channels)
    /\ Ends \in [Channels -> SUBSET (Nat \ {0})]
    /\ IsFiniteSet(AllEnds) /\ AllEnds # {}
    /\ BufLen \in Nat \ {0}
    /\ MaxSends \in Nat /\ Faults \in Nat
    /\ None \notin Channels \cup Pollers

VARIABLES
    conn,               \* "none", "backlog", "accepting" (it is in sa), "open"
    peer,               \* "up", "closed" or "reset"
    sent, arrived, read, \* bytes the peer sent, that arrived, that recv returned
    buf, rindex, windex, \* cells of the buffer (buflen of them) and its indexes
    posted, sending,    \* WSARecvs and WSASends outstanding on each channel
    pushed,             \* messages we pushed so far
    accepts,            \* AcceptExs outstanding
    iocp,               \* completions not yet taken from the port
    disconnects,        \* the disconnect events of each channel in evque
    delivered,          \* what pop returned
    pc, ev, cmd         \* of each poller; ev is the channel of its event

netVars == <<peer, sent, arrived>>
bufVars == <<read, buf, rindex, windex>>
portVars == <<posted, sending, pushed, accepts, iocp>>
outVars == <<disconnects, delivered>>
pollVars == <<pc, ev, cmd>>
vars == <<conn, netVars, bufVars, portVars, outVars, pollVars>>

\* overlappedex, and whether the operation succeeded.
Completion(type, h, ok) == [type |-> type, h |-> h, ok |-> ok]
Completions == [type : {"accept", "send", "recv"}, h : Handles, ok : BOOLEAN]

TypeOK ==
    /\ conn \in [Channels -> {"none", "backlog", "accepting", "open"}]
    /\ peer \in [Channels -> {"up", "closed", "reset"}]
    /\ sent \in [Channels -> AllEnds \cup {0}]
    /\ arrived \in [Channels -> Bytes \cup {0}]
    /\ read \in [Channels -> Bytes \cup {0}]
    /\ buf \in [Channels -> Seq(Bytes \cup {None})]
    /\ rindex \in [Channels -> Nat]
    /\ windex \in [Channels -> Nat]
    /\ \A c \in Channels : rindex[c] <= windex[c] /\ windex[c] <= Len(buf[c])
    /\ posted \in [Channels -> Nat]
    /\ sending \in [Channels -> Nat]
    /\ pushed \in 0..MaxSends
    /\ accepts \in Nat
    /\ iocp \in Seq(Completions)
    /\ disconnects \in [Channels -> Nat]
    /\ delivered \in [Channels -> Seq(AllEnds)]
    /\ pc \in [Pollers -> {"poll", "accept", "recv", "grow", "parse", "rearm"}]
    /\ ev \in [Pollers -> Handles]
    /\ cmd \in [Pollers -> AllEnds \cup {None}]

Junk(n) == [i \in 1..n |-> None]

\* The acceptor's constructor has posted its first AcceptEx.
Init ==
    /\ conn = [c \in Channels |-> "none"]
    /\ peer = [c \in Channels |-> "up"]
    /\ sent = [c \in Channels |-> 0]
    /\ arrived = [c \in Channels |-> 0]
    /\ read = [c \in Channels |-> 0]
    /\ buf = [c \in Channels |-> Junk(BufLen)]
    /\ rindex = [c \in Channels |-> 0]
    /\ windex = [c \in Channels |-> 0]
    /\ posted = [c \in Channels |-> 0]
    /\ sending = [c \in Channels |-> 0]
    /\ pushed = 0
    /\ accepts = 1
    /\ iocp = <<>>
    /\ disconnects = [c \in Channels |-> 0]
    /\ delivered = [c \in Channels |-> <<>>]
    /\ pc = [p \in Pollers |-> "poll"]
    /\ ev = [p \in Pollers |-> None]
    /\ cmd = [p \in Pollers |-> None]

At(p, label) == pc[p] = label
Goto(p, label) == pc' = [pc EXCEPT ![p] = label]
Finished(c) == peer[c] = "closed" /\ arrived[c] = sent[c]
Readable(c) == arrived[c] > read[c] \/ Finished(c)

-----------------------------------------------------------------------------
(* Making channels, and sending on them *)

\* connect (channelimpl.cpp:23-74) makes a channel and posts its first receive.
Connect(c) ==
    /\ c \in Dialed
    /\ conn[c] = "none"
    /\ conn' = [conn EXCEPT ![c] = "open"]
    /\ posted' = [posted EXCEPT ![c] = 1]
    /\ UNCHANGED <<netVars, bufVars, sending, pushed, accepts, iocp, outVars, pollVars>>

\* push (channelimpl.h:47-68) starts a send, and fails at once on a dead connection.
Push(c) ==
    /\ conn[c] = "open" /\ peer[c] # "reset"
    /\ pushed < MaxSends
    /\ pushed' = pushed + 1
    /\ sending' = [sending EXCEPT ![c] = @ + 1]
    /\ UNCHANGED <<conn, netVars, bufVars, posted, accepts, iocp, outVars, pollVars>>

-----------------------------------------------------------------------------
(* The poller *)

\* queue (35-60) reports neither sends nor anything that failed, nor what is in evque.
EventOf(e) == IF ~ e.ok \/ e.type = "send" THEN "none" ELSE e.type

Poll(p) ==
    /\ At(p, "poll")
    /\ iocp # <<>>
    /\ iocp' = Tail(iocp)
    /\ LET event == EventOf(Head(iocp))
       IN  IF event = "none" THEN UNCHANGED <<pc, ev>>
           ELSE Goto(p, event) /\ ev' = [ev EXCEPT ![p] = Head(iocp).h]
    /\ UNCHANGED <<conn, netVars, bufVars, posted, sending, pushed, accepts, outVars, cmd>>

Done(p) ==
    /\ Goto(p, "poll")
    /\ ev' = [ev EXCEPT ![p] = None]

\* Mutant: no socket and no AcceptEx for the next client.
AcceptOnce(p) ==
    /\ At(p, "accept")
    /\ \E c \in Channels :
          /\ conn[c] = "accepting"
          /\ conn' = [conn EXCEPT ![c] = "open"]
          /\ posted' = [posted EXCEPT ![c] = IF peer[c] = "reset" THEN 0 ELSE 1]
    /\ Done(p)
    /\ UNCHANGED <<netVars, bufVars, sending, pushed, accepts, iocp, outVars, cmd>>

\* accept (acceptorimpl.cpp:74-115): the connection in sa becomes a channel, whether
\* or not its receive can be posted.
Accept(p) ==
    /\ At(p, "accept")
    /\ \E c \in Channels :
          /\ conn[c] = "accepting"
          /\ conn' = [conn EXCEPT ![c] = "open"]
          /\ posted' = [posted EXCEPT ![c] = IF peer[c] = "reset" THEN 0 ELSE 1]
    /\ accepts' = accepts + 1
    /\ Done(p)
    /\ UNCHANGED <<netVars, bufVars, sending, pushed, iocp, outVars, cmd>>

Least(m, n) == IF m <= n THEN m ELSE n

\* Mutant: pop returns false when recv has nothing more, whatever the buffer holds.
RecvNoParse(p) ==
    LET c == ev[p]
        room == Len(buf[c]) - windex[c]
        len == IF peer[c] = "reset" THEN 0 ELSE Least(room, arrived[c] - read[c])
    IN  /\ At(p, "recv")
        /\ read' = [read EXCEPT ![c] = @ + len]
        /\ buf' = [buf EXCEPT ![c] =
                      [i \in DOMAIN @ |-> IF i \in windex[c] + 1 .. windex[c] + len
                                          THEN read[c] + i - windex[c] ELSE @[i]]]
        /\ windex' = [windex EXCEPT ![c] = @ + len]
        /\ IF len = 0 THEN Done(p)
           ELSE Goto(p, IF len = room THEN "grow" ELSE "parse") /\ UNCHANGED ev
        /\ UNCHANGED <<conn, netVars, rindex, portVars, outVars, cmd>>

\* pop 75-109: recv takes what is there, as far as the buffer has room.  A buffer it
\* fills is enlarged; an end or an error of the stream goes to evque, and what the
\* buffer holds is parsed as before.
Recv(p) ==
    LET c == ev[p]
        room == Len(buf[c]) - windex[c]
        len == IF peer[c] = "reset" THEN 0 ELSE Least(room, arrived[c] - read[c])
    IN  /\ At(p, "recv")
        /\ read' = [read EXCEPT ![c] = @ + len]
        /\ buf' = [buf EXCEPT ![c] =
                      [i \in DOMAIN @ |-> IF i \in windex[c] + 1 .. windex[c] + len
                                          THEN read[c] + i - windex[c] ELSE @[i]]]
        /\ windex' = [windex EXCEPT ![c] = @ + len]
        /\ disconnects' =
              IF len = 0 /\ (room = 0 \/ peer[c] = "reset" \/ Finished(c))
              THEN [disconnects EXCEPT ![c] = @ + 1] ELSE disconnects
        /\ Goto(p, IF len > 0 /\ len = room THEN "grow" ELSE "parse")
        /\ UNCHANGED <<conn, netVars, rindex, portVars, delivered, ev, cmd>>

\* Mutant: the new buffer starts empty.
EnlargedAnew(s) == Junk(2 * Len(s))

Enlarged(s) == s \o Junk(Len(s))

\* 111-116
Grow(p) ==
    /\ At(p, "grow")
    /\ buf' = [buf EXCEPT ![ev[p]] = Enlarged(@)]
    /\ Goto(p, "recv")
    /\ UNCHANGED <<conn, netVars, read, rindex, windex, portVars, outVars, ev, cmd>>

\* Mutant: one message is consumed at a time.
FramedOne(s, ends) ==
    IF s # <<>> /\ Last(s) \in ends THEN SelectInSeq(s, LAMBDA b : b \in ends) ELSE -1

\* buf_to_json: the scan stops at the first byte outside brackets.  Nothing separates
\* one message from the next, so that it takes all there is, and -1 is what it
\* returns when that ends within a message.
Framed(s, ends) == IF s # <<>> /\ Last(s) \in ends THEN Len(s) ELSE -1

\* read.parse reads the first value and ignores the others.
FirstMessage(s, ends) == s[SelectInSeq(s, LAMBDA b : b \in ends)]

\* 119-128.  The length given to fn is windex, whatever rindex is.
Parse(p) ==
    LET c == ev[p]
        given == SubSeq(buf[c], rindex[c] + 1, rindex[c] + windex[c])
    IN  /\ At(p, "parse")
        /\ \/ /\ windex[c] = rindex[c] \/ Framed(given, Ends[c]) < 0
              /\ Done(p)
              /\ UNCHANGED <<rindex, cmd>>
           \/ /\ windex[c] # rindex[c] /\ Framed(given, Ends[c]) >= 0
              /\ rindex' = [rindex EXCEPT ![c] = @ + Framed(given, Ends[c])]
              /\ cmd' = [cmd EXCEPT ![p] = FirstMessage(given, Ends[c])]
              /\ Goto(p, "rearm")
              /\ UNCHANGED ev
        /\ UNCHANGED <<conn, netVars, read, buf, windex, portVars, outVars>>

\* pop returns true, and the poller calls it again.
Return(p) ==
    /\ delivered' = [delivered EXCEPT ![ev[p]] = Append(@, cmd[p])]
    /\ cmd' = [cmd EXCEPT ![p] = None]
    /\ Goto(p, "recv")
    /\ UNCHANGED ev

\* Mutant: the receive posted when the channel was made is thought to be enough.
RearmNever(p) ==
    /\ At(p, "rearm")
    /\ rindex' = [rindex EXCEPT ![ev[p]] = IF @ = windex[ev[p]] THEN 0 ELSE @]
    /\ windex' = [windex EXCEPT ![ev[p]] = IF @ = rindex[ev[p]] THEN 0 ELSE @]
    /\ Return(p)
    /\ UNCHANGED <<conn, netVars, read, buf, portVars, disconnects>>

\* Mutant: only windex is reset.
RearmKeepRindex(p) ==
    LET c == ev[p]
    IN  /\ At(p, "rearm")
        /\ windex' = [windex EXCEPT ![c] = IF rindex[c] = @ THEN 0 ELSE @]
        /\ posted' = [posted EXCEPT ![c] = IF rindex[c] = windex[c] THEN @ + 1 ELSE @]
        /\ Return(p)
        /\ UNCHANGED <<conn, netVars, read, buf, rindex, sending, pushed, accepts, iocp, disconnects>>

\* 130-155: a drained buffer is used from its start again and a receive is posted.
\* If the connection is dead that fails, pop returns false, and cmd is lost.
Rearm(p) ==
    LET c == ev[p]
        drained == rindex[c] = windex[c]
    IN  /\ At(p, "rearm")
        /\ rindex' = [rindex EXCEPT ![c] = IF drained THEN 0 ELSE @]
        /\ windex' = [windex EXCEPT ![c] = IF drained THEN 0 ELSE @]
        /\ posted' = [posted EXCEPT ![c] = IF drained /\ peer[c] # "reset" THEN @ + 1 ELSE @]
        /\ IF drained /\ peer[c] = "reset"
           THEN Done(p) /\ cmd' = [cmd EXCEPT ![p] = None] /\ UNCHANGED delivered
           ELSE Return(p)
        /\ UNCHANGED <<conn, netVars, read, buf, sending, pushed, accepts, iocp, disconnects>>

-----------------------------------------------------------------------------
(* The operating system, the network and the peers *)

Complete(type, h, ok) == iocp' = Append(iocp, Completion(type, h, ok))

AcceptDone(c) ==
    /\ accepts > 0
    /\ conn[c] = "backlog"
    /\ accepts' = accepts - 1
    /\ conn' = [conn EXCEPT ![c] = "accepting"]
    /\ Complete("accept", None, TRUE)
    /\ UNCHANGED <<netVars, bufVars, posted, sending, pushed, outVars, pollVars>>

Resets == Cardinality({c \in Channels : peer[c] = "reset"})

\* The connection AcceptEx is taking breaks.
AcceptFail(c) ==
    /\ accepts > 0
    /\ conn[c] = "backlog"
    /\ Resets < Faults
    /\ accepts' = accepts - 1
    /\ peer' = [peer EXCEPT ![c] = "reset"]
    /\ Complete("accept", None, FALSE)
    /\ UNCHANGED <<conn, sent, arrived, bufVars, posted, sending, pushed, outVars, pollVars>>

RecvDone(c) ==
    /\ posted[c] > 0
    /\ peer[c] = "reset" \/ Readable(c)
    /\ posted' = [posted EXCEPT ![c] = @ - 1]
    /\ Complete("recv", c, peer[c] # "reset")
    /\ UNCHANGED <<conn, netVars, bufVars, sending, pushed, accepts, outVars, pollVars>>

SendDone(c) ==
    /\ sending[c] > 0
    /\ sending' = [sending EXCEPT ![c] = @ - 1]
    /\ Complete("send", c, peer[c] # "reset")
    /\ UNCHANGED <<conn, netVars, bufVars, posted, pushed, accepts, outVars, pollVars>>

Dial(c) ==
    /\ c \in Accepted
    /\ conn[c] = "none"
    /\ conn' = [conn EXCEPT ![c] = "backlog"]
    /\ UNCHANGED <<netVars, bufVars, portVars, outVars, pollVars>>

PeerSend(c) ==
    /\ conn[c] # "none" /\ peer[c] = "up"
    /\ \E e \in Ends[c] :
          /\ e > sent[c]
          /\ \A d \in Ends[c] : d > sent[c] => d >= e
          /\ sent' = [sent EXCEPT ![c] = e]
    /\ UNCHANGED <<conn, peer, arrived, bufVars, portVars, outVars, pollVars>>

Arrive(c) ==
    /\ peer[c] # "reset"
    /\ \E n \in arrived[c] + 1 .. sent[c] : arrived' = [arrived EXCEPT ![c] = n]
    /\ UNCHANGED <<conn, peer, sent, bufVars, portVars, outVars, pollVars>>

PeerClose(c) ==
    /\ conn[c] # "none" /\ peer[c] = "up"
    /\ \/ peer' = [peer EXCEPT ![c] = "closed"]
       \/ conn[c] # "backlog" /\ Resets < Faults /\ peer' = [peer EXCEPT ![c] = "reset"]
    /\ UNCHANGED <<conn, sent, arrived, bufVars, portVars, outVars, pollVars>>

-----------------------------------------------------------------------------

PollStep(p) == Poll(p) \/ Accept(p) \/ Recv(p) \/ Grow(p) \/ Parse(p) \/ Rearm(p)
OsStep(c) == AcceptDone(c) \/ AcceptFail(c) \/ RecvDone(c) \/ SendDone(c) \/ Arrive(c)
UserStep(c) == Connect(c) \/ Push(c) \/ Dial(c) \/ PeerSend(c) \/ PeerClose(c)

Next ==
    \/ \E p \in Pollers : PollStep(p)
    \/ \E c \in Channels : OsStep(c) \/ UserStep(c)

Spec == Init /\ [][Next]_vars

\* The poller goes round for ever (channelserver.cpp:116), what is sent arrives and
\* what can complete does.  Nobody need connect, send or close.
FairSpec ==
    /\ Spec
    /\ \A p \in Pollers : WF_vars(PollStep(p))
    /\ \A c \in Channels : WF_vars(OsStep(c))

-----------------------------------------------------------------------------
(* Properties *)

Unread(c) == windex[c] - rindex[c]
Eaten(c) == read[c] - Unread(c)

\* No byte is lost, doubled or out of place: what the buffer holds between its
\* indexes is the stream from where pop has got to up to where recv has, also when
\* the buffer was enlarged in between; and messages come out once and in order.
StreamKept ==
    \A c \in Channels :
        /\ \A i \in 1..Unread(c) : buf[c][rindex[c] + i] = Eaten(c) + i
        /\ \A i \in DOMAIN delivered[c] :
              /\ delivered[c][i] <= Eaten(c)
              /\ i > 1 => delivered[c][i] > delivered[c][i-1]

\* recv is never called without room, when it would return 0 as for a closed
\* connection, and the parser is given unread bytes only: windex is their number
\* (125) when rindex is 0.
PopArguments ==
    \A p \in Pollers :
        /\ At(p, "recv") => windex[ev[p]] < Len(buf[ev[p]])
        /\ At(p, "parse") => rindex[ev[p]] = 0

Count(type, h) == Cardinality({i \in DOMAIN iocp : iocp[i].type = type /\ iocp[i].h = h})
Serving(c) == \E p \in Pollers : ev[p] = c

\* A channel whose buffer is empty is watched: a receive is posted, has completed, or
\* its event is being handled.  Receives that complete for bytes an earlier pop took
\* do not use up the last one.
Watched ==
    \A c \in Channels :
        conn[c] = "open" /\ peer[c] = "up" /\ windex[c] = 0
            => posted[c] + Count("recv", c) > 0 \/ Serving(c)

AcceptLost == \E c \in Channels : peer[c] = "reset" /\ conn[c] = "backlog"

\* There is one AcceptEx: posted, completed, in the hands of a poller, or lost with
\* the connection it was taking.  sa holds a connection from its completion on, and
\* one only, until accept has made a channel of it.
OneAccept ==
    /\ accepts + Count("accept", None) + Cardinality({p \in Pollers : At(p, "accept")})
          \in IF AcceptLost THEN {0, 1} ELSE {1}
    /\ Cardinality({c \in Channels : conn[c] = "accepting"})
          = Cardinality({i \in DOMAIN iocp : iocp[i].type = "accept" /\ iocp[i].ok})
            + Cardinality({p \in Pollers : At(p, "accept")})

\* The buffer was left with part of a message, and no receive is posted: nothing will
\* ever read the rest (130).
Stalled(c) ==
    /\ windex[c] > 0 /\ buf[c][windex[c]] \notin Ends[c]
    /\ posted[c] + Count("recv", c) = 0
    /\ ~ Serving(c)

\* What a peer sends is read, from before it is accepted, however it arrives, unless
\* the channel stalls or is reset, or the acceptor has lost its AcceptEx.
SentIsRead ==
    \A c \in Channels : \A e \in Ends[c] :
        (conn[c] # "none" /\ e <= sent[c])
            ~> (Eaten(c) >= e \/ Stalled(c) \/ peer[c] = "reset" \/ AcceptLost)
=============================================================================
