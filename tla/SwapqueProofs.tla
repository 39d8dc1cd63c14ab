--------------------------- MODULE SwapqueProofs ----------------------------
(***************************************************************************)
(* Proofs about Swapque, for the one popper it is fit for and any number   *)
(* of pushers and of threads that clear it.  The two lists are described   *)
(* by numbering their nodes as the elements are numbered, from the dummy   *)
(* of each; every node has one place at a time.  From there: no call uses  *)
(* a node that may be freed, _size is exact, and swapque implements the    *)
(* linearizable queue of LinQueue.                                         *)
(***************************************************************************)
EXTENDS Swapque, Sequences, FiniteSetTheorems, TLAPS

\* swapque is fit for one popper.
OnePopper == \A c, d \in Poppers : c = d

PushLabels == {"idle", "lock", "append", "link", "pcount", "return"}
PopLabels ==
    {"idle", "empty", "lock", "begin", "end", "size", "swap", "next", "unlink", "read", "retire",
     "count", "return"}
ClearLabels == {"idle", "exchange", "dispose", "return", "overtook"}

Loose == free \cup retired
NodeOf(t) == Head(node[t])

\* What the local variables are where they are used.
LocalsOk ==
    /\ \A t \in Pushers :
          /\ pc[t] \in PushLabels
          /\ item[t] = Null <=> At(t, "idle")
          /\ pc[t] \in {"lock", "append", "link"} => NodeOf(t) \in Nodes
          /\ pc[t] \in {"append", "link", "pcount"} => t \in readers
    /\ \A t \in Poppers :
          /\ pc[t] \in PopLabels
          /\ pc[t] \notin {"retire", "count", "return"} => item[t] = Null
          /\ pc[t] \in {"end", "size", "swap", "next", "unlink", "read", "retire"} => h0[t] \in Nodes
          /\ pc[t] \in {"unlink", "read"} => h1[t] \in Nodes
    /\ \A t \in Clearers :
          /\ pc[t] \in ClearLabels
          /\ item[t] = Null
          /\ At(t, "exchange") => \E m, n \in Nodes : m # n /\ node[t] = <<m, n>>
          /\ At(t, "dispose") => node[t] # <<>>

\* Every element is pushed once, and its push is under way until it is counted.
Items ==
    /\ \A j, k \in 1..Pushed : history[j] = history[k] => j = k
    /\ \A t, u \in Pushers : item[t] = item[u] /\ item[t] # Null => t = u
    /\ \A t \in Pushers : pc[t] \in {"lock", "append"} =>
          \A k \in 1..Pushed : history[k] # item[t]
    /\ \A t \in Pushers : At(t, "return") =>
          \E k \in 1..counted : item[t] = history[k]

\* What is behind the last element counted is still to be counted, and that one is not.
Counted ==
    /\ counted <= Pushed
    /\ \A k \in counted + 1 .. Pushed :
          \E t \in Pushers : pc[t] \in {"link", "pcount"} /\ item[t] = history[k]
    /\ \A t \in Pushers : pc[t] \in {"link", "pcount"} =>
          counted = 0 \/ item[t] # history[counted]

\* The nodes are numbered as the elements: L are those of the front list, which ends at s,
\* M those of the back list, which begins there.  The first of each is its dummy.
InFrond(L, s, n) == \E k \in taken..s : n = L[k]
InBack(M, s, n) == \E k \in s..Pushed : n = M[k]

\* The nodes a call has to itself; D are those a clear has still to dispose of.
Owns(t, n, D) ==
    \/ t \in Pushers /\ pc[t] \in {"lock", "append"} /\ n = NodeOf(t)
    \/ t \in Poppers /\ pc[t] \in {"read", "retire"} /\ n = h0[t]
    \/ t \in Clearers /\ At(t, "exchange") /\ (n = node[t][1] \/ n = node[t][2])
    \/ t \in Clearers /\ At(t, "dispose") /\ n \in D[t]

\* No node is in two places.
Apart(L, M, s, D) ==
    /\ free \cap retired = {}
    /\ \A j, k \in taken..s : L[j] = L[k] => j = k
    /\ \A j, k \in s..Pushed : M[j] = M[k] => j = k
    /\ \A j \in taken..s, k \in s..Pushed : L[j] # M[k]
    /\ \A n \in Nodes : InFrond(L, s, n) \/ InBack(M, s, n) => n \notin Loose
    /\ \A t \in Threads, n \in Nodes : Owns(t, n, D) =>
          /\ ~ InFrond(L, s, n) /\ ~ InBack(M, s, n) /\ n \notin Loose
          /\ \A u \in Threads \ {t} : ~ Owns(u, n, D)

Frond(L, s) ==
    /\ frond = [begin |-> L[taken], end |-> L[s]]
    /\ \A k \in taken + 1 .. s : data[L[k]] = history[k] /\ next[L[k - 1]] = L[k]
    /\ next[L[s]] = Null

Linking(t, m, n) == t \in Pushers /\ At(t, "link") /\ reg[t] = m /\ NodeOf(t) = n

\* A node appended is linked, or about to be.
Back(M, s) ==
    /\ back = [begin |-> M[s], end |-> M[Pushed]]
    /\ \A k \in s + 1 .. Pushed :
          /\ data[M[k]] = history[k]
          /\ \/ next[M[k - 1]] = M[k]
             \/ next[M[k - 1]] = Null /\ \E t \in Pushers : Linking(t, M[k - 1], M[k])
    /\ next[M[Pushed]] = Null

PushOk(M, s, t) ==
    /\ pc[t] \in {"lock", "append"} => next[NodeOf(t)] = Null /\ data[NodeOf(t)] = item[t]
    /\ At(t, "link") => \E k \in s + 1 .. Pushed :
          /\ item[t] = history[k]
          /\ reg[t] = M[k - 1] /\ NodeOf(t) = M[k]
          /\ next[M[k - 1]] = Null
    /\ At(t, "pcount") => \E k \in s + 1 .. Pushed : item[t] = history[k]

PopOk(L, s, t) ==
    /\ pc[t] \in {"end", "size", "swap", "next", "unlink"} => h0[t] = L[taken]
    /\ pc[t] \in {"size", "swap"} => taken = s
    /\ pc[t] \in {"next", "unlink"} => taken < s
    /\ At(t, "unlink") => h1[t] = L[taken + 1]
    /\ At(t, "read") => h1[t] = L[taken]

\* A clear disposes of lists: no two nodes are followed by the same, and none by a first one.
ClearOk(D, t) ==
    /\ At(t, "exchange") => next[node[t][1]] = Null /\ next[node[t][2]] = Null
    /\ At(t, "dispose") =>
          /\ \A i \in 1..Len(node[t]) : node[t][i] \in D[t]
          /\ \A i, j \in 1..Len(node[t]) : node[t][i] = node[t][j] => i = j
          /\ \A m \in D[t] :
                /\ next[m] = Null \/ next[m] \in D[t]
                /\ \A i \in 1..Len(node[t]) : next[m] # node[t][i]
                /\ \A n \in D[t] : next[m] = next[n] /\ next[m] # Null => m = n

Places(L, M, s, D) ==
    /\ L \in [Nat -> Nodes] /\ M \in [Nat -> Nodes] /\ D \in [Clearers -> SUBSET Nodes]
    /\ s \in Nat /\ taken <= s /\ s <= counted

Lists(L, M, s, D) ==
    /\ Places(L, M, s, D)
    /\ Apart(L, M, s, D)
    /\ Frond(L, s) /\ Back(M, s)
    /\ \A t \in Pushers : PushOk(M, s, t)
    /\ \A t \in Poppers : PopOk(L, s, t)
    /\ \A t \in Clearers : ClearOk(D, t)

IInv ==
    /\ TypeOK /\ LocalsOk /\ Items /\ Counted
    /\ \E L, M, s, D : Lists(L, M, s, D)

-----------------------------------------------------------------------------
(* Types *)

\* What objpool hands out to get_node or get_que are nodes, made anew.
LEMMA TypeNew ==
    ASSUME TypeOK, NEW t \in Threads, NEW ns \in Seq(Nodes), NEW v \in Values \cup {Null},
           NewNodes(t, ns, v)
    PROVE  /\ free' \subseteq Nodes
           /\ node' \in [Threads -> Seq(Nodes)]
           /\ next' \in [Nodes -> Nodes \cup {Null}]
           /\ data' \in [Nodes -> Values \cup {Null}]
  <1>. USE DEF NewNodes, TypeOK
  <1>1. free' \subseteq Nodes OBVIOUS
  <1>2. node' \in [Threads -> Seq(Nodes)] OBVIOUS
  <1>3. next' \in [Nodes -> Nodes \cup {Null}] /\ data' \in [Nodes -> Values \cup {Null}]
    <2>. HIDE DEF ToSet
    <2>. QED OBVIOUS
  <1>. QED BY <1>1, <1>2, <1>3

\* What retire frees and keeps are nodes.
LEMMA TypeRetire ==
    ASSUME TypeOK, NEW n \in Nodes, Retire(n)
    PROVE  free' \subseteq Nodes /\ retired' \subseteq Nodes
  BY DEF TypeOK, Retire, Swept

\* A push that is counted makes its element and those before it count.
LEMMA Count ==
    ASSUME TypeOK, Items, NEW t \in Pushers, PushCount(t), NEW k \in 1..Pushed, item[t] = history[k]
    PROVE  counted' = IF k > counted THEN k ELSE counted
  <1>. DEFINE I == {i \in 1..Len(history) : history[i] = item[t]}
  <1>1. I = {k} BY DEF Items, Pushed
  <1>2. SelectInSeq(history, LAMBDA v : v = item[t]) = IF I # {} THEN Min(I) ELSE 0
    BY DEF SelectInSeq
  <1>. HIDE DEF I
  <1>3. Min(I) = k BY <1>1 DEF Min
  <1>4. SelectInSeq(history, LAMBDA v : v = item[t]) = k BY <1>1, <1>2, <1>3
  <1>5. counted' = Max({counted, k}) BY <1>4 DEF PushCount
  <1>6. counted \in Nat /\ k \in Nat BY DEF TypeOK
  <1>7. PICK m \in {counted, k} : \A y \in {counted, k} : m >= y
    <2>1. CASE k > counted BY <1>6, <2>1
    <2>2. CASE ~ (k > counted) BY <1>6, <2>2
    <2>. QED BY <2>1, <2>2
  <1>8. Max({counted, k}) \in {counted, k} /\ \A y \in {counted, k} : Max({counted, k}) >= y
    BY <1>7 DEF Max
  <1>. QED BY <1>5, <1>6, <1>8

\* push keeps the types: the numbers that name its element and its node are right.
LEMMA TypePush ==
    ASSUME IInv, NEW t \in Pushers, PushStep(t)
    PROVE  TypeOK'
  <1>. USE DEF Goto, At, listVars, nodeVars, poolVars, histVars, callVars
  <1>1. t \in Threads /\ TypeOK /\ LocalsOk /\ Items BY DEF Threads, IInv
  <1>2. CASE PushCall(t)
    <2>1. PICK v \in Values, n \in free : item' = [item EXCEPT ![t] = v] /\ NewNodes(t, <<n>>, v)
      BY <1>2 DEF PushCall
    <2>2. <<n>> \in Seq(Nodes) /\ v \in Values \cup {Null} BY <1>1 DEF TypeOK
    <2>. QED BY <1>1, <1>2, <2>1, <2>2, TypeNew DEF PushCall, TypeOK
  <1>3. CASE PushLock(t) BY <1>1, <1>3 DEF PushLock, TypeOK, LockShared
  <1>4. CASE PushAppend(t)
    <2>1. NodeOf(t) \in Nodes /\ item[t] \in Values
      BY <1>1, <1>4 DEF PushAppend, LocalsOk, TypeOK
    <2>2. back' \in Ends BY <1>1, <1>4, <2>1 DEF PushAppend, TypeOK, Ends, NodeOf
    <2>3. reg' \in [Threads -> Nodes \cup {Null}] BY <1>1, <1>4 DEF PushAppend, TypeOK, Ends
    <2>. QED BY <1>1, <1>4, <2>1, <2>2, <2>3 DEF PushAppend, TypeOK
  <1>5. CASE PushLink(t)
    <2>1. NodeOf(t) \in Nodes BY <1>1, <1>5 DEF PushLink, LocalsOk
    <2>2. next' \in [Nodes -> Nodes \cup {Null}] BY <1>1, <1>5, <2>1 DEF PushLink, TypeOK, NodeOf
    <2>. QED BY <1>1, <1>5, <2>2 DEF PushLink, TypeOK
  <1>6. CASE PushCount(t)
    <2>1. size' \in 0..(SizeMod - 1) BY <1>1, <1>6, ConstantsOk DEF PushCount, TypeOK
    <2>2. PICK k \in 1..Pushed : item[t] = history[k]
      <3>1. PICK L, M, s, D : Lists(L, M, s, D) BY DEF IInv
      <3>2. PICK k \in s + 1 .. Pushed : item[t] = history[k]
        BY <1>6, <3>1 DEF PushCount, Lists, PushOk
      <3>3. s \in Nat /\ Pushed \in Nat BY <1>1, <3>1 DEF Lists, Places, Pushed, TypeOK
      <3>. QED BY <3>2, <3>3
    <2>3. counted' = IF k > counted THEN k ELSE counted BY <1>1, <1>6, <2>2, Count
    <2>4. k \in Nat /\ counted \in Nat BY <1>1 DEF TypeOK
    <2>. QED BY <1>1, <1>6, <2>1, <2>3, <2>4 DEF PushCount, TypeOK
  <1>7. CASE Return(t) BY <1>1, <1>7 DEF Return, TypeOK
  <1>. QED BY <1>2, <1>3, <1>4, <1>5, <1>6, <1>7 DEF PushStep

\* pop keeps the types: the hazard pointers it follows are of nodes.
LEMMA TypePop ==
    ASSUME TypeOK, LocalsOk, NEW t \in Poppers, PopStep(t)
    PROVE  TypeOK'
  <1>. USE DEF Goto, At, listVars, nodeVars, poolVars, histVars, callVars
  <1>1. t \in Threads BY DEF Threads
  <1>2. CASE PopCall(t) BY <1>1, <1>2 DEF PopCall, TypeOK
  <1>3. CASE PopEmpty(t) BY <1>1, <1>3 DEF PopEmpty, TypeOK
  <1>4. CASE PopLock(t) BY <1>1, <1>4 DEF PopLock, TypeOK, LockShared
  <1>5. CASE PopBegin(t) BY <1>1, <1>5 DEF PopBegin, TypeOK, Ends
  <1>6. CASE PopEnd(t) BY <1>1, <1>6 DEF PopEnd, TypeOK
  <1>7. CASE PopSize(t) BY <1>1, <1>7 DEF PopSize, TypeOK
  <1>8. CASE PopSwap(t)
    <2>1. {frond', back'} \subseteq Ends BY <1>8 DEF PopSwap, TypeOK
    <2>. QED BY <1>1, <1>8, <2>1 DEF PopSwap, TypeOK
  <1>9. CASE PopNext(t)
    <2>1. next[h0[t]] \in Nodes \cup {Null} BY <1>1, <1>9 DEF PopNext, TypeOK, LocalsOk
    <2>. QED BY <1>1, <1>9, <2>1 DEF PopNext, TypeOK
  <1>10. CASE PopUnlink(t)
    <2>1. h1[t] \in Nodes BY <1>1, <1>10 DEF PopUnlink, LocalsOk
    <2>0. frond \in Ends /\ back \in Ends BY DEF TypeOK
    <2>2. {frond', back'} \subseteq Ends
      <3>1. [frond EXCEPT !.begin = h1[t]] \in Ends BY <2>0, <2>1 DEF Ends
      <3>. QED BY <1>10, <2>0, <3>1 DEF PopUnlink
    <2>3. h0' \in [Threads -> Nodes \cup {Null}]
      <3>1. frond.begin \in Nodes BY <2>0 DEF Ends
      <3>2. [h0 EXCEPT ![t] = frond.begin] \in [Threads -> Nodes \cup {Null}]
        BY <3>1 DEF TypeOK
      <3>. QED BY <1>10, <3>2 DEF PopUnlink, TypeOK
    <2>4. taken' \in Nat BY <1>10 DEF PopUnlink, TypeOK
    <2>5. pc' = [pc EXCEPT ![t] = "read"] \/ pc' = [pc EXCEPT ![t] = "end"]
      BY <1>10 DEF PopUnlink
    <2>6. UNCHANGED <<size, readers, next, data, free, retired, history, counted, node, reg, item, h1>>
      BY <1>10 DEF PopUnlink
    <2>. QED BY <1>1, <2>2, <2>3, <2>4, <2>5, <2>6 DEF TypeOK
  <1>11. CASE PopRead(t)
    <2>1. data[h1[t]] \in Values \cup {Null} BY <1>1, <1>11 DEF PopRead, TypeOK, LocalsOk
    <2>. QED BY <1>1, <1>11, <2>1 DEF PopRead, TypeOK
  <1>12. CASE PopRetire(t)
    <2>1. h0[t] \in Nodes /\ Retire(h0[t]) BY <1>1, <1>12 DEF PopRetire, LocalsOk
    <2>2. free' \subseteq Nodes /\ retired' \subseteq Nodes BY <2>1, TypeRetire
    <2>. QED BY <1>1, <1>12, <2>2 DEF PopRetire, TypeOK
  <1>13. CASE PopCount(t)
    <2>1. size' \in 0..(SizeMod - 1) BY <1>13, ConstantsOk DEF PopCount, TypeOK
    <2>. QED BY <1>1, <1>13, <2>1 DEF PopCount, TypeOK
  <1>14. CASE Return(t) BY <1>1, <1>14 DEF Return, TypeOK
  <1>. QED
    BY <1>2, <1>3, <1>4, <1>5, <1>6, <1>7, <1>8, <1>9, <1>10, <1>11, <1>12, <1>13, <1>14
    DEF PopStep

\* What retiring the first node of a list leaves of them.
LEMMA Rest ==
    ASSUME TypeOK, LocalsOk, NEW t \in Clearers, ClearRetire(t)
    PROVE  /\ node[t] \in Seq(Nodes) /\ Len(node[t]) \in Nat /\ Len(node[t]) >= 1
           /\ node[t][1] \in Nodes
           /\ node'[t] \in Seq(Nodes)
           /\ next[node[t][1]] = Null =>
                 /\ Len(node'[t]) = Len(node[t]) - 1
                 /\ \A i \in 1..Len(node'[t]) : node'[t][i] = node[t][i + 1]
           /\ next[node[t][1]] # Null =>
                 /\ Len(node'[t]) = Len(node[t])
                 /\ node'[t][1] = next[node[t][1]]
                 /\ \A i \in 2..Len(node'[t]) : node'[t][i] = node[t][i]
  <1>1. t \in Threads BY DEF Threads
  <1>2. PICK q : q = node[t] OBVIOUS
  <1>3. q \in Seq(Nodes) /\ q # <<>> BY <1>1, <1>2 DEF TypeOK, LocalsOk, ClearRetire, At
  <1>4. Len(q) >= 1 /\ q[1] \in Nodes /\ Head(q) = q[1] /\ Tail(q) \in Seq(Nodes)
        /\ Len(Tail(q)) = Len(q) - 1 /\ \A i \in 1..(Len(q) - 1) : Tail(q)[i] = q[i + 1]
    BY <1>3
  <1>5. next[q[1]] \in Nodes \cup {Null} BY <1>4 DEF TypeOK
  <1>6. node'[t] = IF next[q[1]] = Null THEN Tail(q) ELSE <<next[q[1]]>> \o Tail(q)
    BY <1>1, <1>2, <1>4 DEF ClearRetire, TypeOK
  <1>7. CASE next[q[1]] = Null BY <1>2, <1>3, <1>4, <1>6, <1>7
  <1>8. CASE next[q[1]] # Null
    <2>1. PICK n \in Nodes : n = next[q[1]] BY <1>5, <1>8
    <2>2. PICK r \in Seq(Nodes) : r = Tail(q) BY <1>4
    <2>3. node'[t] = <<n>> \o r BY <1>6, <1>8, <2>1, <2>2
    <2>4. /\ <<n>> \o r \in Seq(Nodes) /\ Len(<<n>> \o r) = Len(r) + 1
          /\ (<<n>> \o r)[1] = n /\ \A i \in 2..(Len(r) + 1) : (<<n>> \o r)[i] = r[i - 1]
      OBVIOUS
    <2>5. \A i \in 2..Len(q) : r[i - 1] = q[i]
      <3>. SUFFICES ASSUME NEW i \in 2..Len(q) PROVE r[i - 1] = q[i]
        OBVIOUS
      <3>1. i - 1 \in 1..(Len(q) - 1) /\ (i - 1) + 1 = i BY <1>3
      <3>. QED BY <1>4, <2>2, <3>1
    <2>. QED BY <1>2, <1>3, <1>4, <1>8, <2>1, <2>2, <2>3, <2>4, <2>5
  <1>. QED BY <1>7, <1>8

\* clear and put_que keep the types.
LEMMA TypeClear ==
    ASSUME TypeOK, LocalsOk, NEW t \in Clearers, ClearStep(t)
    PROVE  TypeOK'
  <1>. USE DEF Goto, At, listVars, nodeVars, poolVars, histVars, callVars
  <1>1. t \in Threads BY DEF Threads
  <1>2. CASE ClearCall(t)
    <2>1. PICK m, n \in free : NewNodes(t, <<m, n>>, Null) BY <1>2 DEF ClearCall
    <2>2. <<m, n>> \in Seq(Nodes) BY DEF TypeOK
    <2>. QED BY <1>1, <1>2, <2>1, <2>2, TypeNew DEF ClearCall, TypeOK
  <1>3. CASE ClearExchange(t)
    <2>1. PICK m, n \in Nodes : node[t] = <<m, n>> BY <1>3 DEF ClearExchange, LocalsOk
    <2>2. {frond', back'} \subseteq Ends
      <3>1. frond' = [begin |-> m, end |-> m] /\ back' = [begin |-> n, end |-> n]
        BY <1>3, <2>1 DEF ClearExchange, List
      <3>. QED BY <3>1 DEF Ends
    <2>3. node' \in [Threads -> Seq(Nodes)]
      <3>1. frond.begin \in Nodes /\ back.begin \in Nodes BY DEF TypeOK, Ends
      <3>2. <<frond.begin, back.begin>> \in Seq(Nodes) BY <3>1
      <3>. QED BY <1>3, <3>2 DEF ClearExchange, TypeOK
    <2>4. size' \in 0..(SizeMod - 1) BY <1>3, ConstantsOk DEF ClearExchange
    <2>. QED BY <1>1, <1>3, <2>2, <2>3, <2>4 DEF ClearExchange, TypeOK, Pushed
  <1>4. CASE ClearRetire(t)
    <2>1. PICK rest : node' = [node EXCEPT ![t] = rest] BY <1>4 DEF ClearRetire
    <2>2. node' \in [Threads -> Seq(Nodes)]
      <3>1. node'[t] = rest /\ rest \in Seq(Nodes) BY <1>1, <1>4, <2>1, Rest DEF TypeOK
      <3>. QED BY <2>1, <3>1 DEF TypeOK
    <2>3. Head(node[t]) \in Nodes BY <1>4, Rest
    <2>4. free' \subseteq Nodes /\ retired' \subseteq Nodes
      BY <1>4, <2>3, TypeRetire DEF ClearRetire
    <2>5. pc' \in [Threads -> {"idle", "lock", "append", "link", "pcount", "empty", "begin", "end",
                           "size", "swap", "next", "unlink", "read", "retire", "count",
                           "exchange", "dispose", "return", "overtook"}]
      BY <1>1, <1>4 DEF ClearRetire, TypeOK
    <2>. QED BY <1>1, <1>4, <2>2, <2>4, <2>5 DEF ClearRetire, TypeOK
  <1>5. CASE Return(t) BY <1>1, <1>5 DEF Return, TypeOK
  <1>6. CASE ClearInUse(t) BY <1>1, <1>6 DEF ClearInUse, TypeOK
  <1>. QED BY <1>2, <1>3, <1>4, <1>5, <1>6 DEF ClearStep

-----------------------------------------------------------------------------
(* Elements *)

\* The steps of a popper or a clearer change nothing of the elements.
LEMMA ItemsSame ==
    ASSUME Items, Counted, UNCHANGED <<history, counted>>,
           \A u \in Pushers : pc'[u] = pc[u] /\ item'[u] = item[u]
    PROVE  Items' /\ Counted'
  BY DEF Items, Counted, Pushed, At

\* What appending makes of the history.
LEMMA HistoryGrows ==
    ASSUME NEW S, NEW h \in Seq(S), NEW x \in S
    PROVE  /\ Len(Append(h, x)) = Len(h) + 1
           /\ \A k \in 1..Len(h) : Append(h, x)[k] = h[k]
           /\ Append(h, x)[Len(h) + 1] = x
  OBVIOUS

Moves(t, l) == \A u \in Threads : pc'[u] = IF u = t THEN l ELSE pc[u]

\* push keeps every element in its place, and counts it or leaves it to be counted.
LEMMA ItemsPush ==
    ASSUME IInv, NEW t \in Pushers, PushStep(t)
    PROVE  Items' /\ Counted'
  <1>. USE DEF Moves, Goto, At, listVars, nodeVars, poolVars, histVars, callVars
  <1>1. /\ t \in Threads /\ TypeOK /\ LocalsOk /\ Items /\ Counted
        /\ history \in Seq(Values) /\ Pushed \in Nat /\ counted \in Nat
        /\ Pushers \subseteq Threads
        /\ Null \notin Values
    BY ConstantsOk DEF Threads, IInv, TypeOK, Pushed
  <1>2. CASE PushCall(t)
    <2>1. PICK v \in Values : /\ v \notin ToSet(history) \cup {item[u] : u \in Pushers}
                              /\ \A u \in Pushers : item'[u] = IF u = t THEN v ELSE item[u]
      BY <1>1, <1>2 DEF PushCall, TypeOK
    <2>2. \A k \in 1..Pushed : history[k] # v BY <1>1, <2>1 DEF ToSet, Pushed
    <2>3. pc[t] = "idle" /\ Moves(t, "lock") /\ UNCHANGED <<history, counted>>
      BY <1>1, <1>2 DEF PushCall, TypeOK
    <2>. QED BY <1>1, <2>1, <2>2, <2>3 DEF Items, Counted, Pushed
  <1>3. CASE PushLock(t)
    <2>1. pc[t] = "lock" /\ Moves(t, "append") /\ UNCHANGED <<history, counted, item>>
      BY <1>1, <1>3 DEF PushLock, TypeOK
    <2>. QED BY <1>1, <2>1 DEF Items, Counted, Pushed
  <1>4. CASE PushAppend(t)
    <2>1. /\ pc[t] = "append" /\ Moves(t, "link") /\ UNCHANGED <<counted, item>>
          /\ item[t] \in Values /\ history' = Append(history, item[t])
      BY <1>1, <1>4 DEF PushAppend, LocalsOk, TypeOK
    <2>2. /\ Pushed' = Pushed + 1 /\ history'[Pushed + 1] = item[t]
          /\ \A k \in 1..Pushed : history'[k] = history[k] /\ history[k] # item[t]
      BY <1>1, <2>1, HistoryGrows DEF Items, Pushed
    <2>3. ASSUME NEW j \in 1..Pushed', NEW k \in 1..Pushed', history'[j] = history'[k]
          PROVE  j = k
      BY <1>1, <2>2, <2>3 DEF Items
    <2>4. \A u, v \in Pushers : item'[u] = item'[v] /\ item'[u] # Null => u = v
      BY <1>1, <2>1 DEF Items
    <2>5. ASSUME NEW u \in Pushers, pc'[u] \in {"lock", "append"}, NEW k \in 1..Pushed'
          PROVE  history'[k] # item'[u]
      <3>1. u # t /\ pc'[u] = pc[u] /\ item'[u] = item[u] BY <1>1, <2>1, <2>5
      <3>2. item[u] # item[t] BY <1>1, <2>1, <2>5, <3>1, ConstantsOk DEF Items
      <3>3. k \in 1..Pushed \/ k = Pushed + 1 BY <1>1, <2>2
      <3>. QED BY <1>1, <2>2, <2>5, <3>1, <3>2, <3>3 DEF Items
    <2>6. ASSUME NEW u \in Pushers, pc'[u] = "return"
          PROVE  \E k \in 1..counted' : item'[u] = history'[k]
      <3>1. u # t /\ pc[u] = "return" /\ item'[u] = item[u] BY <1>1, <2>1, <2>6
      <3>2. PICK k \in 1..counted : item[u] = history[k] BY <1>1, <3>1 DEF Items
      <3>3. k \in 1..Pushed BY <1>1, <3>2 DEF Counted
      <3>. QED BY <2>1, <2>2, <3>1, <3>2, <3>3
    <2>7. Items' BY <2>3, <2>4, <2>5, <2>6 DEF Items
    <2>8. ASSUME NEW k \in counted + 1 .. Pushed'
          PROVE  \E u \in Pushers : pc'[u] \in {"link", "pcount"} /\ item'[u] = history'[k]
      <3>1. CASE k = Pushed + 1 BY <1>1, <2>1, <2>2, <3>1
      <3>2. CASE k # Pushed + 1
        <4>1. k \in counted + 1 .. Pushed /\ k \in 1..Pushed BY <1>1, <2>2, <2>8, <3>2
        <4>2. PICK u \in Pushers : pc[u] \in {"link", "pcount"} /\ item[u] = history[k]
          BY <1>1, <4>1 DEF Counted
        <4>. QED BY <1>1, <2>1, <2>2, <4>1, <4>2
      <3>. QED BY <3>1, <3>2
    <2>9. ASSUME NEW u \in Pushers, pc'[u] \in {"link", "pcount"}, counted # 0
          PROVE  item'[u] # history'[counted]
      <3>1. counted \in 1..Pushed BY <1>1, <2>9 DEF Counted
      <3>. QED BY <1>1, <2>1, <2>2, <2>9, <3>1 DEF Counted
    <2>10. Counted' BY <1>1, <2>1, <2>2, <2>8, <2>9 DEF Counted
    <2>. QED BY <2>7, <2>10
  <1>5. CASE PushLink(t)
    <2>1. pc[t] = "link" /\ Moves(t, "pcount") /\ UNCHANGED <<history, counted, item>>
      BY <1>1, <1>5 DEF PushLink, TypeOK
    <2>2. \A u \in Pushers : pc'[u] \in {"link", "pcount"} <=> pc[u] \in {"link", "pcount"}
      BY <1>1, <2>1
    <2>3. \A u \in Pushers : pc'[u] \in {"lock", "append", "return"} => pc'[u] = pc[u]
      BY <1>1, <2>1
    <2>4. Pushed' = Pushed BY <2>1 DEF Pushed
    <2>5. Items' BY <1>1, <2>1, <2>3, <2>4 DEF Items
    <2>6. Counted' BY <1>1, <2>1, <2>2, <2>4 DEF Counted
    <2>. QED BY <2>5, <2>6
  <1>6. CASE PushCount(t)
    <2>1. pc[t] = "pcount" /\ Moves(t, "return") /\ UNCHANGED <<history, item>>
      BY <1>1, <1>6 DEF PushCount, TypeOK
    <2>2. PICK k \in 1..Pushed : item[t] = history[k]
      <3>1. PICK L, M, s, D : Lists(L, M, s, D) BY DEF IInv
      <3>2. PICK k \in s + 1 .. Pushed : item[t] = history[k]
        BY <2>1, <3>1 DEF Lists, PushOk
      <3>3. s \in Nat /\ Pushed \in Nat BY <1>1, <3>1 DEF Lists, Places
      <3>. QED BY <3>2, <3>3
    <2>3. counted' = IF k > counted THEN k ELSE counted BY <1>1, <1>6, <2>2, Count
    <2>4. k \in Nat /\ counted' \in Nat /\ counted' >= counted /\ k <= counted' /\ counted' <= Pushed
          /\ 1 <= k
      BY <1>1, <2>3 DEF Counted
    <2>5. Items'
      <3>1. ASSUME NEW u \in Pushers, pc'[u] = "return"
            PROVE  \E j \in 1..counted' : item'[u] = history'[j]
        <4>1. CASE u = t BY <2>1, <2>2, <2>4, <4>1
        <4>2. CASE u # t
          <5>1. PICK j \in 1..counted : item[u] = history[j] BY <1>1, <2>1, <3>1, <4>2 DEF Items
          <5>. QED BY <1>1, <2>1, <2>4, <5>1
        <4>. QED BY <4>1, <4>2
      <3>. QED BY <1>1, <2>1, <3>1 DEF Items, Pushed
    <2>6. Counted'
      <3>1. ASSUME NEW j \in counted' + 1 .. Pushed
            PROVE  \E u \in Pushers : pc'[u] \in {"link", "pcount"} /\ item'[u] = history'[j]
        <4>5. PICK c \in Nat, p \in Nat : c = counted' /\ p = Pushed BY <1>1, <2>4
        <4>0. j \in Nat /\ j > counted' /\ j <= Pushed
          <5>1. j \in c + 1 .. p BY <3>1, <4>5
          <5>2. j \in Nat /\ j > c /\ j <= p BY <5>1
          <5>. QED BY <4>5, <5>2
        <4>1. j \in counted + 1 .. Pushed /\ j # k /\ j \in 1..Pushed BY <1>1, <2>4, <4>0
        <4>2. PICK u \in Pushers : pc[u] \in {"link", "pcount"} /\ item[u] = history[j]
          BY <1>1, <4>1 DEF Counted
        <4>3. u # t BY <1>1, <2>2, <4>1, <4>2 DEF Items
        <4>. QED BY <1>1, <2>1, <4>2, <4>3
      <3>2. ASSUME NEW u \in Pushers, pc'[u] \in {"link", "pcount"}, counted' # 0
            PROVE  item'[u] # history'[counted']
        <4>1. u # t /\ pc[u] = pc'[u] /\ item[u] # item[t] /\ item'[u] = item[u]
          BY <1>1, <2>1, <3>2 DEF Items, LocalsOk
        <4>. QED BY <1>1, <2>1, <2>2, <2>3, <2>4, <3>2, <4>1 DEF Counted
      <3>. QED BY <2>1, <2>4, <3>1, <3>2 DEF Counted, Pushed
    <2>. QED BY <2>5, <2>6
  <1>7. CASE Return(t)
    <2>1. /\ pc[t] = "return" /\ Moves(t, "idle") /\ UNCHANGED <<history, counted>>
          /\ \A u \in Pushers : item'[u] = IF u = t THEN Null ELSE item[u]
      BY <1>1, <1>7 DEF Return, TypeOK
    <2>. QED BY <1>1, <2>1 DEF Items, Counted, Pushed
  <1>. QED BY <1>2, <1>3, <1>4, <1>5, <1>6, <1>7 DEF PushStep

-----------------------------------------------------------------------------
(* Local variables *)

\* push sets its local variables, and holds the mutex where it works on the lists.
LEMMA LocalsPush ==
    ASSUME IInv, NEW t \in Pushers, PushStep(t)
    PROVE  LocalsOk'
  <1>. USE DEF Goto, At, listVars, nodeVars, poolVars, histVars, callVars
  <1>1. /\ t \in Threads /\ TypeOK /\ LocalsOk /\ Null \notin Values
        /\ t \notin Poppers /\ t \notin Clearers
    BY ConstantsOk DEF Threads, IInv
  <1>2. SUFFICES /\ pc'[t] \in PushLabels
                 /\ item'[t] = Null <=> pc'[t] = "idle"
                 /\ pc'[t] \in {"lock", "append", "link"} => NodeOf(t)' \in Nodes
                 /\ pc'[t] \in {"append", "link", "pcount"} => t \in readers'
                 /\ \A u \in Threads \ {t} :
                       /\ pc'[u] = pc[u] /\ item'[u] = item[u] /\ node'[u] = node[u]
                       /\ h0'[u] = h0[u] /\ h1'[u] = h1[u] /\ (u \in readers => u \in readers')
    BY <1>1 DEF LocalsOk, NodeOf, Threads
  <1>. USE DEF PushLabels
  <1>3. CASE PushCall(t)
    <2>1. PICK v \in Values, n \in free : item' = [item EXCEPT ![t] = v] /\ NewNodes(t, <<n>>, v)
      BY <1>3 DEF PushCall
    <2>2. NodeOf(t)' = n BY <1>1, <2>1 DEF NewNodes, NodeOf, TypeOK
    <2>. QED BY <1>1, <1>3, <2>1, <2>2 DEF PushCall, TypeOK, NewNodes
  <1>4. CASE PushLock(t) BY <1>1, <1>4 DEF PushLock, TypeOK, LockShared, LocalsOk, NodeOf
  <1>5. CASE PushAppend(t) BY <1>1, <1>5 DEF PushAppend, TypeOK, LocalsOk, NodeOf
  <1>6. CASE PushLink(t) BY <1>1, <1>6 DEF PushLink, TypeOK, LocalsOk
  <1>7. CASE PushCount(t) BY <1>1, <1>7 DEF PushCount, TypeOK, LocalsOk
  <1>8. CASE Return(t) BY <1>1, <1>8 DEF Return, TypeOK
  <1>. QED BY <1>3, <1>4, <1>5, <1>6, <1>7, <1>8 DEF PushStep

\* pop sets its local variables before it uses them.
LEMMA LocalsPop ==
    ASSUME IInv, NEW t \in Poppers, PopStep(t)
    PROVE  LocalsOk'
  <1>. USE DEF Goto, At, listVars, nodeVars, poolVars, histVars, callVars
  <1>1. /\ t \in Threads /\ TypeOK /\ LocalsOk
        /\ t \notin Pushers /\ t \notin Clearers
    BY ConstantsOk DEF Threads, IInv
  <1>2. SUFFICES
        /\ pc'[t] \in PopLabels
        /\ pc'[t] \notin {"retire", "count", "return"} => item'[t] = Null
        /\ pc'[t] \in {"end", "size", "swap", "next", "unlink", "read", "retire"} => h0'[t] \in Nodes
        /\ pc'[t] \in {"unlink", "read"} => h1'[t] \in Nodes
        /\ \A u \in Threads \ {t} :
              /\ pc'[u] = pc[u] /\ item'[u] = item[u] /\ node'[u] = node[u]
              /\ h0'[u] = h0[u] /\ h1'[u] = h1[u] /\ (u \in readers => u \in readers')
    BY <1>1 DEF LocalsOk, NodeOf, Threads
  <1>. USE DEF PopLabels, TypeOK, LocalsOk
  <1>3. CASE PopCall(t) BY <1>1, <1>3 DEF PopCall
  <1>4. CASE PopEmpty(t) BY <1>1, <1>4 DEF PopEmpty
  <1>5. CASE PopLock(t) BY <1>1, <1>5 DEF PopLock, LockShared
  <1>6. CASE PopBegin(t) BY <1>1, <1>6 DEF PopBegin, Ends
  <1>7. CASE PopEnd(t) BY <1>1, <1>7 DEF PopEnd
  <1>8. CASE PopSize(t) BY <1>1, <1>8 DEF PopSize
  <1>9. CASE PopSwap(t) BY <1>1, <1>9 DEF PopSwap
  <1>10. CASE PopNext(t)
    <2>1. PICK L, M, s, D : Lists(L, M, s, D) BY DEF IInv
    <2>2. h0[t] = L[taken] /\ taken < s /\ pc[t] = "next"
      BY <1>10, <2>1 DEF Lists, PopOk, PopNext
    <2>3. s \in Nat /\ L \in [Nat -> Nodes] BY <2>1 DEF Lists, Places
    <2>4. next[h0[t]] \in Nodes
      <3>1. PICK k \in Nat : k = taken + 1 BY <1>1
      <3>2. k - 1 = taken /\ k \in taken + 1 .. s BY <1>1, <2>2, <2>3, <3>1
      <3>3. next[L[k - 1]] = L[k] BY <2>1, <3>2 DEF Lists, Frond
      <3>. QED BY <2>2, <2>3, <3>2, <3>3
    <2>. QED BY <1>1, <1>10, <2>4 DEF PopNext
  <1>11. CASE PopUnlink(t) BY <1>1, <1>11 DEF PopUnlink, Ends
  <1>12. CASE PopRead(t) BY <1>1, <1>12 DEF PopRead
  <1>13. CASE PopRetire(t) BY <1>1, <1>13 DEF PopRetire
  <1>14. CASE PopCount(t) BY <1>1, <1>14 DEF PopCount
  <1>15. CASE Return(t) BY <1>1, <1>15 DEF Return
  <1>. QED
    BY <1>3, <1>4, <1>5, <1>6, <1>7, <1>8, <1>9, <1>10, <1>11, <1>12, <1>13, <1>14, <1>15
    DEF PopStep

\* clear has lists to exchange, or to dispose of.
LEMMA LocalsClear ==
    ASSUME IInv, NEW t \in Clearers, ClearStep(t)
    PROVE  LocalsOk'
  <1>. USE DEF Goto, At, listVars, nodeVars, poolVars, histVars, callVars
  <1>1. /\ t \in Threads /\ TypeOK /\ LocalsOk
        /\ t \notin Pushers /\ t \notin Poppers
        /\ pc[t] \in ClearLabels /\ item[t] = Null
    BY ConstantsOk DEF Threads, IInv, LocalsOk
  <1>2. SUFFICES
        /\ pc'[t] \in ClearLabels
        /\ item'[t] = Null
        /\ pc'[t] = "exchange" => \E m, n \in Nodes : m # n /\ node'[t] = <<m, n>>
        /\ pc'[t] = "dispose" => node'[t] # <<>>
        /\ \A u \in Threads \ {t} :
              /\ pc'[u] = pc[u] /\ item'[u] = item[u] /\ node'[u] = node[u]
              /\ h0'[u] = h0[u] /\ h1'[u] = h1[u] /\ (u \in readers => u \in readers')
    BY <1>1 DEF LocalsOk, NodeOf, Threads
  <1>. USE DEF ClearLabels, TypeOK
  <1>3. CASE ClearCall(t)
    <2>1. PICK m, n \in free : m # n /\ NewNodes(t, <<m, n>>, Null) BY <1>3 DEF ClearCall
    <2>2. node' = [node EXCEPT ![t] = <<m, n>>] BY <2>1 DEF NewNodes
    <2>3. node'[t] = <<m, n>> /\ m \in Nodes /\ n \in Nodes BY <1>1, <2>1, <2>2
    <2>4. pc' = [pc EXCEPT ![t] = "exchange"] /\ UNCHANGED <<item, h0, h1, readers>>
      BY <1>3 DEF ClearCall
    <2>5. \A u \in Threads \ {t} : pc'[u] = pc[u] /\ node'[u] = node[u] BY <1>1, <2>2, <2>4
    <2>6. pc'[t] = "exchange" BY <1>1, <2>4
    <2>. QED BY <1>1, <2>1, <2>3, <2>4, <2>5, <2>6
  <1>4. CASE ClearExchange(t) BY <1>1, <1>4 DEF ClearExchange
  <1>5. CASE ClearRetire(t)
    <2>1. PICK rest : /\ node' = [node EXCEPT ![t] = rest]
                      /\ pc' = [pc EXCEPT ![t] = IF rest = <<>> THEN "return" ELSE "dispose"]
      BY <1>5 DEF ClearRetire
    <2>2. UNCHANGED <<item, h0, h1, readers>> BY <1>5 DEF ClearRetire
    <2>. QED BY <1>1, <2>1, <2>2
  <1>6. CASE Return(t) BY <1>1, <1>6 DEF Return
  <1>7. CASE ClearInUse(t) BY <1>1, <1>7 DEF ClearInUse
  <1>. QED BY <1>3, <1>4, <1>5, <1>6, <1>7 DEF ClearStep

-----------------------------------------------------------------------------
(* Nodes *)

\* A step of t that takes nodes from the free ones, or retires its own, keeps all apart.
LEMMA ApartStep ==
    ASSUME NEW L, NEW M, NEW s, NEW D, NEW D2, NEW t \in Threads,
           Apart(L, M, s, D), UNCHANGED <<taken, history>>,
           free' \cap retired' = {},
           \A u \in Threads \ {t}, n \in Nodes : Owns(u, n, D2)' => Owns(u, n, D),
           \A n \in Nodes : n \in Loose' => n \in Loose \/ Owns(t, n, D),
           \A n \in Nodes : Owns(t, n, D2)' =>
              (Owns(t, n, D) \/ n \in Loose) /\ n \notin Loose'
    PROVE  Apart(L, M, s, D2)'
  <1>1. /\ \A n : InFrond(L, s, n)' <=> InFrond(L, s, n)
        /\ \A n : InBack(M, s, n)' <=> InBack(M, s, n)
    BY DEF InFrond, InBack, Pushed
  <1>2. /\ \A j, k \in taken'..s : L[j] = L[k] => j = k
        /\ \A j, k \in s..Pushed' : M[j] = M[k] => j = k
        /\ \A j \in taken'..s, k \in s..Pushed' : L[j] # M[k]
    BY DEF Apart, Pushed
  <1>3. ASSUME NEW n \in Nodes, InFrond(L, s, n) \/ InBack(M, s, n) PROVE n \notin Loose'
    BY <1>3 DEF Apart
  <1>4. ASSUME NEW u \in Threads, NEW n \in Nodes, Owns(u, n, D2)'
        PROVE  /\ ~ InFrond(L, s, n) /\ ~ InBack(M, s, n) /\ n \notin Loose'
               /\ \A w \in Threads \ {u} : ~ Owns(w, n, D2)'
    <2>1. CASE u = t BY <1>4, <2>1 DEF Apart
    <2>2. CASE u # t BY <1>4, <2>2 DEF Apart
    <2>. QED BY <2>1, <2>2
  <1>. QED BY <1>1, <1>2, <1>3, <1>4 DEF Apart

Others(t) == \A u \in Threads \ {t} :
    /\ pc'[u] = pc[u] /\ item'[u] = item[u] /\ node'[u] = node[u]
    /\ reg'[u] = reg[u] /\ h0'[u] = h0[u] /\ h1'[u] = h1[u]

\* A step that changes neither list: what t sees of them is to be shown, no more.
LEMMA Frame ==
    ASSUME TypeOK, LocalsOk, Counted, NEW L, NEW M, NEW s, NEW D, NEW D2, NEW t \in Threads,
           Lists(L, M, s, D), Apart(L, M, s, D2)', Others(t), ~ At(t, "link"),
           D2 \in [Clearers -> SUBSET Nodes], \A u \in Clearers \ {t} : D2[u] = D[u],
           UNCHANGED <<frond, back, taken, history>>, counted' \in Nat, counted' >= counted,
           \A m \in Nodes : m \notin free => next'[m] = next[m] /\ data'[m] = data[m],
           t \in Pushers => PushOk(M, s, t)',
           t \in Poppers => PopOk(L, s, t)',
           t \in Clearers => ClearOk(D2, t)'
    PROVE  Lists(L, M, s, D2)'
  <1>1. /\ L \in [Nat -> Nodes] /\ M \in [Nat -> Nodes] /\ D \in [Clearers -> SUBSET Nodes]
        /\ s \in Nat /\ taken \in Nat /\ taken <= s /\ s <= counted /\ counted \in Nat
        /\ Pushed' = Pushed /\ Pushed \in Nat
        /\ Apart(L, M, s, D) /\ Frond(L, s) /\ Back(M, s)
    BY DEF Lists, Places, TypeOK, Pushed
  <1>2. Places(L, M, s, D2)' BY <1>1 DEF Places
  <1>3. \A k \in taken..s : L[k] \in Nodes /\ next'[L[k]] = next[L[k]] /\ data'[L[k]] = data[L[k]]
    <2>1. ASSUME NEW k \in taken..s PROVE L[k] \in Nodes /\ L[k] \notin free
      <3>1. L[k] \in Nodes BY <1>1
      <3>2. InFrond(L, s, L[k]) BY DEF InFrond
      <3>. QED BY <1>1, <3>1, <3>2 DEF Apart, Loose
    <2>. QED BY <2>1
  <1>4. \A k \in s..Pushed : M[k] \in Nodes /\ next'[M[k]] = next[M[k]] /\ data'[M[k]] = data[M[k]]
    <2>1. ASSUME NEW k \in s..Pushed PROVE M[k] \in Nodes /\ M[k] \notin free
      <3>1. M[k] \in Nodes BY <1>1
      <3>2. InBack(M, s, M[k]) BY DEF InBack
      <3>. QED BY <1>1, <3>1, <3>2 DEF Apart, Loose
    <2>. QED BY <2>1
  <1>5. Frond(L, s)'
    <2>1. frond' = [begin |-> L[taken'], end |-> L[s]] BY <1>1 DEF Frond
    <2>2. ASSUME NEW k \in taken + 1 .. s
          PROVE  data'[L[k]] = history[k] /\ next'[L[k - 1]] = L[k]
      <3>1. k \in taken..s /\ k - 1 \in taken..s BY <1>1
      <3>. QED BY <1>1, <1>3, <3>1 DEF Frond
    <2>3. next'[L[s]] = Null BY <1>1, <1>3 DEF Frond
    <2>. QED BY <2>1, <2>2, <2>3 DEF Frond
  <1>6. ASSUME NEW u \in Pushers, NEW m, NEW n, Linking(u, m, n)
        PROVE  Linking(u, m, n)'
    <2>1. u # t /\ u \in Threads BY <1>6 DEF Linking, Threads
    <2>. QED BY <1>6, <2>1 DEF Linking, Others, At, NodeOf
  <1>7. Back(M, s)'
    <2>1. back' = [begin |-> M[s], end |-> M[Pushed']] BY <1>1 DEF Back
    <2>2. ASSUME NEW k \in s + 1 .. Pushed
          PROVE  /\ data'[M[k]] = history[k]
                 /\ \/ next'[M[k - 1]] = M[k]
                    \/ next'[M[k - 1]] = Null /\ \E u \in Pushers : Linking(u, M[k - 1], M[k])'
      <3>1. k \in s..Pushed /\ k - 1 \in s..Pushed BY <1>1
      <3>2. data[M[k]] = history[k]
            /\ (\/ next[M[k - 1]] = M[k]
                \/ next[M[k - 1]] = Null /\ \E u \in Pushers : Linking(u, M[k - 1], M[k]))
        BY <1>1 DEF Back
      <3>. QED BY <1>4, <1>6, <3>1, <3>2
    <2>3. next'[M[Pushed]] = Null
      <3>1. Pushed \in s..Pushed BY <1>1 DEF Counted
      <3>. QED BY <1>1, <1>4, <3>1 DEF Back
    <2>. QED BY <1>1, <2>1, <2>2, <2>3 DEF Back
  <1>8. ASSUME NEW u \in Threads \ {t}, NEW n \in Nodes, Owns(u, n, D)
        PROVE  next'[n] = next[n] /\ data'[n] = data[n]
    BY <1>1, <1>8 DEF Apart, Loose
  <1>9. ASSUME NEW u \in Pushers PROVE PushOk(M, s, u)'
    <2>1. CASE u = t BY <2>1
    <2>2. CASE u # t
      <3>1. /\ u \in Threads \ {t} /\ pc'[u] = pc[u] /\ item'[u] = item[u]
            /\ reg'[u] = reg[u] /\ NodeOf(u)' = NodeOf(u) /\ PushOk(M, s, u)
        BY <2>2 DEF Others, NodeOf, Lists, Threads
      <3>2. pc[u] \in {"lock", "append"} =>
              next'[NodeOf(u)] = next[NodeOf(u)] /\ data'[NodeOf(u)] = data[NodeOf(u)]
        <4>1. pc[u] \in {"lock", "append"} => NodeOf(u) \in Nodes /\ Owns(u, NodeOf(u), D)
          BY DEF LocalsOk, Owns
        <4>. QED BY <1>8, <3>1, <4>1
      <3>3. At(u, "link") => \E k \in s + 1 .. Pushed :
              /\ item'[u] = history[k]
              /\ reg'[u] = M[k - 1] /\ NodeOf(u)' = M[k]
              /\ next'[M[k - 1]] = Null
        <4>. SUFFICES ASSUME At(u, "link") PROVE
               \E k \in s + 1 .. Pushed :
                 /\ item'[u] = history[k]
                 /\ reg'[u] = M[k - 1] /\ NodeOf(u)' = M[k]
                 /\ next'[M[k - 1]] = Null
          OBVIOUS
        <4>1. PICK k \in s + 1 .. Pushed :
                /\ item[u] = history[k]
                /\ reg[u] = M[k - 1] /\ NodeOf(u) = M[k]
                /\ next[M[k - 1]] = Null
          BY <3>1 DEF PushOk
        <4>2. k - 1 \in s..Pushed BY <1>1
        <4>. QED BY <1>4, <3>1, <4>1, <4>2
      <3>. QED BY <1>1, <3>1, <3>2, <3>3 DEF PushOk, At
    <2>. QED BY <2>1, <2>2
  <1>10. ASSUME NEW u \in Poppers PROVE PopOk(L, s, u)'
    <2>1. CASE u = t BY <2>1
    <2>2. CASE u # t
      <3>1. /\ pc'[u] = pc[u] /\ h0'[u] = h0[u] /\ h1'[u] = h1[u] /\ PopOk(L, s, u)
        BY <2>2 DEF Others, Lists, Threads
      <3>. QED BY <3>1 DEF PopOk, At
    <2>. QED BY <2>1, <2>2
  <1>11. ASSUME NEW u \in Clearers PROVE ClearOk(D2, u)'
    <2>1. CASE u = t BY <2>1
    <2>2. CASE u # t
      <3>1. /\ u \in Threads \ {t} /\ pc'[u] = pc[u] /\ node'[u] = node[u] /\ ClearOk(D, u)
            /\ D2[u] = D[u] /\ D[u] \subseteq Nodes
        BY <1>1, <2>2 DEF Others, Lists, Threads
      <3>2. ASSUME At(u, "exchange")
            PROVE  next'[node[u][1]] = next[node[u][1]] /\ next'[node[u][2]] = next[node[u][2]]
        <4>1. PICK m, n \in Nodes : node[u] = <<m, n>> BY <3>2 DEF LocalsOk
        <4>2. Owns(u, node[u][1], D) /\ Owns(u, node[u][2], D) BY <3>2 DEF Owns
        <4>. QED BY <1>8, <3>1, <4>1, <4>2
      <3>3. ASSUME At(u, "dispose"), NEW m \in D[u] PROVE next'[m] = next[m]
        <4>1. Owns(u, m, D) BY <3>3 DEF Owns
        <4>. QED BY <1>8, <3>1, <4>1
      <3>. QED BY <3>1, <3>2, <3>3 DEF ClearOk, At
    <2>. QED BY <2>1, <2>2
  <1>. QED BY <1>2, <1>5, <1>7, <1>9, <1>10, <1>11 DEF Lists

ListsKept == \E L, M, s, D : Lists(L, M, s, D)'

\* A step that leaves the nodes alone, and gives none away.
LEMMA Quiet ==
    ASSUME TypeOK, LocalsOk, Counted, NEW L, NEW M, NEW s, NEW D, NEW t \in Threads,
           Lists(L, M, s, D), Others(t), ~ At(t, "link"),
           UNCHANGED <<frond, back, next, data, free, retired, taken, history>>,
           counted' \in Nat, counted' >= counted,
           \A n \in Nodes : Owns(t, n, D)' => Owns(t, n, D),
           t \in Pushers => PushOk(M, s, t)',
           t \in Poppers => PopOk(L, s, t)',
           t \in Clearers => ClearOk(D, t)'
    PROVE  Lists(L, M, s, D)'
  <1>1. Loose' = Loose BY DEF Loose
  <1>2. Apart(L, M, s, D) /\ D \in [Clearers -> SUBSET Nodes] BY DEF Lists, Places
  <1>3. \A u \in Threads \ {t}, n \in Nodes : Owns(u, n, D)' => Owns(u, n, D)
    BY DEF Others, Owns, At, NodeOf
  <1>4. Apart(L, M, s, D)'
    <2>1. free' \cap retired' = {} BY <1>2 DEF Apart
    <2>2. \A n \in Nodes : Owns(t, n, D) => n \notin Loose BY <1>2 DEF Apart
    <2>. QED BY <1>1, <1>2, <1>3, <2>1, <2>2, ApartStep
  <1>. QED BY <1>2, <1>4, Frame

\* push: to take the mutex, to count and to return change nothing of the lists.
LEMMA ListsPushQuiet ==
    ASSUME IInv, NEW t \in Pushers, PushLock(t) \/ PushCount(t) \/ Return(t)
    PROVE  ListsKept
  <1>. USE DEF Goto, At, listVars, nodeVars, poolVars, histVars, callVars
  <1>1. /\ t \in Threads /\ TypeOK /\ LocalsOk /\ Items /\ Counted /\ counted \in Nat
        /\ t \notin Poppers /\ t \notin Clearers
    BY ConstantsOk DEF Threads, IInv, TypeOK
  <1>2. PICK L, M, s, D : Lists(L, M, s, D) BY DEF IInv
  <1>3. PushOk(M, s, t) BY <1>2 DEF Lists
  <1>4. CASE PushLock(t)
    <2>1. /\ pc[t] = "lock" /\ pc'[t] = "append"
          /\ UNCHANGED <<frond, back, next, data, free, retired, taken, history, counted>>
          /\ UNCHANGED <<node, reg, item>>
      BY <1>1, <1>4 DEF PushLock, TypeOK
    <2>2. Others(t) BY <1>1, <1>4 DEF PushLock, TypeOK, Others
    <2>3. \A n \in Nodes : Owns(t, n, D)' => Owns(t, n, D)
      BY <1>1, <2>1 DEF Owns, NodeOf
    <2>4. PushOk(M, s, t)' BY <1>3, <2>1 DEF PushOk, NodeOf
    <2>5. Lists(L, M, s, D)' BY <1>1, <1>2, <2>1, <2>2, <2>3, <2>4, Quiet
    <2>. QED BY <2>5 DEF ListsKept
  <1>5. CASE PushCount(t)
    <2>1. /\ pc[t] = "pcount" /\ pc'[t] = "return"
          /\ UNCHANGED <<frond, back, next, data, free, retired, taken, history>>
      BY <1>1, <1>5 DEF PushCount, TypeOK
    <2>2. Others(t) BY <1>1, <1>5 DEF PushCount, TypeOK, Others
    <2>3. \A n \in Nodes : Owns(t, n, D)' => Owns(t, n, D)
      BY <1>1, <2>1 DEF Owns, NodeOf
    <2>4. PushOk(M, s, t)' BY <2>1 DEF PushOk
    <2>5. counted' \in Nat /\ counted' >= counted
      <3>1. PICK k \in 1..Pushed : item[t] = history[k]
        <4>1. PICK k \in s + 1 .. Pushed : item[t] = history[k] BY <1>3, <2>1 DEF PushOk
        <4>2. s \in Nat /\ Pushed \in Nat BY <1>1, <1>2 DEF Lists, Places, TypeOK, Pushed
        <4>. QED BY <4>1, <4>2
      <3>2. counted' = IF k > counted THEN k ELSE counted BY <1>1, <1>5, <3>1, Count
      <3>3. k \in Nat OBVIOUS
      <3>. QED BY <1>1, <3>2, <3>3
    <2>6. Lists(L, M, s, D)' BY <1>1, <1>2, <2>1, <2>2, <2>3, <2>4, <2>5, Quiet
    <2>. QED BY <2>6 DEF ListsKept
  <1>6. CASE Return(t)
    <2>1. /\ pc[t] = "return" /\ pc'[t] = "idle"
          /\ UNCHANGED <<frond, back, next, data, free, retired, taken, history, counted>>
      BY <1>1, <1>6 DEF Return, TypeOK
    <2>2. Others(t) BY <1>1, <1>6 DEF Return, TypeOK, Others
    <2>3. \A n \in Nodes : Owns(t, n, D)' => Owns(t, n, D)
      BY <1>1, <2>1 DEF Owns
    <2>4. PushOk(M, s, t)' BY <2>1 DEF PushOk
    <2>5. Lists(L, M, s, D)' BY <1>1, <1>2, <2>1, <2>2, <2>3, <2>4, Quiet
    <2>. QED BY <2>5 DEF ListsKept
  <1>. QED BY <1>4, <1>5, <1>6

\* push: the new node is in no list.
LEMMA ListsPushCall ==
    ASSUME IInv, NEW t \in Pushers, PushCall(t)
    PROVE  ListsKept
  <1>. USE DEF Goto, At, listVars, nodeVars, poolVars, histVars, callVars
  <1>1. /\ t \in Threads /\ TypeOK /\ LocalsOk /\ Items /\ Counted /\ counted \in Nat
        /\ t \notin Poppers /\ t \notin Clearers
    BY ConstantsOk DEF Threads, IInv, TypeOK
  <1>2. PICK L, M, s, D : Lists(L, M, s, D) BY DEF IInv
  <1>3. PICK v \in Values, x \in free : item' = [item EXCEPT ![t] = v] /\ NewNodes(t, <<x>>, v)
    BY DEF PushCall
  <1>4. /\ pc[t] = "idle" /\ pc'[t] = "lock" /\ item'[t] = v
        /\ UNCHANGED <<frond, back, retired, taken, history, counted>>
    BY <1>1, <1>3 DEF PushCall, TypeOK
  <1>5. ToSet(<<x>>) = {x} BY DEF ToSet
  <1>6. /\ free' = free \ {x} /\ x \in Nodes /\ x \notin retired /\ node' = [node EXCEPT ![t] = <<x>>]
        /\ \A m \in Nodes : m # x => next'[m] = next[m] /\ data'[m] = data[m]
        /\ next'[x] = Null /\ data'[x] = v
    BY <1>1, <1>2, <1>3, <1>5 DEF NewNodes, TypeOK, Lists, Apart
  <1>7. Others(t) BY <1>1, <1>3, <1>6 DEF PushCall, TypeOK, Others
  <1>8. NodeOf(t)' = x BY <1>1, <1>6 DEF NodeOf, TypeOK
  <1>9. PushOk(M, s, t)' BY <1>4, <1>6, <1>8 DEF PushOk
  <1>10. Apart(L, M, s, D) /\ D \in [Clearers -> SUBSET Nodes] BY <1>2 DEF Lists, Places
  <1>11. \A u \in Threads \ {t}, n \in Nodes : Owns(u, n, D)' => Owns(u, n, D)
    BY <1>7 DEF Others, Owns, NodeOf
  <1>12. \A n \in Nodes : Owns(t, n, D)' => n = x BY <1>1, <1>8 DEF Owns
  <1>13. Apart(L, M, s, D)'
    <2>1. x \in Loose /\ x \notin Loose' BY <1>4, <1>6 DEF Loose
    <2>2. \A n \in Nodes : n \in Loose' => n \in Loose BY <1>4, <1>6 DEF Loose
    <2>3. free' \cap retired' = {} BY <1>4, <1>6, <1>10 DEF Apart
    <2>. QED BY <1>1, <1>4, <1>10, <1>11, <1>12, <2>1, <2>2, <2>3, ApartStep
  <1>14. Lists(L, M, s, D)' BY <1>1, <1>2, <1>4, <1>6, <1>7, <1>9, <1>10, <1>13, Frame
  <1>. QED BY <1>14 DEF ListsKept

\* push: the exchange of _end appends the node, to be linked by this push.
LEMMA ListsPushAppend ==
    ASSUME IInv, NEW t \in Pushers, PushAppend(t)
    PROVE  ListsKept
  <1>. USE DEF Goto, At, listVars, nodeVars, poolVars, histVars, callVars
  <1>1. /\ t \in Threads /\ TypeOK /\ LocalsOk /\ Items /\ Counted /\ counted \in Nat
        /\ t \notin Poppers /\ t \notin Clearers /\ taken \in Nat /\ Pushed \in Nat
        /\ pc[t] = "append" /\ NodeOf(t) \in Nodes /\ item[t] \in Values
    BY ConstantsOk DEF Threads, IInv, TypeOK, Pushed, PushAppend, LocalsOk
  <1>2. PICK L, M, s, D : Lists(L, M, s, D) BY DEF IInv
  <1>3. PICK n \in Nodes, P \in Nat : n = NodeOf(t) /\ P = Pushed BY <1>1
  <1>4. /\ L \in [Nat -> Nodes] /\ M \in [Nat -> Nodes] /\ D \in [Clearers -> SUBSET Nodes]
        /\ s \in Nat /\ taken <= s /\ s <= counted /\ s <= P
        /\ Apart(L, M, s, D) /\ Frond(L, s) /\ Back(M, s) /\ PushOk(M, s, t)
    BY <1>1, <1>2, <1>3 DEF Lists, Places, Counted
  <1>5. /\ pc'[t] = "link" /\ reg'[t] = back.end
        /\ UNCHANGED <<frond, next, data, free, retired, taken, counted, node, item, h0, h1>>
        /\ back' = [back EXCEPT !.end = n] /\ history' = Append(history, item[t])
    BY <1>1, <1>3 DEF PushAppend, TypeOK, NodeOf
  <1>6. Others(t) BY <1>1 DEF PushAppend, TypeOK, Others
  <1>7. /\ Pushed' = P + 1 /\ history'[P + 1] = item[t]
        /\ \A k \in 1..P : history'[k] = history[k]
    BY <1>1, <1>3, <1>5, HistoryGrows DEF TypeOK, Pushed
  <1>8. PICK M2 \in [Nat -> Nodes] : /\ M2[P + 1] = n
                                     /\ \A k \in s..P : M2[k] = M[k]
    <2>. DEFINE M2 == [M EXCEPT ![P + 1] = n]
    <2>1. M2 \in [Nat -> Nodes] BY <1>4
    <2>2. M2[P + 1] = n BY <1>4
    <2>3. \A k \in s..P : M2[k] = M[k] BY <1>4
    <2>. QED BY <2>1, <2>2, <2>3
  <1>9. Owns(t, n, D) BY <1>1, <1>3 DEF Owns
  <1>10. ~ InFrond(L, s, n) /\ ~ InBack(M, s, n) /\ n \notin Loose
         /\ \A u \in Threads \ {t} : ~ Owns(u, n, D)
    BY <1>1, <1>4, <1>9 DEF Apart
  <1>11. \A m : InBack(M2, s, m)' <=> InBack(M, s, m) \/ m = n
    <2>1. \A k \in s..(P + 1) : k \in s..P \/ k = P + 1 BY <1>4
    <2>2. s..P \subseteq s..(P + 1) /\ P + 1 \in s..(P + 1) BY <1>4
    <2>. QED BY <1>3, <1>7, <1>8, <2>1, <2>2 DEF InBack
  <1>12. Apart(L, M2, s, D)'
    <2>1. \A m : InFrond(L, s, m)' <=> InFrond(L, s, m) BY <1>5 DEF InFrond
    <2>2. \A u \in Threads, m \in Nodes : Owns(u, m, D)' => Owns(u, m, D) /\ m # n
      BY <1>1, <1>5, <1>6, <1>10 DEF Owns, Others, NodeOf
    <2>3. Loose' = Loose BY <1>5 DEF Loose
    <2>4. \A j, k \in s..Pushed' : M2[j] = M2[k] => j = k
      <3>. SUFFICES ASSUME NEW j \in s..(P + 1), NEW k \in s..(P + 1), M2[j] = M2[k] PROVE j = k
        BY <1>7
      <3>1. j \in s..P \/ j = P + 1 BY <1>4
      <3>2. k \in s..P \/ k = P + 1 BY <1>4
      <3>3. \A i \in s..P : M[i] # n BY <1>3, <1>10 DEF InBack
      <3>. QED BY <1>3, <1>4, <1>8, <3>1, <3>2, <3>3 DEF Apart
    <2>5. \A j \in taken..s, k \in s..Pushed' : L[j] # M2[k]
      <3>. SUFFICES ASSUME NEW j \in taken..s, NEW k \in s..(P + 1) PROVE L[j] # M2[k]
        BY <1>7
      <3>1. k \in s..P \/ k = P + 1 BY <1>4
      <3>2. L[j] # n BY <1>10 DEF InFrond
      <3>. QED BY <1>3, <1>4, <1>8, <3>1, <3>2 DEF Apart
    <2>. QED BY <1>4, <1>5, <1>10, <1>11, <2>1, <2>2, <2>3, <2>4, <2>5 DEF Apart
  <1>13. Frond(L, s)'
    <2>1. \A k \in taken + 1 .. s : k \in 1..P BY <1>1, <1>4
    <2>. QED BY <1>4, <1>5, <1>7, <2>1 DEF Frond
  <1>14. back.begin = M[s] /\ back.end = M[P] BY <1>3, <1>4 DEF Back
  <1>15. ASSUME NEW u \in Pushers, NEW a, NEW b, Linking(u, a, b)
         PROVE  Linking(u, a, b)'
    <2>1. u # t /\ u \in Threads BY <1>1, <1>15 DEF Linking, Threads
    <2>. QED BY <1>6, <1>15, <2>1 DEF Linking, Others, NodeOf
  <1>16. Linking(t, M[P], n)' BY <1>3, <1>5, <1>14 DEF Linking, NodeOf
  <1>17. Back(M2, s)'
    <2>1. back' = [begin |-> M2[s], end |-> M2[Pushed']]
      <3>1. back \in Ends /\ s \in s..P BY <1>1, <1>4 DEF TypeOK
      <3>. QED BY <1>5, <1>7, <1>8, <1>14, <3>1 DEF Ends
    <2>2. ASSUME NEW k \in s + 1 .. P + 1
          PROVE  /\ data[M2[k]] = history'[k]
                 /\ \/ next[M2[k - 1]] = M2[k]
                    \/ next[M2[k - 1]] = Null /\ \E u \in Pushers : Linking(u, M2[k - 1], M2[k])'
      <3>1. CASE k = P + 1
        <4>1. k - 1 = P /\ P \in s..P BY <1>4, <3>1
        <4>2. data[n] = item[t] BY <1>1, <1>3, <1>4 DEF PushOk
        <4>3. next[M[P]] = Null BY <1>3, <1>4 DEF Back
        <4>. QED BY <1>7, <1>8, <1>16, <3>1, <4>1, <4>2, <4>3
      <3>2. CASE k # P + 1
        <4>1. k \in s + 1 .. P /\ k \in s..P /\ k - 1 \in s..P /\ k \in 1..P BY <1>4, <3>2
        <4>2. /\ data[M[k]] = history[k]
              /\ \/ next[M[k - 1]] = M[k]
                 \/ next[M[k - 1]] = Null /\ \E u \in Pushers : Linking(u, M[k - 1], M[k])
          BY <1>3, <1>4, <4>1 DEF Back
        <4>. QED BY <1>7, <1>8, <1>15, <4>1, <4>2
      <3>. QED BY <3>1, <3>2
    <2>3. next[n] = Null BY <1>1, <1>3, <1>4 DEF PushOk
    <2>. QED BY <1>5, <1>7, <1>8, <2>1, <2>2, <2>3 DEF Back
  <1>18. ASSUME NEW u \in Pushers PROVE PushOk(M2, s, u)'
    <2>1. CASE u = t
      <3>1. P + 1 \in s + 1 .. P + 1 /\ (P + 1) - 1 = P /\ P \in s..P BY <1>4
      <3>2. next[M[P]] = Null BY <1>3, <1>4 DEF Back
      <3>3. NodeOf(t)' = n BY <1>3, <1>5 DEF NodeOf
      <3>. QED BY <1>5, <1>7, <1>8, <1>14, <2>1, <3>1, <3>2, <3>3 DEF PushOk
    <2>2. CASE u # t
      <3>1. /\ u \in Threads \ {t} /\ pc'[u] = pc[u] /\ item'[u] = item[u]
            /\ reg'[u] = reg[u] /\ NodeOf(u)' = NodeOf(u) /\ PushOk(M, s, u)
        BY <1>2, <1>6, <2>2 DEF Others, NodeOf, Lists, Threads
      <3>2. \A k \in s + 1 .. P : /\ k \in s + 1 .. P + 1 /\ history'[k] = history[k]
                                  /\ M2[k] = M[k] /\ M2[k - 1] = M[k - 1]
        <4>1. \A k \in s + 1 .. P : k \in s + 1 .. P + 1 /\ k \in s..P /\ k - 1 \in s..P /\ k \in 1..P
          BY <1>4
        <4>. QED BY <1>7, <1>8, <4>1
      <3>. QED BY <1>3, <1>5, <1>7, <3>1, <3>2 DEF PushOk
    <2>. QED BY <2>1, <2>2
  <1>19. ASSUME NEW u \in Poppers PROVE PopOk(L, s, u)'
    <2>1. u \in Threads \ {t} /\ PopOk(L, s, u) BY <1>1, <1>2 DEF Threads, Lists
    <2>. QED BY <1>5, <1>6, <2>1 DEF PopOk, Others
  <1>20. ASSUME NEW u \in Clearers PROVE ClearOk(D, u)'
    <2>1. u \in Threads \ {t} /\ ClearOk(D, u) BY <1>1, <1>2 DEF Threads, Lists
    <2>. QED BY <1>5, <1>6, <2>1 DEF ClearOk, Others
  <1>21. Places(L, M2, s, D)' BY <1>4, <1>5, <1>8 DEF Places
  <1>. QED BY <1>12, <1>13, <1>17, <1>18, <1>19, <1>20, <1>21 DEF Lists, ListsKept

\* push: the node it links to is the one before its own, in the back list.
LEMMA ListsPushLink ==
    ASSUME IInv, NEW t \in Pushers, PushLink(t)
    PROVE  ListsKept
  <1>. USE DEF Goto, At, listVars, nodeVars, poolVars, histVars, callVars
  <1>1. /\ t \in Threads /\ TypeOK /\ LocalsOk /\ Items /\ Counted /\ counted \in Nat
        /\ t \notin Poppers /\ t \notin Clearers /\ taken \in Nat /\ Pushed \in Nat
        /\ pc[t] = "link" /\ item[t] \in Values /\ Null \notin Values
    BY ConstantsOk DEF Threads, IInv, TypeOK, Pushed, PushLink, LocalsOk
  <1>2. PICK L, M, s, D : Lists(L, M, s, D) BY DEF IInv
  <1>3. PICK P \in Nat : P = Pushed BY <1>1
  <1>4. /\ L \in [Nat -> Nodes] /\ M \in [Nat -> Nodes] /\ D \in [Clearers -> SUBSET Nodes]
        /\ s \in Nat /\ taken <= s /\ s <= counted /\ s <= P
        /\ Apart(L, M, s, D) /\ Frond(L, s) /\ Back(M, s) /\ PushOk(M, s, t)
    BY <1>1, <1>2, <1>3 DEF Lists, Places, Counted
  <1>5. PICK k \in s + 1 .. P : /\ item[t] = history[k] /\ reg[t] = M[k - 1] /\ NodeOf(t) = M[k]
                                /\ next[M[k - 1]] = Null
    BY <1>1, <1>3, <1>4 DEF PushOk
  <1>6. k \in Nat /\ k \in s..P /\ k - 1 \in s..P /\ k \in 1..P BY <1>4
  <1>7. /\ pc'[t] = "pcount"
        /\ UNCHANGED <<frond, back, data, free, retired, history, taken, counted>>
        /\ UNCHANGED <<node, reg, item, h0, h1>>
        /\ next'[M[k - 1]] = M[k]
        /\ \A m \in Nodes : m # M[k - 1] => next'[m] = next[m]
    <2>1. M[k - 1] \in Nodes BY <1>4, <1>6
    <2>. QED BY <1>1, <1>5, <2>1 DEF PushLink, TypeOK, NodeOf
  <1>8. Others(t) BY <1>1 DEF PushLink, TypeOK, Others
  <1>9. Pushed' = P BY <1>3, <1>7 DEF Pushed
  <1>10. Apart(L, M, s, D)'
    <2>1. \A n \in Nodes : ~ Owns(t, n, D) /\ ~ Owns(t, n, D)' BY <1>1, <1>7 DEF Owns
    <2>2. \A u \in Threads \ {t}, n \in Nodes : Owns(u, n, D)' => Owns(u, n, D)
      BY <1>8 DEF Others, Owns, NodeOf
    <2>3. Loose' = Loose BY <1>7 DEF Loose
    <2>4. free' \cap retired' = {} BY <1>4, <1>7 DEF Apart
    <2>. QED BY <1>1, <1>4, <1>7, <2>1, <2>2, <2>3, <2>4, ApartStep
  <1>11. \A j \in s..P : M[j] \in Nodes /\ (M[j] = M[k - 1] => j = k - 1)
    BY <1>3, <1>4, <1>6 DEF Apart
  <1>12. \A j \in taken..s : L[j] \in Nodes /\ L[j] # M[k - 1]
    BY <1>1, <1>3, <1>4, <1>6 DEF Apart
  <1>13. \A u \in Threads, n \in Nodes : Owns(u, n, D) => n # M[k - 1]
    <2>1. InBack(M, s, M[k - 1]) BY <1>3, <1>6 DEF InBack
    <2>. QED BY <1>4, <2>1 DEF Apart
  <1>14. Frond(L, s)'
    <2>1. \A j \in taken + 1 .. s : j - 1 \in taken..s BY <1>1, <1>4
    <2>2. s \in taken..s BY <1>1, <1>4
    <2>. QED BY <1>4, <1>7, <1>12, <2>1, <2>2 DEF Frond
  <1>15. ASSUME NEW j \in s + 1 .. P
         PROVE  /\ data[M[j]] = history[j]
                /\ \/ next'[M[j - 1]] = M[j]
                   \/ next'[M[j - 1]] = Null /\ \E u \in Pushers : Linking(u, M[j - 1], M[j])'
    <2>1. j - 1 \in s..P /\ j \in Nat BY <1>4
    <2>2. data[M[j]] = history[j]
          /\ (\/ next[M[j - 1]] = M[j]
              \/ next[M[j - 1]] = Null /\ \E u \in Pushers : Linking(u, M[j - 1], M[j]))
      BY <1>3, <1>4 DEF Back
    <2>3. CASE j = k BY <1>7, <2>2, <2>3
    <2>4. CASE j # k
      <3>1. next'[M[j - 1]] = next[M[j - 1]] BY <1>6, <1>7, <1>11, <2>1, <2>4
      <3>2. ASSUME NEW u \in Pushers, Linking(u, M[j - 1], M[j])
            PROVE  Linking(u, M[j - 1], M[j])'
        <4>1. u # t BY <1>5, <1>6, <1>11, <2>1, <2>4, <3>2 DEF Linking
        <4>2. u \in Threads \ {t} BY <4>1 DEF Threads
        <4>. QED BY <1>8, <3>2, <4>2 DEF Linking, Others, NodeOf
      <3>. QED BY <2>2, <3>1, <3>2
    <2>. QED BY <2>3, <2>4
  <1>16. next'[M[P]] = Null
    <2>1. P \in s..P /\ P # k - 1 BY <1>4, <1>6
    <2>. QED BY <1>3, <1>4, <1>7, <1>11, <2>1 DEF Back
  <1>17. Back(M, s)' BY <1>3, <1>4, <1>7, <1>9, <1>15, <1>16 DEF Back
  <1>18. ASSUME NEW u \in Pushers PROVE PushOk(M, s, u)'
    <2>1. CASE u = t BY <1>5, <1>7, <1>9, <2>1 DEF PushOk
    <2>2. CASE u # t
      <3>1. /\ u \in Threads \ {t} /\ pc'[u] = pc[u] /\ item'[u] = item[u]
            /\ reg'[u] = reg[u] /\ NodeOf(u)' = NodeOf(u) /\ PushOk(M, s, u)
        BY <1>2, <1>8, <2>2 DEF Others, NodeOf, Lists, Threads
      <3>2. pc[u] \in {"lock", "append"} => next'[NodeOf(u)] = next[NodeOf(u)]
        <4>1. pc[u] \in {"lock", "append"} => NodeOf(u) \in Nodes /\ Owns(u, NodeOf(u), D)
          BY <1>1 DEF LocalsOk, Owns
        <4>. QED BY <1>7, <1>13, <3>1, <4>1
      <3>3. ASSUME pc[u] = "link"
            PROVE  \E j \in s + 1 .. P :
                     /\ item[u] = history[j] /\ reg[u] = M[j - 1] /\ NodeOf(u) = M[j]
                     /\ next'[M[j - 1]] = Null
        <4>1. PICK j \in s + 1 .. P :
                     /\ item[u] = history[j] /\ reg[u] = M[j - 1] /\ NodeOf(u) = M[j]
                     /\ next[M[j - 1]] = Null
          BY <1>3, <3>1, <3>3 DEF PushOk
        <4>2. j # k BY <1>1, <1>5, <2>2, <4>1 DEF Items
        <4>3. j - 1 \in s..P /\ j - 1 # k - 1 BY <1>4, <1>6, <4>2
        <4>. QED BY <1>7, <1>11, <4>1, <4>3
      <3>. QED BY <1>3, <1>7, <1>9, <3>1, <3>2, <3>3 DEF PushOk
    <2>. QED BY <2>1, <2>2
  <1>19. ASSUME NEW u \in Poppers PROVE PopOk(L, s, u)'
    <2>1. u \in Threads \ {t} /\ PopOk(L, s, u) BY <1>1, <1>2 DEF Threads, Lists
    <2>. QED BY <1>7, <1>8, <2>1 DEF PopOk, Others
  <1>20. ASSUME NEW u \in Clearers PROVE ClearOk(D, u)'
    <2>1. u \in Threads \ {t} /\ ClearOk(D, u) /\ D[u] \subseteq Nodes
      BY <1>1, <1>2, <1>4 DEF Threads, Lists
    <2>2. ASSUME pc[u] = "exchange"
          PROVE  next'[node[u][1]] = next[node[u][1]] /\ next'[node[u][2]] = next[node[u][2]]
      <3>1. PICK m, n \in Nodes : node[u] = <<m, n>> BY <1>1, <2>2 DEF LocalsOk
      <3>2. Owns(u, node[u][1], D) /\ Owns(u, node[u][2], D) BY <2>2 DEF Owns
      <3>. QED BY <1>7, <1>13, <2>1, <3>1, <3>2
    <2>3. ASSUME pc[u] = "dispose", NEW m \in D[u] PROVE next'[m] = next[m]
      <3>1. Owns(u, m, D) BY <2>3 DEF Owns
      <3>. QED BY <1>7, <1>13, <2>1, <3>1
    <2>4. pc'[u] = pc[u] /\ node'[u] = node[u] BY <1>8, <2>1 DEF Others
    <2>. QED BY <2>1, <2>2, <2>3, <2>4 DEF ClearOk
  <1>21. Places(L, M, s, D)' BY <1>4, <1>7 DEF Places
  <1>. QED BY <1>10, <1>14, <1>17, <1>18, <1>19, <1>20, <1>21 DEF Lists, ListsKept

\* pop: the steps that read change nothing of the lists.
LEMMA ListsPopQuiet ==
    ASSUME IInv, NEW t \in Poppers, PopStep(t), UNCHANGED <<frond, back, free, retired, taken>>
    PROVE  ListsKept
  <1>. USE DEF Goto, At, listVars, nodeVars, poolVars, histVars, callVars
  <1>1. /\ t \in Threads /\ TypeOK /\ LocalsOk /\ Counted /\ counted \in Nat /\ taken \in Nat
        /\ t \notin Pushers /\ t \notin Clearers
    BY ConstantsOk DEF Threads, IInv, TypeOK
  <1>2. PICK L, M, s, D : Lists(L, M, s, D) BY DEF IInv
  <1>3. /\ PopOk(L, s, t) /\ frond.begin = L[taken] /\ frond.end = L[s]
        /\ s \in Nat /\ taken <= s /\ L \in [Nat -> Nodes] /\ Frond(L, s) /\ Apart(L, M, s, D)
        /\ s \in taken..s /\ taken \in taken..s
    BY <1>1, <1>2 DEF Lists, Frond, Places
  <1>4. SUFFICES /\ UNCHANGED <<next, data, history, counted>> /\ pc[t] # "link"
                 /\ pc'[t] \in {"read", "retire"} =>
                       pc[t] \in {"read", "retire"} /\ h0'[t] = h0[t]
                 /\ Others(t) /\ PopOk(L, s, t)'
    <2>1. \A n \in Nodes : Owns(t, n, D)' => Owns(t, n, D)
      BY <1>1, <1>3, <1>4 DEF Owns, PopOk
    <2>2. Lists(L, M, s, D)' BY <1>1, <1>2, <1>4, <2>1, Quiet
    <2>. QED BY <2>2 DEF ListsKept
  <1>. USE DEF TypeOK
  <1>5. CASE PopCall(t) BY <1>1, <1>3, <1>5 DEF PopCall, PopOk, Others
  <1>6. CASE PopEmpty(t) BY <1>1, <1>3, <1>6 DEF PopEmpty, PopOk, Others
  <1>7. CASE PopLock(t) BY <1>1, <1>3, <1>7 DEF PopLock, PopOk, Others
  <1>8. CASE PopBegin(t) BY <1>1, <1>3, <1>8 DEF PopBegin, PopOk, Others
  <1>9. CASE PopEnd(t)
    <2>1. pc[t] = "end" /\ h0[t] = L[taken] BY <1>3, <1>9 DEF PopEnd, PopOk
    <2>2. h0[t] = frond.end => taken = s BY <1>3, <2>1 DEF Apart
    <2>3. pc'[t] = IF h0[t] = frond.end THEN "size" ELSE "next" BY <1>1, <1>9 DEF PopEnd
    <2>4. h0[t] # frond.end => taken < s BY <1>1, <1>3, <2>1
    <2>5. Others(t) /\ UNCHANGED <<next, data, history, counted, h0, h1>>
      BY <1>1, <1>9 DEF PopEnd, Others
    <2>. QED BY <1>1, <1>3, <2>1, <2>2, <2>3, <2>4, <2>5 DEF PopOk
  <1>10. CASE PopSize(t)
    <2>1. /\ pc[t] = "size" /\ pc'[t] \in {"return", "swap"} /\ Others(t)
          /\ UNCHANGED <<next, data, history, counted, h0, h1>>
      BY <1>1, <1>10 DEF PopSize, Others
    <2>. QED BY <1>1, <1>3, <2>1 DEF PopOk
  <1>11. CASE PopSwap(t) BY <1>1, <1>3, <1>11 DEF PopSwap, PopOk, Others
  <1>12. CASE PopNext(t)
    <2>1. /\ pc[t] = "next" /\ pc'[t] = "unlink" /\ Others(t) /\ h1'[t] = next[h0[t]]
          /\ UNCHANGED <<next, data, history, counted, h0>>
      BY <1>1, <1>12 DEF PopNext, Others
    <2>2. h0[t] = L[taken] /\ taken < s BY <1>3, <2>1 DEF PopOk
    <2>3. next[L[taken]] = L[taken + 1]
      <3>1. PICK k \in Nat : k = taken + 1 BY <1>1
      <3>2. k - 1 = taken /\ k \in taken + 1 .. s BY <1>1, <1>3, <2>2, <3>1
      <3>3. next[L[k - 1]] = L[k] BY <1>3, <3>2 DEF Frond
      <3>. QED BY <3>1, <3>2, <3>3
    <2>. QED BY <1>1, <2>1, <2>2, <2>3 DEF PopOk
  <1>13. CASE PopUnlink(t)
    <2>1. frond.begin # h0[t]
      BY <1>1, <1>13 DEF PopUnlink
    <2>. QED BY <1>3, <1>13, <2>1 DEF PopUnlink, PopOk
  <1>14. CASE PopRead(t) BY <1>1, <1>3, <1>14 DEF PopRead, PopOk, Others
  <1>15. CASE PopRetire(t)
    <2>1. h0[t] \in retired' /\ retired' = retired BY <1>15 DEF PopRetire, Retire
    <2>2. pc[t] = "retire" /\ h0[t] \in Nodes BY <1>1, <1>15 DEF PopRetire, LocalsOk
    <2>3. Owns(t, h0[t], D) BY <2>2 DEF Owns
    <2>. QED BY <1>1, <1>3, <2>1, <2>2, <2>3 DEF Apart, Loose
  <1>16. CASE PopCount(t) BY <1>1, <1>3, <1>16 DEF PopCount, PopOk, Others
  <1>17. CASE Return(t) BY <1>1, <1>3, <1>17 DEF Return, PopOk, Others
  <1>. QED
    BY <1>5, <1>6, <1>7, <1>8, <1>9, <1>10, <1>11, <1>12, <1>13, <1>14, <1>15, <1>16, <1>17
    DEF PopStep

\* pop: _begin moves to the second node, and the first is the popper's own.
LEMMA ListsPopUnlink ==
    ASSUME OnePopper, IInv, NEW t \in Poppers, PopUnlink(t), frond.begin = h0[t]
    PROVE  ListsKept
  <1>. USE DEF Goto, At, listVars, nodeVars, poolVars, histVars, callVars
  <1>1. /\ t \in Threads /\ TypeOK /\ LocalsOk /\ Counted /\ counted \in Nat /\ taken \in Nat
        /\ t \notin Pushers /\ t \notin Clearers /\ Pushed \in Nat
    BY ConstantsOk DEF Threads, IInv, TypeOK, Pushed
  <1>2. PICK L, M, s, D : Lists(L, M, s, D) BY DEF IInv
  <1>3. PICK k \in Nat, P \in Nat : k = taken + 1 /\ P = Pushed BY <1>1
  <1>4. /\ L \in [Nat -> Nodes] /\ M \in [Nat -> Nodes] /\ D \in [Clearers -> SUBSET Nodes]
        /\ s \in Nat /\ taken <= s /\ s <= counted
        /\ Apart(L, M, s, D) /\ Frond(L, s) /\ Back(M, s) /\ PopOk(L, s, t)
    BY <1>2 DEF Lists, Places
  <1>5. /\ pc[t] = "unlink" /\ pc'[t] = "read" /\ taken' = k
        /\ UNCHANGED <<back, next, data, free, retired, history, counted, node, reg, item, h0, h1>>
        /\ frond' = [frond EXCEPT !.begin = h1[t]]
    BY <1>1, <1>3 DEF PopUnlink, TypeOK
  <1>6. Others(t) BY <1>1 DEF PopUnlink, TypeOK, Others
  <1>7. taken < s /\ h0[t] = L[taken] /\ h1[t] = L[k]
    BY <1>3, <1>4, <1>5 DEF PopOk
  <1>8. k <= s /\ k..s \subseteq taken..s /\ taken \in taken..s /\ taken \notin k..s
        /\ k + 1 .. s \subseteq taken + 1 .. s
    BY <1>1, <1>3, <1>4, <1>7
  <1>9. Pushed' = P BY <1>3, <1>5 DEF Pushed
  <1>10. Frond(L, s)'
    <2>1. frond \in Ends BY <1>1 DEF TypeOK
    <2>2. frond' = [begin |-> L[k], end |-> L[s]] BY <1>4, <1>5, <1>7, <2>1 DEF Frond, Ends
    <2>. QED BY <1>4, <1>5, <1>8, <2>2 DEF Frond
  <1>11. Back(M, s)'
    <2>1. \A a, b : \A u \in Pushers : Linking(u, a, b) => Linking(u, a, b)'
      <3>1. \A u \in Pushers : u \in Threads \ {t} BY <1>1 DEF Threads
      <3>. QED BY <1>6, <3>1 DEF Linking, Others, NodeOf
    <2>. QED BY <1>3, <1>4, <1>5, <1>9, <2>1 DEF Back
  <1>12. Apart(L, M, s, D)'
    <2>1. \A n : InFrond(L, s, n)' => InFrond(L, s, n) /\ n # L[taken]
      BY <1>4, <1>5, <1>8 DEF InFrond, Apart
    <2>2. \A n : InBack(M, s, n)' <=> InBack(M, s, n) BY <1>3, <1>9 DEF InBack
    <2>3. \A n \in Nodes : Owns(t, n, D)' => n = L[taken]
      BY <1>1, <1>5, <1>7 DEF Owns
    <2>4. \A u \in Threads \ {t}, n \in Nodes : Owns(u, n, D)' => Owns(u, n, D)
      BY <1>6 DEF Others, Owns, NodeOf
    <2>5. Loose' = Loose BY <1>5 DEF Loose
    <2>6. InFrond(L, s, L[taken]) BY <1>8 DEF InFrond
    <2>7. ~ InBack(M, s, L[taken]) BY <1>4, <1>8 DEF InBack, Apart
    <2>8. /\ \A i, j \in k..s : L[i] = L[j] => i = j
          /\ \A i, j \in s..P : M[i] = M[j] => i = j
          /\ \A i \in k..s, j \in s..P : L[i] # M[j]
      BY <1>3, <1>4, <1>8 DEF Apart
    <2>9. ASSUME NEW n \in Nodes, InFrond(L, s, n)' \/ InBack(M, s, n)' PROVE n \notin Loose'
      BY <1>4, <2>1, <2>2, <2>5, <2>9 DEF Apart
    <2>10. ASSUME NEW u \in Threads, NEW n \in Nodes, Owns(u, n, D)'
           PROVE  /\ ~ InFrond(L, s, n)' /\ ~ InBack(M, s, n)' /\ n \notin Loose'
                  /\ \A w \in Threads \ {u} : ~ Owns(w, n, D)'
      <3>1. CASE u = t
        <4>1. n = L[taken] BY <2>3, <2>10, <3>1
        <4>2. ~ InFrond(L, s, n)' BY <2>1, <4>1
        <4>3. ~ InBack(M, s, n)' BY <2>2, <2>7, <4>1
        <4>4. n \notin Loose' BY <1>4, <2>5, <2>6, <4>1 DEF Apart
        <4>5. ASSUME NEW w \in Threads \ {t} PROVE ~ Owns(w, n, D)'
          BY <1>4, <2>4, <2>6, <4>1 DEF Apart
        <4>. QED BY <3>1, <4>2, <4>3, <4>4, <4>5
      <3>2. CASE u # t
        <4>1. Owns(u, n, D) BY <2>4, <2>10, <3>2
        <4>2. ~ InFrond(L, s, n)' /\ ~ InBack(M, s, n)' /\ n \notin Loose'
          BY <1>4, <2>1, <2>2, <2>5, <4>1 DEF Apart
        <4>3. ASSUME NEW w \in Threads \ {u}, Owns(w, n, D)' PROVE FALSE
          <5>1. CASE w = t BY <1>4, <2>3, <2>6, <4>1, <4>3, <5>1 DEF Apart
          <5>2. CASE w # t BY <1>4, <2>4, <4>1, <4>3, <5>2 DEF Apart
          <5>. QED BY <5>1, <5>2
        <4>. QED BY <4>2, <4>3
      <3>. QED BY <3>1, <3>2
    <2>. QED BY <1>4, <1>5, <1>9, <2>8, <2>9, <2>10 DEF Apart
  <1>13. ASSUME NEW u \in Pushers PROVE PushOk(M, s, u)'
    <2>1. u \in Threads \ {t} /\ PushOk(M, s, u) BY <1>1, <1>2 DEF Threads, Lists
    <2>2. pc'[u] = pc[u] /\ item'[u] = item[u] /\ reg'[u] = reg[u] /\ NodeOf(u)' = NodeOf(u)
      BY <1>6, <2>1 DEF Others, NodeOf
    <2>. QED BY <1>3, <1>5, <1>9, <2>1, <2>2 DEF PushOk
  <1>14. ASSUME NEW u \in Poppers PROVE PopOk(L, s, u)'
    <2>1. u = t BY DEF OnePopper
    <2>. QED BY <1>5, <1>7, <2>1 DEF PopOk
  <1>15. ASSUME NEW u \in Clearers PROVE ClearOk(D, u)'
    <2>1. u \in Threads \ {t} /\ ClearOk(D, u) BY <1>1, <1>2 DEF Threads, Lists
    <2>. QED BY <1>5, <1>6, <2>1 DEF ClearOk, Others
  <1>16. Places(L, M, s, D)' BY <1>4, <1>5, <1>8 DEF Places
  <1>. QED BY <1>10, <1>11, <1>12, <1>13, <1>14, <1>15, <1>16 DEF Lists, ListsKept

\* pop: the exchange, while nobody holds the mutex, gives the popper a full list for an empty one.
LEMMA ListsPopSwap ==
    ASSUME OnePopper, IInv, NEW t \in Poppers, PopSwap(t), readers = {}
    PROVE  ListsKept
  <1>. USE DEF Goto, At, listVars, nodeVars, poolVars, histVars, callVars
  <1>1. /\ t \in Threads /\ TypeOK /\ LocalsOk /\ Counted /\ counted \in Nat /\ taken \in Nat
        /\ t \notin Pushers /\ t \notin Clearers /\ Pushed \in Nat
    BY ConstantsOk DEF Threads, IInv, TypeOK, Pushed
  <1>2. PICK L, M, s, D : Lists(L, M, s, D) BY DEF IInv
  <1>3. PICK P \in Nat : P = Pushed BY <1>1
  <1>4. /\ L \in [Nat -> Nodes] /\ M \in [Nat -> Nodes] /\ D \in [Clearers -> SUBSET Nodes]
        /\ s \in Nat /\ taken <= s /\ s <= counted
        /\ Apart(L, M, s, D) /\ Frond(L, s) /\ Back(M, s) /\ PopOk(L, s, t)
    BY <1>2 DEF Lists, Places
  <1>5. /\ pc[t] = "swap" /\ pc'[t] = "lock" /\ frond' = back /\ back' = frond
        /\ UNCHANGED <<next, data, free, retired, history, taken, counted, node, reg, item, h0, h1>>
    BY <1>1 DEF PopSwap, TypeOK
  <1>6. Others(t) BY <1>1 DEF PopSwap, TypeOK, Others
  <1>7. \A u \in Pushers : pc[u] \notin {"append", "link", "pcount"} BY <1>1 DEF LocalsOk
  <1>8. counted = P /\ taken = s /\ s <= P
    <2>1. taken = s BY <1>4, <1>5 DEF PopOk
    <2>2. counted <= P BY <1>1, <1>3 DEF Counted
    <2>3. ASSUME counted < P PROVE FALSE
      <3>1. P \in counted + 1 .. Pushed BY <1>1, <1>3, <2>3
      <3>. QED BY <1>1, <1>7, <3>1 DEF Counted
    <2>. QED BY <1>1, <1>4, <2>1, <2>2, <2>3
  <1>9. Pushed' = P BY <1>3, <1>5 DEF Pushed
  <1>10. PICK N \in [Nat -> Nodes] : \A k \in Nat : N[k] = L[s]
    <2>. DEFINE N == [k \in Nat |-> L[s]]
    <2>1. N \in [Nat -> Nodes] BY <1>4
    <2>. QED BY <2>1
  <1>11. \A k \in s + 1 .. P : data[M[k]] = history[k] /\ next[M[k - 1]] = M[k]
    <2>1. \A a, b : \A u \in Pushers : ~ Linking(u, a, b) BY <1>7 DEF Linking
    <2>. QED BY <1>3, <1>4, <2>1 DEF Back
  <1>12. Frond(M, P)'
    BY <1>3, <1>4, <1>5, <1>8, <1>11 DEF Frond, Back
  <1>13. Back(N, P)'
    <2>1. P + 1 .. P = {} BY <1>3
    <2>2. N[P] = L[s] BY <1>10
    <2>3. frond = [begin |-> L[s], end |-> L[s]] /\ next[L[s]] = Null BY <1>4, <1>8 DEF Frond
    <2>. QED BY <1>5, <1>9, <2>1, <2>2, <2>3 DEF Back
  <1>14. Apart(M, N, P, D)'
    <2>1. \A n : InFrond(M, P, n)' <=> InBack(M, s, n)
      BY <1>3, <1>5, <1>8 DEF InFrond, InBack
    <2>2. \A n : InBack(N, P, n)' => InFrond(L, s, n)
      <3>1. P..P = {P} /\ s \in taken..s BY <1>4, <1>8
      <3>. QED BY <1>9, <1>10, <3>1 DEF InFrond, InBack
    <2>3. \A u \in Threads, n \in Nodes : Owns(u, n, D)' => Owns(u, n, D)
      <3>1. \A n \in Nodes : ~ Owns(t, n, D)' BY <1>1, <1>5 DEF Owns
      <3>. QED BY <1>6, <3>1 DEF Others, Owns, NodeOf
    <2>4. Loose' = Loose BY <1>5 DEF Loose
    <2>5. /\ \A i, j \in s..P : M[i] = M[j] => i = j
          /\ \A i, j \in P..P : N[i] = N[j] => i = j
          /\ \A i \in s..P, j \in P..P : M[i] # N[j]
      <3>1. P..P = {P} /\ s \in taken..s BY <1>4, <1>8
      <3>. QED BY <1>3, <1>4, <1>10, <3>1 DEF Apart
    <2>. QED BY <1>4, <1>5, <1>8, <1>9, <2>1, <2>2, <2>3, <2>4, <2>5 DEF Apart
  <1>15. ASSUME NEW u \in Pushers PROVE PushOk(N, P, u)'
    <2>1. u \in Threads \ {t} /\ PushOk(M, s, u) BY <1>1, <1>2 DEF Threads, Lists
    <2>2. pc'[u] = pc[u] /\ item'[u] = item[u] /\ NodeOf(u)' = NodeOf(u)
      BY <1>6, <2>1 DEF Others, NodeOf
    <2>. QED BY <1>5, <1>7, <2>1, <2>2 DEF PushOk
  <1>16. ASSUME NEW u \in Poppers PROVE PopOk(M, P, u)'
    <2>1. u = t BY DEF OnePopper
    <2>. QED BY <1>5, <2>1 DEF PopOk
  <1>17. ASSUME NEW u \in Clearers PROVE ClearOk(D, u)'
    <2>1. u \in Threads \ {t} /\ ClearOk(D, u) BY <1>1, <1>2 DEF Threads, Lists
    <2>. QED BY <1>5, <1>6, <2>1 DEF ClearOk, Others
  <1>18. Places(M, N, P, D)' BY <1>1, <1>3, <1>4, <1>5, <1>8, <1>10 DEF Places
  <1>. QED BY <1>12, <1>13, <1>14, <1>15, <1>16, <1>17, <1>18 DEF Lists, ListsKept

\* retire moves nodes from one place to another, and loses none.
LEMMA RetireSets ==
    ASSUME NEW n, Retire(n), free \cap retired = {}, n \notin Loose
    PROVE  free' \cap retired' = {} /\ \A m : m \in Loose' <=> m \in Loose \/ m = n
  <1>1. Swept \subseteq retired BY DEF Swept
  <1>. HIDE DEF Swept
  <1>. QED BY <1>1 DEF Retire, Loose

\* pop: the node it retires is its own.
LEMMA ListsPopRetire ==
    ASSUME IInv, NEW t \in Poppers, PopRetire(t)
    PROVE  ListsKept
  <1>. USE DEF Goto, At, listVars, nodeVars, poolVars, histVars, callVars
  <1>1. /\ t \in Threads /\ TypeOK /\ LocalsOk /\ Counted /\ counted \in Nat
        /\ t \notin Pushers /\ t \notin Clearers
    BY ConstantsOk DEF Threads, IInv, TypeOK
  <1>2. PICK L, M, s, D : Lists(L, M, s, D) BY DEF IInv
  <1>3. Apart(L, M, s, D) /\ D \in [Clearers -> SUBSET Nodes] BY <1>2 DEF Lists, Places
  <1>4. /\ pc[t] = "retire" /\ pc'[t] = "count" /\ Retire(h0[t]) /\ h0[t] \in Nodes
        /\ UNCHANGED <<frond, back, next, data, history, taken, counted>>
    BY <1>1 DEF PopRetire, TypeOK, LocalsOk
  <1>5. Others(t) BY <1>1 DEF PopRetire, TypeOK, Others
  <1>6. Owns(t, h0[t], D) BY <1>4 DEF Owns
  <1>7. free' \cap retired' = {} /\ \A m : m \in Loose' <=> m \in Loose \/ m = h0[t]
    BY <1>1, <1>3, <1>4, <1>6, RetireSets DEF Apart
  <1>8. \A n \in Nodes : ~ Owns(t, n, D)' BY <1>1, <1>4 DEF Owns
  <1>9. \A u \in Threads \ {t}, n \in Nodes : Owns(u, n, D)' => Owns(u, n, D)
    BY <1>5 DEF Others, Owns, NodeOf
  <1>10. Apart(L, M, s, D)' BY <1>1, <1>3, <1>4, <1>6, <1>7, <1>8, <1>9, ApartStep
  <1>11. PopOk(L, s, t)' BY <1>4 DEF PopOk
  <1>12. Lists(L, M, s, D)' BY <1>1, <1>2, <1>3, <1>4, <1>5, <1>10, <1>11, Frame
  <1>. QED BY <1>12 DEF ListsKept

\* clear: to return changes nothing of the lists.
LEMMA ListsClearQuiet ==
    ASSUME IInv, NEW t \in Clearers, Return(t) \/ ClearInUse(t)
    PROVE  ListsKept
  <1>. USE DEF Goto, At, listVars, nodeVars, poolVars, histVars, callVars
  <1>1. /\ t \in Threads /\ TypeOK /\ LocalsOk /\ Counted /\ counted \in Nat
        /\ t \notin Pushers /\ t \notin Poppers
    BY ConstantsOk DEF Threads, IInv, TypeOK
  <1>2. PICK L, M, s, D : Lists(L, M, s, D) BY DEF IInv
  <1>3. /\ pc[t] # "link" /\ pc'[t] \in {"idle", "overtook"}
        /\ UNCHANGED <<frond, back, next, data, free, retired, taken, history, counted>>
    BY <1>1 DEF Return, ClearInUse, TypeOK
  <1>4. Others(t) BY <1>1 DEF Return, ClearInUse, TypeOK, Others
  <1>5. \A n \in Nodes : Owns(t, n, D)' => Owns(t, n, D)
    BY <1>1, <1>3 DEF Owns
  <1>6. ClearOk(D, t)' BY <1>3 DEF ClearOk
  <1>7. ~ At(t, "link") /\ counted' \in Nat /\ counted' >= counted BY <1>1, <1>3
  <1>8. Lists(L, M, s, D)' BY <1>1, <1>2, <1>3, <1>4, <1>5, <1>6, <1>7, Quiet
  <1>. QED BY <1>8 DEF ListsKept

\* clear: get_que makes two lists of a node each.
LEMMA ListsClearCall ==
    ASSUME IInv, NEW t \in Clearers, ClearCall(t)
    PROVE  ListsKept
  <1>. USE DEF Goto, At, listVars, nodeVars, poolVars, histVars, callVars
  <1>1. /\ t \in Threads /\ TypeOK /\ LocalsOk /\ Counted /\ counted \in Nat
        /\ t \notin Pushers /\ t \notin Poppers
    BY ConstantsOk DEF Threads, IInv, TypeOK
  <1>2. PICK L, M, s, D : Lists(L, M, s, D) BY DEF IInv
  <1>3. PICK x, y \in free : x # y /\ NewNodes(t, <<x, y>>, Null)
    BY DEF ClearCall
  <1>4. /\ pc[t] = "idle" /\ pc'[t] = "exchange"
        /\ UNCHANGED <<frond, back, retired, taken, history, counted>>
    BY <1>1 DEF ClearCall, TypeOK
  <1>5. ToSet(<<x, y>>) = {x, y} BY DEF ToSet
  <1>6. /\ free' = free \ {x, y} /\ x \in Nodes /\ y \in Nodes /\ x \notin retired /\ y \notin retired
        /\ node' = [node EXCEPT ![t] = <<x, y>>]
        /\ \A m \in Nodes \ {x, y} : next'[m] = next[m] /\ data'[m] = data[m]
        /\ next'[x] = Null /\ next'[y] = Null
    BY <1>1, <1>2, <1>3, <1>5 DEF NewNodes, TypeOK, Lists, Apart
  <1>7. Others(t) BY <1>1, <1>6 DEF ClearCall, TypeOK, Others
  <1>8. node'[t] = <<x, y>> BY <1>1, <1>6 DEF TypeOK
  <1>9. ClearOk(D, t)' BY <1>4, <1>6, <1>8 DEF ClearOk
  <1>10. Apart(L, M, s, D) /\ D \in [Clearers -> SUBSET Nodes] BY <1>2 DEF Lists, Places
  <1>11. \A u \in Threads \ {t}, n \in Nodes : Owns(u, n, D)' => Owns(u, n, D)
    BY <1>7 DEF Others, Owns, NodeOf
  <1>12. \A n \in Nodes : Owns(t, n, D)' => n \in {x, y} BY <1>1, <1>4, <1>8 DEF Owns
  <1>13. Apart(L, M, s, D)'
    <2>1. {x, y} \subseteq Loose /\ x \notin Loose' /\ y \notin Loose' BY <1>4, <1>6 DEF Loose
    <2>2. \A n \in Nodes : n \in Loose' => n \in Loose BY <1>4, <1>6 DEF Loose
    <2>3. free' \cap retired' = {} BY <1>4, <1>6, <1>10 DEF Apart
    <2>. QED BY <1>1, <1>4, <1>10, <1>11, <1>12, <2>1, <2>2, <2>3, ApartStep
  <1>14. Lists(L, M, s, D)' BY <1>1, <1>2, <1>4, <1>6, <1>7, <1>9, <1>10, <1>13, Frame
  <1>. QED BY <1>14 DEF ListsKept

\* clear: put_que retires one node after the other, each once.
LEMMA ListsClearRetire ==
    ASSUME IInv, NEW t \in Clearers, ClearRetire(t)
    PROVE  ListsKept
  <1>. USE DEF Goto, At, listVars, nodeVars, poolVars, histVars, callVars
  <1>1. /\ t \in Threads /\ TypeOK /\ LocalsOk /\ Counted /\ counted \in Nat
        /\ t \notin Pushers /\ t \notin Poppers
    BY ConstantsOk DEF Threads, IInv, TypeOK
  <1>2. PICK L, M, s, D : Lists(L, M, s, D) BY DEF IInv
  <1>3. Apart(L, M, s, D) /\ D \in [Clearers -> SUBSET Nodes] /\ ClearOk(D, t)
    BY <1>2 DEF Lists, Places
  <1>4. PICK q, r : q = node[t] /\ r = node'[t] OBVIOUS
  <1>5. /\ q \in Seq(Nodes) /\ Len(q) \in Nat /\ Len(q) >= 1
        /\ q[1] \in Nodes /\ r \in Seq(Nodes)
        /\ next[q[1]] = Null => Len(r) = Len(q) - 1 /\ \A i \in 1..Len(r) : r[i] = q[i + 1]
        /\ next[q[1]] # Null => /\ Len(r) = Len(q) /\ r[1] = next[q[1]]
                                /\ \A i \in 2..Len(r) : r[i] = q[i]
    BY <1>1, <1>4, Rest
  <1>6. PICK x \in Nodes : x = q[1] BY <1>5
  <1>7. /\ pc[t] = "dispose" /\ pc'[t] \in {"dispose", "return"} /\ Retire(x)
        /\ UNCHANGED <<frond, back, next, data, history, taken, counted>>
    <2>1. Head(node[t]) = x BY <1>4, <1>5, <1>6
    <2>. QED BY <1>1, <2>1 DEF ClearRetire, TypeOK
  <1>8. Others(t) BY <1>1 DEF ClearRetire, TypeOK, Others
  <1>9. /\ \A i \in 1..Len(q) : q[i] \in D[t]
        /\ \A i, j \in 1..Len(q) : q[i] = q[j] => i = j
        /\ \A m \in D[t] : /\ next[m] = Null \/ next[m] \in D[t]
                           /\ \A i \in 1..Len(q) : next[m] # q[i]
                           /\ \A n \in D[t] : next[m] = next[n] /\ next[m] # Null => m = n
    BY <1>3, <1>4, <1>7 DEF ClearOk
  <1>10. PICK D2 \in [Clearers -> SUBSET Nodes] :
            D2[t] = D[t] \ {x} /\ \A u \in Clearers \ {t} : D2[u] = D[u]
    <2>. DEFINE E == [D EXCEPT ![t] = D[t] \ {x}]
    <2>1. E \in [Clearers -> SUBSET Nodes] BY <1>3
    <2>2. E[t] = D[t] \ {x} /\ \A u \in Clearers \ {t} : E[u] = D[u] BY <1>3
    <2>. QED BY <2>1, <2>2
  <1>11. 1 \in 1..Len(q) /\ x \in D[t] BY <1>5, <1>6, <1>9
  <1>12. Owns(t, x, D) BY <1>7, <1>11 DEF Owns
  <1>13. free' \cap retired' = {} /\ \A m : m \in Loose' <=> m \in Loose \/ m = x
    BY <1>1, <1>3, <1>7, <1>12, RetireSets DEF Apart
  <1>14. \A n \in Nodes : Owns(t, n, D2)' => Owns(t, n, D) /\ n # x
    BY <1>1, <1>7, <1>10 DEF Owns
  <1>15. \A u \in Threads \ {t}, n \in Nodes : Owns(u, n, D2)' => Owns(u, n, D)
    BY <1>8, <1>10 DEF Others, Owns, NodeOf
  <1>16. Apart(L, M, s, D2)'
    <2>1. \A n \in Nodes : n \in Loose' => n \in Loose \/ Owns(t, n, D) BY <1>12, <1>13
    <2>2. \A n \in Nodes : Owns(t, n, D2)' => Owns(t, n, D) /\ n \notin Loose'
      BY <1>1, <1>3, <1>13, <1>14 DEF Apart
    <2>. QED BY <1>1, <1>3, <1>7, <1>13, <1>15, <2>1, <2>2, ApartStep
  <1>17. /\ \A i \in 1..Len(r) : r[i] \in D[t] \ {x}
         /\ \A i, j \in 1..Len(r) : r[i] = r[j] => i = j
         /\ \A m \in D[t] \ {x} : /\ next[m] = Null \/ next[m] \in D[t] \ {x}
                                  /\ \A i \in 1..Len(r) : next[m] # r[i]
    <2>0. \A m \in D[t] : next[m] # x BY <1>6, <1>9, <1>11
    <2>1. CASE next[x] = Null
      <3>1. \A i \in 1..Len(r) : r[i] = q[i + 1] /\ i + 1 \in 1..Len(q) /\ i + 1 # 1 /\ i \in Nat
        BY <1>5, <1>6, <2>1
      <3>2. \A i \in 1..Len(r) : r[i] \in D[t] \ {x} BY <1>6, <1>9, <1>11, <3>1
      <3>3. \A i, j \in 1..Len(r) : r[i] = r[j] => i = j
        <4>. SUFFICES ASSUME NEW i \in 1..Len(r), NEW j \in 1..Len(r), r[i] = r[j] PROVE i = j
          OBVIOUS
        <4>1. i + 1 = j + 1 BY <1>9, <3>1
        <4>. QED BY <4>1
      <3>. QED BY <1>9, <2>0, <3>1, <3>2, <3>3
    <2>2. CASE next[x] # Null
      <3>1. /\ Len(r) = Len(q) /\ r[1] = next[x] /\ next[x] \in D[t]
            /\ \A i \in 1..Len(r) : i = 1 \/ (i \in 2..Len(r) /\ r[i] = q[i])
        BY <1>5, <1>6, <1>9, <1>11, <2>2
      <3>2. \A i \in 1..Len(r) : r[i] \in D[t] \ {x}
        BY <1>6, <1>9, <1>11, <2>0, <3>1
      <3>3. \A i, j \in 1..Len(r) : r[i] = r[j] => i = j BY <1>9, <1>11, <3>1
      <3>4. \A m \in D[t] \ {x}, i \in 1..Len(r) : next[m] # r[i]
        BY <1>9, <1>11, <2>2, <3>1
      <3>. QED BY <1>9, <2>0, <3>2, <3>3, <3>4
    <2>. QED BY <2>1, <2>2
  <1>18. ClearOk(D2, t)' BY <1>4, <1>7, <1>9, <1>10, <1>17 DEF ClearOk
  <1>19. Lists(L, M, s, D2)'
    BY <1>1, <1>2, <1>7, <1>8, <1>10, <1>16, <1>18, Frame
  <1>. QED BY <1>19 DEF ListsKept

\* clear: new lists for old ones, whose nodes are the clear's own.
LEMMA ListsClearExchange ==
    ASSUME IInv, NEW t \in Clearers, ClearExchange(t)
    PROVE  ListsKept
  <1>. USE DEF Goto, At, listVars, nodeVars, poolVars, histVars, callVars
  <1>1. /\ t \in Threads /\ TypeOK /\ LocalsOk /\ Counted /\ counted \in Nat /\ taken \in Nat
        /\ t \notin Pushers /\ t \notin Poppers /\ Pushed \in Nat
    BY ConstantsOk DEF Threads, IInv, TypeOK, Pushed
  <1>2. PICK L, M, s, D : Lists(L, M, s, D) BY DEF IInv
  <1>3. PICK P \in Nat : P = Pushed BY <1>1
  <1>4. /\ L \in [Nat -> Nodes] /\ M \in [Nat -> Nodes] /\ D \in [Clearers -> SUBSET Nodes]
        /\ s \in Nat /\ taken <= s /\ s <= counted /\ counted <= P
        /\ Apart(L, M, s, D) /\ Frond(L, s) /\ Back(M, s) /\ ClearOk(D, t)
    BY <1>1, <1>2, <1>3 DEF Lists, Places, Counted
  <1>5. PICK x, y \in Nodes : x # y /\ node[t] = <<x, y>> BY <1>1 DEF ClearExchange, LocalsOk
  <1>6. /\ pc[t] = "exchange" /\ pc'[t] = "dispose" /\ taken' = P
        /\ UNCHANGED <<next, data, free, retired, history, counted, reg, item, h0, h1>>
        /\ frond' = [begin |-> x, end |-> x] /\ back' = [begin |-> y, end |-> y]
        /\ node'[t] = <<frond.begin, back.begin>>
    BY <1>1, <1>3, <1>5 DEF ClearExchange, TypeOK, List
  <1>7. Others(t) BY <1>1 DEF ClearExchange, TypeOK, Others
  <1>8. /\ \A u \in Pushers : pc[u] \in {"idle", "lock", "return"}
        /\ \A u \in Poppers : pc[u] \in {"idle", "empty", "lock", "return"}
    BY <1>1 DEF ClearExchange, NoOtherCall, UsesQue, LocalsOk, PushLabels, PopLabels, Threads
  <1>9. counted = P
    <2>1. ASSUME counted < P PROVE FALSE
      <3>1. P \in counted + 1 .. Pushed BY <1>1, <1>3, <2>1
      <3>. QED BY <1>1, <1>8, <3>1 DEF Counted
    <2>. QED BY <1>1, <1>4, <2>1
  <1>10. Pushed' = P BY <1>3, <1>6 DEF Pushed
  <1>11. PICK F \in [Nat -> Nodes], B \in [Nat -> Nodes] :
           \A k \in Nat : F[k] = x /\ B[k] = y
    <2>. DEFINE F == [k \in Nat |-> x]
                B == [k \in Nat |-> y]
    <2>1. F \in [Nat -> Nodes] /\ B \in [Nat -> Nodes] OBVIOUS
    <2>. QED BY <2>1
  <1>12. PICK S \in SUBSET Nodes : \A n : n \in S <=> InFrond(L, s, n) \/ InBack(M, s, n)
    <2>. DEFINE S == {n \in Nodes : InFrond(L, s, n) \/ InBack(M, s, n)}
    <2>1. \A k \in taken..s : L[k] \in Nodes BY <1>1, <1>4
    <2>2. \A k \in s..Pushed : M[k] \in Nodes BY <1>1, <1>4
    <2>3. \A n : n \in S <=> InFrond(L, s, n) \/ InBack(M, s, n)
      BY <2>1, <2>2 DEF InFrond, InBack
    <2>. QED BY <2>3
  <1>13. PICK D2 \in [Clearers -> SUBSET Nodes] :
            D2[t] = S /\ \A u \in Clearers \ {t} : D2[u] = D[u]
    <2>. DEFINE E == [D EXCEPT ![t] = S]
    <2>1. E \in [Clearers -> SUBSET Nodes] BY <1>4
    <2>2. E[t] = S /\ \A u \in Clearers \ {t} : E[u] = D[u] BY <1>4
    <2>. QED BY <2>1, <2>2
  <1>14. Owns(t, x, D) /\ Owns(t, y, D) BY <1>5, <1>6 DEF Owns
  <1>15. Frond(F, P)'
    <2>1. P + 1 .. P = {} /\ F[P] = x BY <1>11
    <2>2. next[x] = Null BY <1>4, <1>5, <1>6 DEF ClearOk
    <2>. QED BY <1>6, <2>1, <2>2 DEF Frond
  <1>16. Back(B, P)'
    <2>1. P + 1 .. P = {} /\ B[P] = y BY <1>11
    <2>2. next[y] = Null BY <1>4, <1>5, <1>6 DEF ClearOk
    <2>. QED BY <1>6, <1>10, <2>1, <2>2 DEF Back
  <1>17. Apart(F, B, P, D2)'
    <2>0. P..P = {P} OBVIOUS
    <2>1. \A n : InFrond(F, P, n)' <=> n = x BY <1>6, <1>11, <2>0 DEF InFrond
    <2>2. \A n : InBack(B, P, n)' <=> n = y BY <1>10, <1>11, <2>0 DEF InBack
    <2>3. \A u \in Threads \ {t}, n \in Nodes : Owns(u, n, D2)' => Owns(u, n, D)
      BY <1>7, <1>13 DEF Others, Owns, NodeOf
    <2>4. \A n \in Nodes : Owns(t, n, D2)' => InFrond(L, s, n) \/ InBack(M, s, n)
      BY <1>1, <1>6, <1>12, <1>13 DEF Owns
    <2>5. Loose' = Loose BY <1>6 DEF Loose
    <2>6. /\ \A i, j \in P..P : F[i] = F[j] => i = j
          /\ \A i, j \in P..P : B[i] = B[j] => i = j
          /\ \A i \in P..P, j \in P..P : F[i] # B[j]
      BY <1>5, <1>11, <2>0
    <2>7. \A n \in Nodes : InFrond(F, P, n)' \/ InBack(B, P, n)' => n \notin Loose'
      BY <1>1, <1>4, <1>14, <2>1, <2>2, <2>5 DEF Apart
    <2>8. ASSUME NEW u \in Threads, NEW n \in Nodes, Owns(u, n, D2)'
          PROVE  /\ n # x /\ n # y /\ n \notin Loose'
                 /\ \A w \in Threads \ {u} : ~ Owns(w, n, D2)'
      <3>1. CASE u = t
        <4>1. InFrond(L, s, n) \/ InBack(M, s, n) BY <2>4, <2>8, <3>1
        <4>. QED BY <1>1, <1>4, <1>14, <2>3, <2>5, <3>1, <4>1 DEF Apart
      <3>2. CASE u # t
        <4>1. Owns(u, n, D) BY <2>3, <2>8, <3>2
        <4>2. n # x /\ n # y /\ n \notin Loose' BY <1>1, <1>4, <1>14, <2>5, <3>2, <4>1 DEF Apart
        <4>3. ASSUME NEW w \in Threads \ {u}, Owns(w, n, D2)' PROVE FALSE
          <5>1. CASE w = t BY <1>4, <2>4, <4>1, <4>3, <5>1 DEF Apart
          <5>2. CASE w # t BY <1>4, <2>3, <4>1, <4>3, <5>2 DEF Apart
          <5>. QED BY <5>1, <5>2
        <4>. QED BY <4>2, <4>3
      <3>. QED BY <3>1, <3>2
    <2>. QED BY <1>4, <1>6, <1>10, <2>1, <2>2, <2>6, <2>7, <2>8 DEF Apart
  <1>18. \A k \in taken..s : /\ L[k] \in Nodes
                             /\ next[L[k]] = IF k = s THEN Null ELSE L[k + 1]
                             /\ k # s => k + 1 \in taken..s /\ k + 1 # taken
    <2>. SUFFICES ASSUME NEW k \in taken..s
                  PROVE  /\ L[k] \in Nodes
                         /\ next[L[k]] = IF k = s THEN Null ELSE L[k + 1]
                         /\ k # s => k + 1 \in taken..s /\ k + 1 # taken
      OBVIOUS
    <2>1. k \in Nat BY <1>1, <1>4
    <2>2. CASE k = s BY <1>4, <2>2 DEF Frond
    <2>3. CASE k # s
      <3>1. PICK j \in Nat : j = k + 1 BY <2>1
      <3>2. j - 1 = k /\ j \in taken + 1 .. s /\ j \in taken..s /\ j # taken
        BY <1>1, <1>4, <2>3, <3>1
      <3>3. next[L[j - 1]] = L[j] BY <1>4, <3>2 DEF Frond
      <3>. QED BY <1>4, <2>1, <2>3, <3>1, <3>2, <3>3
    <2>. QED BY <2>2, <2>3
  <1>19. \A k \in s..P : /\ M[k] \in Nodes
                         /\ next[M[k]] = IF k = P THEN Null ELSE M[k + 1]
                         /\ k # P => k + 1 \in s..P /\ k + 1 # s
    <2>. SUFFICES ASSUME NEW k \in s..P
                  PROVE  /\ M[k] \in Nodes
                         /\ next[M[k]] = IF k = P THEN Null ELSE M[k + 1]
                         /\ k # P => k + 1 \in s..P /\ k + 1 # s
      OBVIOUS
    <2>1. k \in Nat BY <1>1, <1>4
    <2>2. CASE k = P BY <1>3, <1>4, <2>2 DEF Back
    <2>3. CASE k # P
      <3>1. PICK j \in Nat : j = k + 1 BY <2>1
      <3>2. j - 1 = k /\ j \in s + 1 .. P /\ j \in s..P /\ j # s
        BY <1>1, <1>4, <2>3, <3>1
      <3>3. \A a, b : \A u \in Pushers : ~ Linking(u, a, b) BY <1>8 DEF Linking
      <3>4. next[M[j - 1]] = M[j] BY <1>3, <1>4, <3>2, <3>3 DEF Back
      <3>. QED BY <1>4, <2>1, <2>3, <3>1, <3>2, <3>4
    <2>. QED BY <2>2, <2>3
  <1>20. /\ \A j, k \in taken..s : L[j] = L[k] => j = k
         /\ \A j, k \in s..P : M[j] = M[k] => j = k
         /\ \A j \in taken..s, k \in s..P : L[j] # M[k]
         /\ taken \in taken..s /\ s \in s..P
    BY <1>1, <1>3, <1>4 DEF Apart
  <1>21. \A n : n \in S <=> (\E k \in taken..s : n = L[k]) \/ (\E k \in s..P : n = M[k])
    BY <1>3, <1>12 DEF InFrond, InBack
  <1>22. frond.begin = L[taken] /\ back.begin = M[s] BY <1>4 DEF Frond, Back
  <1>23. Null \notin Nodes BY ConstantsOk
  <1>24. ASSUME NEW m \in S
         PROVE  /\ next[m] = Null \/ next[m] \in S
                /\ next[m] # L[taken] /\ next[m] # M[s]
    <2>1. CASE \E k \in taken..s : m = L[k]
      <3>1. PICK k \in taken..s : m = L[k] BY <2>1
      <3>. QED BY <1>18, <1>19, <1>20, <1>21, <1>23, <3>1
    <2>2. CASE \E k \in s..P : m = M[k]
      <3>1. PICK k \in s..P : m = M[k] BY <2>2
      <3>. QED BY <1>18, <1>19, <1>20, <1>21, <1>23, <3>1
    <2>. QED BY <1>21, <2>1, <2>2
  <1>25. ASSUME NEW m \in S, NEW n \in S, next[m] = next[n], next[m] # Null
         PROVE  m = n
    <2>1. ASSUME NEW j \in taken..s, NEW k \in taken..s, m = L[j], n = L[k] PROVE m = n
      <3>1. j \in Nat /\ k \in Nat BY <1>1, <1>4
      <3>2. j # s /\ k # s /\ L[j + 1] = L[k + 1] BY <1>18, <1>25, <2>1
      <3>3. j + 1 = k + 1 BY <1>18, <1>20, <3>2
      <3>. QED BY <2>1, <3>1, <3>3
    <2>2. ASSUME NEW j \in s..P, NEW k \in s..P, m = M[j], n = M[k] PROVE m = n
      <3>1. j \in Nat /\ k \in Nat BY <1>1, <1>4
      <3>2. j # P /\ k # P /\ M[j + 1] = M[k + 1] BY <1>19, <1>25, <2>2
      <3>3. j + 1 = k + 1 BY <1>19, <1>20, <3>2
      <3>. QED BY <2>2, <3>1, <3>3
    <2>3. ASSUME NEW j \in taken..s, NEW k \in s..P,
                 (m = L[j] /\ n = M[k]) \/ (m = M[k] /\ n = L[j])
          PROVE  m = n
      <3>1. next[L[j]] = next[M[k]] /\ next[L[j]] # Null BY <1>25, <2>3
      <3>2. j # s /\ k # P /\ L[j + 1] = M[k + 1] BY <1>18, <1>19, <3>1
      <3>. QED BY <1>18, <1>19, <1>20, <3>2
    <2>4. CASE \E j \in taken..s : m = L[j]
      <3>1. PICK j \in taken..s : m = L[j] BY <2>4
      <3>2. CASE \E k \in taken..s : n = L[k]
        <4>1. PICK k \in taken..s : n = L[k] BY <3>2
        <4>. QED BY <2>1, <3>1, <4>1
      <3>3. CASE \E k \in s..P : n = M[k]
        <4>1. PICK k \in s..P : n = M[k] BY <3>3
        <4>. QED BY <2>3, <3>1, <4>1
      <3>. QED BY <1>21, <3>2, <3>3
    <2>5. CASE \E j \in s..P : m = M[j]
      <3>1. PICK j \in s..P : m = M[j] BY <2>5
      <3>2. CASE \E k \in taken..s : n = L[k] BY <2>3, <3>1, <3>2
      <3>3. CASE \E k \in s..P : n = M[k] BY <2>2, <3>1, <3>3
      <3>. QED BY <1>21, <3>2, <3>3
    <2>. QED BY <1>21, <2>4, <2>5
  <1>26. ClearOk(D2, t)'
    <2>1. PICK q : q = node'[t] OBVIOUS
    <2>2. Len(q) = 2 /\ q[1] = L[taken] /\ q[2] = M[s] BY <1>6, <1>22, <2>1
    <2>3. \A i \in 1..Len(q) : i = 1 \/ i = 2 BY <2>2
    <2>4. L[taken] \in S /\ M[s] \in S /\ L[taken] # M[s] BY <1>20, <1>21
    <2>5. /\ \A i \in 1..Len(q) : q[i] \in S
          /\ \A i, j \in 1..Len(q) : q[i] = q[j] => i = j
          /\ \A m \in S, i \in 1..Len(q) : next[m] # q[i]
      BY <1>24, <2>2, <2>3, <2>4
    <2>. QED BY <1>6, <1>13, <1>24, <1>25, <2>1, <2>5 DEF ClearOk
  <1>27. ASSUME NEW u \in Pushers PROVE PushOk(B, P, u)'
    <2>1. /\ pc'[u] \in {"idle", "lock", "return"}
          /\ pc'[u] = pc[u] /\ node'[u] = node[u] /\ item'[u] = item[u]
      BY <1>1, <1>7, <1>8 DEF Others, Threads
    <2>2. PushOk(M, s, u) BY <1>2 DEF Lists
    <2>. QED BY <1>6, <2>1, <2>2 DEF PushOk, NodeOf
  <1>28. ASSUME NEW u \in Poppers PROVE PopOk(F, P, u)'
    <2>1. pc'[u] \in {"idle", "empty", "lock", "return"}
      BY <1>1, <1>7, <1>8 DEF Others, Threads
    <2>. QED BY <2>1 DEF PopOk
  <1>29. ASSUME NEW u \in Clearers PROVE ClearOk(D2, u)'
    <2>1. CASE u = t BY <1>26, <2>1
    <2>2. CASE u # t
      <3>1. u \in Threads \ {t} /\ ClearOk(D, u) /\ D2[u] = D[u]
        BY <1>2, <1>13, <2>2 DEF Threads, Lists
      <3>2. pc'[u] = pc[u] /\ node'[u] = node[u] BY <1>7, <3>1 DEF Others
      <3>3. next' = next BY <1>6
      <3>. QED BY <3>1, <3>2, <3>3 DEF ClearOk
    <2>. QED BY <2>1, <2>2
  <1>30. Places(F, B, P, D2)' BY <1>6, <1>9, <1>11, <1>13 DEF Places
  <1>. QED BY <1>15, <1>16, <1>17, <1>27, <1>28, <1>29, <1>30 DEF Lists, ListsKept

-----------------------------------------------------------------------------
(* The invariant *)

\* The constructor makes two empty lists.
LEMMA InitIInv == Init => IInv
  <1>. SUFFICES ASSUME Init PROVE IInv
    OBVIOUS
  <1>. USE DEF At
  <1>1. PICK m, n \in Nodes : /\ m # n /\ frond = [begin |-> m, end |-> m]
                              /\ back = [begin |-> n, end |-> n] /\ free = Nodes \ {m, n}
    BY DEF Init, List
  <1>2. TypeOK
    <2>1. frond \in Ends /\ back \in Ends BY <1>1 DEF Ends
    <2>2. size \in 0..(SizeMod - 1) BY ConstantsOk DEF Init
    <2>. QED BY <1>1, <2>1, <2>2 DEF Init, TypeOK
  <1>3. /\ Null \notin Values /\ Pushed = 0 /\ taken = 0 /\ counted = 0
        /\ \A t \in Threads : pc[t] = "idle" /\ item[t] = Null
        /\ Pushers \subseteq Threads /\ Poppers \subseteq Threads /\ Clearers \subseteq Threads
    BY ConstantsOk DEF Init, Pushed, Threads
  <1>4. LocalsOk BY <1>3 DEF LocalsOk, PushLabels, PopLabels, ClearLabels
  <1>5. Items /\ Counted BY <1>3 DEF Items, Counted
  <1>. DEFINE L == [k \in Nat |-> m]
              M == [k \in Nat |-> n]
              D == [t \in Clearers |-> {}]
  <1>6. L \in [Nat -> Nodes] /\ M \in [Nat -> Nodes] /\ D \in [Clearers -> SUBSET Nodes]
        /\ L[0] = m /\ M[0] = n
    OBVIOUS
  <1>. HIDE DEF L, M, D
  <1>7. Places(L, M, 0, D) BY <1>3, <1>6 DEF Places
  <1>8. 0..0 = {0} /\ 0 + 1 .. 0 = {} OBVIOUS
  <1>9. Apart(L, M, 0, D)
    <2>1. \A x : (InFrond(L, 0, x) <=> x = m) /\ (InBack(M, 0, x) <=> x = n)
      BY <1>3, <1>6, <1>8 DEF InFrond, InBack
    <2>2. \A t \in Threads, x \in Nodes : ~ Owns(t, x, D) BY <1>3 DEF Owns
    <2>3. retired = {} /\ Loose = Nodes \ {m, n} BY <1>1 DEF Init, Loose
    <2>. QED BY <1>1, <1>3, <1>6, <1>8, <2>1, <2>2, <2>3 DEF Apart
  <1>10. next[m] = Null /\ next[n] = Null BY DEF Init
  <1>11. Frond(L, 0) BY <1>1, <1>3, <1>6, <1>8, <1>10 DEF Frond
  <1>12. Back(M, 0) BY <1>1, <1>3, <1>6, <1>8, <1>10 DEF Back
  <1>13. \A t \in Pushers : PushOk(M, 0, t) BY <1>3 DEF PushOk
  <1>14. \A t \in Poppers : PopOk(L, 0, t) BY <1>3 DEF PopOk
  <1>15. \A t \in Clearers : ClearOk(D, t) BY <1>3 DEF ClearOk
  <1>16. Lists(L, M, 0, D) BY <1>7, <1>9, <1>11, <1>12, <1>13, <1>14, <1>15 DEF Lists
  <1>. QED BY <1>2, <1>4, <1>5, <1>16 DEF IInv

\* A step that changes nothing.
LEMMA StutterIInv == IInv /\ UNCHANGED vars => IInv'
  <1>. SUFFICES ASSUME IInv, UNCHANGED vars PROVE IInv'
    OBVIOUS
  <1>. USE DEF vars, listVars, nodeVars, poolVars, histVars, callVars, At, Pushed, NodeOf
  <1>1. TypeOK' BY DEF IInv, TypeOK
  <1>2. LocalsOk' BY DEF IInv, LocalsOk
  <1>3. Items' /\ Counted' BY DEF IInv, Items, Counted
  <1>4. PICK L, M, s, D : Lists(L, M, s, D) BY DEF IInv
  <1>5. Places(L, M, s, D)' BY <1>4 DEF Lists, Places
  <1>6. Apart(L, M, s, D)' BY <1>4 DEF Lists, Apart, InFrond, InBack, Owns, Loose
  <1>7. Frond(L, s)' /\ Back(M, s)' BY <1>4 DEF Lists, Frond, Back, Linking
  <1>8. \A t \in Pushers : PushOk(M, s, t)' BY <1>4 DEF Lists, PushOk
  <1>9. \A t \in Poppers : PopOk(L, s, t)' BY <1>4 DEF Lists, PopOk
  <1>10. \A t \in Clearers : ClearOk(D, t)' BY <1>4 DEF Lists, ClearOk
  <1>11. Lists(L, M, s, D)' BY <1>5, <1>6, <1>7, <1>8, <1>9, <1>10 DEF Lists
  <1>. QED BY <1>1, <1>2, <1>3, <1>11 DEF IInv

\* push keeps the lists as they should be.
LEMMA PushIInv ==
    ASSUME IInv, NEW t \in Pushers, PushStep(t)
    PROVE  IInv'
  <1>1. ListsKept
    BY ListsPushCall, ListsPushQuiet, ListsPushAppend, ListsPushLink DEF PushStep
  <1>. QED BY <1>1, TypePush, LocalsPush, ItemsPush DEF IInv, ListsKept

\* pop keeps the lists as they should be, when no other pop runs.
LEMMA PopIInv ==
    ASSUME OnePopper, IInv, NEW t \in Poppers, PopStep(t)
    PROVE  IInv'
  <1>. USE DEF Goto, At, listVars, nodeVars, poolVars, histVars, callVars
  <1>1. ListsKept
    <2>1. CASE PopUnlink(t)
      <3>1. CASE frond.begin = h0[t] BY <2>1, <3>1, ListsPopUnlink
      <3>2. CASE frond.begin # h0[t]
        <4>1. UNCHANGED <<frond, back, free, retired, taken>> BY <2>1, <3>2 DEF PopUnlink
        <4>. QED BY <4>1, ListsPopQuiet
      <3>. QED BY <3>1, <3>2
    <2>2. CASE PopSwap(t)
      <3>1. CASE readers = {} BY <2>2, <3>1, ListsPopSwap
      <3>2. CASE readers # {}
        <4>1. UNCHANGED <<frond, back, free, retired, taken>> BY <2>2, <3>2 DEF PopSwap
        <4>. QED BY <4>1, ListsPopQuiet
      <3>. QED BY <3>1, <3>2
    <2>3. CASE PopRetire(t) BY <2>3, ListsPopRetire
    <2>4. CASE ~ PopUnlink(t) /\ ~ PopSwap(t) /\ ~ PopRetire(t)
      <3>1. UNCHANGED <<frond, back, free, retired, taken>>
        BY <2>4 DEF PopStep, PopCall, PopEmpty, PopLock, PopBegin, PopEnd, PopSize, PopNext, PopRead,
           PopCount, Return
      <3>. QED BY <3>1, ListsPopQuiet
    <2>. QED BY <2>1, <2>2, <2>3, <2>4
  <1>2. UNCHANGED <<history, counted>>
    BY DEF PopStep, PopCall, PopEmpty, PopLock, PopBegin, PopEnd, PopSize, PopSwap, PopNext,
       PopUnlink, PopRead, PopRetire, PopCount, Return
  <1>3. \A u \in Pushers : pc'[u] = pc[u] /\ item'[u] = item[u]
    <2>1. t \notin Pushers /\ \A u \in Pushers : u \in Threads /\ u # t
      BY ConstantsOk DEF Threads
    <2>2. pc \in [Threads -> {"idle", "lock", "append", "link", "pcount", "empty", "begin", "end",
                           "size", "swap", "next", "unlink", "read", "retire", "count",
                           "exchange", "dispose", "return", "overtook"}]
          /\ item \in [Threads -> Values \cup {Null}]
      BY DEF IInv, TypeOK
    <2>. QED BY <2>1, <2>2 DEF PopStep, PopCall, PopEmpty, PopLock, PopBegin, PopEnd, PopSize, PopSwap,
       PopNext, PopUnlink, PopRead, PopRetire, PopCount, Return
  <1>4. Items' /\ Counted' BY <1>2, <1>3, ItemsSame DEF IInv
  <1>. QED BY <1>1, <1>4, TypePop, LocalsPop DEF IInv, ListsKept

\* clear keeps the lists as they should be.
LEMMA ClearIInv ==
    ASSUME IInv, NEW t \in Clearers, ClearStep(t)
    PROVE  IInv'
  <1>. USE DEF Goto, At, listVars, nodeVars, poolVars, histVars, callVars
  <1>1. ListsKept
    BY ListsClearCall, ListsClearExchange, ListsClearRetire, ListsClearQuiet DEF ClearStep
  <1>2. UNCHANGED <<history, counted>>
    BY DEF ClearStep, ClearCall, ClearExchange, ClearInUse, ClearRetire, Return
  <1>3. \A u \in Pushers : pc'[u] = pc[u] /\ item'[u] = item[u]
    <2>1. t \notin Pushers /\ \A u \in Pushers : u \in Threads /\ u # t
      BY ConstantsOk DEF Threads
    <2>2. item \in [Threads -> Values \cup {Null}] BY DEF IInv, TypeOK
    <2>3. \E l : pc' = [pc EXCEPT ![t] = l]
      BY DEF ClearStep, ClearCall, ClearExchange, ClearInUse, ClearRetire, Return
    <2>4. item' = item \/ item' = [item EXCEPT ![t] = Null]
      BY DEF ClearStep, ClearCall, ClearExchange, ClearInUse, ClearRetire, Return
    <2>. QED BY <2>1, <2>2, <2>3, <2>4 DEF IInv, TypeOK
  <1>4. Items' /\ Counted' BY <1>2, <1>3, ItemsSame DEF IInv
  <1>. QED BY <1>1, <1>4, TypeClear, LocalsClear DEF IInv, ListsKept

\* With one popper the two lists are whole in every state: from _begin of _frond to its
\* _end, and from _begin of _back to its _end but for the links of pushes under way, one node
\* for each element not taken and a dummy each, every one of them in one place.
THEOREM Invariance == OnePopper => (Spec => []IInv)
  <1>. SUFFICES ASSUME OnePopper PROVE Spec => []IInv
    OBVIOUS
  <1>1. IInv /\ [Next]_vars => IInv'
    <2>. SUFFICES ASSUME IInv, [Next]_vars PROVE IInv'
      OBVIOUS
    <2>1. CASE UNCHANGED vars BY <2>1, StutterIInv
    <2>2. CASE \E t \in Pushers : PushStep(t) BY <2>2, PushIInv
    <2>3. CASE \E t \in Poppers : PopStep(t) BY <2>3, PopIInv
    <2>4. CASE \E t \in Clearers : ClearStep(t) BY <2>4, ClearIInv
    <2>. QED BY <2>1, <2>2, <2>3, <2>4 DEF Next, Step
  <1>. QED BY <1>1, InitIInv, PTL DEF Spec

\* With one popper a node that push links to, without a hazard pointer of its own, or pop
\* follows is neither retired nor free, also while clear and the exchange go on: the mutex is
\* enough.
THEOREM NodesKept == OnePopper => (Spec => []NodesInUse)
  <1>. SUFFICES ASSUME OnePopper PROVE Spec => []NodesInUse
    OBVIOUS
  <1>1. IInv => NodesInUse
    <2>. SUFFICES ASSUME IInv, NEW t \in Pushers \cup Poppers
                  PROVE  /\ At(t, "link") => reg[t] \notin Loose
                         /\ pc[t] \in {"next", "unlink"} => h0[t] \notin Loose
      BY DEF NodesInUse, Loose
    <2>1. PICK L, M, s, D : Lists(L, M, s, D) BY DEF IInv
    <2>2. /\ L \in [Nat -> Nodes] /\ M \in [Nat -> Nodes] /\ s \in Nat /\ taken \in Nat /\ taken <= s
          /\ Apart(L, M, s, D) /\ Pushed \in Nat
      BY <2>1 DEF Lists, Places, IInv, TypeOK, Pushed
    <2>3. ASSUME At(t, "link") PROVE reg[t] \notin Loose
      <3>1. t \in Pushers BY <2>3 DEF IInv, LocalsOk, PopLabels, At
      <3>2. PICK k \in s + 1 .. Pushed : reg[t] = M[k - 1]
        BY <2>1, <2>3, <3>1 DEF Lists, PushOk
      <3>3. k - 1 \in s..Pushed /\ M[k - 1] \in Nodes BY <2>2
      <3>4. InBack(M, s, reg[t]) BY <3>2, <3>3 DEF InBack
      <3>. QED BY <2>2, <3>2, <3>3, <3>4 DEF Apart
    <2>4. ASSUME pc[t] \in {"next", "unlink"} PROVE h0[t] \notin Loose
      <3>1. t \in Poppers BY <2>4 DEF IInv, LocalsOk, PushLabels
      <3>2. h0[t] = L[taken] BY <2>1, <2>4, <3>1 DEF Lists, PopOk
      <3>3. taken \in taken..s /\ L[taken] \in Nodes BY <2>2
      <3>4. InFrond(L, s, h0[t]) BY <3>2, <3>3 DEF InFrond
      <3>. QED BY <2>2, <3>2, <3>3, <3>4 DEF Apart
    <2>. QED BY <2>3, <2>4
  <1>. QED BY <1>1, Invariance, PTL

-----------------------------------------------------------------------------
(* _size *)

\* There are no more nodes than _size can count.
FewNodes == Cardinality(Nodes) <= SizeMod

CountLabels == {"link", "pcount"}
DiscountLabels == {"read", "retire", "count"}
Due == {t \in Pushers : pc[t] \in CountLabels}
Discounts == {t \in Poppers : pc[t] \in DiscountLabels}
Sized == size = Pushed - Cardinality(Due) - (taken - Cardinality(Discounts))

\* What is taken counts, and what counts was appended.
LEMMA InvNumbers ==
    ASSUME IInv
    PROVE  /\ taken \in Nat /\ counted \in Nat /\ Pushed \in Nat
           /\ taken <= counted /\ counted <= Pushed
           /\ history \in Seq(Values) /\ Null \notin Values
           /\ \A k \in 1..Pushed : history[k] \in Values
  <1>1. PICK L, M, s, D : Places(L, M, s, D) BY DEF IInv, Lists
  <1>2. history \in Seq(Values) /\ taken \in Nat /\ counted \in Nat BY DEF IInv, TypeOK
  <1>3. Pushed \in Nat /\ \A k \in 1..Pushed : history[k] \in Values BY <1>2 DEF Pushed
  <1>. QED BY <1>1, <1>2, <1>3, ConstantsOk DEF Places, IInv, Counted

\* The pushes that have not counted are those of elements in the list.
LEMMA DueLeft ==
    ASSUME IInv
    PROVE  /\ IsFiniteSet(Due) /\ Cardinality(Due) \in Nat
           /\ Cardinality(Due) <= Pushed - taken
           /\ Cardinality(Due) = Pushed - taken => counted = taken
  <1>1. PICK P \in Nat, a \in Nat : P = Pushed /\ a = taken /\ a <= P
    BY InvNumbers
  <1>. DEFINE R == a + 1 .. P
              Which(t) == CHOOSE k \in R : item[t] = history[k]
              f == [t \in Due |-> Which(t)]
  <1>2. IsFiniteSet(R) /\ Cardinality(R) = P - a
    <2>1. a + 1 \in Int /\ P \in Int /\ (a + 1 > P <=> a = P) BY <1>1
    <2>2. IsFiniteSet(R) /\ Cardinality(R) = IF a + 1 > P THEN 0 ELSE P - (a + 1) + 1
      BY <2>1, FS_Interval
    <2>. QED BY <1>1, <2>1, <2>2
  <1>3. ASSUME NEW t \in Due PROVE \E k \in R : item[t] = history[k]
    <2>1. PICK L, M, s, D : Lists(L, M, s, D) BY DEF IInv
    <2>2. s \in Nat /\ a <= s BY <1>1, <2>1 DEF Lists, Places
    <2>3. PICK k \in s + 1 .. Pushed : item[t] = history[k]
      BY <1>3, <2>1 DEF Due, CountLabels, Lists, PushOk, At
    <2>4. k \in R BY <1>1, <2>2, <2>3
    <2>. QED BY <2>3, <2>4
  <1>4. \A t \in Due : Which(t) \in R /\ item[t] = history[Which(t)] BY <1>3
  <1>5. ASSUME NEW t \in Due, NEW u \in Due, item[t] = item[u] PROVE t = u
    <2>1. item[t] # Null BY <1>5 DEF Due, CountLabels, IInv, LocalsOk, At
    <2>. QED BY <1>5, <2>1 DEF Due, IInv, Items
  <1>. HIDE DEF Which
  <1>6. f \in Injection(Due, R)
    <2>1. f \in [Due -> R] BY <1>4
    <2>2. \A t, u \in Due : f[t] = f[u] => t = u BY <1>4, <1>5
    <2>. HIDE DEF f
    <2>. QED BY <2>1, <2>2 DEF Injection, IsInjective
  <1>7. \A t \in Due : f[t] \in R /\ item[t] = history[f[t]] BY <1>4
  <1>. HIDE DEF f, R
  <1>8. /\ IsFiniteSet(Due) /\ Cardinality(Due) <= Cardinality(R)
        /\ Cardinality(Due) = Cardinality(R) <=> f \in Surjection(Due, R)
    BY <1>2, <1>6, FS_Injection
  <1>9. Cardinality(Due) \in Nat BY <1>8, FS_CardinalityType
  <1>10. ASSUME f \in Surjection(Due, R), counted # a PROVE FALSE
    <2>1. counted \in R BY <1>1, <1>10, InvNumbers DEF R
    <2>2. PICK t \in Due : f[t] = counted BY <1>10, <2>1 DEF Surjection
    <2>3. item[t] = history[counted] BY <1>7, <2>2
    <2>. QED BY <1>1, <1>10, <2>3, InvNumbers DEF Due, CountLabels, IInv, Counted
  <1>. QED BY <1>1, <1>2, <1>8, <1>9, <1>10

\* The elements of the queue have a node each, and there are two dummies.
LEMMA RoomLeft ==
    ASSUME IInv
    PROVE  Cardinality(Nodes) \in Nat /\ Pushed - taken + 2 <= Cardinality(Nodes)
  <1>1. PICK P \in Nat, a \in Nat : P = Pushed /\ a = taken /\ a <= P
    BY InvNumbers
  <1>2. PICK L, M, s, D : Lists(L, M, s, D) BY DEF IInv
  <1>3. /\ L \in [Nat -> Nodes] /\ M \in [Nat -> Nodes] /\ s \in Nat /\ a <= s /\ s <= P
        /\ Apart(L, M, s, D)
    BY <1>1, <1>2, InvNumbers DEF Lists, Places
  <1>. DEFINE R == a .. P + 1
              f == [k \in R |-> IF k <= s THEN L[k] ELSE M[k - 1]]
  <1>4. IsFiniteSet(R) /\ Cardinality(R) = P - a + 2
    <2>1. a \in Int /\ P + 1 \in Int /\ ~ (a > P + 1) BY <1>1
    <2>2. IsFiniteSet(R) /\ Cardinality(R) = IF a > P + 1 THEN 0 ELSE P + 1 - a + 1
      BY <2>1, FS_Interval
    <2>. QED BY <1>1, <2>1, <2>2
  <1>5. f \in [R -> Nodes] BY <1>1, <1>3
  <1>6. ASSUME NEW j \in R, NEW k \in R, f[j] = f[k] PROVE j = k
    <2>1. /\ \A x, y \in a..s : L[x] = L[y] => x = y
          /\ \A x, y \in s..P : M[x] = M[y] => x = y
          /\ \A x \in a..s, y \in s..P : L[x] # M[y]
      BY <1>1, <1>3 DEF Apart
    <2>2. /\ j <= s => j \in a..s /\ f[j] = L[j]
          /\ ~ (j <= s) => j - 1 \in s..P /\ f[j] = M[j - 1]
      BY <1>1, <1>3
    <2>3. /\ k <= s => k \in a..s /\ f[k] = L[k]
          /\ ~ (k <= s) => k - 1 \in s..P /\ f[k] = M[k - 1]
      BY <1>1, <1>3
    <2>. HIDE DEF f
    <2>4. CASE j <= s /\ k <= s BY <1>6, <2>1, <2>2, <2>3, <2>4
    <2>5. CASE ~ (j <= s) /\ ~ (k <= s)
      <3>1. j - 1 = k - 1 BY <1>6, <2>1, <2>2, <2>3, <2>5
      <3>. QED BY <1>1, <3>1
    <2>6. CASE ~ (j <= s <=> k <= s) BY <1>6, <2>1, <2>2, <2>3, <2>6
    <2>. QED BY <2>4, <2>5, <2>6
  <1>. HIDE DEF f, R
  <1>7. f \in Injection(R, Nodes) BY <1>5, <1>6 DEF Injection, IsInjective
  <1>8. IsFiniteSet(Nodes) BY ConstantsOk
  <1>9. Cardinality(R) <= Cardinality(Nodes) BY <1>7, <1>8, FS_Injection
  <1>10. Cardinality(Nodes) \in Nat BY <1>8, FS_CardinalityType
  <1>. QED BY <1>1, <1>4, <1>9, <1>10

\* Of one popper.
LEMMA DiscountsOf ==
    ASSUME OnePopper
    PROVE  /\ Cardinality(Discounts) \in {0, 1}
           /\ \A t \in Poppers :
                 /\ pc[t] \in DiscountLabels => Cardinality(Discounts) = 1
                 /\ pc[t] \notin DiscountLabels => Cardinality(Discounts) = 0
  <1>1. Cardinality({}) = 0 BY FS_EmptySet
  <1>2. \A x : Cardinality({x}) = 1 BY FS_Singleton
  <1>3. \A t \in Poppers : pc[t] \in DiscountLabels => Discounts = {t} BY DEF Discounts, OnePopper
  <1>4. \A t \in Poppers : pc[t] \notin DiscountLabels => Discounts = {} BY DEF Discounts, OnePopper
  <1>5. Poppers = {} => Discounts = {} BY DEF Discounts
  <1>6. ASSUME NEW t \in Poppers
        PROVE  /\ pc[t] \in DiscountLabels => Cardinality(Discounts) = 1
               /\ pc[t] \notin DiscountLabels => Cardinality(Discounts) = 0
    BY <1>1, <1>2, <1>3, <1>4
  <1>7. Poppers = {} \/ \E t \in Poppers : TRUE OBVIOUS
  <1>. QED BY <1>1, <1>5, <1>6, <1>7

\* push counts what it appended, once, and _size does not wrap around.
LEMMA SizedPush ==
    ASSUME OnePopper, FewNodes, IInv, Sized, NEW t \in Pushers, PushStep(t)
    PROVE  Sized'
  <1>. USE DEF Goto, At, listVars, nodeVars, poolVars, histVars, callVars
  <1>1. /\ taken \in Nat /\ Pushed \in Nat /\ history \in Seq(Values)
        /\ IsFiniteSet(Due) /\ Cardinality(Due) \in Nat /\ Cardinality(Due) <= Pushed - taken
    BY InvNumbers, DueLeft
  <1>2. /\ Cardinality(Discounts) \in {0, 1}
        /\ Cardinality(Nodes) \in Nat /\ Pushed - taken + 2 <= Cardinality(Nodes)
        /\ Cardinality(Nodes) <= SizeMod /\ SizeMod \in Nat
    BY DiscountsOf, RoomLeft, ConstantsOk DEF FewNodes
  <1>3. PICK l : /\ pc' = [pc EXCEPT ![t] = l]
                 /\ l = "link" => PushAppend(t)
                 /\ l = "pcount" => PushLink(t)
    BY DEF PushStep, PushCall, PushLock, PushAppend, PushLink, PushCount, Return
  <1>4. \A u \in Threads : pc'[u] = IF u = t THEN l ELSE pc[u]
    BY <1>3 DEF IInv, TypeOK
  <1>5. t \notin Poppers /\ Pushers \subseteq Threads /\ Poppers \subseteq Threads
    BY ConstantsOk DEF Threads
  <1>6. Discounts' = Discounts BY <1>4, <1>5 DEF Discounts
  <1>7. Due' = IF l \in CountLabels THEN Due \cup {t} ELSE Due \ {t}
    BY <1>4, <1>5 DEF Due
  <1>8. taken' = taken
    BY DEF PushStep, PushCall, PushLock, PushAppend, PushLink, PushCount, Return
  <1>9. CASE PushAppend(t)
    <2>1. pc[t] = "append" /\ l = "link" /\ history' = Append(history, item[t]) /\ size' = size
      BY <1>4, <1>5, <1>9 DEF PushAppend, IInv, TypeOK
    <2>2. t \notin Due /\ Due' = Due \cup {t} BY <1>7, <2>1 DEF Due, CountLabels
    <2>3. Cardinality(Due') = Cardinality(Due) + 1 BY <1>1, <2>2, FS_AddElement
    <2>4. Pushed' = Pushed + 1 BY <1>1, <2>1 DEF Pushed
    <2>5. size = Pushed - Cardinality(Due) - (taken - Cardinality(Discounts)) BY DEF Sized
    <2>6. size = Pushed' - Cardinality(Due') - (taken - Cardinality(Discounts))
      BY <1>1, <1>2, <2>3, <2>4, <2>5
    <2>. QED BY <1>6, <1>8, <2>1, <2>6 DEF Sized
  <1>10. CASE PushCount(t)
    <2>1. pc[t] = "pcount" /\ l = "return" /\ history' = history /\ size' = (size + 1) % SizeMod
      BY <1>4, <1>5, <1>10 DEF PushCount, IInv, TypeOK
    <2>2. t \in Due /\ Due' = Due \ {t} BY <1>7, <2>1 DEF Due, CountLabels
    <2>3. Cardinality(Due') = Cardinality(Due) - 1 BY <1>1, <2>2, FS_RemoveElement
    <2>4. Cardinality(Due) # 0 BY <1>1, <2>2, FS_EmptySet
    <2>5. size = Pushed - Cardinality(Due) - (taken - Cardinality(Discounts)) BY DEF Sized
    <2>6. size + 1 \in 0..(SizeMod - 1) BY <1>1, <1>2, <2>4, <2>5
    <2>7. size' = size + 1 BY <1>2, <2>1, <2>6
    <2>8. size' = Pushed - Cardinality(Due') - (taken - Cardinality(Discounts))
      BY <1>1, <1>2, <2>3, <2>5, <2>7
    <2>. QED BY <1>6, <1>8, <2>1, <2>8 DEF Sized, Pushed
  <1>11. CASE ~ PushAppend(t) /\ ~ PushCount(t)
    <2>1. size' = size /\ history' = history
      BY <1>11 DEF PushStep, PushCall, PushLock, PushLink, Return
    <2>2. pc[t] \in CountLabels <=> l \in CountLabels
      <3>1. pc'[t] = l BY <1>4, <1>5
      <3>2. l \in CountLabels => PushLink(t) BY <1>3, <1>11 DEF CountLabels
      <3>3. PushLink(t) => pc[t] \in CountLabels /\ l \in CountLabels
        BY <3>1, <1>5 DEF PushLink, CountLabels, IInv, TypeOK
      <3>4. pc[t] \in CountLabels => PushLink(t)
        BY <1>11 DEF CountLabels, PushStep, PushCall, PushLock, Return
      <3>. QED BY <3>2, <3>3, <3>4
    <2>3. Due' = Due BY <1>7, <2>2 DEF Due
    <2>. QED BY <1>6, <1>8, <2>1, <2>3 DEF Sized, Pushed
  <1>. QED BY <1>9, <1>10, <1>11

\* pop counts what it unlinked, once, and _size does not pass below 0.
LEMMA SizedPop ==
    ASSUME OnePopper, IInv, Sized, NEW t \in Poppers, PopStep(t)
    PROVE  Sized'
  <1>. USE DEF Goto, At, listVars, nodeVars, poolVars, histVars, callVars
  <1>1. /\ taken \in Nat /\ Pushed \in Nat /\ SizeMod \in Nat \ {0} /\ size \in 0..(SizeMod - 1)
        /\ Cardinality(Due) \in Nat /\ Cardinality(Due) <= Pushed - taken
    BY InvNumbers, DueLeft, ConstantsOk DEF IInv, TypeOK
  <1>2. PICK l : pc' = [pc EXCEPT ![t] = l]
    BY DEF PopStep, PopCall, PopEmpty, PopLock, PopBegin, PopEnd, PopSize, PopSwap, PopNext,
       PopUnlink, PopRead, PopRetire, PopCount, Return
  <1>3. \A u \in Threads : pc'[u] = IF u = t THEN l ELSE pc[u]
    BY <1>2 DEF IInv, TypeOK
  <1>4. t \notin Pushers /\ Pushers \subseteq Threads /\ Poppers \subseteq Threads
    BY ConstantsOk DEF Threads
  <1>5. Due' = Due BY <1>3, <1>4 DEF Due
  <1>6. Discounts = IF pc[t] \in DiscountLabels THEN {t} ELSE {}
    BY DEF Discounts, OnePopper
  <1>7. Discounts' = IF l \in DiscountLabels THEN {t} ELSE {}
    BY <1>3, <1>4 DEF Discounts, OnePopper
  <1>8. Cardinality({t}) = 1 /\ Cardinality({}) = 0 BY FS_Singleton, FS_EmptySet
  <1>9. history' = history
    BY DEF PopStep, PopCall, PopEmpty, PopLock, PopBegin, PopEnd, PopSize, PopSwap, PopNext,
       PopUnlink, PopRead, PopRetire, PopCount, Return
  <1>10. size = Pushed - Cardinality(Due) - (taken - Cardinality(Discounts)) BY DEF Sized
  <1>11. CASE PopUnlink(t) /\ frond.begin = h0[t]
    <2>1. pc[t] = "unlink" /\ l = "read" /\ size' = size /\ taken' = taken + 1
      BY <1>2, <1>3, <1>4, <1>11 DEF PopUnlink, IInv, TypeOK
    <2>2. Cardinality(Discounts) = 0 /\ Cardinality(Discounts') = 1
      BY <1>6, <1>7, <1>8, <2>1 DEF DiscountLabels
    <2>3. size = Pushed - Cardinality(Due) - (taken' - Cardinality(Discounts'))
      BY <1>1, <1>10, <2>1, <2>2
    <2>. QED BY <1>5, <1>9, <2>1, <2>3 DEF Sized, Pushed
  <1>12. CASE PopCount(t)
    <2>1. pc[t] = "count" /\ l = "return" /\ size' = (size - 1) % SizeMod /\ taken' = taken
      BY <1>2, <1>3, <1>4, <1>12 DEF PopCount, IInv, TypeOK
    <2>2. Cardinality(Discounts) = 1 /\ Cardinality(Discounts') = 0
      BY <1>6, <1>7, <1>8, <2>1 DEF DiscountLabels
    <2>3. size - 1 \in 0..(SizeMod - 1) BY <1>1, <1>10, <2>2
    <2>4. size' = size - 1 BY <1>1, <2>1, <2>3
    <2>5. size' = Pushed - Cardinality(Due) - (taken' - Cardinality(Discounts'))
      BY <1>1, <1>10, <2>1, <2>2, <2>4
    <2>. QED BY <1>5, <1>9, <2>5 DEF Sized, Pushed
  <1>13. CASE ~ (PopUnlink(t) /\ frond.begin = h0[t]) /\ ~ PopCount(t)
    <2>1. size' = size /\ taken' = taken
      BY <1>13 DEF PopStep, PopCall, PopEmpty, PopLock, PopBegin, PopEnd, PopSize, PopSwap, PopNext,
         PopUnlink, PopRead, PopRetire, Return
    <2>2. pc[t] \in DiscountLabels <=> l \in DiscountLabels
      <3>1. l = pc'[t] BY <1>3, <1>4
      <3>. QED
        BY <1>13, <1>4, <3>1 DEF DiscountLabels, PopStep, PopCall, PopEmpty, PopLock, PopBegin, PopEnd,
           PopSize, PopSwap, PopNext, PopUnlink, PopRead, PopRetire, Return, IInv, TypeOK
    <2>3. Discounts' = Discounts BY <1>6, <1>7, <2>2
    <2>. QED BY <1>5, <1>9, <2>1, <2>3 DEF Sized, Pushed
  <1>. QED BY <1>11, <1>12, <1>13

\* clear sets _size to 0 when every call has counted.
LEMMA SizedClear ==
    ASSUME OnePopper, IInv, Sized, NEW t \in Clearers, ClearStep(t)
    PROVE  Sized'
  <1>. USE DEF Goto, At, listVars, nodeVars, poolVars, histVars, callVars
  <1>1. Pushed \in Nat BY InvNumbers
  <1>2. \A u \in Pushers \cup Poppers : pc'[u] = pc[u]
    <2>1. t \notin Pushers \cup Poppers /\ Pushers \cup Poppers \subseteq Threads
      BY ConstantsOk DEF Threads
    <2>2. \E l : pc' = [pc EXCEPT ![t] = l]
      BY DEF ClearStep, ClearCall, ClearExchange, ClearInUse, ClearRetire, Return
    <2>. QED BY <2>1, <2>2 DEF IInv, TypeOK
  <1>3. Due' = Due /\ Discounts' = Discounts BY <1>2 DEF Due, Discounts
  <1>4. CASE ClearExchange(t)
    <2>1. \A u \in Pushers \cup Poppers :
              pc[u] \in {"idle", "empty", "lock", "exchange", "dispose", "return"}
      <3>1. t \notin Pushers \cup Poppers /\ Pushers \cup Poppers \subseteq Threads
        BY ConstantsOk DEF Threads
      <3>. QED BY <1>4, <3>1 DEF ClearExchange, NoOtherCall, UsesQue, At
    <2>2. Due = {} /\ Discounts = {}
      BY <2>1 DEF Due, Discounts, CountLabels, DiscountLabels
    <2>3. Cardinality({}) = 0 BY FS_EmptySet
    <2>4. size' = 0 /\ taken' = Pushed /\ Pushed' = Pushed BY <1>4 DEF ClearExchange, Pushed
    <2>5. 0 = Pushed - 0 - (Pushed - 0) BY <1>1
    <2>. QED BY <1>3, <2>2, <2>3, <2>4, <2>5 DEF Sized
  <1>5. CASE ~ ClearExchange(t)
    <2>1. UNCHANGED <<size, taken, history>> BY <1>5 DEF ClearStep, ClearCall, ClearInUse, ClearRetire, Return
    <2>. QED BY <1>3, <2>1 DEF Sized, Pushed
  <1>. QED BY <1>4, <1>5

\* Every step keeps _size exact.
LEMMA SizedNext == OnePopper /\ FewNodes /\ IInv /\ Sized /\ [Next]_vars => Sized'
  <1>. SUFFICES ASSUME OnePopper, FewNodes, IInv, Sized, [Next]_vars PROVE Sized'
    OBVIOUS
  <1>1. CASE UNCHANGED vars
    <2>1. UNCHANGED <<size, taken, history, pc>> BY <1>1 DEF vars, histVars
    <2>. QED BY <2>1 DEF Sized, Pushed, Due, Discounts
  <1>2. CASE \E t \in Pushers : PushStep(t) BY <1>2, SizedPush
  <1>3. CASE \E t \in Poppers : PopStep(t) BY <1>3, SizedPop
  <1>4. CASE \E t \in Clearers : ClearStep(t) BY <1>4, SizedClear
  <1>. QED BY <1>1, <1>2, <1>3, <1>4 DEF Next, Step

\* _size is 0 first.
LEMMA SizedInit == Init => Sized
  <1>. SUFFICES ASSUME Init PROVE Sized
    OBVIOUS
  <1>1. \A t \in Pushers \cup Poppers : pc[t] = "idle" BY DEF Init, Threads
  <1>2. Due = {} /\ Discounts = {} BY <1>1 DEF Due, Discounts, CountLabels, DiscountLabels
  <1>3. Cardinality({}) = 0 BY FS_EmptySet
  <1>4. Pushed = 0 /\ taken = 0 /\ size = 0 BY DEF Init, Pushed
  <1>. QED BY <1>2, <1>3, <1>4 DEF Sized

\* With one popper _size is the number of elements but for the calls that have not counted.
THEOREM SizeInvariance == OnePopper /\ FewNodes => (Spec => []Sized)
  <1>. SUFFICES ASSUME OnePopper, FewNodes PROVE Spec => []Sized
    OBVIOUS
  <1>1. IInv /\ Sized /\ [Next]_vars => Sized' BY SizedNext
  <1>. QED BY <1>1, SizedInit, Invariance, PTL DEF Spec

\* With one popper, and no more nodes than _size can count, _size is exact: it neither wraps
\* around nor passes below 0, in whichever order the pushes count.
THEOREM SizeExact == OnePopper /\ FewNodes => (Spec => []SizeCounts)
  <1>. SUFFICES ASSUME OnePopper, FewNodes PROVE Spec => []SizeCounts
    OBVIOUS
  <1>1. IInv /\ Sized => SizeCounts
    BY DEF IInv, Sized, SizeCounts, CountDue, DiscountDue, Due, Discounts, CountLabels, DiscountLabels
  <1>. QED BY <1>1, Invariance, SizeInvariance, PTL

-----------------------------------------------------------------------------
(* The queue it implements *)

Queue == SubSeq(history, taken + 1, counted)
State == [t \in Threads |-> IF At(t, "idle") THEN "idle"
                            ELSE IF TookEffect(t) THEN "done" ELSE "called"]
Result == [t \in Threads |-> IF At(t, "read") THEN data[h1[t]] ELSE item[t]]

\* The variables of the queue the lists stand for.
LEMMA AbstractVars ==
    /\ Abstract!vars = <<Queue, State, Result>>
    /\ Abstract!Threads = Threads
  BY DEF Abstract!vars, Abstract!Threads, Threads, Queue, State, Result

\* A step that changes none of them.
LEMMA AbstractStutter == UNCHANGED <<Queue, State, Result>> => UNCHANGED Abstract!vars
  BY DEF Abstract!vars, Queue, State, Result

\* A call starts.
LEMMA AbstractCall ==
    ASSUME NEW t \in Threads, State[t] = "idle", State' = [State EXCEPT ![t] = "called"],
           NEW v \in IF t \in Pushers THEN Values ELSE {Null},
           Result' = [Result EXCEPT ![t] = v], Queue' = Queue
    PROVE  Abstract!Next
  <1>1. Abstract!Call(t) BY DEF Abstract!Call, Queue, State, Result
  <1>. QED BY <1>1, AbstractVars DEF Abstract!Next

\* A call returns.
LEMMA AbstractReturn ==
    ASSUME NEW t \in Threads, State[t] = "done", State' = [State EXCEPT ![t] = "idle"],
           Result' = [Result EXCEPT ![t] = Null], Queue' = Queue
    PROVE  Abstract!Next
  <1>1. Abstract!Return(t) BY DEF Abstract!Return, Queue, State, Result
  <1>. QED BY <1>1, AbstractVars DEF Abstract!Next

\* A pop takes effect.
LEMMA AbstractPop ==
    ASSUME NEW t \in Poppers, State[t] = "called", State' = [State EXCEPT ![t] = "done"],
           \/ Queue = <<>> /\ Queue' = Queue /\ Result' = Result
           \/ /\ Queue # <<>>
              /\ Queue' = Tail(Queue)
              /\ Result' = [Result EXCEPT ![t] = Head(Queue)]
    PROVE  Abstract!Next
  <1>1. Abstract!Pop(t) BY DEF Abstract!Pop, Queue, State, Result
  <1>2. t \in Threads BY DEF Threads
  <1>. QED BY <1>1, <1>2, AbstractVars DEF Abstract!Next

\* A clear takes effect.
LEMMA AbstractClear ==
    ASSUME NEW t \in Clearers, State[t] = "called", State' = [State EXCEPT ![t] = "done"],
           Queue' = <<>>, Result' = Result
    PROVE  Abstract!Next
  <1>1. Abstract!Clear(t) BY DEF Abstract!Clear, Queue, State, Result
  <1>2. t \in Threads BY DEF Threads
  <1>. QED BY <1>1, <1>2, AbstractVars DEF Abstract!Next

\* Some pushes at once, in an order.
LEMMA AbstractPush ==
    ASSUME NEW n \in Nat \ {0}, NEW ts \in [1..n -> Pushers],
           \A i, j \in 1..n : ts[i] = ts[j] => i = j,
           \A i \in 1..n : State[ts[i]] = "called",
           State' = [t \in Threads |-> IF \E i \in 1..n : t = ts[i] THEN "done" ELSE State[t]],
           Queue' = Queue \o [i \in 1..n |-> Result[ts[i]]], Result' = Result
    PROVE  Abstract!Next
  <1>. DEFINE S == {ts[i] : i \in 1..n}
  <1>1. S \in (SUBSET Pushers) \ {{}}
    <2>1. 1 \in 1..n OBVIOUS
    <2>2. ts[1] \in S BY <2>1
    <2>3. S \subseteq Pushers OBVIOUS
    <2>. HIDE DEF S
    <2>. QED BY <2>2, <2>3
  <1>2. ts \in [1..n -> S] OBVIOUS
  <1>3. \A t : t \in S <=> \E i \in 1..n : t = ts[i] OBVIOUS
  <1>. HIDE DEF S
  <1>4. Cardinality(S) = n
    <2>1. ts \in Bijection(1..n, S)
      BY <1>2, <1>3 DEF Bijection, Injection, Surjection, IsInjective
    <2>2. ExistsBijection(1..n, S) BY <2>1 DEF ExistsBijection
    <2>. QED BY <2>2, FS_CountingElements
  <1>5. ts \in Abstract!SetToSeqs(S)
    <2>1. Abstract!Cardinality(S) = n BY <1>4 DEF Abstract!Cardinality, Cardinality
    <2>2. Abstract!SetToSeqs(S) =
             {f \in [1..n -> S] : \A i, j \in 1..n : i # j => f[i] # f[j]}
      BY <2>1, Zenon DEF Abstract!SetToSeqs
    <2>3. \A i, j \in 1..n : i # j => ts[i] # ts[j] OBVIOUS
    <2>. QED BY <1>2, <2>2, <2>3
  <1>6. DOMAIN ts = 1..n OBVIOUS
  <1>7. Abstract!ToSet(ts) = S BY <1>3, <1>6 DEF Abstract!ToSet
  <1>8. State' = [t \in Threads |-> IF t \in Abstract!ToSet(ts) THEN "done" ELSE State[t]]
    BY <1>3, <1>7
  <1>9. /\ \A i \in DOMAIN ts : State[ts[i]] = "called"
        /\ Queue' = Queue \o [i \in DOMAIN ts |-> Result[ts[i]]]
    BY <1>6
  <1>10. Abstract!Push(ts)
    BY <1>8, <1>9, AbstractVars DEF Abstract!Push, Queue, State, Result
  <1>. QED BY <1>1, <1>5, <1>10 DEF Abstract!Next

\* A call changes its own variables only, and the data of nodes nobody uses.
Own(t) == Others(t) /\ \A m \in Nodes : m \notin free => data'[m] = data[m]

\* push leaves the variables of other calls alone.
LEMMA OwnPush ==
    ASSUME TypeOK, NEW t \in Pushers, PushStep(t)
    PROVE  Own(t)
  <1>. USE DEF Goto, At, listVars, nodeVars, poolVars, histVars, callVars, Own, Others, TypeOK
  <1>1. CASE PushCall(t) BY <1>1 DEF PushCall, NewNodes
  <1>2. CASE PushLock(t) BY <1>2 DEF PushLock
  <1>3. CASE PushAppend(t) BY <1>3 DEF PushAppend
  <1>4. CASE PushLink(t) BY <1>4 DEF PushLink
  <1>5. CASE PushCount(t) BY <1>5 DEF PushCount
  <1>6. CASE Return(t) BY <1>6 DEF Return
  <1>. QED BY <1>1, <1>2, <1>3, <1>4, <1>5, <1>6 DEF PushStep

\* pop leaves the variables of other calls alone.
LEMMA OwnPop ==
    ASSUME TypeOK, NEW t \in Poppers, PopStep(t)
    PROVE  Own(t)
  <1>. USE DEF Goto, At, listVars, nodeVars, poolVars, histVars, callVars, Own, Others, TypeOK
  <1>1. CASE PopCall(t) \/ PopEmpty(t) \/ PopLock(t) \/ PopBegin(t)
    BY <1>1 DEF PopCall, PopEmpty, PopLock, PopBegin
  <1>2. CASE PopEnd(t) \/ PopSize(t) \/ PopSwap(t) BY <1>2 DEF PopEnd, PopSize, PopSwap
  <1>3. CASE PopNext(t) \/ PopUnlink(t) BY <1>3 DEF PopNext, PopUnlink
  <1>4. CASE PopRead(t) \/ PopRetire(t) \/ PopCount(t) BY <1>4 DEF PopRead, PopRetire, PopCount
  <1>5. CASE Return(t) BY <1>5 DEF Return
  <1>. QED BY <1>1, <1>2, <1>3, <1>4, <1>5 DEF PopStep

\* clear leaves the variables of other calls alone.
LEMMA OwnClear ==
    ASSUME TypeOK, NEW t \in Clearers, ClearStep(t)
    PROVE  Own(t)
  <1>. USE DEF Goto, At, listVars, nodeVars, poolVars, histVars, callVars, Own, Others, TypeOK
  <1>1. CASE ClearCall(t) BY <1>1 DEF ClearCall, NewNodes
  <1>2. CASE ClearExchange(t) BY <1>2 DEF ClearExchange
  <1>3. CASE ClearRetire(t) BY <1>3 DEF ClearRetire
  <1>4. CASE Return(t) BY <1>4 DEF Return
  <1>5. CASE ClearInUse(t) BY <1>5 DEF ClearInUse
  <1>. QED BY <1>1, <1>2, <1>3, <1>4, <1>5 DEF ClearStep

\* The pushes that took effect are those of an element that counts.
Took ==
    /\ \A t \in Pushers : TookEffect(t) <=> \E k \in 1..counted : item[t] = history[k]
    /\ \A t \in Threads \ Pushers :
          TookEffect(t) <=> pc[t] \in {"read", "retire", "count", "dispose", "return"}

\* A push took effect when its element counts.
LEMMA TookIs == IInv => Took
  <1>. SUFFICES ASSUME IInv PROVE Took
    OBVIOUS
  <1>1. ToSet(SubSeq(history, 1, counted)) = {history[k] : k \in 1..counted}
    <2>. DEFINE q == SubSeq(history, 1, counted)
    <2>1. /\ history \in Seq(Values) /\ counted \in Nat /\ counted <= Len(history)
      BY InvNumbers DEF Pushed
    <2>2. Len(q) = counted /\ \A k \in 1..counted : q[k] = history[k] BY <2>1
    <2>3. q \in Seq(Values) BY <2>1
    <2>4. DOMAIN q = 1..counted BY <2>2, <2>3
    <2>. HIDE DEF q
    <2>5. ToSet(q) = {history[k] : k \in 1..counted} BY <2>2, <2>4 DEF ToSet
    <2>. QED BY <2>5 DEF q
  <1>. QED BY <1>1 DEF Took, TookEffect

\* The queue is what counts and is not taken.
QueueIs ==
    /\ Queue \in Seq(Values) /\ taken \in Nat /\ counted \in Nat /\ taken <= counted
    /\ Len(Queue) = counted - taken
    /\ \A n \in 1..Len(Queue) : Queue[n] = history[taken + n]

\* The queue the lists stand for, element by element.
LEMMA QueueSeq == IInv => QueueIs
  <1>. SUFFICES ASSUME IInv PROVE QueueIs
    OBVIOUS
  <1>1. /\ history \in Seq(Values) /\ counted \in Nat /\ taken \in Nat /\ taken <= counted
        /\ counted <= Len(history)
    BY InvNumbers DEF Pushed
  <1>2. Len(Queue) = counted - taken /\ Queue \in Seq(Values) BY <1>1 DEF Queue
  <1>3. \A n \in 1..Len(Queue) : Queue[n] = history[taken + n] BY <1>1, <1>2 DEF Queue
  <1>. QED BY <1>1, <1>2, <1>3 DEF QueueIs

\* What a step leaves alone.
LEMMA QueueSame ==
    ASSUME IInv, IInv', UNCHANGED <<taken, counted>>, \A k \in 1..counted : history'[k] = history[k]
    PROVE  Queue' = Queue
  <1>1. QueueIs /\ QueueIs' BY QueueSeq, PTL
  <1>2. Len(Queue') = Len(Queue) BY <1>1 DEF QueueIs
  <1>3. ASSUME NEW n \in 1..Len(Queue) PROVE Queue'[n] = Queue[n]
    <2>. PICK k : k = taken + n OBVIOUS
    <2>1. k \in 1..counted /\ k = taken + n /\ taken' = taken BY <1>1 DEF QueueIs
    <2>2. Queue[n] = history[k] BY <1>1, <2>1 DEF QueueIs
    <2>3. Queue'[n] = history'[k] BY <1>1, <1>2, <2>1 DEF QueueIs
    <2>. QED BY <2>1, <2>2, <2>3
  <1>. DEFINE q == Queue
              r == Queue'
  <1>4. q \in Seq(Values) /\ r \in Seq(Values) /\ Len(q) = Len(r) /\ \A n \in 1..Len(q) : r[n] = q[n]
    BY <1>1, <1>2, <1>3 DEF QueueIs
  <1>. HIDE DEF q, r
  <1>5. q = r BY <1>4
  <1>. QED BY <1>5 DEF q, r

\* The element a popper is about to read stays where it is.
LEMMA ResultSame ==
    ASSUME IInv, NEW t \in Threads, Own(t)
    PROVE  Result' = [Result EXCEPT ![t] = Result'[t]]
  <1>1. ASSUME NEW u \in Threads, u # t PROVE Result'[u] = Result[u]
    <2>1. pc'[u] = pc[u] /\ item'[u] = item[u] /\ h1'[u] = h1[u] BY <1>1 DEF Own, Others
    <2>2. CASE pc[u] # "read" BY <2>1, <2>2 DEF Result, At
    <2>3. CASE pc[u] = "read"
      <3>1. u \in Poppers
        BY <2>3 DEF IInv, LocalsOk, PushLabels, ClearLabels, Threads
      <3>2. PICK L, M, s, D : Lists(L, M, s, D) BY DEF IInv
      <3>3. /\ L \in [Nat -> Nodes] /\ s \in Nat /\ taken \in Nat /\ taken <= s
            /\ Apart(L, M, s, D) /\ PopOk(L, s, u)
        BY <3>1, <3>2 DEF Lists, Places, IInv, TypeOK
      <3>4. h1[u] = L[taken] /\ taken \in taken..s BY <2>3, <3>3 DEF PopOk, At
      <3>5. h1[u] \in Nodes /\ h1[u] \notin free
        BY <3>3, <3>4 DEF Apart, InFrond, Loose
      <3>6. data'[h1[u]] = data[h1[u]] BY <3>5 DEF Own
      <3>. QED BY <2>1, <2>3, <3>6 DEF Result, At
    <2>. QED BY <2>2, <2>3
  <1>. QED BY <1>1 DEF Result

\* No other call takes effect in a step that makes no element count.
LEMMA StateSame ==
    ASSUME IInv, IInv', NEW t \in Threads, Own(t), UNCHANGED counted,
           \A k \in 1..counted : history'[k] = history[k]
    PROVE  State' = [State EXCEPT ![t] = State'[t]]
  <1>1. Took /\ Took' BY TookIs, PTL
  <1>2. ASSUME NEW u \in Threads, u # t PROVE State'[u] = State[u]
    <2>1. pc'[u] = pc[u] /\ item'[u] = item[u] BY <1>2 DEF Own, Others
    <2>2. TookEffect(u)' <=> TookEffect(u) BY <1>1, <2>1 DEF Took
    <2>. QED BY <2>1, <2>2 DEF State, At
  <1>. QED BY <1>2 DEF State

\* What a thread is seen to do.
Seen == \A t \in Threads :
    /\ pc[t] = "idle" => State[t] = "idle"
    /\ t \in Pushers /\ pc[t] # "idle" =>
          State[t] = IF \E k \in 1..counted : item[t] = history[k] THEN "done" ELSE "called"
    /\ t \notin Pushers /\ pc[t] # "idle" =>
          State[t] = IF pc[t] \in {"read", "retire", "count", "dispose", "return"}
                     THEN "done" ELSE "called"

\* What each call is seen to have done.
LEMMA SeenIs == IInv => Seen
  BY TookIs DEF Took, State, At, Seen

\* How to recognise what a push and a pop make of a sequence.
LEMMA Joined ==
    ASSUME NEW S, NEW q \in Seq(S), NEW r \in Seq(S), NEW g \in Seq(S),
           Len(r) = Len(q) + Len(g),
           \A m \in 1..Len(q) : r[m] = q[m], \A i \in 1..Len(g) : r[Len(q) + i] = g[i]
    PROVE  r = q \o g
  <1>1. q \o g \in Seq(S) /\ Len(q \o g) = Len(r) OBVIOUS
  <1>2. ASSUME NEW m \in 1..Len(r) PROVE r[m] = (q \o g)[m]
    <2>1. CASE m <= Len(q) BY <1>2, <2>1
    <2>2. CASE ~ (m <= Len(q))
      <3>1. PICK i \in 1..Len(g) : m = Len(q) + i
        <4>1. m - Len(q) \in 1..Len(g) /\ m = Len(q) + (m - Len(q)) BY <1>2, <2>2
        <4>. QED BY <4>1
      <3>2. (q \o g)[m] = g[i] BY <2>2, <3>1
      <3>. QED BY <3>1, <3>2
    <2>. QED BY <2>1, <2>2
  <1>. QED BY <1>1, <1>2

\* How to recognise what a pop makes of a sequence.
LEMMA TailIs ==
    ASSUME NEW S, NEW q \in Seq(S), NEW r \in Seq(S), Len(q) = Len(r) + 1,
           \A n \in 1..Len(r) : r[n] = q[n + 1]
    PROVE  q # <<>> /\ r = Tail(q)
  OBVIOUS

\* The pushes whose elements a count makes count take effect in the order of the elements.
LEMMA SimulateCount ==
    ASSUME IInv, IInv', NEW t \in Pushers, PushCount(t)
    PROVE  Abstract!Next \/ UNCHANGED <<Queue, State, Result>>
  <1>. USE DEF At, Goto, histVars, callVars
  <1>1. /\ t \in Threads /\ Pushers \subseteq Threads /\ taken \in Nat /\ counted \in Nat
        /\ Pushed \in Nat /\ taken <= counted /\ counted <= Pushed /\ Null \notin Values
        /\ \A k \in 1..Pushed : history[k] \in Values
    BY InvNumbers DEF Threads
  <1>2. /\ pc[t] = "pcount" /\ pc'[t] = "return" /\ UNCHANGED <<history, taken, item>>
        /\ \A u \in Threads \ {t} : pc'[u] = pc[u]
    BY <1>1 DEF PushCount, IInv, TypeOK
  <1>3. PICK k \in 1..Pushed : item[t] = history[k]
    <2>1. PICK L, M, s, D : Lists(L, M, s, D) BY DEF IInv
    <2>2. s \in Nat BY <2>1 DEF Lists, Places
    <2>3. PICK k \in s + 1 .. Pushed : item[t] = history[k]
      BY <1>2, <2>1 DEF Lists, PushOk
    <2>. QED BY <1>1, <2>2, <2>3
  <1>4. counted' = IF k > counted THEN k ELSE counted BY <1>3, Count DEF IInv
  <1>5. Seen /\ Seen' BY SeenIs, PTL
  <1>6. Own(t) BY OwnPush DEF PushStep, IInv
  <1>7. Result' = Result
    <2>1. Result'[t] = Result[t] BY <1>1, <1>2 DEF Result
    <2>. QED BY <1>1, <1>6, <2>1, ResultSame DEF Result
  <1>8. CASE ~ (k > counted)
    <2>1. counted' = counted BY <1>4, <1>8
    <2>2. Queue' = Queue BY <1>2, <2>1, QueueSame
    <2>3. k \in 1..counted BY <1>1, <1>3, <1>8
    <2>4. State'[t] = State[t]
      <3>1. State[t] = "done" BY <1>1, <1>2, <1>3, <1>5, <2>3 DEF Seen
      <3>2. State'[t] = "done" BY <1>1, <1>2, <1>3, <1>5, <2>1, <2>3 DEF Seen
      <3>. QED BY <3>1, <3>2
    <2>5. State' = [State EXCEPT ![t] = State'[t]] BY <1>1, <1>2, <1>6, <2>1, StateSame
    <2>6. State' = State BY <1>1, <2>4, <2>5 DEF State
    <2>. QED BY <1>7, <2>2, <2>6
  <1>9. CASE k > counted
    <2>. DEFINE n == k - counted
                Who(i) == CHOOSE u \in Pushers : pc[u] \in CountLabels /\ item[u] = history[counted + i]
                ws == [i \in 1..n |-> Who(i)]
    <2>1. ASSUME NEW i \in 1..n
          PROVE  /\ counted + i \in 1..Pushed /\ counted + i \in counted + 1 .. Pushed
                 /\ counted + i <= k
      BY <1>1, <1>3, <1>9
    <2>2. ASSUME NEW i \in 1..n
          PROVE  \E u \in Pushers : pc[u] \in CountLabels /\ item[u] = history[counted + i]
      BY <2>1 DEF IInv, Counted, CountLabels
    <2>3. \A i \in 1..n : /\ Who(i) \in Pushers
                          /\ pc[Who(i)] \in CountLabels /\ item[Who(i)] = history[counted + i]
      BY <2>2
    <2>. HIDE DEF Who
    <2>4. PICK ts \in [1..n -> Pushers] : \A i \in 1..n :
             pc[ts[i]] \in CountLabels /\ item[ts[i]] = history[counted + i]
      <3>1. ws \in [1..n -> Pushers] BY <2>3
      <3>2. \A i \in 1..n : pc[ws[i]] \in CountLabels /\ item[ws[i]] = history[counted + i] BY <2>3
      <3>. QED BY <3>1, <3>2
    <2>5. n \in Nat \ {0} BY <1>1, <1>3, <1>9
    <2>6. /\ counted' = k
          /\ \A j \in Nat : j \in 1..k => (j \in 1..counted \/ \E i \in 1..n : j = counted + i)
      <3>1. ASSUME NEW j \in 1..k, j \notin 1..counted PROVE \E i \in 1..n : j = counted + i
        <4>1. j - counted \in 1..n /\ j = counted + (j - counted) BY <1>1, <1>3, <3>1
        <4>. QED BY <4>1
      <3>. QED BY <1>4, <1>9, <3>1
    <2>7. \A i, j \in 1..Pushed : history[i] = history[j] => i = j BY DEF IInv, Items
    <2>8. ASSUME NEW i \in 1..n, NEW j \in 1..n, ts[i] = ts[j] PROVE i = j
      <3>1. counted + i = counted + j BY <2>1, <2>4, <2>7, <2>8
      <3>. QED BY <1>1, <2>5, <3>1
    <2>9. ASSUME NEW i \in 1..n PROVE State[ts[i]] = "called"
      <3>1. ts[i] \in Pushers /\ pc[ts[i]] # "idle" /\ item[ts[i]] = history[counted + i]
        BY <2>4 DEF CountLabels
      <3>2. ASSUME NEW j \in 1..counted PROVE history[j] # history[counted + i]
        <4>1. j \in 1..Pushed /\ j # counted + i BY <1>1, <2>1
        <4>. QED BY <2>1, <2>7, <4>1
      <3>. QED BY <1>1, <1>5, <3>1, <3>2 DEF Seen
    <2>10. ASSUME NEW u \in Threads
           PROVE  State'[u] = IF \E i \in 1..n : u = ts[i] THEN "done" ELSE State[u]
      <3>1. pc'[u] = "idle" <=> pc[u] = "idle" BY <1>2
      <3>2. CASE u \notin Pushers
        <4>1. u # t /\ ~ \E i \in 1..n : u = ts[i] BY <2>4, <3>2
        <4>. QED BY <1>2, <1>5, <3>2, <4>1 DEF Seen
      <3>3. CASE u \in Pushers /\ \E i \in 1..n : u = ts[i]
        <4>1. PICK i \in 1..n : u = ts[i] BY <3>3
        <4>2. pc[u] # "idle" /\ item[u] = history[counted + i] BY <2>4, <4>1 DEF CountLabels
        <4>3. counted + i \in 1..counted' BY <1>1, <1>3, <2>1, <2>6
        <4>4. State'[u] = "done" BY <1>2, <1>5, <3>1, <3>3, <4>2, <4>3 DEF Seen
        <4>. QED BY <3>3, <4>4
      <3>4. CASE u \in Pushers /\ ~ \E i \in 1..n : u = ts[i]
        <4>1. CASE pc[u] = "idle" BY <1>5, <3>1, <3>4, <4>1 DEF Seen
        <4>2. CASE pc[u] # "idle"
          <5>1. item[u] # Null BY <3>4, <4>2 DEF IInv, LocalsOk
          <5>2. ASSUME NEW i \in 1..n PROVE item[u] # history[counted + i]
            BY <2>4, <3>4, <5>1 DEF IInv, Items
          <5>3. (\E j \in 1..counted' : item[u] = history[j])
                   <=> (\E j \in 1..counted : item[u] = history[j])
            <6>1. \A j \in 1..counted : j \in 1..counted' BY <1>1, <1>3, <1>9, <2>6
            <6>2. \A j \in 1..counted' : j \in Nat /\ j \in 1..k BY <2>6
            <6>. QED BY <2>6, <5>2, <6>1, <6>2
          <5>. QED BY <1>2, <1>5, <3>1, <3>4, <4>2, <5>3 DEF Seen
        <4>. QED BY <4>1, <4>2
      <3>. QED BY <3>2, <3>3, <3>4
    <2>11. State' = [u \in Threads |-> IF \E i \in 1..n : u = ts[i] THEN "done" ELSE State[u]]
      BY <2>10 DEF State
    <2>12. ASSUME NEW i \in 1..n PROVE Result[ts[i]] = history[counted + i]
      <3>1. ts[i] \in Threads /\ pc[ts[i]] # "read" BY <1>1, <2>4 DEF CountLabels
      <3>. QED BY <2>4, <3>1 DEF Result
    <2>13. Queue' = Queue \o [i \in 1..n |-> Result[ts[i]]]
      <3>1. QueueIs /\ QueueIs' BY QueueSeq, PTL
      <3>. DEFINE q == Queue
                  r == Queue'
                  g == [i \in 1..n |-> Result[ts[i]]]
      <3>2. q \in Seq(Values) /\ r \in Seq(Values) BY <3>1 DEF QueueIs
      <3>3. g \in [1..n -> Values] BY <1>1, <2>1, <2>12
      <3>4. Len(q) = counted - taken /\ Len(r) = k - taken /\ Len(r) = Len(q) + n
        BY <1>1, <1>2, <1>3, <2>6, <3>1 DEF QueueIs
      <3>5. ASSUME NEW m \in 1..Len(r) PROVE r[m] = history[taken + m]
        <4>. PICK j : j = taken + m OBVIOUS
        <4>. QED BY <1>2, <3>1 DEF QueueIs
      <3>6. ASSUME NEW m \in 1..Len(q) PROVE r[m] = q[m]
        <4>1. m \in 1..Len(r) BY <1>1, <2>5, <3>4
        <4>2. q[m] = history[taken + m] BY <3>1 DEF QueueIs
        <4>. QED BY <3>5, <4>1, <4>2
      <3>7. ASSUME NEW i \in 1..n PROVE r[Len(q) + i] = g[i]
        <4>1. Len(q) + i \in 1..Len(r) /\ taken + (Len(q) + i) = counted + i
          BY <1>1, <2>5, <3>4
        <4>2. r[Len(q) + i] = history[taken + (Len(q) + i)] BY <3>5, <4>1
        <4>. QED BY <2>12, <4>1, <4>2
      <3>. HIDE DEF q, r
      <3>8. g \in Seq(Values) /\ Len(g) = n BY <2>5, <3>3
      <3>. HIDE DEF n, g
      <3>9. r = q \o g BY <3>2, <3>4, <3>6, <3>7, <3>8, Joined
      <3>. QED BY <3>9 DEF q, r, g
    <2>. HIDE DEF n
    <2>. QED BY <1>7, <2>5, <2>8, <2>9, <2>11, <2>13, AbstractPush
  <1>. QED BY <1>8, <1>9

\* A step in which nothing takes effect: what its thread is seen to do is to be shown.
LEMMA Unseen ==
    ASSUME IInv, IInv', NEW t \in Threads, Own(t), UNCHANGED <<taken, counted>>,
           \A k \in 1..counted : history'[k] = history[k]
    PROVE  /\ Queue' = Queue
           /\ State' = [State EXCEPT ![t] = State'[t]]
           /\ Result' = [Result EXCEPT ![t] = Result'[t]]
           /\ State'[t] = State[t] => State' = State
           /\ Result'[t] = Result[t] => Result' = Result
  <1>1. Queue' = Queue BY QueueSame
  <1>2. State' = [State EXCEPT ![t] = State'[t]] BY StateSame
  <1>3. Result' = [Result EXCEPT ![t] = Result'[t]] BY ResultSame
  <1>. QED BY <1>1, <1>2, <1>3 DEF State, Result

\* Every step of push starts, effects or returns a push of the queue, or changes nothing of it.
LEMMA SimulatePush ==
    ASSUME IInv, IInv', NEW t \in Pushers, PushStep(t)
    PROVE  Abstract!Next \/ UNCHANGED <<Queue, State, Result>>
  <1>. USE DEF At, Goto, listVars, nodeVars, poolVars, histVars, callVars
  <1>1. /\ t \in Threads /\ counted \in Nat /\ Pushed \in Nat /\ counted <= Pushed
        /\ history \in Seq(Values) /\ Null \notin Values
        /\ pc \in [Threads -> {pc[u] : u \in Threads}] /\ item \in [Threads -> {item[u] : u \in Threads}]
    BY InvNumbers DEF Threads, IInv, TypeOK
  <1>2. Seen /\ Seen' BY SeenIs, PTL
  <1>3. Own(t) BY OwnPush DEF IInv
  <1>4. ASSUME UNCHANGED <<taken, counted>>, \A k \in 1..counted : history'[k] = history[k],
               pc[t] # "idle", pc'[t] # "idle", pc'[t] # "read", pc[t] # "read", item'[t] = item[t]
        PROVE  UNCHANGED <<Queue, State, Result>>
    <2>1. State'[t] = State[t] BY <1>1, <1>2, <1>4 DEF Seen
    <2>2. Result'[t] = Result[t] BY <1>1, <1>4 DEF Result
    <2>. QED BY <1>1, <1>3, <1>4, <2>1, <2>2, Unseen
  <1>5. CASE PushCall(t)
    <2>1. PICK v \in Values : v \notin ToSet(history) /\ item' = [item EXCEPT ![t] = v]
      BY <1>5 DEF PushCall
    <2>2. pc[t] = "idle" /\ pc'[t] = "lock" /\ item'[t] = v /\ UNCHANGED <<taken, counted, history>>
      BY <1>1, <1>5, <2>1 DEF PushCall
    <2>3. \A k \in 1..counted : history[k] # v BY <1>1, <2>1 DEF ToSet, Pushed
    <2>4. State[t] = "idle" /\ State'[t] = "called" BY <1>1, <1>2, <2>2, <2>3 DEF Seen
    <2>5. Result'[t] = v BY <1>1, <2>2 DEF Result
    <2>6. /\ Queue' = Queue /\ State' = [State EXCEPT ![t] = "called"]
          /\ Result' = [Result EXCEPT ![t] = v]
      BY <1>1, <1>3, <2>2, <2>4, <2>5, Unseen
    <2>. QED BY <1>1, <2>4, <2>6, AbstractCall
  <1>6. CASE PushLock(t)
    <2>1. pc[t] = "lock" /\ pc'[t] = "append" /\ UNCHANGED <<taken, counted, history, item>>
      BY <1>1, <1>6 DEF PushLock
    <2>. QED BY <1>4, <2>1
  <1>7. CASE PushAppend(t)
    <2>1. /\ pc[t] = "append" /\ pc'[t] = "link" /\ UNCHANGED <<taken, counted, item>>
          /\ history' = Append(history, item[t])
      BY <1>1, <1>7 DEF PushAppend
    <2>2. item[t] \in Values BY <1>1, <2>1 DEF IInv, TypeOK, LocalsOk
    <2>3. \A k \in 1..counted : history'[k] = history[k]
      BY <1>1, <2>1, <2>2, HistoryGrows DEF Pushed
    <2>. QED BY <1>4, <2>1, <2>3
  <1>8. CASE PushLink(t)
    <2>1. pc[t] = "link" /\ pc'[t] = "pcount" /\ UNCHANGED <<taken, counted, history, item>>
      BY <1>1, <1>8 DEF PushLink
    <2>. QED BY <1>4, <2>1
  <1>9. CASE PushCount(t) BY <1>9, SimulateCount
  <1>10. CASE Return(t)
    <2>1. /\ pc[t] = "return" /\ pc'[t] = "idle" /\ item'[t] = Null
          /\ UNCHANGED <<taken, counted, history>>
      BY <1>1, <1>10 DEF Return
    <2>2. State[t] = "done" BY <1>1, <1>2, <2>1 DEF Seen, IInv, Items
    <2>3. State'[t] = "idle" BY <1>1, <1>2, <2>1 DEF Seen
    <2>4. Result'[t] = Null BY <1>1, <2>1 DEF Result
    <2>5. /\ Queue' = Queue /\ State' = [State EXCEPT ![t] = "idle"]
          /\ Result' = [Result EXCEPT ![t] = Null]
      BY <1>1, <1>3, <2>1, <2>3, <2>4, Unseen
    <2>. QED BY <1>1, <2>2, <2>5, AbstractReturn
  <1>. QED BY <1>5, <1>6, <1>7, <1>8, <1>9, <1>10 DEF PushStep

\* _size is 0 only when nothing counts that is not taken: a popper that reads 0 finds nothing.
LEMMA NothingLeft ==
    ASSUME OnePopper, IInv, Sized, size = 0, NEW t \in Poppers, pc[t] \in {"empty", "size"}
    PROVE  Queue = <<>>
  <1>1. taken \in Nat /\ Pushed \in Nat /\ Cardinality(Due) \in Nat BY InvNumbers, DueLeft
  <1>2. Cardinality(Discounts) = 0 BY DiscountsOf DEF DiscountLabels
  <1>3. Cardinality(Due) = Pushed - taken BY <1>1, <1>2 DEF Sized
  <1>4. counted = taken BY <1>3, DueLeft
  <1>5. QueueIs BY QueueSeq
  <1>6. Len(Queue) = 0 /\ Queue \in Seq(Values) BY <1>4, <1>5 DEF QueueIs
  <1>. QED BY <1>6

\* What is unlinked is the oldest element that counts.
LEMMA Unlinked ==
    ASSUME OnePopper, IInv, IInv', NEW t \in Poppers, PopUnlink(t), frond.begin = h0[t]
    PROVE  /\ Queue # <<>> /\ Queue' = Tail(Queue)
           /\ data[h1[t]] = Head(Queue)
  <1>. USE DEF At, Goto, histVars
  <1>1. PICK L, M, s, D : Lists(L, M, s, D) BY DEF IInv
  <1>2. /\ L \in [Nat -> Nodes] /\ s \in Nat /\ taken \in Nat /\ counted \in Nat
        /\ taken <= s /\ s <= counted /\ Frond(L, s) /\ PopOk(L, s, t)
    BY <1>1, InvNumbers DEF Lists, Places
  <1>3. pc[t] = "unlink" /\ taken' = taken + 1 /\ UNCHANGED <<counted, history>>
    BY DEF PopUnlink
  <1>4. taken < s /\ h1[t] = L[taken + 1] BY <1>2, <1>3 DEF PopOk
  <1>5. taken + 1 \in taken + 1 .. s BY <1>2, <1>4
  <1>6. data[L[taken + 1]] = history[taken + 1] BY <1>2, <1>5 DEF Frond
  <1>7. QueueIs /\ QueueIs' BY QueueSeq, PTL
  <1>. DEFINE q == Queue
              r == Queue'
  <1>8. q \in Seq(Values) /\ r \in Seq(Values) /\ Len(q) = counted - taken /\ Len(q) = Len(r) + 1
    BY <1>2, <1>3, <1>4, <1>7 DEF QueueIs
  <1>9. ASSUME NEW n \in 1..Len(r) PROVE r[n] = q[n + 1]
    <2>1. n + 1 \in 1..Len(q) /\ n \in Nat BY <1>2, <1>8
    <2>2. PICK m \in 1..Len(q) : m = n + 1 BY <2>1
    <2>3. q[m] = history[taken + m] BY <1>7 DEF QueueIs
    <2>4. r[n] = history[taken + 1 + n] BY <1>3, <1>7 DEF QueueIs
    <2>5. taken + 1 + n = taken + m BY <1>2, <2>1, <2>2
    <2>. QED BY <2>2, <2>3, <2>4, <2>5
  <1>10. q[1] = history[taken + 1]
    <2>1. 1 \in 1..Len(q) BY <1>2, <1>4, <1>8
    <2>. QED BY <1>7, <2>1 DEF QueueIs
  <1>. HIDE DEF q, r
  <1>11. q # <<>> /\ r = Tail(q) BY <1>8, <1>9, TailIs
  <1>12. Head(q) = q[1] BY <1>8, <1>11
  <1>13. Queue # <<>> /\ Queue' = Tail(Queue) /\ Head(Queue) = history[taken + 1]
    BY <1>10, <1>11, <1>12 DEF q, r
  <1>. QED BY <1>4, <1>6, <1>13

\* Every step of pop starts, effects or returns a pop of the queue, or changes nothing of it.
LEMMA SimulatePop ==
    ASSUME OnePopper, IInv, IInv', Sized, NEW t \in Poppers, PopStep(t)
    PROVE  Abstract!Next \/ UNCHANGED <<Queue, State, Result>>
  <1>. USE DEF At, Goto, listVars, nodeVars, poolVars, histVars, callVars
  <1>1. /\ t \in Threads /\ t \notin Pushers /\ Null \notin Values
        /\ pc \in [Threads -> {pc[u] : u \in Threads}] /\ item \in [Threads -> {item[u] : u \in Threads}]
    BY ConstantsOk DEF Threads, IInv, TypeOK
  <1>2. Seen /\ Seen' BY SeenIs, PTL
  <1>3. Own(t) BY OwnPop DEF IInv
  <1>. DEFINE Done == {"read", "retire", "count", "dispose", "return"}
  <1>4. ASSUME UNCHANGED <<taken, counted, history>>,
               pc[t] # "idle", pc'[t] # "idle", pc[t] \in Done <=> pc'[t] \in Done,
               pc'[t] # "read", pc[t] # "read", item' = item
        PROVE  UNCHANGED <<Queue, State, Result>>
    <2>1. State'[t] = State[t] BY <1>1, <1>2, <1>4 DEF Seen
    <2>2. Result'[t] = Result[t] BY <1>1, <1>4 DEF Result
    <2>. QED BY <1>1, <1>3, <1>4, <2>1, <2>2, Unseen
  <1>5. CASE PopCall(t)
    <2>1. pc[t] = "idle" /\ pc'[t] = "empty" /\ UNCHANGED <<taken, counted, history, item>>
      BY <1>1, <1>5 DEF PopCall
    <2>2. item[t] = Null BY <2>1 DEF IInv, LocalsOk
    <2>3. State[t] = "idle" /\ State'[t] = "called" BY <1>1, <1>2, <2>1 DEF Seen
    <2>4. Result'[t] = Null BY <1>1, <2>1, <2>2 DEF Result
    <2>5. /\ Queue' = Queue /\ State' = [State EXCEPT ![t] = "called"]
          /\ Result' = [Result EXCEPT ![t] = Null]
      BY <1>1, <1>3, <2>1, <2>3, <2>4, Unseen
    <2>. QED BY <1>1, <2>3, <2>5, AbstractCall
  <1>6. ASSUME UNCHANGED <<taken, counted, history, item>>,
               pc[t] \in {"empty", "size"}, pc'[t] = "return", size = 0
        PROVE  Abstract!Next
    <2>1. Queue = <<>> BY <1>6, NothingLeft
    <2>2. State[t] = "called" /\ State'[t] = "done" BY <1>1, <1>2, <1>6 DEF Seen
    <2>3. Result'[t] = Result[t] BY <1>1, <1>6 DEF Result
    <2>4. Queue' = Queue /\ State' = [State EXCEPT ![t] = "done"] /\ Result' = Result
      BY <1>1, <1>3, <1>6, <2>2, <2>3, Unseen
    <2>. QED BY <2>1, <2>2, <2>4, AbstractPop
  <1>7. CASE PopEmpty(t)
    <2>1. /\ pc[t] = "empty" /\ UNCHANGED <<taken, counted, history, item>>
          /\ pc'[t] = IF size = 0 THEN "return" ELSE "lock"
      BY <1>1, <1>7 DEF PopEmpty
    <2>2. CASE size = 0 BY <1>6, <2>1, <2>2
    <2>3. CASE size # 0 BY <1>4, <2>1, <2>3
    <2>. QED BY <2>2, <2>3
  <1>8. CASE PopSize(t)
    <2>1. /\ pc[t] = "size" /\ UNCHANGED <<taken, counted, history, item>>
          /\ pc'[t] = IF size = 0 THEN "return" ELSE "swap"
      BY <1>1, <1>8 DEF PopSize
    <2>2. CASE size = 0 BY <1>6, <2>1, <2>2
    <2>3. CASE size # 0 BY <1>4, <2>1, <2>3
    <2>. QED BY <2>2, <2>3
  <1>9. CASE PopLock(t)
    <2>1. pc[t] = "lock" /\ pc'[t] = "begin" /\ UNCHANGED <<taken, counted, history, item>>
      BY <1>1, <1>9 DEF PopLock
    <2>. QED BY <1>4, <2>1
  <1>10. CASE PopBegin(t)
    <2>1. pc[t] = "begin" /\ pc'[t] = "end" /\ UNCHANGED <<taken, counted, history, item>>
      BY <1>1, <1>10 DEF PopBegin
    <2>. QED BY <1>4, <2>1
  <1>11. CASE PopEnd(t)
    <2>1. pc[t] = "end" /\ pc'[t] \in {"size", "next"} /\ UNCHANGED <<taken, counted, history, item>>
      BY <1>1, <1>11 DEF PopEnd
    <2>. QED BY <1>4, <2>1
  <1>12. CASE PopSwap(t)
    <2>1. pc[t] = "swap" /\ pc'[t] = "lock" /\ UNCHANGED <<taken, counted, history, item>>
      BY <1>1, <1>12 DEF PopSwap
    <2>. QED BY <1>4, <2>1
  <1>13. CASE PopNext(t)
    <2>1. pc[t] = "next" /\ pc'[t] = "unlink" /\ UNCHANGED <<taken, counted, history, item>>
      BY <1>1, <1>13 DEF PopNext
    <2>. QED BY <1>4, <2>1
  <1>14. CASE PopUnlink(t)
    <2>1. CASE frond.begin = h0[t]
      <3>1. /\ pc[t] = "unlink" /\ pc'[t] = "read" /\ UNCHANGED <<data, h1, counted, history>>
        BY <1>1, <1>14, <2>1 DEF PopUnlink
      <3>2. /\ Queue # <<>> /\ Queue' = Tail(Queue) /\ data[h1[t]] = Head(Queue)
        BY <1>14, <2>1, Unlinked
      <3>3. State[t] = "called" /\ State'[t] = "done" BY <1>1, <1>2, <3>1 DEF Seen
      <3>4. Result'[t] = Head(Queue) BY <1>1, <3>1, <3>2 DEF Result
      <3>5. State' = [State EXCEPT ![t] = State'[t]] BY <1>1, <1>3, <3>1, StateSame
      <3>6. Result' = [Result EXCEPT ![t] = Result'[t]] BY <1>1, <1>3, ResultSame
      <3>. QED BY <3>2, <3>3, <3>4, <3>5, <3>6, AbstractPop
    <2>2. CASE frond.begin # h0[t]
      <3>1. pc[t] = "unlink" /\ pc'[t] = "end" /\ UNCHANGED <<taken, counted, history, item>>
        BY <1>1, <1>14, <2>2 DEF PopUnlink
      <3>. QED BY <1>4, <3>1
    <2>. QED BY <2>1, <2>2
  <1>15. CASE PopRead(t)
    <2>1. /\ pc[t] = "read" /\ pc'[t] = "retire" /\ UNCHANGED <<taken, counted, history>>
          /\ item'[t] = data[h1[t]]
      BY <1>1, <1>15 DEF PopRead
    <2>2. State'[t] = State[t] BY <1>1, <1>2, <2>1 DEF Seen
    <2>3. Result'[t] = Result[t] BY <1>1, <2>1 DEF Result
    <2>. QED BY <1>1, <1>3, <2>1, <2>2, <2>3, Unseen
  <1>16. CASE PopRetire(t)
    <2>1. pc[t] = "retire" /\ pc'[t] = "count" /\ UNCHANGED <<taken, counted, history, item>>
      BY <1>1, <1>16 DEF PopRetire
    <2>. QED BY <1>4, <2>1
  <1>17. CASE PopCount(t)
    <2>1. pc[t] = "count" /\ pc'[t] = "return" /\ UNCHANGED <<taken, counted, history, item>>
      BY <1>1, <1>17 DEF PopCount
    <2>. QED BY <1>4, <2>1
  <1>18. CASE Return(t)
    <2>1. /\ pc[t] = "return" /\ pc'[t] = "idle" /\ item'[t] = Null
          /\ UNCHANGED <<taken, counted, history>>
      BY <1>1, <1>18 DEF Return
    <2>2. State[t] = "done" /\ State'[t] = "idle" BY <1>1, <1>2, <2>1 DEF Seen
    <2>3. Result'[t] = Null BY <1>1, <2>1 DEF Result
    <2>4. /\ Queue' = Queue /\ State' = [State EXCEPT ![t] = "idle"]
          /\ Result' = [Result EXCEPT ![t] = Null]
      BY <1>1, <1>3, <2>1, <2>2, <2>3, Unseen
    <2>. QED BY <1>1, <2>2, <2>4, AbstractReturn
  <1>. QED
    BY <1>5, <1>7, <1>8, <1>9, <1>10, <1>11, <1>12, <1>13, <1>14, <1>15, <1>16, <1>17, <1>18
    DEF PopStep

\* Every step of clear starts, effects or returns a clear of the queue, or changes nothing of it.
LEMMA SimulateClear ==
    ASSUME IInv, IInv', NEW t \in Clearers, ClearStep(t)
    PROVE  Abstract!Next \/ UNCHANGED <<Queue, State, Result>>
  <1>. USE DEF At, Goto, listVars, nodeVars, poolVars, histVars, callVars
  <1>1. /\ t \in Threads /\ t \notin Pushers /\ Null \notin Values
        /\ pc \in [Threads -> {pc[u] : u \in Threads}] /\ item \in [Threads -> {item[u] : u \in Threads}]
    BY ConstantsOk DEF Threads, IInv, TypeOK
  <1>2. Seen /\ Seen' BY SeenIs, PTL
  <1>3. Own(t) BY OwnClear DEF IInv
  <1>4. item[t] = Null BY DEF IInv, LocalsOk
  <1>5. CASE ClearCall(t)
    <2>1. pc[t] = "idle" /\ pc'[t] = "exchange" /\ UNCHANGED <<taken, counted, history, item>>
      BY <1>1, <1>5 DEF ClearCall
    <2>2. State[t] = "idle" /\ State'[t] = "called" BY <1>1, <1>2, <2>1 DEF Seen
    <2>3. Result'[t] = Null BY <1>1, <1>4, <2>1 DEF Result
    <2>4. /\ Queue' = Queue /\ State' = [State EXCEPT ![t] = "called"]
          /\ Result' = [Result EXCEPT ![t] = Null]
      BY <1>1, <1>3, <2>1, <2>2, <2>3, Unseen
    <2>. QED BY <1>1, <2>2, <2>4, AbstractCall
  <1>6. CASE ClearExchange(t)
    <2>1. /\ pc[t] = "exchange" /\ pc'[t] = "dispose" /\ UNCHANGED <<counted, history, item>>
          /\ taken' = Pushed
      BY <1>1, <1>6 DEF ClearExchange
    <2>2. State[t] = "called" /\ State'[t] = "done" BY <1>1, <1>2, <2>1 DEF Seen
    <2>3. Result'[t] = Result[t] BY <1>1, <2>1 DEF Result
    <2>4. State' = [State EXCEPT ![t] = "done"] BY <1>1, <1>3, <2>1, <2>2, StateSame
    <2>5. Result' = Result BY <1>1, <1>3, <2>3, ResultSame DEF Result
    <2>6. QueueIs' BY QueueSeq, PTL
    <2>7. Len(Queue') = 0 /\ Queue' \in Seq(Values) BY <2>1, <2>6, InvNumbers DEF QueueIs
    <2>8. Queue' = <<>>
      <3>. DEFINE r == Queue'
      <3>1. Len(r) = 0 /\ r \in Seq(Values) BY <2>7
      <3>. HIDE DEF r
      <3>2. r = <<>> BY <3>1
      <3>. QED BY <3>2 DEF r
    <2>. QED BY <2>2, <2>4, <2>5, <2>8, AbstractClear
  <1>7. CASE ClearRetire(t)
    <2>1. /\ pc[t] = "dispose" /\ pc'[t] \in {"dispose", "return"}
          /\ UNCHANGED <<taken, counted, history, item>>
      BY <1>1, <1>7 DEF ClearRetire
    <2>2. State'[t] = State[t] BY <1>1, <1>2, <2>1 DEF Seen
    <2>3. Result'[t] = Result[t] BY <1>1, <2>1 DEF Result
    <2>. QED BY <1>1, <1>3, <2>1, <2>2, <2>3, Unseen
  <1>8. CASE Return(t)
    <2>1. /\ pc[t] = "return" /\ pc'[t] = "idle" /\ item'[t] = Null
          /\ UNCHANGED <<taken, counted, history>>
      BY <1>1, <1>8 DEF Return
    <2>2. State[t] = "done" /\ State'[t] = "idle" BY <1>1, <1>2, <2>1 DEF Seen
    <2>3. Result'[t] = Null BY <1>1, <2>1 DEF Result
    <2>4. /\ Queue' = Queue /\ State' = [State EXCEPT ![t] = "idle"]
          /\ Result' = [Result EXCEPT ![t] = Null]
      BY <1>1, <1>3, <2>1, <2>2, <2>3, Unseen
    <2>. QED BY <1>1, <2>2, <2>4, AbstractReturn
  <1>9. CASE ClearInUse(t)
    <2>1. /\ pc[t] = "exchange" /\ pc'[t] = "overtook"
          /\ UNCHANGED <<taken, counted, history, item>>
      BY <1>1, <1>9 DEF ClearInUse
    <2>2. State'[t] = State[t] BY <1>1, <1>2, <2>1 DEF Seen
    <2>3. Result'[t] = Result[t] BY <1>1, <2>1 DEF Result
    <2>. QED BY <1>1, <1>3, <2>1, <2>2, <2>3, Unseen
  <1>. QED BY <1>5, <1>6, <1>7, <1>8, <1>9 DEF ClearStep

\* The queue is empty first.
LEMMA SimulateInit == Init => Abstract!Init
  <1>. SUFFICES ASSUME Init PROVE Abstract!Init
    OBVIOUS
  <1>1. IInv BY InitIInv
  <1>2. taken = 0 /\ counted = 0 BY DEF Init
  <1>3. QueueIs BY <1>1, QueueSeq
  <1>4. Len(Queue) = 0 /\ Queue \in Seq(Values) BY <1>2, <1>3 DEF QueueIs
  <1>5. Queue = <<>> BY <1>4
  <1>6. \A t \in Threads : pc[t] = "idle" /\ item[t] = Null BY DEF Init
  <1>7. State = [t \in Threads |-> "idle"] BY <1>6 DEF State, At
  <1>8. Result = [t \in Threads |-> Null] BY <1>6 DEF Result, At
  <1>. QED BY <1>5, <1>7, <1>8, AbstractVars DEF Abstract!Init, Queue, State, Result

\* A step that changes nothing of swapque changes nothing of the queue.
LEMMA SimulateStutter ==
    ASSUME UNCHANGED vars
    PROVE  UNCHANGED <<Queue, State, Result>>
  BY DEF vars, listVars, nodeVars, poolVars, histVars, callVars, Queue, State, Result, At, TookEffect

\* With one popper swapque implements the first-in first-out queue of LinQueue: a push takes
\* effect when it or a later one counts, and a pop when it unlinks or reads that _size is 0,
\* also while the lists are exchanged or cleared.
THEOREM ImplementsLinQueue == OnePopper /\ FewNodes => (Spec => Linearizable)
  <1>. SUFFICES ASSUME OnePopper, FewNodes PROVE Spec => Linearizable
    OBVIOUS
  <1>1. IInv /\ IInv' /\ Sized /\ [Next]_vars => [Abstract!Next]_(Abstract!vars)
    <2>. SUFFICES ASSUME IInv, IInv', Sized, [Next]_vars
                  PROVE  Abstract!Next \/ UNCHANGED <<Queue, State, Result>>
      BY AbstractStutter
    <2>1. CASE UNCHANGED vars BY <2>1, SimulateStutter
    <2>2. CASE \E t \in Pushers : PushStep(t) BY <2>2, SimulatePush
    <2>3. CASE \E t \in Poppers : PopStep(t) BY <2>3, SimulatePop
    <2>4. CASE \E t \in Clearers : ClearStep(t) BY <2>4, SimulateClear
    <2>. QED BY <2>1, <2>2, <2>3, <2>4 DEF Next, Step
  <1>. QED
    BY <1>1, SimulateInit, Invariance, SizeInvariance, PTL DEF Spec, Linearizable, Abstract!Spec
=============================================================================
