---------------------------- MODULE MsqueProofs -----------------------------
(***************************************************************************)
(* Proofs about Msque.  For any number of threads and nodes, used again or *)
(* not: the types, and that _size is exact.  As long as no sweep frees a   *)
(* node, with any number of threads, and with one push and one pop at a    *)
(* time, also when nodes are reused: the shape of the list, that its ends  *)
(* are never freed and only advance, what false means, and that msque      *)
(* implements the linearizable queue of LinQueue.  The list is described   *)
(* by numbering its nodes as the elements are numbered, from the dummy.    *)
(***************************************************************************)
EXTENDS Msque, FiniteSetTheorems, TLAPS

PushLabels == {"idle", "end", "publish", "pnext", "help", "pcheck", "link", "swing", "pcount",
               "return"}
PopLabels == {"idle", "begin", "publish0", "next", "publish1", "check", "refresh", "unlink",
              "read", "retire", "count", "return"}
ClearLabels == {"idle", "exchange", "dispose", "return", "undefined"}

\* What the local variables of a call hold, by where it is.
LocalsOk ==
    /\ \A t \in Threads :
          At(t, "idle") => node[t] = Null /\ item[t] = Null /\ h0[t] = Null /\ h1[t] = Null
    /\ \A t \in Pushers :
          /\ pc[t] \in PushLabels
          /\ ~ At(t, "idle") => item[t] \in Values /\ node[t] \in Nodes
          /\ pc[t] \in {"publish", "help"} => reg[t] \in Nodes
          /\ pc[t] \in {"pnext", "help", "pcheck", "link", "swing"} => h0[t] \in Nodes
    /\ \A t \in Poppers :
          /\ pc[t] \in PopLabels
          /\ node[t] = Null
          /\ pc[t] \notin {"retire", "count", "return"} => item[t] = Null
          /\ At(t, "publish0") => reg[t] \in Nodes
          /\ pc[t] \in {"next", "publish1", "check", "unlink", "read", "retire"} => h0[t] \in Nodes
          /\ pc[t] \in {"check", "unlink", "read"} => h1[t] \in Nodes
    /\ \A t \in Clearers :
          /\ pc[t] \in ClearLabels
          /\ item[t] = Null
          /\ At(t, "exchange") => node[t] \in Nodes
          /\ At(t, "dispose") => reg[t] \in Nodes

IInv == TypeOK /\ LocalsOk

-----------------------------------------------------------------------------
(* Any number of threads *)

\* The constructor establishes the invariant.
LEMMA InitIInv == Init => IInv
  BY ConstantsOk DEF Init, IInv, TypeOK, LocalsOk, Labels, PushLabels, PopLabels, ClearLabels, At,
     Threads

\* A step of none of the variables keeps it.
LEMMA StutterIInv == IInv /\ UNCHANGED vars => IInv'
  BY DEF IInv, TypeOK, LocalsOk, At, vars, listVars, nodeVars, poolVars, callVars, histVars

\* A step of the system is a step of one thread.
LEMMA StepCases ==
    ASSUME Step
    PROVE  \/ \E t \in Pushers : PushStep(t)
           \/ \E t \in Poppers : PopStep(t)
           \/ \E t \in Clearers : ClearStep(t)
  BY DEF Step

\* In an undefined state nothing happens any more.
LEMMA NextCases == [Next]_vars => Step \/ UNCHANGED vars
  BY DEF Next

\* A clear under another call changes nothing but where it is.
LEMMA InUseIs ==
    ASSUME TypeOK, NEW t \in Clearers, ClearInUse(t)
    PROVE  /\ pc[t] = "exchange" /\ pc' = [pc EXCEPT ![t] = "undefined"]
           /\ UNCHANGED <<begin, end, size, next, data, free, retired, node, item, before, history,
                          taken, reg, h0, h1>>
  BY DEF ClearInUse, Goto, At, listVars, nodeVars, poolVars, callVars, histVars

\* A counter that wraps around stays in its range.
LEMMA SizeRange ==
    ASSUME NEW n \in 0..(SizeMod - 1)
    PROVE  (n + 1) % SizeMod \in 0..(SizeMod - 1) /\ (n - 1) % SizeMod \in 0..(SizeMod - 1)
  BY ConstantsOk

\* A new node is one of the nodes.
LEMMA TypeNew ==
    ASSUME TypeOK, NEW t \in Threads, NEW v \in Values \cup {Null}, NewNode(t, v)
    PROVE  /\ free' \subseteq Nodes
           /\ node' \in [Threads -> Nodes \cup {Null}] /\ node'[t] \in Nodes
           /\ \A u \in Threads \ {t} : node'[u] = node[u]
           /\ next' \in [Nodes -> Nodes \cup {Null}]
           /\ data' \in [Nodes -> Values \cup {Null}]
  BY DEF TypeOK, NewNode

\* A step of a push keeps the types.
LEMMA TypePush ==
    ASSUME IInv, NEW t \in Pushers, PushStep(t)
    PROVE  TypeOK'
  <1>. USE DEF Goto, At, listVars, nodeVars, poolVars, callVars, histVars, Labels
  <1>1. t \in Threads /\ TypeOK /\ LocalsOk BY DEF Threads, IInv
  <1>2. CASE PushCall(t)
    <2>1. PICK v \in Values : item' = [item EXCEPT ![t] = v] /\ NewNode(t, v)
      BY <1>2 DEF PushCall
    <2>. QED BY <1>1, <1>2, <2>1, TypeNew DEF PushCall, TypeOK
  <1>3. CASE PushLoadEnd(t) BY <1>1, <1>3 DEF PushLoadEnd, TypeOK
  <1>4. CASE PushPublish(t) BY <1>1, <1>4 DEF PushPublish, TypeOK
  <1>5. CASE PushReadNext(t) BY <1>1, <1>5 DEF PushReadNext, TypeOK, LocalsOk
  <1>6. CASE PushHelp(t)
    <2>1. reg[t] \in Nodes BY <1>1, <1>6 DEF PushHelp, LocalsOk
    <2>2. end' \in Nodes /\ h0' \in [Threads -> Nodes \cup {Null}]
      BY <1>1, <1>6, <2>1 DEF PushHelp, SwingEnd, TypeOK
    <2>. QED BY <1>1, <1>6, <2>2 DEF PushHelp, TypeOK
  <1>7. CASE PushCheck(t) BY <1>1, <1>7 DEF PushCheck, TypeOK
  <1>8. CASE PushLink(t)
    <2>1. h0[t] \in Nodes /\ node[t] \in Nodes /\ item[t] \in Values
      BY <1>1, <1>8 DEF PushLink, LocalsOk
    <2>2. next' \in [Nodes -> Nodes \cup {Null}] BY <1>1, <1>8, <2>1 DEF PushLink, TypeOK
    <2>3. history' \in Seq(Values)
      <3>1. history' = history \/ history' = Append(history, item[t])
        BY <1>8 DEF PushLink
      <3>2. history \in Seq(Values) BY <1>1 DEF TypeOK
      <3>. QED BY <2>1, <3>1, <3>2
    <2>4. pc' \in [Threads -> Labels] BY <1>1, <1>8 DEF PushLink, TypeOK
    <2>. QED BY <1>1, <1>8, <2>2, <2>3, <2>4 DEF PushLink, TypeOK
  <1>9. CASE PushSwing(t)
    <2>1. h0[t] \in Nodes /\ node[t] \in Nodes BY <1>1, <1>9 DEF PushSwing, LocalsOk
    <2>2. end' \in Nodes /\ h0' \in [Threads -> Nodes \cup {Null}]
      BY <1>1, <1>9, <2>1 DEF PushSwing, SwingEnd, TypeOK
    <2>. QED BY <1>1, <1>9, <2>2 DEF PushSwing, TypeOK
  <1>10. CASE PushCount(t)
    <2>1. size' \in 0..(SizeMod - 1) BY <1>1, <1>10, SizeRange, Zenon DEF PushCount, TypeOK
    <2>. QED BY <1>1, <1>10, <2>1 DEF PushCount, TypeOK
  <1>11. CASE Return(t) BY <1>1, <1>11 DEF Return, TypeOK
  <1>. QED BY <1>2, <1>3, <1>4, <1>5, <1>6, <1>7, <1>8, <1>9, <1>10, <1>11 DEF PushStep

\* What retire does keeps nodes nodes.
LEMMA TypeRetire ==
    ASSUME TypeOK, NEW n \in Nodes, Retire(n)
    PROVE  free' \subseteq Nodes /\ retired' \subseteq Nodes
  BY DEF TypeOK, Retire, Swept

\* A step of a pop keeps the types.
LEMMA TypePop ==
    ASSUME IInv, NEW t \in Poppers, PopStep(t)
    PROVE  TypeOK'
  <1>. USE DEF Goto, At, listVars, nodeVars, poolVars, callVars, histVars, Labels
  <1>1. t \in Threads /\ TypeOK /\ LocalsOk BY DEF Threads, IInv
  <1>2. CASE PopCall(t)
    <2>1. Pushed \in Nat BY <1>1 DEF TypeOK, Pushed
    <2>. QED BY <1>1, <1>2, <2>1 DEF PopCall, TypeOK
  <1>3. CASE PopLoadBegin(t) BY <1>1, <1>3 DEF PopLoadBegin, TypeOK
  <1>4. CASE PopPublish0(t) BY <1>1, <1>4 DEF PopPublish0, TypeOK
  <1>5. CASE PopReadNext(t) BY <1>1, <1>5 DEF PopReadNext, TypeOK, LocalsOk
  <1>6. CASE PopPublish1(t) BY <1>1, <1>6 DEF PopPublish1, TypeOK
  <1>7. CASE PopCheck(t) BY <1>1, <1>7 DEF PopCheck, TypeOK
  <1>8. CASE PopRefresh(t) BY <1>1, <1>8 DEF PopRefresh, TypeOK
  <1>9. CASE PopUnlink(t)
    <2>1. h1[t] \in Nodes BY <1>1, <1>9 DEF PopUnlink, LocalsOk
    <2>2. begin' \in Nodes /\ taken' \in Nat /\ h0' \in [Threads -> Nodes \cup {Null}]
      <3>1. begin' \in {begin, h1[t]} /\ taken' \in {taken, taken + 1}
        BY <1>9 DEF PopUnlink
      <3>2. h0' = h0 \/ h0' = [h0 EXCEPT ![t] = begin]
        BY <1>9 DEF PopUnlink
      <3>3. begin \in Nodes /\ taken \in Nat /\ h0 \in [Threads -> Nodes \cup {Null}]
        BY <1>1 DEF TypeOK
      <3>4. taken' \in Nat BY <3>1, <3>3
      <3>5. begin' \in Nodes BY <2>1, <3>1, <3>3
      <3>6. h0' \in [Threads -> Nodes \cup {Null}] BY <3>2, <3>3
      <3>. QED BY <3>4, <3>5, <3>6
    <2>3. pc' \in [Threads -> Labels] BY <1>1, <1>9 DEF PopUnlink, TypeOK
    <2>. QED BY <1>1, <1>9, <2>2, <2>3 DEF PopUnlink, TypeOK
  <1>10. CASE PopRead(t) BY <1>1, <1>10 DEF PopRead, TypeOK, LocalsOk
  <1>11. CASE PopRetire(t)
    <2>1. h0[t] \in Nodes BY <1>1, <1>11 DEF PopRetire, LocalsOk
    <2>2. free' \subseteq Nodes /\ retired' \subseteq Nodes
      BY <1>1, <1>11, <2>1, TypeRetire DEF PopRetire
    <2>. QED BY <1>1, <1>11, <2>2 DEF PopRetire, TypeOK
  <1>12. CASE PopCount(t)
    <2>1. size' \in 0..(SizeMod - 1) BY <1>1, <1>12, SizeRange, Zenon DEF PopCount, TypeOK
    <2>. QED BY <1>1, <1>12, <2>1 DEF PopCount, TypeOK
  <1>13. CASE Return(t) BY <1>1, <1>13 DEF Return, TypeOK
  <1>. QED BY <1>2, <1>3, <1>4, <1>5, <1>6, <1>7, <1>8, <1>9, <1>10, <1>11, <1>12, <1>13 DEF PopStep

\* A step of a clear keeps the types.
LEMMA TypeClear ==
    ASSUME IInv, NEW t \in Clearers, ClearStep(t)
    PROVE  TypeOK'
  <1>. USE DEF Goto, At, listVars, nodeVars, poolVars, callVars, histVars, Labels
  <1>1. t \in Threads /\ TypeOK /\ LocalsOk BY DEF Threads, IInv
  <1>2. CASE ClearCall(t) BY <1>1, <1>2, TypeNew DEF ClearCall, TypeOK
  <1>3. CASE ClearExchange(t)
    <2>1. Pushed \in Nat /\ node[t] \in Nodes
      BY <1>1, <1>3 DEF TypeOK, Pushed, ClearExchange, LocalsOk
    <2>. QED BY <1>1, <1>3, <2>1, ConstantsOk DEF ClearExchange, TypeOK
  <1>4. CASE ClearRetire(t)
    <2>1. reg[t] \in Nodes BY <1>1, <1>4 DEF ClearRetire, LocalsOk
    <2>2. free' \subseteq Nodes /\ retired' \subseteq Nodes
      BY <1>1, <1>4, <2>1, TypeRetire DEF ClearRetire
    <2>. QED BY <1>1, <1>4, <2>1, <2>2 DEF ClearRetire, TypeOK
  <1>5. CASE Return(t) BY <1>1, <1>5 DEF Return, TypeOK
  <1>6. CASE ClearInUse(t)
    <2>1. pc' \in [Threads -> Labels]
      <3>1. pc' = [pc EXCEPT ![t] = "undefined"] BY <1>6 DEF ClearInUse
      <3>. QED BY <1>1, <3>1 DEF TypeOK
    <2>. QED BY <1>1, <1>6, <2>1 DEF ClearInUse, TypeOK
  <1>. QED BY <1>2, <1>3, <1>4, <1>5, <1>6 DEF ClearStep

\* A step of thread t leaves to another thread what is its own.
Others(t) ==
    \A u \in Threads \ {t} :
        /\ pc'[u] = pc[u] /\ node'[u] = node[u] /\ reg'[u] = reg[u] /\ h0'[u] = h0[u]
        /\ h1'[u] = h1[u] /\ item'[u] = item[u] /\ before'[u] = before[u]

\* No step touches the variables of another thread.
LEMMA OthersKept ==
    ASSUME IInv, NEW t \in Threads, PushStep(t) \/ PopStep(t) \/ ClearStep(t)
    PROVE  Others(t)
  <1>. USE DEF Goto, At, listVars, nodeVars, poolVars, callVars, histVars, IInv, TypeOK, Others
  <1>1. CASE PushStep(t)
    BY <1>1 DEF PushStep, PushCall, NewNode, PushLoadEnd, PushPublish, PushReadNext, PushHelp,
       SwingEnd, PushCheck, PushLink, PushSwing, PushCount, Return
  <1>2. CASE PopStep(t)
    BY <1>2 DEF PopStep, PopCall, PopLoadBegin, PopPublish0, PopReadNext, PopPublish1, PopCheck,
       PopRefresh, PopUnlink, PopRead, PopRetire, PopCount, Return
  <1>3. CASE ClearStep(t)
    BY <1>3 DEF ClearStep, ClearCall, NewNode, ClearExchange, ClearInUse, ClearRetire, Return
  <1>. QED BY <1>1, <1>2, <1>3

\* A step of a push keeps what local variables hold.
LEMMA LocalsPush ==
    ASSUME IInv, NEW t \in Pushers, PushStep(t)
    PROVE  LocalsOk'
  <1>. USE DEF Goto, At, listVars, nodeVars, poolVars, callVars, histVars, PushLabels
  <1>1. /\ t \in Threads /\ TypeOK /\ LocalsOk /\ Others(t)
        /\ t \notin Poppers /\ t \notin Clearers
    BY OthersKept, ConstantsOk DEF Threads, IInv
  <1>2. SUFFICES /\ At(t, "idle")' => node'[t] = Null /\ item'[t] = Null /\ h0'[t] = Null /\ h1'[t] = Null
                 /\ pc'[t] \in PushLabels
                 /\ ~ At(t, "idle")' => item'[t] \in Values /\ node'[t] \in Nodes
                 /\ pc'[t] \in {"publish", "help"} => reg'[t] \in Nodes
                 /\ pc'[t] \in {"pnext", "help", "pcheck", "link", "swing"} => h0'[t] \in Nodes
    BY <1>1 DEF Others, LocalsOk, Threads
  <1>3. CASE PushCall(t)
    <2>1. PICK v \in Values : item' = [item EXCEPT ![t] = v] /\ NewNode(t, v)
      BY <1>3 DEF PushCall
    <2>2. node'[t] \in Nodes BY <1>1, <2>1, TypeNew
    <2>. QED BY <1>1, <1>3, <2>1, <2>2 DEF PushCall, TypeOK, LocalsOk
  <1>4. CASE PushLoadEnd(t) BY <1>1, <1>4 DEF PushLoadEnd, TypeOK, LocalsOk
  <1>5. CASE PushPublish(t) BY <1>1, <1>5 DEF PushPublish, TypeOK, LocalsOk
  <1>6. CASE PushReadNext(t) BY <1>1, <1>6 DEF PushReadNext, TypeOK, LocalsOk
  <1>7. CASE PushHelp(t) BY <1>1, <1>7 DEF PushHelp, SwingEnd, TypeOK, LocalsOk
  <1>8. CASE PushCheck(t) BY <1>1, <1>8 DEF PushCheck, TypeOK, LocalsOk
  <1>9. CASE PushLink(t) BY <1>1, <1>9 DEF PushLink, TypeOK, LocalsOk
  <1>10. CASE PushSwing(t) BY <1>1, <1>10 DEF PushSwing, SwingEnd, TypeOK, LocalsOk
  <1>11. CASE PushCount(t) BY <1>1, <1>11 DEF PushCount, TypeOK, LocalsOk
  <1>12. CASE Return(t) BY <1>1, <1>12 DEF Return, TypeOK, LocalsOk
  <1>. QED BY <1>3, <1>4, <1>5, <1>6, <1>7, <1>8, <1>9, <1>10, <1>11, <1>12 DEF PushStep

\* A step of a pop does.
LEMMA LocalsPop ==
    ASSUME IInv, NEW t \in Poppers, PopStep(t)
    PROVE  LocalsOk'
  <1>. USE DEF Goto, At, listVars, nodeVars, poolVars, callVars, histVars, PopLabels
  <1>1. /\ t \in Threads /\ TypeOK /\ LocalsOk /\ Others(t)
        /\ t \notin Pushers /\ t \notin Clearers
    BY OthersKept, ConstantsOk DEF Threads, IInv
  <1>2. SUFFICES /\ At(t, "idle")' => item'[t] = Null /\ h0'[t] = Null /\ h1'[t] = Null
                 /\ pc'[t] \in PopLabels
                 /\ node'[t] = Null
                 /\ pc'[t] \notin {"retire", "count", "return"} => item'[t] = Null
                 /\ At(t, "publish0")' => reg'[t] \in Nodes
                 /\ pc'[t] \in {"next", "publish1", "check", "unlink", "read", "retire"} => h0'[t] \in Nodes
                 /\ pc'[t] \in {"check", "unlink", "read"} => h1'[t] \in Nodes
    BY <1>1 DEF Others, LocalsOk, Threads
  <1>3. CASE PopCall(t) BY <1>1, <1>3 DEF PopCall, TypeOK, LocalsOk
  <1>4. CASE PopLoadBegin(t) BY <1>1, <1>4 DEF PopLoadBegin, TypeOK, LocalsOk
  <1>5. CASE PopPublish0(t) BY <1>1, <1>5 DEF PopPublish0, TypeOK, LocalsOk
  <1>6. CASE PopReadNext(t) BY <1>1, <1>6 DEF PopReadNext, TypeOK, LocalsOk
  <1>7. CASE PopPublish1(t) BY <1>1, <1>7 DEF PopPublish1, TypeOK, LocalsOk
  <1>8. CASE PopCheck(t) BY <1>1, <1>8 DEF PopCheck, TypeOK, LocalsOk
  <1>9. CASE PopRefresh(t) BY <1>1, <1>9 DEF PopRefresh, TypeOK, LocalsOk
  <1>10. CASE PopUnlink(t) BY <1>1, <1>10 DEF PopUnlink, TypeOK, LocalsOk
  <1>11. CASE PopRead(t) BY <1>1, <1>11 DEF PopRead, TypeOK, LocalsOk
  <1>12. CASE PopRetire(t) BY <1>1, <1>12 DEF PopRetire, TypeOK, LocalsOk
  <1>13. CASE PopCount(t) BY <1>1, <1>13 DEF PopCount, TypeOK, LocalsOk
  <1>14. CASE Return(t) BY <1>1, <1>14 DEF Return, TypeOK, LocalsOk
  <1>. QED BY <1>3, <1>4, <1>5, <1>6, <1>7, <1>8, <1>9, <1>10, <1>11, <1>12, <1>13, <1>14 DEF PopStep

\* A step of a clear does.
LEMMA LocalsClear ==
    ASSUME IInv, NEW t \in Clearers, ClearStep(t)
    PROVE  LocalsOk'
  <1>. USE DEF Goto, At, listVars, nodeVars, poolVars, callVars, histVars, ClearLabels
  <1>1. /\ t \in Threads /\ TypeOK /\ LocalsOk /\ Others(t)
        /\ t \notin Pushers /\ t \notin Poppers
    BY OthersKept, ConstantsOk DEF Threads, IInv
  <1>2. SUFFICES /\ At(t, "idle")' => node'[t] = Null /\ item'[t] = Null /\ h0'[t] = Null /\ h1'[t] = Null
                 /\ pc'[t] \in ClearLabels
                 /\ item'[t] = Null
                 /\ At(t, "exchange")' => node'[t] \in Nodes
                 /\ At(t, "dispose")' => reg'[t] \in Nodes
    BY <1>1 DEF Others, LocalsOk, Threads
  <1>3. CASE ClearCall(t)
    <2>1. node'[t] \in Nodes BY <1>1, <1>3, TypeNew DEF ClearCall
    <2>. QED BY <1>1, <1>3, <2>1 DEF ClearCall, TypeOK, LocalsOk
  <1>4. CASE ClearExchange(t) BY <1>1, <1>4 DEF ClearExchange, TypeOK, LocalsOk
  <1>5. CASE ClearRetire(t) BY <1>1, <1>5 DEF ClearRetire, TypeOK, LocalsOk
  <1>6. CASE Return(t) BY <1>1, <1>6 DEF Return, TypeOK, LocalsOk
  <1>7. CASE ClearInUse(t) BY <1>1, <1>7, InUseIs DEF TypeOK, LocalsOk
  <1>. QED BY <1>3, <1>4, <1>5, <1>6, <1>7 DEF ClearStep

\* IInv is an inductive invariant of msque, whatever threads and nodes there are.
THEOREM Invariance == Spec => []IInv
  <1>1. IInv /\ [Next]_vars => IInv'
    <2>. SUFFICES ASSUME IInv, [Next]_vars PROVE IInv'
      OBVIOUS
    <2>1. CASE Step
      BY <2>1, StepCases, TypePush, TypePop, TypeClear, LocalsPush, LocalsPop, LocalsClear DEF IInv
    <2>2. CASE UNCHANGED vars BY <2>2, StutterIInv
    <2>. QED BY <2>1, <2>2, NextCases
  <1>. QED BY <1>1, InitIInv, PTL DEF Spec
-----------------------------------------------------------------------------
(* _size *)

\* The quotient and the remainder of a number.
LEMMA DivMod ==
    ASSUME NEW q \in Nat \ {0}, NEW x \in Int
    PROVE  x \div q \in Int /\ x = q * (x \div q) + (x % q) /\ x % q \in 0..(q - 1)
  BY SMTT(30)

\* The remainder is the number in 0..(q - 1) that differs by turns of q.
LEMMA ModOf ==
    ASSUME NEW q \in Nat \ {0}, NEW k \in Int, NEW r \in 0..(q - 1)
    PROVE  (q * k + r) % q = r
  BY SMTT(30)

\* What is added to a counter that wraps around may be added before or after it does.
LEMMA ModAdd ==
    ASSUME NEW q \in Nat \ {0}, NEW x \in Int, NEW y \in Int
    PROVE  ((x % q) + y) % q = (x + y) % q
  <1>1. PICK k \in Int, r \in 0..(q - 1) : x = q * k + r /\ x % q = r BY DivMod
  <1>2. PICK z \in Int : z = r + y OBVIOUS
  <1>3. PICK j \in Int, s \in 0..(q - 1) : z = q * j + s BY DivMod
  <1>4. x + y = q * (k + j) + s BY <1>1, <1>2, <1>3
  <1>5. (q * (k + j) + s) % q = s /\ (q * j + s) % q = s BY ModOf
  <1>. QED BY <1>1, <1>2, <1>3, <1>4, <1>5

\* The calls that have taken effect and not counted yet.
CountSet == {t \in Pushers : pc[t] \in {"swing", "pcount"}}
DiscountSet == {t \in Poppers : pc[t] \in {"read", "retire", "count"}}

Tally == Pushed - CountDue - (taken - DiscountDue)
Tallied == size = Tally % SizeMod

SizeInv == IInv /\ IsFiniteSet(CountSet) /\ IsFiniteSet(DiscountSet) /\ Tallied

\* Only t can come to count or have counted when t makes a step.
LEMMA DueStep ==
    ASSUME IInv, NEW t \in Threads, Others(t)
    PROVE  /\ CountSet' = (CountSet \ {t}) \cup
                            (IF t \in Pushers /\ pc'[t] \in {"swing", "pcount"} THEN {t} ELSE {})
           /\ DiscountSet' = (DiscountSet \ {t}) \cup
                            (IF t \in Poppers /\ pc'[t] \in {"read", "retire", "count"} THEN {t} ELSE {})
  BY DEF CountSet, DiscountSet, Others, Threads

\* A thread more or less in one of these sets.
LEMMA OneMore ==
    ASSUME NEW S, IsFiniteSet(S), NEW t
    PROVE  /\ Cardinality(S) \in Nat
           /\ IsFiniteSet(S \cup {t}) /\ IsFiniteSet(S \ {t})
           /\ t \notin S => Cardinality(S \cup {t}) = Cardinality(S) + 1
           /\ t \in S => Cardinality(S \ {t}) = Cardinality(S) - 1
  <1>1. Cardinality(S) \in Nat BY FS_CardinalityType
  <1>2. IsFiniteSet(S \cup {t}) /\ (t \notin S => Cardinality(S \cup {t}) = Cardinality(S) + 1)
    BY FS_AddElement
  <1>3. IsFiniteSet(S \ {t}) /\ (t \in S => Cardinality(S \ {t}) = Cardinality(S) - 1)
    BY FS_RemoveElement
  <1>. QED BY <1>1, <1>2, <1>3

\* The calls under way stay finitely many.
LEMMA DueFinite ==
    ASSUME SizeInv, NEW t \in Threads, Others(t)
    PROVE  IsFiniteSet(CountSet)' /\ IsFiniteSet(DiscountSet)'
  <1>1. IsFiniteSet(CountSet \cup {t}) /\ IsFiniteSet(DiscountSet \cup {t})
    BY OneMore DEF SizeInv
  <1>2. CountSet' \subseteq CountSet \cup {t} /\ DiscountSet' \subseteq DiscountSet \cup {t}
    BY DueStep DEF SizeInv
  <1>. QED BY <1>1, <1>2, FS_Subset

\* A step that neither takes effect nor counts.
LEMMA TallyStays ==
    ASSUME SizeInv, NEW t \in Threads, Others(t),
           UNCHANGED <<size, history, taken>>,
           t \in Pushers => (pc[t] \in {"swing", "pcount"} <=> pc'[t] \in {"swing", "pcount"}),
           t \in Poppers =>
              (pc[t] \in {"read", "retire", "count"} <=> pc'[t] \in {"read", "retire", "count"})
    PROVE  Tallied'
  <1>1. CountSet' = CountSet /\ DiscountSet' = DiscountSet
    BY DueStep DEF SizeInv, CountSet, DiscountSet
  <1>. QED BY <1>1 DEF SizeInv, Tallied, Tally, Pushed, CountDue, DiscountDue, CountSet, DiscountSet

\* The numbers of the sum.
LEMMA TallyTypes ==
    ASSUME SizeInv
    PROVE  /\ Pushed \in Nat /\ taken \in Nat /\ CountDue \in Nat /\ DiscountDue \in Nat
           /\ CountDue = Cardinality(CountSet) /\ DiscountDue = Cardinality(DiscountSet)
           /\ size = (Pushed - CountDue - (taken - DiscountDue)) % SizeMod
  <1>1. CountDue = Cardinality(CountSet) /\ DiscountDue = Cardinality(DiscountSet)
    BY DEF CountDue, DiscountDue, CountSet, DiscountSet
  <1>2. Cardinality(CountSet) \in Nat /\ Cardinality(DiscountSet) \in Nat
    BY OneMore DEF SizeInv
  <1>. QED BY <1>1, <1>2 DEF SizeInv, IInv, TypeOK, Pushed, Tallied, Tally

\* A link makes one element and one push that has not counted it.
LEMMA TallyLink ==
    ASSUME SizeInv, NEW t \in Pushers, PushLink(t), next[h0[t]] = Null, Others(t)
    PROVE  Tallied'
  <1>. USE DEF Goto, At
  <1>1. /\ t \in Threads /\ t \notin Poppers /\ TypeOK
        /\ pc[t] = "link" /\ pc'[t] = "swing" /\ taken' = taken /\ size' = size
    BY ConstantsOk DEF Threads, SizeInv, IInv, TypeOK, PushLink
  <1>2. Pushed' = Pushed + 1
    <2>1. history \in Seq(Values) /\ history' = Append(history, item[t])
      BY <1>1 DEF TypeOK, PushLink
    <2>. QED BY <2>1 DEF Pushed
  <1>3. t \notin CountSet /\ CountSet' = CountSet \cup {t}
    BY <1>1, DueStep DEF SizeInv, CountSet
  <1>4. DiscountSet' = DiscountSet
    BY <1>1, DueStep DEF SizeInv, DiscountSet
  <1>5. CountDue' = CountDue + 1 /\ DiscountDue' = DiscountDue
    <2>1. Cardinality(CountSet') = Cardinality(CountSet) + 1
      BY <1>3, OneMore DEF SizeInv
    <2>. QED BY <2>1, <1>4 DEF CountDue, DiscountDue, CountSet, DiscountSet
  <1>. QED BY <1>1, <1>2, <1>5, TallyTypes DEF Tallied, Tally

\* A pop that moves _begin takes one element, and has not counted it.
LEMMA TallyUnlink ==
    ASSUME SizeInv, NEW t \in Poppers, PopUnlink(t), begin = h0[t], Others(t)
    PROVE  Tallied'
  <1>. USE DEF Goto, At
  <1>1. /\ t \in Threads /\ t \notin Pushers /\ TypeOK
        /\ pc[t] = "unlink" /\ pc'[t] = "read" /\ taken' = taken + 1 /\ size' = size
        /\ history' = history
    BY ConstantsOk DEF Threads, SizeInv, IInv, TypeOK, PopUnlink
  <1>2. CountSet' = CountSet
    BY <1>1, DueStep DEF SizeInv, CountSet
  <1>3. t \notin DiscountSet /\ DiscountSet' = DiscountSet \cup {t}
    BY <1>1, DueStep DEF SizeInv, DiscountSet
  <1>4. CountDue' = CountDue /\ DiscountDue' = DiscountDue + 1
    <2>1. Cardinality(DiscountSet') = Cardinality(DiscountSet) + 1
      BY <1>3, OneMore DEF SizeInv
    <2>. QED BY <2>1, <1>2 DEF CountDue, DiscountDue, CountSet, DiscountSet
  <1>. QED BY <1>1, <1>4, TallyTypes DEF Tallied, Tally, Pushed

\* A push or pop that counts is one less that has not.
LEMMA TallyCount ==
    ASSUME SizeInv, NEW t \in Threads,
           (t \in Pushers /\ PushCount(t)) \/ (t \in Poppers /\ PopCount(t)), Others(t)
    PROVE  Tallied'
  <1>. USE DEF Goto, At
  <1>1. TypeOK /\ taken' = taken /\ history' = history /\ pc'[t] = "return"
    BY DEF SizeInv, IInv, TypeOK, PushCount, PopCount, histVars
  <1>2. PICK x \in Int : x = Pushed - CountDue - (taken - DiscountDue)
    BY TallyTypes
  <1>3. size = x % SizeMod BY <1>2, TallyTypes
  <1>4. \A y \in Int : ((x % SizeMod) + y) % SizeMod = (x + y) % SizeMod
    BY ModAdd, ConstantsOk
  <1>5. CASE t \in Pushers /\ PushCount(t)
    <2>1. t \notin Poppers /\ t \in CountSet
      BY <1>5, ConstantsOk DEF CountSet, PushCount
    <2>2. CountSet' = CountSet \ {t} /\ DiscountSet' = DiscountSet
      BY <1>1, <2>1, DueStep DEF SizeInv, DiscountSet
    <2>3. Cardinality(CountSet') = Cardinality(CountSet) - 1
      BY <2>1, <2>2, OneMore DEF SizeInv
    <2>4. CountDue' = CountDue - 1 /\ DiscountDue' = DiscountDue
      BY <2>2, <2>3 DEF CountDue, DiscountDue, CountSet, DiscountSet
    <2>5. Tally' = x + 1
      BY <1>1, <1>2, <2>4, TallyTypes DEF Tally, Pushed
    <2>6. size' = (size + 1) % SizeMod BY <1>5 DEF PushCount
    <2>. QED BY <1>3, <1>4, <2>5, <2>6 DEF Tallied
  <1>6. CASE t \in Poppers /\ PopCount(t)
    <2>1. t \notin Pushers /\ t \in DiscountSet
      BY <1>6, ConstantsOk DEF DiscountSet, PopCount
    <2>2. CountSet' = CountSet /\ DiscountSet' = DiscountSet \ {t}
      BY <1>1, <2>1, DueStep DEF SizeInv, CountSet
    <2>3. Cardinality(DiscountSet') = Cardinality(DiscountSet) - 1
      BY <2>1, <2>2, OneMore DEF SizeInv
    <2>4. CountDue' = CountDue /\ DiscountDue' = DiscountDue - 1
      BY <2>2, <2>3 DEF CountDue, DiscountDue, CountSet, DiscountSet
    <2>5. Tally' = x + (-1)
      BY <1>1, <1>2, <2>4, TallyTypes DEF Tally, Pushed
    <2>6. size' = (size - 1) % SizeMod BY <1>6 DEF PopCount
    <2>7. x % SizeMod \in Int BY DivMod, ConstantsOk
    <2>8. size - 1 = (x % SizeMod) + (-1) BY <1>3, <2>7
    <2>9. -1 \in Int OBVIOUS
    <2>. QED BY <1>4, <2>5, <2>6, <2>8, <2>9 DEF Tallied
  <1>. QED BY <1>5, <1>6

\* Nobody is to count when a clear exchanges the record.
LEMMA TallyExchange ==
    ASSUME SizeInv, NEW t \in Clearers, ClearExchange(t)
    PROVE  Tallied'
  <1>. USE DEF Goto, At
  <1>1. /\ t \in Threads /\ t \notin Pushers /\ t \notin Poppers /\ TypeOK
        /\ pc' = [pc EXCEPT ![t] = "dispose"] /\ NoOtherCall(t)
        /\ size' = 0 /\ taken' = Pushed /\ history' = history
    BY ConstantsOk DEF Threads, SizeInv, IInv, ClearExchange
  <1>2. \A u \in Threads : pc'[u] \in {"idle", "end", "begin", "exchange", "dispose", "return"}
    BY <1>1 DEF NoOtherCall, UsesList, TypeOK
  <1>3. CountSet' = {} /\ DiscountSet' = {}
    BY <1>2 DEF CountSet, DiscountSet, Threads
  <1>4. CountDue' = 0 /\ DiscountDue' = 0
    BY <1>3, FS_EmptySet DEF CountDue, DiscountDue, CountSet, DiscountSet
  <1>5. Tally' = 0
    <2>1. Pushed \in Nat /\ Pushed' = Pushed BY <1>1, TallyTypes DEF Pushed
    <2>. QED BY <1>1, <1>4, <2>1 DEF Tally
  <1>6. 0 % SizeMod = 0
    <2>1. (SizeMod * 0 + 0) % SizeMod = 0 BY ConstantsOk, ModOf
    <2>. QED BY <2>1, ConstantsOk
  <1>. QED BY <1>1, <1>5, <1>6 DEF Tallied

\* Every step of a thread keeps the sum.
LEMMA TallyStep ==
    ASSUME SizeInv, NEW t \in Threads,
           \/ t \in Pushers /\ PushStep(t)
           \/ t \in Poppers /\ PopStep(t)
           \/ t \in Clearers /\ ClearStep(t)
    PROVE  Tallied'
  <1>. USE DEF Goto, At, listVars, nodeVars, poolVars, callVars, histVars
  <1>1. Others(t) /\ IInv /\ TypeOK BY OthersKept DEF SizeInv, IInv
  <1>2. CASE t \in Pushers /\ PushStep(t)
    <2>1. t \notin Poppers BY <1>2, ConstantsOk
    <2>2. CASE PushLink(t) /\ next[h0[t]] = Null BY <1>1, <1>2, <2>2, TallyLink
    <2>3. CASE PushCount(t) BY <1>1, <1>2, <2>3, TallyCount
    <2>4. CASE ~ PushCount(t) /\ ~ (PushLink(t) /\ next[h0[t]] = Null)
      <3>1. /\ UNCHANGED <<size, history, taken>>
            /\ pc[t] \in {"swing", "pcount"} <=> pc'[t] \in {"swing", "pcount"}
        BY <1>1, <1>2, <2>4 DEF TypeOK, PushStep, PushCall, PushLoadEnd, PushPublish, PushReadNext,
           PushHelp, PushCheck, PushLink, PushSwing, Return
      <3>. QED BY <1>1, <2>1, <3>1, TallyStays
    <2>. QED BY <2>2, <2>3, <2>4
  <1>3. CASE t \in Poppers /\ PopStep(t)
    <2>1. t \notin Pushers BY <1>3, ConstantsOk
    <2>2. CASE PopUnlink(t) /\ begin = h0[t] BY <1>1, <1>3, <2>2, TallyUnlink
    <2>3. CASE PopCount(t) BY <1>1, <1>3, <2>3, TallyCount
    <2>4. CASE ~ PopCount(t) /\ ~ (PopUnlink(t) /\ begin = h0[t])
      <3>1. /\ UNCHANGED <<size, history, taken>>
            /\ pc[t] \in {"read", "retire", "count"} <=> pc'[t] \in {"read", "retire", "count"}
        BY <1>1, <1>3, <2>4 DEF TypeOK, PopStep, PopCall, PopLoadBegin, PopPublish0, PopReadNext,
           PopPublish1, PopCheck, PopRefresh, PopUnlink, PopRead, PopRetire, Return
      <3>. QED BY <1>1, <2>1, <3>1, TallyStays
    <2>. QED BY <2>2, <2>3, <2>4
  <1>4. CASE t \in Clearers /\ ClearStep(t)
    <2>1. t \notin Pushers /\ t \notin Poppers BY <1>4, ConstantsOk
    <2>2. CASE ClearExchange(t) BY <1>4, <2>2, TallyExchange
    <2>3. CASE ~ ClearExchange(t)
      <3>1. UNCHANGED <<size, history, taken>>
        BY <1>4, <2>3 DEF ClearStep, ClearCall, ClearInUse, ClearRetire, Return
      <3>. QED BY <1>1, <2>1, <3>1, TallyStays
    <2>. QED BY <2>2, <2>3
  <1>. QED BY <1>2, <1>3, <1>4

\* Whatever threads and nodes there are, and though nodes are reused, _size is the number of
\* elements linked and not unlinked, but for the calls that have not counted (103, 141).
THEOREM SizeExact == Spec => []SizeCounts
  <1>1. Init => SizeInv
    <2>. SUFFICES ASSUME Init PROVE SizeInv
      OBVIOUS
    <2>1. CountSet = {} /\ DiscountSet = {}
      BY DEF Init, CountSet, DiscountSet, Threads
    <2>2. CountDue = 0 /\ DiscountDue = 0
      BY <2>1, FS_EmptySet DEF CountDue, DiscountDue, CountSet, DiscountSet
    <2>3. Tally = 0 BY <2>2 DEF Tally, Init, Pushed
    <2>4. 0 % SizeMod = 0
      <3>1. (SizeMod * 0 + 0) % SizeMod = 0 BY ConstantsOk, ModOf
      <3>. QED BY <3>1, ConstantsOk
    <2>5. Tallied BY <2>3, <2>4 DEF Tallied, Init
    <2>. QED BY <2>1, <2>5, InitIInv, FS_EmptySet DEF SizeInv
  <1>2. SizeInv /\ IInv' /\ [Next]_vars => SizeInv'
    <2>. SUFFICES ASSUME SizeInv, IInv', [Next]_vars PROVE SizeInv'
      OBVIOUS
    <2>1. CASE Step
      <3>1. PICK t \in Threads : \/ t \in Pushers /\ PushStep(t)
                                 \/ t \in Poppers /\ PopStep(t)
                                 \/ t \in Clearers /\ ClearStep(t)
        BY <2>1, StepCases DEF Threads
      <3>2. Others(t) BY <3>1, OthersKept DEF SizeInv
      <3>. QED BY <3>1, <3>2, TallyStep, DueFinite DEF SizeInv
    <2>2. CASE UNCHANGED vars
      BY <2>2 DEF SizeInv, CountSet, DiscountSet, Tallied, Tally, CountDue, DiscountDue, Pushed,
         vars, histVars
    <2>. QED BY <2>1, <2>2, NextCases
  <1>3. SizeInv => SizeCounts
    BY DEF SizeInv, IInv, SizeCounts, Tallied, Tally
  <1>. QED BY <1>1, <1>2, <1>3, Invariance, PTL DEF Spec
-----------------------------------------------------------------------------
(* The list, when nodes are not reused or there is one push and one pop at a time *)

\* No sweep ever finds enough retired nodes to free one: nothing is used twice.
NeverSwept == Cardinality(Nodes) < RecoverLimit
\* One thread pushes and one pops; any number may clear.
OneEach == (\A t, u \in Pushers : t = u) /\ (\A t, u \in Poppers : t = u)

\* Where a push has a node that is not linked yet.
Preparing == {"end", "publish", "pnext", "help", "pcheck", "link"}

\* The nodes that a thread has to itself; D is what clears have still to retire.
Owns(t, n, D) ==
    \/ t \in Pushers /\ pc[t] \in Preparing /\ n = node[t]
    \/ t \in Poppers /\ pc[t] \in {"read", "retire"} /\ n = h0[t]
    \/ t \in Clearers /\ At(t, "exchange") /\ n = node[t]
    \/ t \in Clearers /\ At(t, "dispose") /\ n \in D[t]

\* L numbers the nodes that are in the list or have been, the dummy before element i + 1
\* by i.  None from number s on was freed; _end is at e, the last or the last but one.
ListOk(L, s, e) ==
    /\ s <= taken /\ taken <= Pushed
    /\ s <= e /\ e <= Pushed /\ Pushed <= e + 1
    /\ begin = L[taken] /\ end = L[e]
    /\ \A i \in s..Pushed : L[i] \notin free
    /\ \A i, j \in s..Pushed : L[i] = L[j] => i = j
    /\ \A i \in s..(Pushed - 1) : next[L[i]] = L[i + 1]
    /\ next[L[Pushed]] = Null
    /\ \A i \in (taken + 1)..Pushed : data[L[i]] = history[i]

\* Its nodes, those of the free list and the retired ones, and those of the threads are
\* different ones.
Apart(L, D) ==
    /\ free \cap retired = {}
    /\ \A i \in taken..Pushed : L[i] \notin retired
    /\ \A t \in Threads, n \in Nodes : Owns(t, n, D) =>
          /\ n \notin free \cup retired
          /\ \A i \in taken..Pushed : n # L[i]
          /\ \A u \in Threads : Owns(u, n, D) => u = t

\* The pointers of a push were in _end during the call.
PushOk(L, s, e, t) ==
    /\ pc[t] \in Preparing =>
          /\ next[node[t]] = Null /\ data[node[t]] = item[t]
          /\ \A i \in s..Pushed : node[t] # L[i]
    /\ At(t, "publish") => \E i \in s..e : reg[t] = L[i]
    /\ pc[t] \in {"pnext", "help", "pcheck", "link", "swing"} => \E i \in s..e : h0[t] = L[i]
    /\ At(t, "help") => reg[t] = next[h0[t]]
    /\ At(t, "swing") => next[h0[t]] = node[t]

\* Those of a pop were in _begin.
PopOk(L, s, t) ==
    /\ At(t, "publish0") => \E i \in s..taken : reg[t] = L[i]
    /\ pc[t] \in {"next", "publish1", "check", "unlink"} => \E i \in s..taken : h0[t] = L[i]
    /\ At(t, "publish1") /\ reg[t] # Null => reg[t] = next[h0[t]]
    /\ pc[t] \in {"check", "unlink"} => h1[t] = next[h0[t]]
    /\ At(t, "read") => h1[t] \notin free /\ data[h1[t]] \in Values

\* What a clear has still to retire is a list that starts at reg.
ClearOk(D, t) ==
    /\ At(t, "exchange") => next[node[t]] = Null
    /\ At(t, "dispose") =>
          /\ reg[t] \in D[t]
          /\ \A n \in D[t] : next[n] \in D[t] \cup {Null} /\ next[n] # reg[t]
          /\ \A m, n \in D[t] : next[m] = next[n] /\ next[m] # Null => m = n

\* With one push and one pop at a time the pointers are still there.
PairPush(t) ==
    /\ ~ At(t, "help")
    /\ At(t, "publish") => reg[t] = end
    /\ pc[t] \in {"pnext", "pcheck", "link", "swing"} => h0[t] = end
PairPop(t) ==
    /\ At(t, "publish0") => reg[t] = begin
    /\ pc[t] \in {"next", "publish1", "check", "unlink"} => h0[t] = begin
    /\ At(t, "read") => h1[t] = begin
PairEnd == next[end] # Null => \E t \in Pushers : At(t, "swing")
PairOk ==
    OneEach =>
        /\ \A t \in Pushers : PairPush(t)
        /\ \A t \in Poppers : PairPop(t)
        /\ PairEnd

Lists(L, s, e, D) ==
    /\ ListOk(L, s, e) /\ Apart(L, D) /\ PairOk
    /\ \A t \in Pushers : PushOk(L, s, e, t)
    /\ \A t \in Poppers : PopOk(L, s, t)
    /\ \A t \in Clearers : ClearOk(D, t)

Shape ==
    \E L \in [Nat -> Nodes], s \in Nat, e \in Nat, D \in [Clearers -> SUBSET Nodes] :
        Lists(L, s, e, D)

\* The kinds of threads are different.
LEMMA Kinds ==
    /\ Pushers \subseteq Threads /\ Poppers \subseteq Threads /\ Clearers \subseteq Threads
    /\ \A t \in Pushers : t \notin Poppers /\ t \notin Clearers
    /\ \A t \in Poppers : t \notin Pushers /\ t \notin Clearers
    /\ \A t \in Clearers : t \notin Pushers /\ t \notin Poppers
  BY ConstantsOk DEF Threads

\* What the thread that takes a step has to itself afterwards is nobody else's.
LEMMA ApartSame ==
    ASSUME NEW L, NEW D, NEW t \in Threads, Apart(L, D), Others(t),
           UNCHANGED <<free, retired, taken, history>>,
           \A n \in Nodes : Owns(t, n, D)' => Owns(t, n, D)
    PROVE  Apart(L, D)'
  <1>1. \A u \in Threads, n \in Nodes : Owns(u, n, D)' => Owns(u, n, D)
    BY DEF Others, Owns, At
  <1>. QED BY <1>1 DEF Apart, Pushed

\* A step of thread t that changes neither nodes nor the ends of the list.
LEMMA Quiet ==
    ASSUME NEW L, NEW s, NEW e, NEW D, NEW t \in Threads, Lists(L, s, e, D), Others(t),
           UNCHANGED <<listVars, nodeVars, poolVars, histVars>>,
           \A n \in Nodes : Owns(t, n, D)' => Owns(t, n, D),
           t \in Pushers => PushOk(L, s, e, t)' /\ (OneEach => PairPush(t)' /\ ~ At(t, "swing")),
           t \in Poppers => PopOk(L, s, t)' /\ (OneEach => PairPop(t)'),
           t \in Clearers => ClearOk(D, t)'
    PROVE  Lists(L, s, e, D)'
  <1>. USE DEF listVars, nodeVars, poolVars, histVars
  <1>1. ListOk(L, s, e)' BY DEF Lists, ListOk, Pushed
  <1>2. Apart(L, D)' BY ApartSame DEF Lists
  <1>3. ASSUME NEW u \in Pushers PROVE PushOk(L, s, e, u)'
    <2>1. CASE u = t BY <2>1
    <2>2. CASE u # t BY <2>2, Kinds DEF Lists, PushOk, Others, At, Pushed
    <2>. QED BY <2>1, <2>2
  <1>4. ASSUME NEW u \in Poppers PROVE PopOk(L, s, u)'
    <2>1. CASE u = t BY <2>1
    <2>2. CASE u # t BY <2>2, Kinds DEF Lists, PopOk, Others, At
    <2>. QED BY <2>1, <2>2
  <1>5. ASSUME NEW u \in Clearers PROVE ClearOk(D, u)'
    <2>1. CASE u = t BY <2>1
    <2>2. CASE u # t BY <2>2, Kinds DEF Lists, ClearOk, Others, At
    <2>. QED BY <2>1, <2>2
  <1>6. PairOk'
    <2>. SUFFICES ASSUME OneEach
                  PROVE  /\ \A u \in Pushers : PairPush(u)'
                         /\ \A u \in Poppers : PairPop(u)'
                         /\ PairEnd'
      BY DEF PairOk, OneEach
    <2>1. \A u \in Pushers : PairPush(u) BY DEF Lists, PairOk
    <2>2. \A u \in Poppers : PairPop(u) BY DEF Lists, PairOk
    <2>3. ASSUME NEW u \in Pushers PROVE PairPush(u)'
      BY <2>1, Kinds DEF PairPush, Others, At
    <2>4. ASSUME NEW u \in Poppers PROVE PairPop(u)'
      BY <2>2, Kinds DEF PairPop, Others, At
    <2>5. PairEnd'
      <3>1. PairEnd BY DEF Lists, PairOk
      <3>. QED BY <3>1, Kinds DEF PairEnd, Others, At
    <2>. QED BY <2>3, <2>4, <2>5
  <1>. QED BY <1>1, <1>2, <1>3, <1>4, <1>5, <1>6 DEF Lists

\* The steps of a push that only move its own pointers.
LEMMA PushQuiet ==
    ASSUME IInv, NEW L, NEW s \in Nat, NEW e \in Nat, NEW D, NEW t \in Pushers, PushStep(t),
           Lists(L, s, e, D),
           \/ PushLoadEnd(t) \/ PushPublish(t) \/ PushReadNext(t) \/ PushCheck(t) \/ PushCount(t)
           \/ Return(t) \/ (PushLink(t) /\ next[h0[t]] # Null)
           \/ ((PushHelp(t) \/ PushSwing(t)) /\ end # h0[t])
    PROVE  Lists(L, s, e, D)'
  <1>. USE DEF Goto, At, listVars, nodeVars, poolVars, callVars, histVars, Preparing
  <1>1. /\ t \in Threads /\ Others(t) /\ TypeOK /\ LocalsOk
        /\ t \notin Poppers /\ t \notin Clearers
    BY Kinds, OthersKept DEF IInv
  <1>2. /\ PushOk(L, s, e, t) /\ (OneEach => PairPush(t) /\ PairEnd)
        /\ end = L[e] /\ s <= e
        /\ e <= Pushed
    BY DEF Lists, PairOk, ListOk
  <1>3. UNCHANGED <<listVars, nodeVars, poolVars, histVars>>
    BY DEF PushLoadEnd, PushPublish, PushReadNext, PushCheck, PushCount, Return, PushLink, PushHelp,
       PushSwing, SwingEnd
  <1>4. pc'[t] \in Preparing => pc[t] \in Preparing /\ node'[t] = node[t] /\ item'[t] = item[t]
    BY <1>1 DEF TypeOK, PushLoadEnd, PushPublish, PushReadNext, PushCheck, PushCount, Return,
       PushLink, PushHelp, PushSwing
  <1>5. \A n \in Nodes : Owns(t, n, D)' => Owns(t, n, D)
    BY <1>1, <1>4 DEF Owns
  <1>6. pc'[t] \in Preparing =>
            /\ next'[node'[t]] = Null /\ data'[node'[t]] = item'[t]
            /\ \A i \in s..Pushed' : node'[t] # L[i]
    BY <1>2, <1>3, <1>4 DEF PushOk, Pushed
  <1>7. PushOk(L, s, e, t)' /\ (OneEach => PairPush(t)' /\ ~ At(t, "swing"))
    <2>1. CASE PushLoadEnd(t)
      <3>1. pc'[t] = "publish" /\ reg'[t] = end /\ pc[t] = "end"
        BY <1>1, <2>1 DEF TypeOK, PushLoadEnd
      <3>2. e \in s..e BY <1>2
      <3>. QED BY <1>2, <1>3, <1>6, <3>1, <3>2 DEF PushOk, PairPush
    <2>2. CASE PushPublish(t)
      <3>1. pc'[t] = "pnext" /\ h0'[t] = reg[t] /\ pc[t] = "publish"
        BY <1>1, <2>2 DEF TypeOK, PushPublish
      <3>. QED BY <1>2, <1>3, <1>6, <3>1 DEF PushOk, PairPush
    <2>3. CASE PushReadNext(t)
      <3>1. /\ pc[t] = "pnext" /\ h0'[t] = h0[t] /\ reg'[t] = next[h0[t]]
            /\ pc'[t] = IF next[h0[t]] # Null THEN "help" ELSE "pcheck"
        BY <1>1, <2>3 DEF TypeOK, PushReadNext
      <3>2. OneEach => next[h0[t]] = Null
        <4>. SUFFICES ASSUME OneEach, next[h0[t]] # Null PROVE FALSE
          OBVIOUS
        <4>1. next[end] # Null BY <1>2, <3>1 DEF PairPush
        <4>2. \E u \in Pushers : pc[u] = "swing" BY <1>2, <4>1 DEF PairEnd
        <4>. QED BY <3>1, <4>2 DEF OneEach
      <3>. QED BY <1>2, <1>3, <1>6, <3>1, <3>2 DEF PushOk, PairPush
    <2>4. CASE PushCheck(t)
      <3>1. pc[t] = "pcheck" /\ h0'[t] = h0[t] /\ pc'[t] \in {"link", "end"}
        BY <1>1, <2>4 DEF TypeOK, PushCheck
      <3>. QED BY <1>2, <1>3, <1>6, <3>1 DEF PushOk, PairPush
    <2>5. CASE PushCount(t) \/ Return(t)
      <3>1. pc[t] \in {"pcount", "return"} /\ pc'[t] \in {"return", "idle"}
        BY <1>1, <2>5 DEF TypeOK, PushCount, Return
      <3>. QED BY <3>1 DEF PushOk, PairPush
    <2>6. CASE PushLink(t) /\ next[h0[t]] # Null
      <3>1. pc[t] = "link" /\ pc'[t] = "end"
        BY <1>1, <2>6 DEF TypeOK, PushLink
      <3>. QED BY <1>6, <3>1 DEF PushOk, PairPush
    <2>7. CASE (PushHelp(t) \/ PushSwing(t)) /\ end # h0[t]
      <3>1. (pc[t] = "help" /\ pc'[t] = "end") \/ (pc[t] = "swing" /\ pc'[t] = "pcount")
        BY <1>1, <2>7 DEF TypeOK, PushHelp, PushSwing
      <3>2. OneEach => FALSE
        BY <1>2, <2>7, <3>1 DEF PairPush
      <3>. QED BY <1>6, <3>1, <3>2 DEF PushOk, PairPush
    <2>. QED BY <2>1, <2>2, <2>3, <2>4, <2>5, <2>6, <2>7
  <1>. QED BY <1>1, <1>3, <1>5, <1>7, Quiet

\* Those of a pop.
LEMMA PopQuiet ==
    ASSUME IInv, NEW L, NEW s \in Nat, NEW e \in Nat, NEW D, NEW t \in Poppers, PopStep(t),
           Lists(L, s, e, D), ~ PopRetire(t), ~ (PopUnlink(t) /\ begin = h0[t])
    PROVE  Lists(L, s, e, D)'
  <1>. USE DEF Goto, At, listVars, nodeVars, poolVars, callVars, histVars
  <1>1. /\ t \in Threads /\ Others(t) /\ TypeOK /\ LocalsOk
        /\ t \notin Pushers /\ t \notin Clearers
    BY Kinds, OthersKept DEF IInv
  <1>2. /\ PopOk(L, s, t) /\ (OneEach => PairPop(t))
        /\ begin = L[taken] /\ s <= taken /\ taken \in Nat
    BY <1>1 DEF Lists, PairOk, ListOk, TypeOK
  <1>3. UNCHANGED <<listVars, nodeVars, poolVars, histVars>>
    BY DEF PopStep, PopCall, PopLoadBegin, PopPublish0, PopReadNext, PopPublish1, PopCheck,
       PopRefresh, PopUnlink, PopRead, PopCount, Return
  <1>4. pc'[t] \in {"read", "retire"} => PopRead(t)
    BY <1>1 DEF TypeOK, PopStep, PopCall, PopLoadBegin, PopPublish0, PopReadNext, PopPublish1,
       PopCheck, PopRefresh, PopUnlink, PopCount, Return
  <1>5. \A n \in Nodes : Owns(t, n, D)' => Owns(t, n, D)
    BY <1>1, <1>4 DEF Owns, PopRead
  <1>6. PopOk(L, s, t)' /\ (OneEach => PairPop(t)')
    <2>1. CASE PopLoadBegin(t)
      <3>1. pc'[t] = "publish0" /\ reg'[t] = begin
        BY <1>1, <2>1 DEF TypeOK, PopLoadBegin
      <3>2. taken \in s..taken BY <1>2
      <3>. QED BY <1>2, <1>3, <3>1, <3>2 DEF PopOk, PairPop
    <2>2. CASE PopPublish0(t)
      <3>1. pc'[t] = "next" /\ h0'[t] = reg[t] /\ pc[t] = "publish0"
        BY <1>1, <2>2 DEF TypeOK, PopPublish0
      <3>. QED BY <1>2, <1>3, <3>1 DEF PopOk, PairPop
    <2>3. CASE PopReadNext(t)
      <3>1. /\ pc[t] = "next" /\ pc'[t] = "publish1" /\ h0'[t] = h0[t]
            /\ reg'[t] = next[h0[t]]
        BY <1>1, <2>3 DEF TypeOK, PopReadNext
      <3>. QED BY <1>2, <1>3, <3>1 DEF PopOk, PairPop
    <2>4. CASE PopPublish1(t)
      <3>1. /\ pc[t] = "publish1" /\ h0'[t] = h0[t] /\ h1'[t] = reg[t]
            /\ pc'[t] = IF reg[t] = Null THEN "return" ELSE "check"
        BY <1>1, <2>4 DEF TypeOK, PopPublish1
      <3>. QED BY <1>2, <1>3, <3>1 DEF PopOk, PairPop
    <2>5. CASE PopCheck(t)
      <3>1. /\ pc[t] = "check" /\ h0'[t] = h0[t] /\ h1'[t] = h1[t]
            /\ pc'[t] \in {"unlink", "refresh"}
        BY <1>1, <2>5 DEF TypeOK, PopCheck
      <3>. QED BY <1>2, <1>3, <3>1 DEF PopOk, PairPop
    <2>6. CASE ~ (PopLoadBegin(t) \/ PopPublish0(t) \/ PopReadNext(t) \/ PopPublish1(t) \/ PopCheck(t))
      <3>1. pc'[t] \in {"idle", "begin", "retire", "return"}
        BY <1>1, <2>6 DEF TypeOK, PopStep, PopCall, PopRefresh, PopUnlink, PopRead, PopCount, Return
      <3>. QED BY <3>1 DEF PopOk, PairPop
    <2>. QED BY <2>1, <2>2, <2>3, <2>4, <2>5, <2>6
  <1>. QED BY <1>1, <1>3, <1>5, <1>6, Quiet

\* _end moves on to the last node.
LEMMA EndMoves ==
    ASSUME IInv, NEW L \in [Nat -> Nodes], NEW s \in Nat, NEW e \in Nat, NEW D,
           NEW t \in Pushers, PushHelp(t) \/ PushSwing(t), Lists(L, s, e, D), end = h0[t]
    PROVE  /\ e < Pushed /\ end' = next[end] /\ end' = L[e + 1]
           /\ Lists(L, s, e + 1, D)'
  <1>. USE DEF Goto, At, listVars, nodeVars, poolVars, callVars, histVars, Preparing
  <1>1. /\ t \in Threads /\ Others(t) /\ TypeOK /\ LocalsOk
        /\ t \notin Poppers /\ t \notin Clearers
    BY Kinds, OthersKept DEF IInv, PushStep
  <1>2. /\ PushOk(L, s, e, t) /\ (OneEach => PairPush(t))
        /\ end = L[e] /\ s <= e /\ e <= Pushed /\ Pushed <= e + 1 /\ Pushed \in Nat
        /\ next[L[Pushed]] = Null
        /\ \A i \in s..(Pushed - 1) : next[L[i]] = L[i + 1]
    <2>1. PushOk(L, s, e, t) /\ (OneEach => PairPush(t)) /\ ListOk(L, s, e)
      BY DEF Lists, PairOk
    <2>2. Pushed \in Nat BY <1>1 DEF TypeOK, Pushed
    <2>. QED BY <2>1, <2>2 DEF ListOk
  <1>3. end' = next[end] /\ end' # Null
    <2>1. CASE PushHelp(t)
      <3>1. pc[t] = "help" /\ end' = reg[t] BY <2>1 DEF PushHelp, SwingEnd
      <3>2. reg[t] = next[end] /\ reg[t] \in Nodes BY <1>1, <1>2, <3>1 DEF PushOk, LocalsOk
      <3>. QED BY <3>1, <3>2, ConstantsOk
    <2>2. CASE PushSwing(t)
      <3>1. pc[t] = "swing" /\ end' = node[t] BY <2>2 DEF PushSwing, SwingEnd
      <3>2. node[t] = next[end] /\ node[t] \in Nodes BY <1>1, <1>2, <3>1 DEF PushOk, LocalsOk
      <3>. QED BY <3>1, <3>2, ConstantsOk
    <2>. QED BY <2>1, <2>2
  <1>4. e < Pushed /\ Pushed = e + 1
    <2>1. e # Pushed BY <1>2, <1>3
    <2>. QED BY <1>2, <2>1
  <1>5. end' = L[e + 1]
    <2>1. e \in s..(Pushed - 1) BY <1>2, <1>4
    <2>. QED BY <1>2, <1>3, <2>1
  <1>6. /\ UNCHANGED <<begin, nodeVars, poolVars, histVars, node, item>> /\ Pushed' = Pushed
        /\ pc[t] \in {"help", "swing"}
        /\ pc'[t] = IF At(t, "help") THEN "end" ELSE "pcount"
    BY <1>1 DEF PushHelp, PushSwing, SwingEnd, TypeOK, Pushed
  <1>7. ListOk(L, s, e + 1)'
    BY <1>2, <1>4, <1>5, <1>6 DEF Lists, ListOk
  <1>8. Apart(L, D)'
    <2>1. \A n \in Nodes : Owns(t, n, D)' => Owns(t, n, D)
      BY <1>1, <1>6 DEF Owns
    <2>. QED BY <1>1, <1>6, <2>1, ApartSame DEF Lists
  <1>9. \A i \in s..e : i \in s..(e + 1) OBVIOUS
  <1>10. ASSUME NEW u \in Pushers PROVE PushOk(L, s, e + 1, u)'
    <2>1. PushOk(L, s, e, u) BY DEF Lists
    <2>2. CASE u = t BY <1>6, <2>1, <2>2 DEF PushOk
    <2>3. CASE u # t BY <1>1, <1>6, <1>9, <2>1, <2>3, Kinds DEF PushOk, Others
    <2>. QED BY <2>2, <2>3
  <1>11. ASSUME NEW u \in Poppers PROVE PopOk(L, s, u)'
    BY <1>1, <1>6, Kinds DEF Lists, PopOk, Others
  <1>12. ASSUME NEW u \in Clearers PROVE ClearOk(D, u)'
    BY <1>1, <1>6, Kinds DEF Lists, ClearOk, Others
  <1>13. PairOk'
    <2>. SUFFICES ASSUME OneEach
                  PROVE  /\ \A u \in Pushers : PairPush(u)'
                         /\ \A u \in Poppers : PairPop(u)'
                         /\ PairEnd'
      BY DEF PairOk, OneEach
    <2>1. At(t, "swing") BY <1>2, <1>6 DEF PairPush
    <2>2. \A u \in Pushers : PairPush(u)' BY <1>6, <2>1 DEF PairPush, OneEach
    <2>3. \A u \in Poppers : PairPop(u)'
      BY <1>1, <1>6, Kinds DEF Lists, PairOk, PairPop, Others
    <2>4. PairEnd' BY <1>2, <1>4, <1>5, <1>6 DEF PairEnd
    <2>. QED BY <2>2, <2>3, <2>4
  <1>. QED BY <1>3, <1>4, <1>5, <1>7, <1>8, <1>10, <1>11, <1>12, <1>13 DEF Lists

\* A push links its node to the last one.
LEMMA LinkMoves ==
    ASSUME IInv, NEW L \in [Nat -> Nodes], NEW s \in Nat, NEW e \in Nat,
           NEW D \in [Clearers -> SUBSET Nodes], NEW t \in Pushers, PushLink(t), Lists(L, s, e, D), next[h0[t]] = Null
    PROVE  \E M \in [Nat -> Nodes] : Lists(M, s, e, D)'
  <1>. USE DEF Goto, At, listVars, nodeVars, poolVars, callVars, histVars, Preparing
  <1>1. /\ t \in Threads /\ Others(t) /\ TypeOK /\ LocalsOk
        /\ t \notin Poppers /\ t \notin Clearers
    BY Kinds, OthersKept DEF IInv, PushStep
  <1>2. /\ pc[t] = "link" /\ pc'[t] = "swing" /\ h0' = h0 /\ node' = node /\ item' = item
        /\ next' = [next EXCEPT ![h0[t]] = node[t]] /\ history' = Append(history, item[t])
        /\ UNCHANGED <<begin, end, data, free, retired, taken>>
    BY <1>1 DEF PushLink, TypeOK
  <1>3. /\ PushOk(L, s, e, t)
        /\ end = L[e] /\ s <= e /\ e <= Pushed /\ Pushed <= e + 1 /\ Pushed \in Nat
        /\ s <= taken /\ taken <= Pushed /\ taken \in Nat /\ begin = L[taken]
        /\ \A i, j \in s..Pushed : L[i] = L[j] => i = j
        /\ \A i \in s..(Pushed - 1) : next[L[i]] = L[i + 1]
        /\ \A i \in s..Pushed : L[i] \notin free
        /\ next[L[Pushed]] = Null
    BY <1>1 DEF Lists, ListOk, TypeOK, Pushed
  <1>4. PICK k \in s..e : h0[t] = L[k] BY <1>2, <1>3 DEF PushOk
  <1>5. k = Pushed /\ e = Pushed /\ h0[t] = L[Pushed]
    <2>1. k \in s..(Pushed - 1) => FALSE
      <3>. SUFFICES ASSUME k \in s..(Pushed - 1) PROVE FALSE
        OBVIOUS
      <3>1. next[L[k]] = L[k + 1] /\ L[k + 1] \in Nodes BY <1>3
      <3>. QED BY <1>4, <3>1, ConstantsOk
    <2>. QED BY <1>3, <1>4, <2>1
  <1>6. /\ node[t] \in Nodes /\ item[t] \in Values /\ next[node[t]] = Null
        /\ data[node[t]] = item[t] /\ \A i \in s..Pushed : node[t] # L[i]
        /\ h0[t] \in Nodes /\ node[t] # h0[t]
    BY <1>1, <1>2, <1>3, <1>5 DEF PushOk, LocalsOk
  <1>7. Pushed' = Pushed + 1 /\ history'[Pushed + 1] = item[t]
        /\ \A i \in 1..Pushed : history'[i] = history[i]
    <2>1. history \in Seq(Values) BY <1>1 DEF TypeOK
    <2>. QED BY <1>2, <1>6, <2>1 DEF Pushed
  <1>8. Owns(t, node[t], D) BY <1>2 DEF Owns
  <1>9. node[t] \notin free \cup retired
    BY <1>1, <1>6, <1>8 DEF Lists, Apart
  <1>10. PICK M \in [Nat -> Nodes] :
            M[Pushed + 1] = node[t] /\ \A i \in Nat : i # Pushed + 1 => M[i] = L[i]
    <2>1. /\ [L EXCEPT ![Pushed + 1] = node[t]] \in [Nat -> Nodes]
          /\ [L EXCEPT ![Pushed + 1] = node[t]][Pushed + 1] = node[t]
          /\ \A i \in Nat : i # Pushed + 1 => [L EXCEPT ![Pushed + 1] = node[t]][i] = L[i]
      BY <1>3, <1>6
    <2>. QED BY <2>1
  <1>11. /\ next'[L[Pushed]] = node[t] /\ next'[node[t]] = Null
         /\ \A n \in Nodes : n # L[Pushed] => next'[n] = next[n]
    BY <1>1, <1>2, <1>5, <1>6 DEF TypeOK
  <1>12. \A i \in s..Pushed : i \in Nat /\ M[i] = L[i] /\ L[i] \in Nodes
    BY <1>3, <1>10
  <1>13. ListOk(M, s, e)'
    <2>1. s <= taken' /\ taken' <= Pushed' /\ s <= e /\ e <= Pushed' /\ Pushed' <= e + 1
      BY <1>2, <1>3, <1>5, <1>7
    <2>2. begin' = M[taken'] /\ end' = M[e]
      BY <1>2, <1>3, <1>12
    <2>3. ASSUME NEW i \in s..Pushed' PROVE M[i] \notin free'
      <3>1. CASE i = Pushed + 1 BY <1>2, <1>9, <1>10, <3>1
      <3>2. CASE i # Pushed + 1 BY <1>2, <1>3, <1>7, <1>12, <3>2
      <3>. QED BY <3>1, <3>2
    <2>4. ASSUME NEW i \in s..Pushed', NEW j \in s..Pushed', M[i] = M[j] PROVE i = j
      <3>1. (i = Pushed + 1 \/ i \in s..Pushed) /\ (j = Pushed + 1 \/ j \in s..Pushed)
        BY <1>3, <1>7
      <3>. QED BY <1>3, <1>6, <1>10, <1>12, <2>4, <3>1
    <2>5. ASSUME NEW i \in s..(Pushed' - 1) PROVE next'[M[i]] = M[i + 1]
      <3>1. i \in s..Pushed /\ M[i] = L[i] BY <1>3, <1>7, <1>12
      <3>2. CASE i = Pushed BY <1>10, <1>11, <3>1, <3>2
      <3>3. CASE i # Pushed
        <4>1. i \in s..(Pushed - 1) /\ i + 1 \in s..Pushed /\ Pushed \in s..Pushed BY <1>3, <3>1, <3>3
        <4>2. L[i] # L[Pushed] BY <1>3, <3>1, <3>3, <4>1
        <4>3. next[L[i]] = L[i + 1] /\ M[i + 1] = L[i + 1] BY <1>3, <1>12, <4>1
        <4>. QED BY <1>11, <1>12, <3>1, <4>2, <4>3
      <3>. QED BY <3>2, <3>3
    <2>6. next'[M[Pushed']] = Null BY <1>7, <1>10, <1>11
    <2>7. ASSUME NEW i \in (taken' + 1)..Pushed' PROVE data'[M[i]] = history'[i]
      <3>1. CASE i = Pushed + 1 BY <1>2, <1>6, <1>7, <1>10, <3>1
      <3>2. CASE i # Pushed + 1
        <4>1. i \in (taken + 1)..Pushed /\ i \in s..Pushed /\ i \in 1..Pushed
          BY <1>2, <1>3, <1>7, <3>2
        <4>2. data[L[i]] = history[i] BY <4>1 DEF Lists, ListOk
        <4>. QED BY <1>2, <1>7, <1>12, <4>1, <4>2
      <3>. QED BY <3>1, <3>2
    <2>. QED BY <2>1, <2>2, <2>3, <2>4, <2>5, <2>6, <2>7 DEF ListOk
  <1>14. \A u \in Threads, n \in Nodes : Owns(u, n, D)' => Owns(u, n, D) /\ u # t
    BY <1>1, <1>2 DEF Owns, Others
  <1>15. \A i \in taken..Pushed' : i = Pushed + 1 \/ (i \in taken..Pushed /\ M[i] = L[i])
    BY <1>3, <1>7, <1>12
  <1>16. Apart(M, D)'
    <2>. USE DEF Lists, Apart
    <2>1. free' \cap retired' = {} BY <1>2
    <2>2. \A i \in taken'..Pushed' : M[i] \notin retired' BY <1>2, <1>9, <1>10, <1>15
    <2>3. ASSUME NEW u \in Threads, NEW n \in Nodes, Owns(u, n, D)'
          PROVE  /\ n \notin free' \cup retired'
                 /\ \A i \in taken'..Pushed' : n # M[i]
                 /\ \A v \in Threads : Owns(v, n, D)' => v = u
      <3>1. Owns(u, n, D) /\ u # t BY <1>14, <2>3
      <3>2. n # node[t] BY <1>1, <1>8, <3>1
      <3>. QED BY <1>2, <1>10, <1>14, <1>15, <3>1, <3>2
    <2>. QED BY <2>1, <2>2, <2>3
  <1>17. ASSUME NEW u \in Pushers PROVE PushOk(M, s, e, u)'
    <2>1. PushOk(L, s, e, u) BY DEF Lists
    <2>2. \A i \in s..e : M[i] = L[i] BY <1>5, <1>12
    <2>3. CASE u = t
      <3>1. h0'[t] = L[e] /\ e \in s..e /\ next'[h0'[t]] = node'[t]
        BY <1>2, <1>3, <1>5, <1>11
      <3>. QED BY <1>2, <2>2, <2>3, <3>1 DEF PushOk
    <2>4. CASE u # t
      <3>1. pc'[u] = pc[u] /\ node'[u] = node[u] /\ reg'[u] = reg[u] /\ h0'[u] = h0[u] /\ item'[u] = item[u]
        BY <1>1, <2>4, Kinds DEF Others
      <3>2. pc[u] \in Preparing =>
              /\ next'[node[u]] = Null /\ data'[node[u]] = item[u]
              /\ \A i \in s..Pushed' : node[u] # M[i]
        <4>. SUFFICES ASSUME pc[u] \in Preparing
                      PROVE  /\ next'[node[u]] = Null /\ data'[node[u]] = item[u]
                             /\ \A i \in s..Pushed' : node[u] # M[i]
          OBVIOUS
        <4>1. /\ next[node[u]] = Null /\ data[node[u]] = item[u] /\ node[u] \in Nodes
              /\ \A i \in s..Pushed : node[u] # L[i]
          BY <1>1, <2>1 DEF PushOk, LocalsOk
        <4>2. Owns(u, node[u], D) BY DEF Owns
        <4>3. node[u] # node[t] BY <1>1, <1>8, <2>4, <4>1, <4>2, Kinds DEF Lists, Apart
        <4>4. Pushed \in s..Pushed BY <1>3
        <4>5. \A i \in s..Pushed' : i = Pushed + 1 \/ i \in s..Pushed BY <1>3, <1>7
        <4>. QED BY <1>2, <1>10, <1>11, <1>12, <4>1, <4>3, <4>4, <4>5
      <3>3. next[h0[u]] # Null /\ h0[u] \in Nodes => next'[h0[u]] = next[h0[u]]
        BY <1>3, <1>11
      <3>4. pc[u] = "help" => next[h0[u]] # Null /\ h0[u] \in Nodes
        BY <1>1, <2>1, ConstantsOk DEF PushOk, LocalsOk
      <3>5. pc[u] = "swing" => next[h0[u]] # Null /\ h0[u] \in Nodes
        BY <1>1, <2>1, ConstantsOk DEF PushOk, LocalsOk
      <3>. QED BY <2>1, <2>2, <3>1, <3>2, <3>3, <3>4, <3>5 DEF PushOk
    <2>. QED BY <2>3, <2>4
  <1>18. ASSUME NEW u \in Poppers PROVE PopOk(M, s, u)'
    <2>1. PopOk(L, s, u) BY DEF Lists
    <2>2. u # t BY <1>1
    <2>3. pc'[u] = pc[u] /\ reg'[u] = reg[u] /\ h0'[u] = h0[u] /\ h1'[u] = h1[u]
      BY <1>1, <2>2, Kinds DEF Others
    <2>4. \A i \in s..taken : M[i] = L[i] BY <1>3, <1>12
    <2>5. next[h0[u]] # Null /\ h0[u] \in Nodes => next'[h0[u]] = next[h0[u]]
      BY <1>3, <1>11
    <2>6. pc[u] = "publish1" /\ reg[u] # Null => next[h0[u]] # Null /\ h0[u] \in Nodes
      BY <1>1, <2>1 DEF PopOk, LocalsOk
    <2>7. pc[u] \in {"check", "unlink"} => next[h0[u]] # Null /\ h0[u] \in Nodes
      BY <1>1, <2>1, ConstantsOk DEF PopOk, LocalsOk
    <2>. QED BY <1>2, <2>1, <2>3, <2>4, <2>5, <2>6, <2>7 DEF PopOk
  <1>19. ASSUME NEW u \in Clearers PROVE ClearOk(D, u)'
    <2>1. ClearOk(D, u) BY DEF Lists
    <2>2. u # t BY <1>1
    <2>3. pc'[u] = pc[u] /\ reg'[u] = reg[u] /\ node'[u] = node[u]
      BY <1>1, <2>2, Kinds DEF Others
    <2>4. \A n \in Nodes : Owns(u, n, D) => next'[n] = next[n]
      <3>1. Pushed \in taken..Pushed BY <1>3
      <3>. QED BY <1>11, <3>1, Kinds DEF Lists, Apart
    <2>5. CASE pc[u] = "exchange"
      <3>1. node[u] \in Nodes /\ Owns(u, node[u], D) BY <1>1, <2>5 DEF Owns, LocalsOk
      <3>. QED BY <2>1, <2>3, <2>4, <2>5, <3>1 DEF ClearOk
    <2>6. CASE pc[u] = "dispose"
      <3>1. \A n \in D[u] : Owns(u, n, D) BY <2>6 DEF Owns
      <3>. QED BY <2>1, <2>3, <2>4, <2>6, <3>1 DEF ClearOk
    <2>7. CASE pc[u] \notin {"exchange", "dispose"} BY <2>3, <2>7 DEF ClearOk
    <2>. QED BY <2>5, <2>6, <2>7
  <1>20. PairOk'
    <2>. SUFFICES ASSUME OneEach
                  PROVE  /\ \A u \in Pushers : PairPush(u)'
                         /\ \A u \in Poppers : PairPop(u)'
                         /\ PairEnd'
      BY DEF PairOk, OneEach
    <2>1. \A u \in Pushers : PairPush(u)'
      BY <1>2 DEF Lists, PairOk, PairPush, OneEach
    <2>2. \A u \in Poppers : PairPop(u)'
      BY <1>1, <1>2, Kinds DEF Lists, PairOk, PairPop, Others
    <2>3. PairEnd' BY <1>2 DEF PairEnd
    <2>. QED BY <2>1, <2>2, <2>3
  <1>. QED BY <1>10, <1>13, <1>16, <1>17, <1>18, <1>19, <1>20 DEF Lists

\* A pop moves _begin on to the next node.
LEMMA UnlinkMoves ==
    ASSUME IInv, NEW L \in [Nat -> Nodes], NEW s \in Nat, NEW e \in Nat, NEW D,
           NEW t \in Poppers, PopUnlink(t), Lists(L, s, e, D), begin = h0[t]
    PROVE  /\ taken < Pushed /\ begin' = next[begin]
           /\ h1[t] = L[taken + 1] /\ data[h1[t]] = history[taken + 1]
           /\ Lists(L, s, e, D)'
  <1>. USE DEF Goto, At, listVars, nodeVars, poolVars, callVars, histVars
  <1>1. /\ t \in Threads /\ Others(t) /\ TypeOK /\ LocalsOk
        /\ t \notin Pushers /\ t \notin Clearers
    BY Kinds, OthersKept DEF IInv, PopStep
  <1>2. /\ PopOk(L, s, t) /\ ListOk(L, s, e) /\ Apart(L, D) /\ PairOk
        /\ taken \in Nat /\ Pushed \in Nat
    BY <1>1 DEF Lists, TypeOK, Pushed
  <1>3. /\ pc[t] = "unlink" /\ pc'[t] = "read" /\ h0' = h0 /\ h1' = h1
        /\ begin' = h1[t] /\ taken' = taken + 1
        /\ UNCHANGED <<end, nodeVars, poolVars, history>> /\ Pushed' = Pushed
    BY <1>1 DEF PopUnlink, TypeOK, Pushed
  <1>4. h1[t] = next[begin] /\ h1[t] \in Nodes /\ begin = L[taken]
    BY <1>1, <1>2, <1>3 DEF PopOk, LocalsOk, ListOk
  <1>5. taken < Pushed
    <2>1. taken # Pushed BY <1>2, <1>4, ConstantsOk DEF ListOk
    <2>. QED BY <1>2, <2>1 DEF ListOk
  <1>6. h1[t] = L[taken + 1]
    <2>1. taken \in s..(Pushed - 1) BY <1>2, <1>5 DEF ListOk
    <2>. QED BY <1>2, <1>4, <2>1 DEF ListOk
  <1>7. data[h1[t]] = history[taken + 1] /\ history[taken + 1] \in Values
    <2>1. taken + 1 \in (taken + 1)..Pushed BY <1>2, <1>5
    <2>2. taken + 1 \in 1..Len(history) /\ history \in Seq(Values)
      BY <1>1, <1>2, <1>5 DEF TypeOK, Pushed
    <2>. QED BY <1>2, <1>6, <2>1, <2>2 DEF ListOk
  <1>8. h1[t] \notin free
    <2>1. taken + 1 \in s..Pushed BY <1>2, <1>5 DEF ListOk
    <2>. QED BY <1>2, <1>6, <2>1 DEF ListOk
  <1>9. ListOk(L, s, e)'
    <2>1. \A i \in (taken' + 1)..Pushed : i \in (taken + 1)..Pushed BY <1>2, <1>3
    <2>. QED BY <1>2, <1>3, <1>5, <1>6, <2>1 DEF ListOk
  <1>10. /\ taken \in taken..Pushed /\ taken \in s..Pushed
         /\ \A i \in taken'..Pushed : i \in taken..Pushed /\ i \in s..Pushed /\ i # taken
    BY <1>2, <1>3, <1>5 DEF ListOk
  <1>11. Apart(L, D)'
    <2>1. \A u \in Threads, n \in Nodes : u # t => (Owns(u, n, D)' <=> Owns(u, n, D))
      BY <1>1 DEF Owns, Others
    <2>2. \A n \in Nodes : Owns(t, n, D)' => n = L[taken]
      BY <1>1, <1>3, <1>4 DEF Owns
    <2>3. \A u \in Threads : ~ Owns(u, L[taken], D)
      BY <1>2, <1>10 DEF Apart
    <2>4. \A i \in taken'..Pushed : L[taken] # L[i] BY <1>2, <1>10 DEF ListOk
    <2>5. L[taken] \notin free \cup retired BY <1>2, <1>10 DEF Apart, ListOk
    <2>. QED BY <1>2, <1>3, <1>10, <2>1, <2>2, <2>3, <2>4, <2>5 DEF Apart
  <1>12. ASSUME NEW u \in Pushers PROVE PushOk(L, s, e, u)'
    BY <1>1, <1>3, Kinds DEF Lists, PushOk, Others
  <1>13. \A i \in s..taken : i \in s..(taken + 1) BY <1>2
  <1>14. ASSUME NEW u \in Poppers PROVE PopOk(L, s, u)'
    <2>1. PopOk(L, s, u) BY DEF Lists
    <2>2. CASE u = t BY <1>3, <1>7, <1>8, <2>2 DEF PopOk
    <2>3. CASE u # t BY <1>1, <1>3, <1>13, <2>1, <2>3, Kinds DEF PopOk, Others
    <2>. QED BY <2>2, <2>3
  <1>15. ASSUME NEW u \in Clearers PROVE ClearOk(D, u)'
    BY <1>1, <1>3, Kinds DEF Lists, ClearOk, Others
  <1>16. PairOk'
    <2>. SUFFICES ASSUME OneEach
                  PROVE  /\ \A u \in Pushers : PairPush(u)'
                         /\ \A u \in Poppers : PairPop(u)'
                         /\ PairEnd'
      BY DEF PairOk, OneEach
    <2>1. \A u \in Pushers : PairPush(u)'
      BY <1>1, <1>2, <1>3, Kinds DEF PairOk, PairPush, Others
    <2>2. \A u \in Poppers : PairPop(u)' BY <1>3 DEF PairPop, OneEach
    <2>3. PairEnd' BY <1>1, <1>2, <1>3, Kinds DEF PairOk, PairEnd, Others
    <2>. QED BY <2>1, <2>2, <2>3
  <1>. QED BY <1>4, <1>3, <1>5, <1>6, <1>7, <1>9, <1>11, <1>12, <1>14, <1>15, <1>16 DEF Lists

\* A push or a clear allocates a node.
LEMMA NewMoves ==
    ASSUME IInv, NEW L \in [Nat -> Nodes], NEW s \in Nat, NEW e \in Nat,
           NEW D \in [Clearers -> SUBSET Nodes], NEW t \in Threads, Lists(L, s, e, D),
           \/ t \in Pushers /\ PushCall(t)
           \/ t \in Clearers /\ ClearCall(t)
    PROVE  Lists(L, s, e, D)'
  <1>. USE DEF Goto, At, listVars, nodeVars, poolVars, callVars, histVars, Preparing
  <1>1. Others(t) /\ TypeOK /\ LocalsOk /\ t \notin Poppers
    BY Kinds, OthersKept DEF IInv, PushStep, ClearStep
  <1>2. ListOk(L, s, e) /\ Apart(L, D) /\ PairOk BY DEF Lists
  <1>3. PICK n \in free, v \in Values \cup {Null} :
           /\ free' = free \ {n} /\ node' = [node EXCEPT ![t] = n]
           /\ data' = [data EXCEPT ![n] = v] /\ next' = [next EXCEPT ![n] = Null]
           /\ t \in Pushers => item' = [item EXCEPT ![t] = v]
    BY Kinds DEF PushCall, ClearCall, NewNode
  <1>4. /\ pc[t] = "idle" /\ UNCHANGED <<begin, end, retired, history, taken, h0, h1, reg>>
        /\ t \in Pushers => pc'[t] = "end"
        /\ t \in Clearers => pc'[t] = "exchange"
        /\ Pushed' = Pushed
    BY <1>1, Kinds DEF PushCall, ClearCall, TypeOK, Pushed
  <1>5. /\ n \in Nodes /\ node'[t] = n /\ next'[n] = Null /\ data'[n] = v
        /\ \A m \in Nodes : m # n => next'[m] = next[m] /\ data'[m] = data[m]
        /\ t \in Pushers => item'[t] = v
    BY <1>1, <1>3 DEF TypeOK
  <1>6. /\ \A i \in s..Pushed : i \in Nat /\ L[i] \in Nodes /\ L[i] # n
        /\ s <= taken /\ taken <= Pushed /\ s <= e /\ e <= Pushed
        /\ taken \in Nat /\ Pushed \in Nat
    BY <1>1, <1>2 DEF ListOk, TypeOK, Pushed
  <1>7. \A u \in Threads : ~ Owns(u, n, D) BY <1>2, <1>5 DEF Apart
  <1>8. ListOk(L, s, e)'
    <2>1. ASSUME NEW i \in s..(Pushed - 1) PROVE next'[L[i]] = L[i + 1]
      <3>1. i \in s..Pushed BY <1>6
      <3>. QED BY <1>2, <1>5, <1>6, <3>1 DEF ListOk
    <2>2. next'[L[Pushed]] = Null
      <3>1. Pushed \in s..Pushed BY <1>6
      <3>. QED BY <1>2, <1>5, <1>6, <3>1 DEF ListOk
    <2>3. ASSUME NEW i \in (taken + 1)..Pushed PROVE data'[L[i]] = history[i]
      <3>1. i \in s..Pushed BY <1>6
      <3>. QED BY <1>2, <1>5, <1>6, <3>1 DEF ListOk
    <2>. QED BY <1>2, <1>3, <1>4, <2>1, <2>2, <2>3 DEF ListOk
  <1>9. Apart(L, D)'
    <2>1. \A u \in Threads, m \in Nodes : u # t => (Owns(u, m, D)' <=> Owns(u, m, D))
      BY <1>1, <1>4 DEF Owns, Others
    <2>2. \A m \in Nodes : Owns(t, m, D)' => m = n
      BY <1>1, <1>4, <1>5, Kinds DEF Owns
    <2>3. n \notin free' /\ n \notin retired /\ \A i \in taken..Pushed : n # L[i]
      BY <1>2, <1>3, <1>6 DEF Apart
    <2>. QED BY <1>2, <1>3, <1>4, <1>7, <2>1, <2>2, <2>3 DEF Apart
  <1>10. ASSUME NEW u \in Pushers PROVE PushOk(L, s, e, u)'
    <2>1. PushOk(L, s, e, u) BY DEF Lists
    <2>2. CASE u = t BY <1>4, <1>5, <1>6, <2>2 DEF PushOk
    <2>3. CASE u # t
      <3>1. pc'[u] = pc[u] /\ node'[u] = node[u] /\ reg'[u] = reg[u] /\ h0'[u] = h0[u] /\ item'[u] = item[u]
        BY <1>1, <2>3, Kinds DEF Others
      <3>2. pc[u] \in Preparing => node[u] \in Nodes /\ node[u] # n
        BY <1>1, <1>7, Kinds DEF LocalsOk, Owns
      <3>3. ASSUME NEW i \in s..e PROVE L[i] \in Nodes /\ L[i] # n
        <4>1. i \in s..Pushed BY <1>6
        <4>. QED BY <1>6, <4>1
      <3>. QED BY <1>4, <1>5, <2>1, <3>1, <3>2, <3>3 DEF PushOk
    <2>. QED BY <2>2, <2>3
  <1>11. ASSUME NEW u \in Poppers PROVE PopOk(L, s, u)'
    <2>1. PopOk(L, s, u) BY DEF Lists
    <2>2. pc'[u] = pc[u] /\ reg'[u] = reg[u] /\ h0'[u] = h0[u] /\ h1'[u] = h1[u]
      BY <1>1, Kinds DEF Others
    <2>3. ASSUME NEW i \in s..taken PROVE L[i] \in Nodes /\ L[i] # n
      <3>1. i \in s..Pushed BY <1>6
      <3>. QED BY <1>6, <3>1
    <2>4. At(u, "read") => h1[u] \in Nodes /\ h1[u] # n /\ h1[u] \notin free'
      BY <1>1, <1>3, <2>1 DEF PopOk, LocalsOk
    <2>. QED BY <1>4, <1>5, <2>1, <2>2, <2>3, <2>4 DEF PopOk
  <1>12. ASSUME NEW u \in Clearers PROVE ClearOk(D, u)'
    <2>1. ClearOk(D, u) BY DEF Lists
    <2>2. CASE u = t BY <1>4, <1>5, <2>2 DEF ClearOk
    <2>3. CASE u # t
      <3>1. pc'[u] = pc[u] /\ node'[u] = node[u] /\ reg'[u] = reg[u]
        BY <1>1, <2>3, Kinds DEF Others
      <3>2. CASE pc[u] = "exchange"
        <4>1. node[u] \in Nodes /\ node[u] # n BY <1>1, <1>7, <3>2, Kinds DEF LocalsOk, Owns
        <4>. QED BY <1>5, <2>1, <3>1, <3>2, <4>1 DEF ClearOk
      <3>3. CASE pc[u] = "dispose"
        <4>1. \A m \in D[u] : m \in Nodes /\ m # n BY <1>7, <3>3, Kinds DEF Owns
        <4>. QED BY <1>5, <2>1, <3>1, <3>3, <4>1 DEF ClearOk
      <3>4. CASE pc[u] \notin {"exchange", "dispose"} BY <3>1, <3>4 DEF ClearOk
      <3>. QED BY <3>2, <3>3, <3>4
    <2>. QED BY <2>2, <2>3
  <1>13. PairOk'
    <2>. SUFFICES ASSUME OneEach
                  PROVE  /\ \A u \in Pushers : PairPush(u)'
                         /\ \A u \in Poppers : PairPop(u)'
                         /\ PairEnd'
      BY DEF PairOk, OneEach
    <2>1. ASSUME NEW u \in Pushers PROVE PairPush(u)'
      <3>1. PairPush(u) BY <1>2 DEF PairOk
      <3>2. CASE u = t BY <1>4, <3>2 DEF PairPush
      <3>3. CASE u # t BY <1>1, <1>4, <3>1, <3>3, Kinds DEF PairPush, Others
      <3>. QED BY <3>2, <3>3
    <2>2. ASSUME NEW u \in Poppers PROVE PairPop(u)'
      BY <1>1, <1>2, <1>4, Kinds DEF PairOk, PairPop, Others
    <2>3. PairEnd'
      <3>1. e \in s..Pushed /\ end = L[e] BY <1>2, <1>6 DEF ListOk
      <3>2. next'[end] = next[end] BY <1>5, <1>6, <3>1
      <3>. QED BY <1>1, <1>2, <1>4, <3>2, Kinds DEF PairOk, PairEnd, Others
    <2>. QED BY <2>1, <2>2, <2>3
  <1>. QED BY <1>8, <1>9, <1>10, <1>11, <1>12, <1>13 DEF Lists

\* A sweep frees no node that counts: nothing when few nodes are retired, and with one
\* push and one pop the node _end lags at is published by the push that will move it.
LEMMA SweptApart ==
    ASSUME IInv, NeverSwept \/ OneEach, NEW L \in [Nat -> Nodes], NEW s \in Nat, NEW e \in Nat,
           NEW D, Lists(L, s, e, D)
    PROVE  \E r \in Nat :
              /\ s <= r /\ r <= taken /\ r <= e
              /\ \A i \in r..Pushed : L[i] \notin Swept
              /\ \A u \in Pushers : PushOk(L, r, e, u)
              /\ \A u \in Poppers : PopOk(L, r, u) /\ (At(u, "read") => h1[u] \notin Swept)
  <1>. USE DEF At
  <1>1. /\ TypeOK /\ ListOk(L, s, e) /\ Apart(L, D) /\ PairOk
        /\ taken \in Nat /\ Pushed \in Nat
        /\ s <= taken /\ taken <= Pushed /\ s <= e /\ e <= Pushed /\ Pushed <= e + 1
        /\ begin = L[taken] /\ end = L[e]
        /\ \A i \in taken..Pushed : L[i] \notin retired
        /\ \A u \in Pushers : PushOk(L, s, e, u)
        /\ \A u \in Poppers : PopOk(L, s, u)
    BY DEF Lists, ListOk, Apart, IInv, TypeOK, Pushed
  <1>2. Swept \subseteq retired /\ Swept \cap Published = {} BY DEF Swept
  <1>3. CASE NeverSwept
    <2>1. Cardinality(retired) <= Cardinality(Nodes)
      BY <1>1, FS_Subset, ConstantsOk DEF TypeOK
    <2>2. Cardinality(retired) \in Nat /\ Cardinality(Nodes) \in Nat
      BY <1>1, FS_Subset, FS_CardinalityType, ConstantsOk DEF TypeOK
    <2>3. Swept = {} BY <1>3, <2>1, <2>2, ConstantsOk DEF NeverSwept, Swept
    <2>. QED BY <1>1, <2>3
  <1>4. CASE OneEach
    <2>1. /\ \A u \in Pushers : PairPush(u)
          /\ \A u \in Poppers : PairPop(u)
          /\ PairEnd
      BY <1>1, <1>4 DEF PairOk
    <2>2. e < taken => end \notin Swept /\ taken = Pushed /\ Pushed = e + 1
      <3>. SUFFICES ASSUME e < taken PROVE end \notin Swept /\ taken = Pushed /\ Pushed = e + 1
        OBVIOUS
      <3>1. taken = Pushed /\ Pushed = e + 1 /\ e \in s..(Pushed - 1) BY <1>1
      <3>2. next[end] = L[e + 1] /\ L[e + 1] \in Nodes BY <1>1, <3>1 DEF ListOk
      <3>3. PICK u \in Pushers : pc[u] = "swing" BY <2>1, <3>2, ConstantsOk DEF PairEnd
      <3>4. h0[u] = end BY <2>1, <3>3 DEF PairPush
      <3>5. end \in Published BY <3>4, Kinds DEF Published
      <3>. QED BY <1>2, <3>1, <3>5
    <2>3. PICK r \in Nat : r = IF e < taken THEN e ELSE taken BY <1>1
    <2>4. s <= r /\ r <= taken /\ r <= e /\ r <= Pushed BY <1>1, <2>3
    <2>5. ASSUME NEW i \in r..Pushed PROVE L[i] \notin Swept
      <3>1. CASE i \in taken..Pushed BY <1>1, <1>2, <3>1
      <3>2. CASE i \notin taken..Pushed
        <4>1. e < taken /\ i = e BY <1>1, <2>2, <2>3, <3>2
        <4>. QED BY <1>1, <2>2, <4>1
      <3>. QED BY <3>1, <3>2
    <2>6. e \in r..e /\ taken \in r..taken /\ \A i \in r..Pushed : i \in s..Pushed
      BY <1>1, <2>4
    <2>7. ASSUME NEW u \in Pushers PROVE PushOk(L, r, e, u)
      <3>1. PushOk(L, s, e, u) /\ PairPush(u) BY <1>1, <2>1
      <3>. QED BY <1>1, <2>6, <3>1 DEF PushOk, PairPush
    <2>8. ASSUME NEW u \in Poppers PROVE PopOk(L, r, u) /\ (At(u, "read") => h1[u] \notin Swept)
      <3>1. PopOk(L, s, u) /\ PairPop(u) BY <1>1, <2>1
      <3>2. PopOk(L, r, u) BY <1>1, <2>6, <3>1 DEF PopOk, PairPop
      <3>3. begin \notin Swept
        <4>1. taken \in r..Pushed BY <1>1, <2>4
        <4>. QED BY <1>1, <2>5, <4>1
      <3>. QED BY <3>1, <3>2, <3>3 DEF PairPop
    <2>. QED BY <2>4, <2>5, <2>7, <2>8
  <1>. QED BY <1>3, <1>4

\* A thread retires a node that it has to itself; a clear goes on to the next one.
LEMMA RetireMoves ==
    ASSUME IInv, NeverSwept \/ OneEach, NEW L \in [Nat -> Nodes], NEW s \in Nat, NEW e \in Nat,
           NEW D, NEW E, NEW t \in Threads, NEW n \in Nodes,
           Lists(L, s, e, D), Others(t), Retire(n), Owns(t, n, D),
           UNCHANGED <<listVars, nodeVars, histVars>>,
           \A m \in Nodes : Owns(t, m, E)' => Owns(t, m, D) /\ m # n,
           \A u \in Clearers \ {t} : E[u] = D[u],
           t \notin Pushers, t \in Poppers => pc'[t] = "count", t \in Clearers => ClearOk(E, t)'
    PROVE  \E r \in Nat : Lists(L, r, e, E)'
  <1>. USE DEF At, listVars, nodeVars, histVars
  <1>1. /\ TypeOK /\ LocalsOk /\ ListOk(L, s, e) /\ Apart(L, D) /\ PairOk
        /\ taken \in Nat /\ Pushed \in Nat /\ Pushed' = Pushed
        /\ s <= taken /\ taken <= Pushed /\ s <= e /\ e <= Pushed
        /\ \A u \in Clearers : ClearOk(D, u)
    BY DEF Lists, ListOk, IInv, TypeOK, Pushed
  <1>2. PICK r \in Nat :
              /\ s <= r /\ r <= taken /\ r <= e
              /\ \A i \in r..Pushed : L[i] \notin Swept
              /\ \A u \in Pushers : PushOk(L, r, e, u)
              /\ \A u \in Poppers : PopOk(L, r, u) /\ (At(u, "read") => h1[u] \notin Swept)
    BY SweptApart
  <1>3. /\ free' = free \cup Swept /\ retired' = (retired \ Swept) \cup {n}
        /\ Swept \subseteq retired
    BY DEF Retire, Swept
  <1>4. /\ n \notin free \cup retired
        /\ \A i \in taken..Pushed : n # L[i]
        /\ \A u \in Threads : Owns(u, n, D) => u = t
    BY <1>1 DEF Apart
  <1>5. \A i \in r..Pushed : i \in s..Pushed BY <1>1, <1>2
  <1>6. ListOk(L, r, e)'
    <2>1. \A i \in r..(Pushed - 1) : i \in s..(Pushed - 1) BY <1>1, <1>2
    <2>. QED BY <1>1, <1>2, <1>3, <1>5, <2>1 DEF ListOk
  <1>7. \A u \in Threads, m \in Nodes : Owns(u, m, E)' => Owns(u, m, D) /\ m # n
    <2>. SUFFICES ASSUME NEW u \in Threads, NEW m \in Nodes, Owns(u, m, E)'
                  PROVE  Owns(u, m, D) /\ m # n
      OBVIOUS
    <2>1. CASE u = t BY <2>1
    <2>2. CASE u # t
      <3>1. Owns(u, m, D) BY <2>2 DEF Owns, Others
      <3>. QED BY <1>4, <2>2, <3>1
    <2>. QED BY <2>1, <2>2
  <1>8. Apart(L, E)'
    BY <1>1, <1>3, <1>4, <1>7 DEF Apart
  <1>9. ASSUME NEW u \in Pushers PROVE PushOk(L, r, e, u)'
    <2>1. PushOk(L, r, e, u) /\ u # t BY <1>2
    <2>2. pc'[u] = pc[u] /\ node'[u] = node[u] /\ reg'[u] = reg[u] /\ h0'[u] = h0[u] /\ item'[u] = item[u]
      BY <2>1, Kinds DEF Others
    <2>. QED BY <1>1, <2>1, <2>2 DEF PushOk
  <1>10. ASSUME NEW u \in Poppers PROVE PopOk(L, r, u)'
    <2>1. PopOk(L, r, u) /\ (pc[u] = "read" => h1[u] \notin Swept) BY <1>2
    <2>2. CASE u = t BY <2>2 DEF PopOk
    <2>3. CASE u # t
      <3>1. pc'[u] = pc[u] /\ reg'[u] = reg[u] /\ h0'[u] = h0[u] /\ h1'[u] = h1[u]
        BY <2>3, Kinds DEF Others
      <3>. QED BY <1>3, <2>1, <3>1 DEF PopOk
    <2>. QED BY <2>2, <2>3
  <1>11. ASSUME NEW u \in Clearers PROVE ClearOk(E, u)'
    <2>1. CASE u = t BY <2>1
    <2>2. CASE u # t
      <3>1. pc'[u] = pc[u] /\ reg'[u] = reg[u] /\ node'[u] = node[u] /\ E[u] = D[u]
        BY <2>2, Kinds DEF Others
      <3>. QED BY <1>1, <3>1 DEF ClearOk
    <2>. QED BY <2>1, <2>2
  <1>12. PairOk'
    <2>. SUFFICES ASSUME OneEach
                  PROVE  /\ \A u \in Pushers : PairPush(u)'
                         /\ \A u \in Poppers : PairPop(u)'
                         /\ PairEnd'
      BY DEF PairOk, OneEach
    <2>1. \A u \in Pushers : PairPush(u)'
      BY <1>1, Kinds DEF PairOk, PairPush, Others
    <2>2. ASSUME NEW u \in Poppers PROVE PairPop(u)'
      <3>1. PairPop(u) BY <1>1 DEF PairOk
      <3>2. CASE u = t BY <3>2 DEF PairPop
      <3>3. CASE u # t BY <3>1, <3>3, Kinds DEF PairPop, Others
      <3>. QED BY <3>2, <3>3
    <2>3. PairEnd' BY <1>1, Kinds DEF PairOk, PairEnd, Others
    <2>. QED BY <2>1, <2>2, <2>3
  <1>. QED BY <1>6, <1>8, <1>9, <1>10, <1>11, <1>12 DEF Lists

\* A pop retires the node that _begin pointed to.
LEMMA PopRetireMoves ==
    ASSUME IInv, NeverSwept \/ OneEach, NEW L \in [Nat -> Nodes], NEW s \in Nat, NEW e \in Nat,
           NEW D, NEW t \in Poppers, PopRetire(t), Lists(L, s, e, D)
    PROVE  \E r \in Nat : Lists(L, r, e, D)'
  <1>. USE DEF Goto, At, listVars, nodeVars, poolVars, callVars, histVars
  <1>1. /\ t \in Threads /\ Others(t) /\ TypeOK /\ LocalsOk
        /\ t \notin Pushers /\ t \notin Clearers
    BY Kinds, OthersKept DEF IInv, PopStep
  <1>2. pc[t] = "retire" /\ pc'[t] = "count" /\ h0[t] \in Nodes /\ Retire(h0[t])
    BY <1>1 DEF PopRetire, TypeOK, LocalsOk
  <1>3. Owns(t, h0[t], D) BY <1>2 DEF Owns
  <1>4. \A m \in Nodes : ~ Owns(t, m, D)' BY <1>1, <1>2 DEF Owns
  <1>5. UNCHANGED <<listVars, nodeVars, histVars>> BY DEF PopRetire
  <1>6. PICK n \in Nodes : n = h0[t] BY <1>2
  <1>7. Retire(n) /\ Owns(t, n, D) BY <1>2, <1>3, <1>6
  <1>. QED BY <1>1, <1>2, <1>4, <1>5, <1>7, RetireMoves

\* A clear retires the first node of what is left of the old list.
LEMMA ClearRetireMoves ==
    ASSUME IInv, NeverSwept \/ OneEach, NEW L \in [Nat -> Nodes], NEW s \in Nat, NEW e \in Nat,
           NEW D \in [Clearers -> SUBSET Nodes], NEW t \in Clearers, ClearRetire(t),
           Lists(L, s, e, D)
    PROVE  \E r \in Nat, E \in [Clearers -> SUBSET Nodes] : Lists(L, r, e, E)'
  <1>. USE DEF Goto, At, listVars, nodeVars, poolVars, callVars, histVars
  <1>1. /\ t \in Threads /\ Others(t) /\ TypeOK /\ LocalsOk
        /\ t \notin Pushers /\ t \notin Poppers
    BY Kinds, OthersKept DEF IInv, ClearStep
  <1>2. /\ pc[t] = "dispose" /\ reg[t] \in Nodes /\ Retire(reg[t])
        /\ reg'[t] = next[reg[t]] /\ UNCHANGED <<listVars, nodeVars, histVars>>
        /\ pc'[t] = IF next[reg[t]] = Null THEN "return" ELSE "dispose"
    BY <1>1 DEF ClearRetire, TypeOK, LocalsOk
  <1>3. PICK n \in Nodes : n = reg[t] BY <1>2
  <1>4. /\ n \in D[t] /\ Retire(n)
        /\ \A m \in D[t] : next[m] \in D[t] \cup {Null} /\ next[m] # n
        /\ \A k, m \in D[t] : next[k] = next[m] /\ next[k] # Null => k = m
    BY <1>2, <1>3 DEF Lists, ClearOk
  <1>5. PICK E \in [Clearers -> SUBSET Nodes] :
            E[t] = D[t] \ {n} /\ \A u \in Clearers \ {t} : E[u] = D[u]
    <2>1. /\ [D EXCEPT ![t] = D[t] \ {n}] \in [Clearers -> SUBSET Nodes]
          /\ [D EXCEPT ![t] = D[t] \ {n}][t] = D[t] \ {n}
          /\ \A u \in Clearers \ {t} : [D EXCEPT ![t] = D[t] \ {n}][u] = D[u]
      OBVIOUS
    <2>. QED BY <2>1
  <1>6. Owns(t, n, D) BY <1>2, <1>4 DEF Owns
  <1>7. \A m \in Nodes : Owns(t, m, E)' => Owns(t, m, D) /\ m # n
    BY <1>1, <1>2, <1>5 DEF Owns
  <1>8. ClearOk(E, t)' BY <1>2, <1>3, <1>4, <1>5 DEF ClearOk
  <1>9. \E r \in Nat : Lists(L, r, e, E)'
    <2>1. t \in Clearers => ClearOk(E, t)' BY <1>8
    <2>2. \A u \in Clearers \ {t} : E[u] = D[u] BY <1>5
    <2>3. t \in Poppers => pc'[t] = "count" BY <1>1
    <2>. HIDE DEF Goto, At, listVars, nodeVars, poolVars, callVars, histVars
    <2>4. UNCHANGED <<listVars, nodeVars, histVars>> BY <1>2
    <2>. QED BY <1>1, <1>4, <1>6, <1>7, <2>1, <2>2, <2>3, <2>4, RetireMoves
  <1>. QED BY <1>9

\* A clear replaces the list by one of its own dummy, and has the old one to itself.
LEMMA ExchangeMoves ==
    ASSUME IInv, NEW L \in [Nat -> Nodes], NEW s \in Nat, NEW e \in Nat,
           NEW D \in [Clearers -> SUBSET Nodes], NEW t \in Clearers, ClearExchange(t),
           Lists(L, s, e, D)
    PROVE  \E M \in [Nat -> Nodes], p \in Nat, E \in [Clearers -> SUBSET Nodes] :
              Lists(M, p, p, E)'
  <1>. USE DEF Goto, At, listVars, nodeVars, poolVars, callVars, histVars, Preparing
  <1>1. /\ t \in Threads /\ Others(t) /\ TypeOK /\ LocalsOk
        /\ t \notin Pushers /\ t \notin Poppers
    BY Kinds, OthersKept DEF IInv, ClearStep
  <1>2. /\ pc[t] = "exchange" /\ pc'[t] = "dispose" /\ reg'[t] = begin
        /\ node[t] \in Nodes /\ node' = node /\ begin' = node[t] /\ end' = node[t]
        /\ taken' = Pushed /\ UNCHANGED <<nodeVars, poolVars, history>> /\ Pushed' = Pushed
    BY <1>1 DEF ClearExchange, TypeOK, LocalsOk, Pushed
  <1>3. /\ \A u \in Pushers : pc'[u] \in {"idle", "end", "return"}
        /\ \A u \in Poppers : pc'[u] \in {"idle", "begin", "return"}
        /\ \A u \in Pushers \cup Poppers : u # t /\ u \in Threads /\ pc'[u] = pc[u]
    <2>1. \A u \in Threads \ {t} :
              /\ pc[u] \in {"idle", "end", "begin", "exchange", "dispose", "return"}
              /\ pc'[u] = pc[u]
      BY <1>1 DEF ClearExchange, NoOtherCall, UsesList, Others
    <2>. QED BY <1>1, <2>1, Kinds DEF LocalsOk, PushLabels, PopLabels
  <1>4. /\ ListOk(L, s, e) /\ Apart(L, D) /\ \A u \in Clearers : ClearOk(D, u)
        /\ taken \in Nat /\ Pushed \in Nat /\ s <= taken /\ taken <= Pushed
        /\ begin = L[taken] /\ next[L[Pushed]] = Null
    <2>1. taken \in Nat /\ Pushed \in Nat BY <1>1 DEF TypeOK, Pushed
    <2>2. ListOk(L, s, e) /\ Apart(L, D) /\ \A u \in Clearers : ClearOk(D, u) BY DEF Lists
    <2>. QED BY <2>1, <2>2 DEF ListOk
  <1>5. PICK p \in Nat, b \in Nat, n \in Nodes : p = Pushed /\ b = taken /\ n = node[t]
    BY <1>2, <1>4
  <1>6. PICK M \in [Nat -> Nodes] : M[p] = n
    <2>1. [L EXCEPT ![p] = n] \in [Nat -> Nodes] /\ [L EXCEPT ![p] = n][p] = n
      OBVIOUS
    <2>. QED BY <2>1
  <1>7. PICK E \in [Clearers -> SUBSET Nodes] :
            E[t] = {L[i] : i \in b..p} /\ \A u \in Clearers \ {t} : E[u] = D[u]
    <2>1. PICK S \in SUBSET Nodes : S = {L[i] : i \in b..p}
      <3>1. \A i \in b..p : i \in Nat /\ L[i] \in Nodes OBVIOUS
      <3>2. {L[i] : i \in b..p} \subseteq Nodes BY <3>1
      <3>. QED BY <3>2
    <2>2. /\ [D EXCEPT ![t] = S] \in [Clearers -> SUBSET Nodes]
          /\ [D EXCEPT ![t] = S][t] = S
          /\ \A u \in Clearers \ {t} : [D EXCEPT ![t] = S][u] = D[u]
      OBVIOUS
    <2>. QED BY <2>1, <2>2
  <1>8. /\ Owns(t, n, D) /\ n \notin free \cup retired
        /\ \A u \in Threads : Owns(u, n, D) => u = t
        /\ \A i \in b..p : n # L[i]
        /\ next[n] = Null
    <2>1. Owns(t, n, D) BY <1>2, <1>5 DEF Owns
    <2>2. ClearOk(D, t) BY <1>4
    <2>. QED BY <1>1, <1>2, <1>4, <1>5, <2>1, <2>2 DEF Apart, ClearOk
  <1>9. /\ \A i \in b..p : i \in s..p /\ L[i] \in Nodes /\ L[i] \notin free \cup retired
        /\ \A i, j \in b..p : L[i] = L[j] => i = j
        /\ \A i \in b..(p - 1) : i + 1 \in b..p /\ next[L[i]] = L[i + 1]
        /\ b \in b..p /\ next[L[p]] = Null
    <2>1. \A i \in b..p : i \in s..p /\ i \in s..Pushed /\ i \in taken..Pushed BY <1>4, <1>5
    <2>2. \A i \in b..(p - 1) : i \in s..(Pushed - 1) /\ i + 1 \in b..p BY <1>4, <1>5
    <2>. QED BY <1>4, <1>5, <2>1, <2>2 DEF ListOk, Apart
  <1>10. ListOk(M, p, p)'
    <2>1. \A i \in p..p : i = p OBVIOUS
    <2>2. p..(p - 1) = {} /\ (p + 1)..p = {} OBVIOUS
    <2>. QED BY <1>2, <1>5, <1>6, <1>8, <2>1, <2>2 DEF ListOk
  <1>11. \A u \in Threads, m \in Nodes :
            u # t => (Owns(u, m, E)' <=> Owns(u, m, D))
    BY <1>1, <1>7 DEF Owns, Others
  <1>12. \A m \in Nodes : Owns(t, m, E)' => \E i \in b..p : m = L[i]
    BY <1>1, <1>2, <1>7 DEF Owns
  <1>13. \A u \in Threads, i \in b..p : ~ Owns(u, L[i], D)
    <2>1. \A i \in b..p : i \in taken..Pushed /\ L[i] \in Nodes BY <1>5, <1>9
    <2>. QED BY <1>4, <2>1 DEF Apart
  <1>14. Apart(M, E)'
    <2>1. free' \cap retired' = {} BY <1>2, <1>4 DEF Apart
    <2>2. \A i \in taken'..Pushed' : i = p BY <1>2, <1>5
    <2>3. ASSUME NEW u \in Threads, NEW m \in Nodes, Owns(u, m, E)'
          PROVE  m \notin free \cup retired /\ m # n /\ \A v \in Threads : Owns(v, m, E)' => v = u
      <3>1. CASE u = t
        <4>1. PICK i \in b..p : m = L[i] BY <1>12, <2>3, <3>1
        <4>. QED BY <1>8, <1>9, <1>11, <1>13, <3>1, <4>1
      <3>2. CASE u # t
        <4>1. Owns(u, m, D) BY <1>11, <2>3, <3>2
        <4>2. ~ Owns(t, m, E)' BY <1>12, <1>13, <4>1
        <4>. QED BY <1>4, <1>8, <1>11, <3>2, <4>1, <4>2 DEF Apart
      <3>. QED BY <3>1, <3>2
    <2>. QED BY <1>2, <1>6, <1>8, <2>1, <2>2, <2>3 DEF Apart
  <1>15. ASSUME NEW u \in Clearers PROVE ClearOk(E, u)'
    <2>1. CASE u = t
      <3>1. reg'[t] = L[b] /\ L[b] \in E[t] BY <1>2, <1>4, <1>5, <1>7, <1>9
      <3>2. ASSUME NEW m \in E[t] PROVE next[m] \in E[t] \cup {Null} /\ next[m] # L[b]
        <4>1. PICK i \in b..p : m = L[i] BY <1>7
        <4>2. CASE i = p BY <1>9, <4>1, <4>2, ConstantsOk
        <4>3. CASE i # p
          <5>1. i \in b..(p - 1) /\ i + 1 # b BY <4>3
          <5>2. next[m] = L[i + 1] /\ i + 1 \in b..p BY <1>9, <4>1, <5>1
          <5>. QED BY <1>7, <1>9, <5>1, <5>2
        <4>. QED BY <4>2, <4>3
      <3>3. ASSUME NEW m \in E[t], NEW k \in E[t], next[m] = next[k], next[m] # Null
            PROVE  m = k
        <4>1. PICK i \in b..p : m = L[i] BY <1>7
        <4>2. PICK j \in b..p : k = L[j] BY <1>7
        <4>3. i # p /\ j # p BY <1>9, <3>3, <4>1, <4>2
        <4>4. i \in b..(p - 1) /\ j \in b..(p - 1) BY <4>3
        <4>5. L[i + 1] = L[j + 1] BY <1>9, <3>3, <4>1, <4>2, <4>4
        <4>6. i + 1 = j + 1 BY <1>9, <4>4, <4>5
        <4>. QED BY <4>1, <4>2, <4>6
      <3>. QED BY <1>2, <2>1, <3>1, <3>2, <3>3 DEF ClearOk
    <2>2. CASE u # t
      <3>1. pc'[u] = pc[u] /\ reg'[u] = reg[u] /\ node'[u] = node[u] /\ E[u] = D[u]
        BY <1>1, <1>7, <2>2, Kinds DEF Others
      <3>. QED BY <1>2, <1>4, <3>1 DEF ClearOk
    <2>. QED BY <2>1, <2>2
  <1>16. PairOk'
    BY <1>2, <1>3, <1>5, <1>8 DEF PairOk, OneEach, PairPush, PairPop, PairEnd
  <1>17. /\ \A u \in Pushers : PushOk(M, p, p, u)'
         /\ \A u \in Poppers : PopOk(M, p, u)'
    <2>1. ASSUME NEW u \in Pushers PROVE PushOk(M, p, p, u)'
      <3>1. CASE pc[u] \in Preparing
        <4>1. /\ pc'[u] = "end" /\ pc[u] = "end" /\ u # t /\ u \in Threads
              /\ node'[u] = node[u] /\ item'[u] = item[u] /\ node[u] \in Nodes
          BY <1>1, <1>3, <2>1, <3>1 DEF LocalsOk, Others
        <4>2. next[node[u]] = Null /\ data[node[u]] = item[u]
          BY <2>1, <3>1 DEF Lists, PushOk
        <4>3. node[u] # n BY <1>8, <2>1, <3>1, <4>1 DEF Owns
        <4>4. \A i \in p..p : M[i] = n BY <1>6
        <4>. QED BY <1>2, <1>5, <4>1, <4>2, <4>3, <4>4 DEF PushOk
      <3>2. CASE pc[u] \notin Preparing
        BY <1>3, <2>1, <3>2 DEF PushOk
      <3>. QED BY <3>1, <3>2
    <2>2. ASSUME NEW u \in Poppers PROVE PopOk(M, p, u)'
      BY <1>3, <2>2 DEF PopOk
    <2>. QED BY <2>1, <2>2
  <1>. QED BY <1>10, <1>14, <1>15, <1>16, <1>17 DEF Lists

\* A clear that has retired the old list returns; one under another call goes no further.
LEMMA ClearReturns ==
    ASSUME IInv, NEW L, NEW s, NEW e, NEW D, NEW t \in Clearers, Return(t) \/ ClearInUse(t),
           Lists(L, s, e, D)
    PROVE  Lists(L, s, e, D)'
  <1>. USE DEF Goto, At, listVars, nodeVars, poolVars, callVars, histVars
  <1>1. /\ t \in Threads /\ Others(t) /\ t \notin Pushers /\ t \notin Poppers
        /\ UNCHANGED <<listVars, nodeVars, poolVars, histVars>>
        /\ pc'[t] \in {"idle", "undefined"}
    BY Kinds, OthersKept, InUseIs DEF IInv, TypeOK, ClearStep, Return
  <1>2. \A n \in Nodes : ~ Owns(t, n, D)' BY <1>1 DEF Owns
  <1>3. ClearOk(D, t)' BY <1>1 DEF ClearOk
  <1>. QED BY <1>1, <1>2, <1>3, Quiet

\* A step of none of the variables.
LEMMA ShapeStutter ==
    ASSUME Shape, UNCHANGED vars
    PROVE  Shape'
  <1>. USE DEF vars, listVars, nodeVars, poolVars, callVars, histVars
  <1>1. PICK L \in [Nat -> Nodes], s \in Nat, e \in Nat, D \in [Clearers -> SUBSET Nodes] :
            Lists(L, s, e, D)
    BY DEF Shape
  <1>2. ListOk(L, s, e)' /\ PairOk'
    BY <1>1 DEF Lists, ListOk, PairOk, PairPush, PairPop, PairEnd, OneEach, Pushed, At
  <1>3. Apart(L, D)' BY <1>1 DEF Lists, Apart, Owns, Pushed, At
  <1>4. /\ \A t \in Pushers : PushOk(L, s, e, t)'
        /\ \A t \in Poppers : PopOk(L, s, t)'
        /\ \A t \in Clearers : ClearOk(D, t)'
    BY <1>1 DEF Lists, PushOk, PopOk, ClearOk, Pushed, At
  <1>5. Lists(L, s, e, D)' BY <1>2, <1>3, <1>4 DEF Lists
  <1>. QED BY <1>5 DEF Shape

\* The constructor makes a list of one dummy.
LEMMA ShapeInit ==
    ASSUME Init
    PROVE  Shape
  <1>1. PICK d \in Nodes : begin = d /\ end = d /\ free = Nodes \ {d} BY DEF Init
  <1>2. PICK L \in [Nat -> Nodes] : L = [i \in Nat |-> d] OBVIOUS
  <1>3. PICK D \in [Clearers -> SUBSET Nodes] : D = [t \in Clearers |-> {}] OBVIOUS
  <1>4. /\ Pushed = 0 /\ taken = 0 /\ retired = {}
        /\ \A t \in Threads : pc[t] = "idle"
        /\ \A n \in Nodes : next[n] = Null
    BY DEF Init, Pushed
  <1>5. ListOk(L, 0, 0) BY <1>1, <1>2, <1>4 DEF ListOk
  <1>6. Apart(L, D)
    <2>1. \A t \in Threads, n \in Nodes : ~ Owns(t, n, D) BY <1>4 DEF Owns, At, Preparing
    <2>. QED BY <1>4, <2>1 DEF Apart
  <1>7. PairOk
    BY <1>1, <1>4, Kinds DEF PairOk, PairPush, PairPop, PairEnd, At
  <1>8. /\ \A t \in Pushers : PushOk(L, 0, 0, t)
        /\ \A t \in Poppers : PopOk(L, 0, t)
        /\ \A t \in Clearers : ClearOk(D, t)
    BY <1>4, Kinds DEF PushOk, PopOk, ClearOk, At, Preparing
  <1>9. Lists(L, 0, 0, D) BY <1>5, <1>6, <1>7, <1>8 DEF Lists
  <1>. QED BY <1>9 DEF Shape

\* Every step keeps the shape of the list.
LEMMA ShapeStep ==
    ASSUME IInv, NeverSwept \/ OneEach, Shape, Step
    PROVE  Shape'
  <1>1. PICK L \in [Nat -> Nodes], s \in Nat, e \in Nat, D \in [Clearers -> SUBSET Nodes] :
            Lists(L, s, e, D)
    BY DEF Shape
  <1>2. ASSUME NEW t \in Pushers, PushStep(t) PROVE Shape'
    <2>1. CASE PushCall(t)
      <3>1. Lists(L, s, e, D)' BY <1>1, <2>1, Kinds, NewMoves
      <3>. QED BY <3>1 DEF Shape
    <2>2. CASE PushLink(t) /\ next[h0[t]] = Null
      <3>1. \E M \in [Nat -> Nodes] : Lists(M, s, e, D)' BY <1>1, <2>2, LinkMoves
      <3>. QED BY <3>1 DEF Shape
    <2>3. CASE (PushHelp(t) \/ PushSwing(t)) /\ end = h0[t]
      <3>1. Lists(L, s, e + 1, D)' BY <1>1, <2>3, EndMoves
      <3>. QED BY <3>1 DEF Shape
    <2>4. CASE ~ PushCall(t) /\ ~ (PushLink(t) /\ next[h0[t]] = Null)
               /\ ~ ((PushHelp(t) \/ PushSwing(t)) /\ end = h0[t])
      <3>1. \/ PushLoadEnd(t) \/ PushPublish(t) \/ PushReadNext(t) \/ PushCheck(t) \/ PushCount(t)
            \/ Return(t) \/ (PushLink(t) /\ next[h0[t]] # Null)
            \/ ((PushHelp(t) \/ PushSwing(t)) /\ end # h0[t])
        BY <1>2, <2>4 DEF PushStep
      <3>2. Lists(L, s, e, D)' BY <1>1, <1>2, <3>1, PushQuiet
      <3>. QED BY <3>2 DEF Shape
    <2>. QED BY <2>1, <2>2, <2>3, <2>4
  <1>3. ASSUME NEW t \in Poppers, PopStep(t) PROVE Shape'
    <2>1. CASE PopRetire(t)
      <3>1. \E r \in Nat : Lists(L, r, e, D)' BY <1>1, <2>1, PopRetireMoves
      <3>. QED BY <3>1 DEF Shape
    <2>2. CASE PopUnlink(t) /\ begin = h0[t]
      <3>1. Lists(L, s, e, D)' BY <1>1, <2>2, UnlinkMoves
      <3>. QED BY <3>1 DEF Shape
    <2>3. CASE ~ PopRetire(t) /\ ~ (PopUnlink(t) /\ begin = h0[t])
      <3>1. Lists(L, s, e, D)' BY <1>1, <1>3, <2>3, PopQuiet
      <3>. QED BY <3>1 DEF Shape
    <2>. QED BY <2>1, <2>2, <2>3
  <1>4. ASSUME NEW t \in Clearers, ClearStep(t) PROVE Shape'
    <2>1. CASE ClearCall(t)
      <3>1. Lists(L, s, e, D)' BY <1>1, <2>1, Kinds, NewMoves
      <3>. QED BY <3>1 DEF Shape
    <2>2. CASE ClearExchange(t)
      <3>1. \E M \in [Nat -> Nodes], p \in Nat, E \in [Clearers -> SUBSET Nodes] :
                Lists(M, p, p, E)'
        BY <1>1, <2>2, ExchangeMoves
      <3>. QED BY <3>1 DEF Shape
    <2>3. CASE ClearRetire(t)
      <3>1. \E r \in Nat, E \in [Clearers -> SUBSET Nodes] : Lists(L, r, e, E)'
        BY <1>1, <2>3, ClearRetireMoves
      <3>. QED BY <3>1 DEF Shape
    <2>4. CASE Return(t) \/ ClearInUse(t)
      <3>1. Lists(L, s, e, D)' BY <1>1, <2>4, ClearReturns
      <3>. QED BY <3>1 DEF Shape
    <2>. QED BY <1>4, <2>1, <2>2, <2>3, <2>4 DEF ClearStep
  <1>. QED BY <1>2, <1>3, <1>4, StepCases

\* The nodes from the first to the last, each linked to the next, hold the elements
\* pushed and not popped in order; they are neither freed nor retired nor a thread's.
THEOREM ListShape ==
    ASSUME NeverSwept \/ OneEach
    PROVE  Spec => []Shape
  <1>1. Init => IInv /\ Shape BY InitIInv, ShapeInit
  <1>2. IInv /\ Shape /\ [Next]_vars => Shape'
    <2>. SUFFICES ASSUME IInv, Shape, [Next]_vars PROVE Shape'
      OBVIOUS
    <2>1. CASE Step BY <2>1, ShapeStep
    <2>2. CASE UNCHANGED vars BY <2>2, ShapeStutter
    <2>. QED BY <2>1, <2>2, NextCases
  <1>. QED BY <1>1, <1>2, Invariance, PTL DEF Spec

\* The nodes the ends point to are in the list, and the elements taken were pushed.
LEMMA ShapeEnds ==
    ASSUME IInv, Shape
    PROVE  /\ begin \notin free /\ end \notin free
           /\ taken \in Nat /\ Pushed \in Nat /\ taken <= Pushed
  <1>1. PICK L \in [Nat -> Nodes], s \in Nat, e \in Nat, D \in [Clearers -> SUBSET Nodes] :
            Lists(L, s, e, D)
    BY DEF Shape
  <1>2. taken \in Nat /\ Pushed \in Nat BY DEF IInv, TypeOK, Pushed
  <1>3. ListOk(L, s, e) BY <1>1 DEF Lists
  <1>4. taken \in s..Pushed /\ e \in s..Pushed BY <1>2, <1>3 DEF ListOk
  <1>. QED BY <1>2, <1>3, <1>4 DEF ListOk

\* The nodes _begin and _end point to are never among the free ones, although a pop retires
\* the node _end lags at.
THEOREM EndsKept ==
    ASSUME NeverSwept \/ OneEach
    PROVE  Spec => []EndsNotFreed
  <1>1. IInv /\ Shape => EndsNotFreed BY ShapeEnds DEF EndsNotFreed
  <1>. QED BY <1>1, Invariance, ListShape, PTL

\* The steps that move the ends.
LEMMA EndsStep ==
    ASSUME IInv, Shape, NeverSwept \/ OneEach, Step
    PROVE  \/ /\ begin' # begin => begin' = next[begin]
              /\ end' # end => end' = next[end]
           \/ \E t \in Clearers : ClearExchange(t)
  <1>. USE DEF listVars
  <1>1. PICK L \in [Nat -> Nodes], s \in Nat, e \in Nat, D \in [Clearers -> SUBSET Nodes] :
            Lists(L, s, e, D)
    BY DEF Shape
  <1>2. ASSUME NEW t \in Pushers, PushStep(t)
        PROVE  begin' = begin /\ (end' # end => end' = next[end])
    <2>1. CASE (PushHelp(t) \/ PushSwing(t)) /\ end = h0[t]
      <3>1. end' = next[end] BY <1>1, <2>1, EndMoves
      <3>. QED BY <2>1, <3>1 DEF PushHelp, PushSwing
    <2>2. CASE (PushHelp(t) \/ PushSwing(t)) /\ end # h0[t]
      BY <2>2 DEF PushHelp, PushSwing, SwingEnd
    <2>3. CASE ~ (PushHelp(t) \/ PushSwing(t))
      BY <1>2, <2>3 DEF PushStep, PushCall, PushLoadEnd, PushPublish, PushReadNext, PushCheck,
         PushLink, PushCount, Return
    <2>. QED BY <2>1, <2>2, <2>3
  <1>3. ASSUME NEW t \in Poppers, PopStep(t)
        PROVE  end' = end /\ (begin' # begin => begin' = next[begin])
    <2>1. CASE PopUnlink(t) /\ begin = h0[t]
      <3>1. begin' = next[begin] BY <1>1, <2>1, UnlinkMoves
      <3>. QED BY <2>1, <3>1 DEF PopUnlink
    <2>2. CASE PopUnlink(t) /\ begin # h0[t] BY <2>2 DEF PopUnlink
    <2>3. CASE ~ PopUnlink(t)
      BY <1>3, <2>3 DEF PopStep, PopCall, PopLoadBegin, PopPublish0, PopReadNext, PopPublish1,
         PopCheck, PopRefresh, PopRead, PopRetire, PopCount, Return
    <2>. QED BY <2>1, <2>2, <2>3
  <1>4. ASSUME NEW t \in Clearers, ClearStep(t), ~ ClearExchange(t)
        PROVE  begin' = begin /\ end' = end
    BY <1>4 DEF ClearStep, ClearCall, ClearInUse, ClearRetire, Return
  <1>. QED BY <1>2, <1>3, <1>4, StepCases

\* A compare_exchange that succeeds moves an end to the successor of its node; nothing but
\* a clear moves an end otherwise.
THEOREM EndsFollow ==
    ASSUME NeverSwept \/ OneEach
    PROVE  Spec => EndsAdvance
  <1>1. IInv /\ Shape /\ [Next]_vars =>
            [ \/ /\ begin' # begin => begin' = next[begin]
                 /\ end' # end => end' = next[end]
              \/ \E t \in Clearers : ClearExchange(t) ]_vars
    BY EndsStep, NextCases
  <1>. QED BY <1>1, Invariance, ListShape, PTL DEF Spec, EndsAdvance

-----------------------------------------------------------------------------
(* What false means *)

\* Elements are only added to the list, and taken from it.
LEMMA Grows ==
    ASSUME IInv, Shape, Step
    PROVE  Pushed' \in Nat /\ Pushed' >= Pushed /\ taken' \in Nat /\ taken' >= taken
  <1>. USE DEF histVars
  <1>1. taken \in Nat /\ Pushed \in Nat /\ taken <= Pushed BY ShapeEnds
  <1>2. ASSUME NEW t \in Pushers, PushStep(t)
        PROVE  taken' = taken /\ (Pushed' = Pushed \/ Pushed' = Pushed + 1)
    <2>1. CASE PushLink(t)
      <3>1. history' = history \/ history' = Append(history, item[t]) BY <2>1 DEF PushLink
      <3>2. t \in Threads /\ history \in Seq(Values) /\ item[t] \in Values \cup {Null}
        BY Kinds DEF IInv, TypeOK
      <3>3. Len(history') = Len(history) \/ Len(history') = Len(history) + 1 BY <3>1, <3>2
      <3>. QED BY <2>1, <3>3 DEF PushLink, Pushed
    <2>2. CASE ~ PushLink(t)
      BY <1>2, <2>2 DEF PushStep, PushCall, PushLoadEnd, PushPublish, PushReadNext, PushHelp,
         PushSwing, PushCheck, PushCount, Return, Pushed
    <2>. QED BY <2>1, <2>2
  <1>3. ASSUME NEW t \in Poppers, PopStep(t)
        PROVE  Pushed' = Pushed /\ (taken' = taken \/ taken' = taken + 1)
    BY <1>3 DEF PopStep, PopCall, PopLoadBegin, PopPublish0, PopReadNext, PopPublish1,
       PopCheck, PopRefresh, PopUnlink, PopRead, PopRetire, PopCount, Return, Pushed
  <1>4. ASSUME NEW t \in Clearers, ClearStep(t)
        PROVE  Pushed' = Pushed /\ (taken' = taken \/ taken' = Pushed)
    BY <1>4 DEF ClearStep, ClearCall, ClearExchange, ClearInUse, ClearRetire, Return, Pushed
  <1>. QED BY <1>1, <1>2, <1>3, <1>4, StepCases

\* A pop that read a null next, or returns without an element, found what was pushed
\* before its call taken.
Told(t) ==
    /\ before[t] <= Pushed
    /\ At(t, "publish1") /\ reg[t] = Null => before[t] <= taken
    /\ pc[t] \in {"retire", "count"} => item[t] # Null
    /\ At(t, "return") /\ item[t] = Null => before[t] <= taken

\* A pop that reads a null next has reached the last node.
LEMMA ReadLast ==
    ASSUME IInv, Shape, NEW t \in Poppers, PopReadNext(t), next[h0[t]] = Null
    PROVE  taken = Pushed
  <1>1. PICK L \in [Nat -> Nodes], s \in Nat, e \in Nat, D \in [Clearers -> SUBSET Nodes] :
            Lists(L, s, e, D)
    BY DEF Shape
  <1>2. taken \in Nat /\ Pushed \in Nat BY DEF IInv, TypeOK, Pushed
  <1>3. ListOk(L, s, e) /\ PopOk(L, s, t) BY <1>1 DEF Lists
  <1>4. PICK i \in s..taken : h0[t] = L[i] BY <1>3 DEF PopReadNext, PopOk, At
  <1>5. i \in s..(Pushed - 1) => next[L[i]] = L[i + 1] /\ L[i + 1] \in Nodes
    BY <1>2, <1>3 DEF ListOk
  <1>6. ~ (i \in s..(Pushed - 1)) BY <1>4, <1>5, ConstantsOk
  <1>. QED BY <1>2, <1>3, <1>4, <1>6 DEF ListOk

\* A step of a pop keeps it.
LEMMA ToldPop ==
    ASSUME IInv, Shape, NEW t \in Poppers, Told(t), PopStep(t)
    PROVE  Told(t)'
  <1>. USE DEF At, Goto, histVars, callVars
  <1>1. /\ t \in Threads /\ TypeOK /\ LocalsOk /\ before[t] \in Nat /\ Step
        /\ item[t] \in Values \cup {Null}
    BY Kinds DEF IInv, TypeOK, Step
  <1>2. /\ Pushed \in Nat /\ taken \in Nat /\ taken <= Pushed
        /\ Pushed' \in Nat /\ Pushed' >= Pushed /\ taken' \in Nat /\ taken' >= taken
    BY <1>1, ShapeEnds, Grows
  <1>3. CASE PopCall(t)
    <2>1. before'[t] = Pushed /\ pc'[t] = "begin" BY <1>1, <1>3 DEF PopCall, TypeOK
    <2>. QED BY <1>2, <2>1 DEF Told
  <1>4. CASE Return(t)
    <2>1. before'[t] = 0 /\ pc'[t] = "idle" BY <1>1, <1>4 DEF Return, TypeOK
    <2>. QED BY <1>2, <2>1 DEF Told
  <1>5. CASE PopReadNext(t)
    <2>1. before' = before /\ pc'[t] = "publish1" /\ reg'[t] = next[h0[t]] /\ taken' = taken
      BY <1>1, <1>5 DEF PopReadNext, TypeOK
    <2>2. next[h0[t]] = Null => taken = Pushed BY <1>5, ReadLast
    <2>. QED BY <1>1, <1>2, <2>1, <2>2 DEF Told
  <1>6. CASE PopPublish1(t)
    <2>1. /\ pc[t] = "publish1" /\ before' = before /\ item' = item
          /\ pc'[t] = IF reg[t] = Null THEN "return" ELSE "check"
      BY <1>1, <1>6 DEF PopPublish1, TypeOK
    <2>. QED BY <1>1, <1>2, <2>1 DEF Told
  <1>7. CASE PopRead(t)
    <2>1. pc[t] = "read" /\ pc'[t] = "retire" /\ before' = before /\ item'[t] = data[h1[t]]
      BY <1>1, <1>7 DEF PopRead, TypeOK
    <2>2. data[h1[t]] \in Values BY <2>1 DEF Shape, Lists, PopOk
    <2>. QED BY <1>1, <1>2, <2>1, <2>2, ConstantsOk DEF Told
  <1>8. CASE PopRetire(t) \/ PopCount(t)
    <2>1. /\ pc[t] \in {"retire", "count"} /\ pc'[t] \in {"count", "return"}
          /\ before' = before /\ item' = item
      BY <1>1, <1>8 DEF PopRetire, PopCount, TypeOK
    <2>. QED BY <1>1, <1>2, <2>1 DEF Told
  <1>9. CASE PopLoadBegin(t) \/ PopPublish0(t) \/ PopCheck(t) \/ PopRefresh(t) \/ PopUnlink(t)
    <2>1. /\ pc'[t] \in {"publish0", "next", "unlink", "refresh", "begin", "read"}
          /\ before' = before
      BY <1>1, <1>9 DEF PopLoadBegin, PopPublish0, PopCheck, PopRefresh, PopUnlink, TypeOK
    <2>. QED BY <1>1, <1>2, <2>1 DEF Told
  <1>. QED BY <1>3, <1>4, <1>5, <1>6, <1>7, <1>8, <1>9 DEF PopStep

\* A step of another call too.
LEMMA ToldOther ==
    ASSUME IInv, Shape, Step, NEW u \in Poppers, Told(u),
           before'[u] = before[u], pc'[u] = pc[u], reg'[u] = reg[u], item'[u] = item[u]
    PROVE  Told(u)'
  <1>1. before[u] \in Nat /\ Pushed \in Nat /\ taken \in Nat
    BY Kinds, ShapeEnds DEF IInv, TypeOK
  <1>. QED BY <1>1, Grows DEF Told, At

\* A pop that returns false has found every element pushed before its call taken.
THEOREM FalseIsEmpty ==
    ASSUME NeverSwept \/ OneEach
    PROVE  Spec => []FalseMeansEmpty
  <1>. DEFINE TInv == \A t \in Poppers : Told(t)
  <1>1. Init => TInv
    BY Kinds DEF Init, Told, At, Pushed
  <1>2. IInv /\ Shape /\ TInv /\ [Next]_vars => TInv'
    <2>. SUFFICES ASSUME IInv, Shape, TInv, [Next]_vars, NEW u \in Poppers PROVE Told(u)'
      OBVIOUS
    <2>1. CASE UNCHANGED vars
      BY <2>1 DEF vars, callVars, histVars, Told, At, Pushed
    <2>2. CASE Step
      <3>1. ASSUME NEW t \in Threads,
                   \/ t \in Pushers /\ PushStep(t)
                   \/ t \in Poppers /\ PopStep(t)
                   \/ t \in Clearers /\ ClearStep(t)
            PROVE  Told(u)'
        <4>1. CASE u = t BY <3>1, <4>1, Kinds, ToldPop
        <4>2. CASE u # t
          <5>1. Others(t) BY <3>1, OthersKept
          <5>2. /\ before'[u] = before[u] /\ pc'[u] = pc[u] /\ reg'[u] = reg[u]
                /\ item'[u] = item[u]
            BY <4>2, <5>1, Kinds DEF Others
          <5>. QED BY <2>2, <5>2, ToldOther
        <4>. QED BY <4>1, <4>2
      <3>. QED BY <2>2, <3>1, StepCases, Kinds
    <2>. QED BY <2>1, <2>2, NextCases
  <1>3. IInv /\ Shape /\ TInv => FalseMeansEmpty
    <2>. SUFFICES ASSUME IInv, Shape, TInv, NEW t \in Poppers, At(t, "return"), item[t] = Null
                  PROVE  taken >= before[t]
      BY DEF FalseMeansEmpty
    <2>1. before[t] \in Nat /\ taken \in Nat BY Kinds, ShapeEnds DEF IInv, TypeOK
    <2>. QED BY <2>1 DEF Told
  <1>. HIDE DEF TInv
  <1>. QED BY <1>1, <1>2, <1>3, Invariance, ListShape, PTL DEF Spec
-----------------------------------------------------------------------------
(* The queue it implements *)

Queue == SubSeq(history, taken + 1, Pushed)
State == [t \in Threads |-> IF At(t, "idle") THEN "idle"
                            ELSE IF TookEffect(t) THEN "done" ELSE "called"]
Result == [t \in Threads |-> IF At(t, "read") THEN data[h1[t]] ELSE item[t]]

\* The variables of the queue the list stands for.
LEMMA AbstractVars ==
    /\ Abstract!vars = <<Queue, State, Result>>
    /\ Abstract!Threads = Threads
  BY DEF Abstract!vars, Abstract!Threads, Threads, Queue, State, Result

\* A step that changes none of them.
LEMMA AbstractStutter == UNCHANGED <<Queue, State, Result>> => UNCHANGED Abstract!vars
  BY DEF Abstract!vars, Queue, State, Result

\* A call starts.
LEMMA AbstractCall ==
    ASSUME NEW t \in Threads, State[t] = "idle", State' = [State EXCEPT ![t] = "called"],
           NEW v \in IF t \in Pushers THEN Values ELSE {Null},
           Result' = [Result EXCEPT ![t] = v], Queue' = Queue
    PROVE  Abstract!Next
  <1>1. Abstract!Call(t) BY DEF Abstract!Call, Queue, State, Result
  <1>. QED BY <1>1, AbstractVars DEF Abstract!Next

\* A call returns.
LEMMA AbstractReturn ==
    ASSUME NEW t \in Threads, State[t] = "done", State' = [State EXCEPT ![t] = "idle"],
           Result' = [Result EXCEPT ![t] = Null], Queue' = Queue
    PROVE  Abstract!Next
  <1>1. Abstract!Return(t) BY DEF Abstract!Return, Queue, State, Result
  <1>. QED BY <1>1, AbstractVars DEF Abstract!Next

\* A pop takes effect.
LEMMA AbstractPop ==
    ASSUME NEW t \in Poppers, State[t] = "called", State' = [State EXCEPT ![t] = "done"],
           \/ Queue = <<>> /\ Queue' = Queue /\ Result' = Result
           \/ /\ Queue # <<>>
              /\ Queue' = Tail(Queue)
              /\ Result' = [Result EXCEPT ![t] = Head(Queue)]
    PROVE  Abstract!Next
  <1>1. Abstract!Pop(t) BY DEF Abstract!Pop, Queue, State, Result
  <1>2. t \in Threads BY DEF Threads
  <1>. QED BY <1>1, <1>2, AbstractVars DEF Abstract!Next

\* A clear takes effect.
LEMMA AbstractClear ==
    ASSUME NEW t \in Clearers, State[t] = "called", State' = [State EXCEPT ![t] = "done"],
           Queue' = <<>>, Result' = Result
    PROVE  Abstract!Next
  <1>1. Abstract!Clear(t) BY DEF Abstract!Clear, Queue, State, Result
  <1>2. t \in Threads BY DEF Threads
  <1>. QED BY <1>1, <1>2, AbstractVars DEF Abstract!Next

\* A push takes effect, alone.
LEMMA AbstractPush ==
    ASSUME NEW t \in Pushers, State[t] = "called", State' = [State EXCEPT ![t] = "done"],
           Queue' = Queue \o <<Result[t]>>, Result' = Result
    PROVE  Abstract!Next
  <1>. DEFINE ts == <<t>>
  <1>1. ts \in Abstract!SetToSeqs({t})
    <2>1. Abstract!Cardinality({t}) = Cardinality({t})
      BY DEF Abstract!Cardinality, Cardinality
    <2>2. Abstract!Cardinality({t}) = 1 BY <2>1, FS_Singleton
    <2>3. Abstract!SetToSeqs({t}) =
             {f \in [1..1 -> {t}] : \A i, j \in 1..1 : i # j => f[i] # f[j]}
      BY <2>2, Zenon DEF Abstract!SetToSeqs
    <2>4. ts \in [1..1 -> {t}] OBVIOUS
    <2>5. \A i, j \in 1..1 : i = j OBVIOUS
    <2>. HIDE DEF ts
    <2>. QED BY <2>3, <2>4, <2>5
  <1>2. Abstract!ToSet(ts) = {t} /\ DOMAIN ts = {1} /\ ts[1] = t BY DEF Abstract!ToSet
  <1>3. t \in Threads BY DEF Threads
  <1>4. State' = [u \in Threads |-> IF u \in Abstract!ToSet(ts) THEN "done" ELSE State[u]]
    BY <1>2, <1>3 DEF State
  <1>5. [i \in DOMAIN ts |-> Result[ts[i]]] = <<Result[t]>> BY <1>2
  <1>. HIDE DEF ts
  <1>6. \A i \in DOMAIN ts : State[ts[i]] = "called" BY <1>2
  <1>7. Queue' = Queue \o [i \in DOMAIN ts |-> Result[ts[i]]] BY <1>5
  <1>8. Abstract!Push(ts)
    BY <1>4, <1>6, <1>7, AbstractVars DEF Abstract!Push, Queue, State, Result
  <1>9. {t} \in (SUBSET Pushers) \ {{}} OBVIOUS
  <1>. QED BY <1>1, <1>8, <1>9 DEF Abstract!Next

\* A call writes the data of free nodes only.
LEMMA DataKept ==
    ASSUME IInv, NEW t \in Threads, PushStep(t) \/ PopStep(t) \/ ClearStep(t)
    PROVE  \A n \in Nodes : n \notin free => data'[n] = data[n]
  <1>. USE DEF nodeVars, IInv, TypeOK
  <1>1. CASE PushCall(t) \/ ClearCall(t)
    <2>1. PICK n \in free, v \in Values \cup {Null} : data' = [data EXCEPT ![n] = v]
      BY <1>1 DEF PushCall, ClearCall, NewNode
    <2>. QED BY <2>1
  <1>2. CASE ~ (PushCall(t) \/ ClearCall(t))
    <2>1. data' = data
      BY <1>2 DEF PushStep, PushLoadEnd, PushPublish, PushReadNext, PushHelp, PushSwing, PushCheck,
         PushLink, PushCount, Return, PopStep, PopCall, PopLoadBegin, PopPublish0, PopReadNext,
         PopPublish1, PopCheck, PopRefresh, PopUnlink, PopRead, PopRetire, PopCount, ClearStep,
         ClearExchange, ClearInUse, ClearRetire
    <2>. QED BY <2>1
  <1>. QED BY <1>1, <1>2

\* What a step leaves of the other calls.
LEMMA Unseen ==
    ASSUME IInv, Shape, NEW t \in Threads,
           \/ t \in Pushers /\ PushStep(t)
           \/ t \in Poppers /\ PopStep(t)
           \/ t \in Clearers /\ ClearStep(t)
    PROVE  /\ State' = [State EXCEPT ![t] = State'[t]]
           /\ Result' = [Result EXCEPT ![t] = Result'[t]]
           /\ State'[t] = State[t] => State' = State
           /\ Result'[t] = Result[t] => Result' = Result
           /\ UNCHANGED <<history, taken>> => Queue' = Queue
  <1>1. Others(t) /\ \A n \in Nodes : n \notin free => data'[n] = data[n]
    BY OthersKept, DataKept
  <1>2. ASSUME NEW u \in Threads, u # t PROVE State'[u] = State[u] /\ Result'[u] = Result[u]
    <2>1. pc'[u] = pc[u] /\ item'[u] = item[u] /\ h1'[u] = h1[u] /\ reg'[u] = reg[u]
      BY <1>1, <1>2 DEF Others
    <2>2. State'[u] = State[u] BY <2>1 DEF State, At, TookEffect
    <2>3. CASE pc[u] # "read" BY <2>1, <2>2, <2>3 DEF Result, At
    <2>4. CASE pc[u] = "read"
      <3>1. u \in Poppers
        BY <2>4 DEF IInv, LocalsOk, PushLabels, ClearLabels, Threads
      <3>2. h1[u] \in Nodes /\ h1[u] \notin free
        BY <2>4, <3>1 DEF IInv, LocalsOk, Shape, Lists, PopOk, At
      <3>. QED BY <1>1, <2>1, <2>2, <2>4, <3>2 DEF Result, At
    <2>. QED BY <2>3, <2>4
  <1>3. UNCHANGED <<history, taken>> => Queue' = Queue BY DEF Queue, Pushed
  <1>. QED BY <1>2, <1>3 DEF State, Result

\* What a thread is seen to do.
LEMMA SeenIs ==
    ASSUME NEW t \in Threads
    PROVE  /\ State[t] = IF pc[t] = "idle" THEN "idle"
                         ELSE IF \/ pc[t] \in {"swing", "pcount", "read", "retire", "count",
                                               "dispose", "return"}
                                 \/ pc[t] = "publish1" /\ reg[t] = Null
                              THEN "done" ELSE "called"
           /\ Result[t] = IF pc[t] = "read" THEN data[h1[t]] ELSE item[t]
           /\ State'[t] = IF pc'[t] = "idle" THEN "idle"
                          ELSE IF \/ pc'[t] \in {"swing", "pcount", "read", "retire", "count",
                                                 "dispose", "return"}
                                  \/ pc'[t] = "publish1" /\ reg'[t] = Null
                               THEN "done" ELSE "called"
           /\ Result'[t] = IF pc'[t] = "read" THEN data'[h1'[t]] ELSE item'[t]
  BY DEF State, Result, TookEffect, At

\* The queue the list stands for, element by element.
LEMMA QueueSeq ==
    ASSUME history \in Seq(Values), taken \in Nat, taken <= Pushed
    PROVE  /\ Queue \in Seq(Values) /\ Len(Queue) = Pushed - taken
           /\ \A n \in 1..Len(Queue) : Queue[n] = history[taken + n]
  <1>1. Len(history) \in Nat /\ Pushed = Len(history) BY DEF Pushed
  <1>2. Len(Queue) = Pushed - taken /\ Queue \in Seq(Values) BY <1>1 DEF Queue
  <1>3. \A n \in 1..Len(Queue) : Queue[n] = history[taken + n] BY <1>1, <1>2 DEF Queue
  <1>. QED BY <1>2, <1>3

\* Taking nothing from a list that has no more leaves the empty queue.
LEMMA QueueEmpty ==
    ASSUME history \in Seq(Values), taken = Pushed
    PROVE  Queue = <<>>
  <1>1. Pushed \in Nat BY DEF Pushed
  <1>2. Queue \in Seq(Values) /\ Len(Queue) = 0 BY <1>1, QueueSeq
  <1>. QED BY <1>2

\* How to recognise what a push makes of a sequence.
LEMMA Joined ==
    ASSUME NEW S, NEW q \in Seq(S), NEW r \in Seq(S), NEW v \in S, Len(r) = Len(q) + 1,
           \A m \in 1..Len(q) : r[m] = q[m], r[Len(q) + 1] = v
    PROVE  r = q \o <<v>>
  <1>1. q \o <<v>> \in Seq(S) /\ Len(q \o <<v>>) = Len(r) OBVIOUS
  <1>2. ASSUME NEW m \in 1..Len(r) PROVE r[m] = (q \o <<v>>)[m]
    <2>1. CASE m <= Len(q) BY <1>2, <2>1
    <2>2. CASE m = Len(q) + 1 BY <1>2, <2>2
    <2>. QED BY <2>1, <2>2
  <1>. QED BY <1>1, <1>2

\* How to recognise what a pop makes of a sequence.
LEMMA TailIs ==
    ASSUME NEW S, NEW q \in Seq(S), NEW r \in Seq(S), Len(q) = Len(r) + 1,
           \A n \in 1..Len(r) : r[n] = q[n + 1]
    PROVE  q # <<>> /\ r = Tail(q)
  OBVIOUS

\* A push adds its element at the end.
LEMMA QueueGrows ==
    ASSUME NEW S, NEW h \in Seq(S), NEW v \in S, NEW k \in Nat, k <= Len(h)
    PROVE  SubSeq(Append(h, v), k + 1, Len(h) + 1) = SubSeq(h, k + 1, Len(h)) \o <<v>>
  <1>. DEFINE g == Append(h, v)
              q == SubSeq(h, k + 1, Len(h))
              r == SubSeq(g, k + 1, Len(h) + 1)
  <1>1. /\ g \in Seq(S) /\ Len(g) = Len(h) + 1 /\ g[Len(h) + 1] = v
        /\ \A i \in 1..Len(h) : g[i] = h[i]
    OBVIOUS
  <1>2. q \in Seq(S) /\ Len(q) = Len(h) - k /\ \A i \in 1..Len(q) : q[i] = h[k + i]
    OBVIOUS
  <1>. HIDE DEF g, q
  <1>3. r \in Seq(S) /\ Len(r) = Len(h) + 1 - k /\ \A i \in 1..Len(r) : r[i] = g[k + i]
    BY <1>1
  <1>. HIDE DEF r
  <1>4. Len(r) = Len(q) + 1 BY <1>2, <1>3
  <1>5. ASSUME NEW i \in 1..Len(q) PROVE r[i] = q[i]
    <2>1. k + i \in 1..Len(h) /\ i \in 1..Len(r) BY <1>2, <1>4
    <2>. QED BY <1>1, <1>2, <1>3, <2>1
  <1>6. r[Len(q) + 1] = v
    <2>1. k + (Len(q) + 1) = Len(h) + 1 /\ Len(q) + 1 \in 1..Len(r) BY <1>2, <1>4
    <2>2. r[Len(q) + 1] = g[k + (Len(q) + 1)] BY <1>3, <2>1
    <2>. QED BY <1>1, <2>1, <2>2
  <1>7. r = q \o <<v>> BY <1>2, <1>3, <1>4, <1>5, <1>6, Joined
  <1>. QED BY <1>7 DEF g, q, r

\* A pop takes the first one.
LEMMA QueueShrinks ==
    ASSUME NEW S, NEW h \in Seq(S), NEW k \in Nat, k < Len(h)
    PROVE  /\ SubSeq(h, k + 1, Len(h)) # <<>>
           /\ Head(SubSeq(h, k + 1, Len(h))) = h[k + 1]
           /\ SubSeq(h, k + 2, Len(h)) = Tail(SubSeq(h, k + 1, Len(h)))
  <1>. DEFINE q == SubSeq(h, k + 1, Len(h))
              r == SubSeq(h, k + 2, Len(h))
  <1>1. q \in Seq(S) /\ Len(q) = Len(h) - k /\ \A i \in 1..Len(q) : q[i] = h[k + i]
    OBVIOUS
  <1>2. r \in Seq(S) /\ Len(r) = Len(h) - k - 1 /\ \A i \in 1..Len(r) : r[i] = h[k + 1 + i]
    OBVIOUS
  <1>. HIDE DEF q, r
  <1>3. q # <<>> /\ Head(q) = h[k + 1] BY <1>1
  <1>4. r = Tail(q)
    <2>1. \A i \in 1..Len(r) : i + 1 \in 1..Len(q) /\ k + 1 + i = k + (i + 1) BY <1>1, <1>2
    <2>2. \A i \in 1..Len(r) : r[i] = q[i + 1] BY <1>1, <1>2, <2>1
    <2>3. Len(q) = Len(r) + 1 BY <1>1, <1>2
    <2>. QED BY <1>1, <1>2, <2>2, <2>3, TailIs
  <1>. QED BY <1>3, <1>4 DEF q, r

\* Every step of push starts, effects or returns a push of the queue, or changes nothing of it.
LEMMA SimulatePush ==
    ASSUME IInv, Shape, NEW t \in Pushers, PushStep(t)
    PROVE  Abstract!Next \/ UNCHANGED <<Queue, State, Result>>
  <1>. USE DEF At, Goto, histVars, callVars
  <1>1. /\ t \in Threads /\ TypeOK /\ LocalsOk /\ history \in Seq(Values)
        /\ taken \in Nat /\ Pushed \in Nat /\ taken <= Pushed
    BY Kinds, ShapeEnds DEF IInv, TypeOK
  <1>2. /\ State' = [State EXCEPT ![t] = State'[t]]
        /\ Result' = [Result EXCEPT ![t] = Result'[t]]
        /\ State'[t] = State[t] => State' = State
        /\ Result'[t] = Result[t] => Result' = Result
        /\ UNCHANGED <<history, taken>> => Queue' = Queue
    BY <1>1, Unseen
  <1>3. CASE PushCall(t)
    <2>1. PICK v \in Values : item' = [item EXCEPT ![t] = v]
      BY <1>3 DEF PushCall
    <2>2. /\ pc[t] = "idle" /\ pc'[t] = "end" /\ item'[t] = v /\ UNCHANGED <<history, taken>>
      BY <1>1, <1>3, <2>1 DEF PushCall, TypeOK
    <2>3. State[t] = "idle" /\ State'[t] = "called" /\ Result'[t] = v
      BY <1>1, <2>2, SeenIs
    <2>. QED BY <1>1, <1>2, <2>2, <2>3, AbstractCall
  <1>4. CASE Return(t)
    <2>1. pc[t] = "return" /\ pc'[t] = "idle" /\ item'[t] = Null /\ UNCHANGED <<history, taken>>
      BY <1>1, <1>4 DEF Return, TypeOK
    <2>2. State[t] = "done" /\ State'[t] = "idle" /\ Result'[t] = Null
      BY <1>1, <2>1, SeenIs
    <2>. QED BY <1>1, <1>2, <2>1, <2>2, AbstractReturn
  <1>5. CASE PushLink(t) /\ next[h0[t]] = Null
    <2>1. /\ pc[t] = "link" /\ pc'[t] = "swing" /\ item' = item /\ taken' = taken
          /\ history' = Append(history, item[t]) /\ item[t] \in Values
      BY <1>1, <1>5 DEF PushLink, TypeOK, LocalsOk
    <2>2. State[t] = "called" /\ State'[t] = "done" /\ Result[t] = item[t] /\ Result'[t] = Result[t]
      BY <1>1, <2>1, SeenIs
    <2>3. Len(history') = Len(history) + 1 BY <1>1, <2>1
    <2>4. Queue' = Queue \o <<Result[t]>>
      <3>1. Queue = SubSeq(history, taken + 1, Len(history)) BY DEF Queue, Pushed
      <3>2. Queue' = SubSeq(Append(history, item[t]), taken + 1, Len(history) + 1)
        BY <2>1, <2>3 DEF Queue, Pushed
      <3>3. \A v \in Values : SubSeq(Append(history, v), taken + 1, Len(history) + 1)
                                = SubSeq(history, taken + 1, Len(history)) \o <<v>>
        BY <1>1, QueueGrows DEF Pushed
      <3>. QED BY <2>1, <2>2, <3>1, <3>2, <3>3
    <2>. QED BY <1>2, <2>2, <2>4, AbstractPush
  <1>6. CASE ~ PushCall(t) /\ ~ Return(t) /\ ~ (PushLink(t) /\ next[h0[t]] = Null)
    <2>1. UNCHANGED <<history, taken, item>>
      BY <1>6 DEF PushStep, PushLoadEnd, PushPublish, PushReadNext, PushHelp, PushSwing, PushCheck,
         PushLink, PushCount
    <2>2. /\ pc[t] \in {"end", "publish", "pnext", "help", "pcheck", "link"} =>
                pc'[t] \in {"end", "publish", "pnext", "help", "pcheck", "link"}
          /\ pc[t] \in {"swing", "pcount"} => pc'[t] \in {"pcount", "return"}
          /\ pc[t] \in {"end", "publish", "pnext", "help", "pcheck", "link", "swing", "pcount"}
      BY <1>1, <1>6 DEF TypeOK, PushStep, PushLoadEnd, PushPublish, PushReadNext, PushHelp,
         PushSwing, PushCheck, PushLink, PushCount
    <2>3. State'[t] = State[t] /\ Result'[t] = Result[t] BY <1>1, <2>1, <2>2, SeenIs
    <2>. QED BY <1>2, <2>1, <2>3
  <1>. QED BY <1>3, <1>4, <1>5, <1>6

\* Every step of pop starts, effects or returns a pop of the queue, or changes nothing of it.
LEMMA SimulatePop ==
    ASSUME IInv, Shape, NEW t \in Poppers, PopStep(t)
    PROVE  Abstract!Next \/ UNCHANGED <<Queue, State, Result>>
  <1>. USE DEF At, Goto, histVars, callVars
  <1>1. /\ t \in Threads /\ t \notin Pushers /\ TypeOK /\ LocalsOk /\ history \in Seq(Values)
        /\ taken \in Nat /\ Pushed \in Nat /\ taken <= Pushed
    BY Kinds, ShapeEnds DEF IInv, TypeOK
  <1>2. /\ State' = [State EXCEPT ![t] = State'[t]]
        /\ Result' = [Result EXCEPT ![t] = Result'[t]]
        /\ State'[t] = State[t] => State' = State
        /\ Result'[t] = Result[t] => Result' = Result
        /\ UNCHANGED <<history, taken>> => Queue' = Queue
    BY <1>1, Unseen
  <1>3. CASE PopCall(t)
    <2>1. pc[t] = "idle" /\ pc'[t] = "begin" /\ item'[t] = Null /\ UNCHANGED <<history, taken>>
      BY <1>1, <1>3 DEF PopCall, TypeOK, LocalsOk
    <2>2. State[t] = "idle" /\ State'[t] = "called" /\ Result'[t] = Null
      BY <1>1, <2>1, SeenIs
    <2>. QED BY <1>1, <1>2, <2>1, <2>2, AbstractCall
  <1>4. CASE Return(t)
    <2>1. pc[t] = "return" /\ pc'[t] = "idle" /\ item'[t] = Null /\ UNCHANGED <<history, taken>>
      BY <1>1, <1>4 DEF Return, TypeOK
    <2>2. State[t] = "done" /\ State'[t] = "idle" /\ Result'[t] = Null
      BY <1>1, <2>1, SeenIs
    <2>. QED BY <1>1, <1>2, <2>1, <2>2, AbstractReturn
  <1>5. CASE PopReadNext(t)
    <2>1. /\ pc[t] = "next" /\ pc'[t] = "publish1" /\ reg'[t] = next[h0[t]]
          /\ UNCHANGED <<history, taken, item>>
      BY <1>1, <1>5 DEF PopReadNext, TypeOK
    <2>2. CASE next[h0[t]] = Null
      <3>1. taken = Pushed BY <1>5, <2>2, ReadLast
      <3>2. Queue = <<>> BY <1>1, <3>1, QueueEmpty
      <3>3. State[t] = "called" /\ State'[t] = "done" /\ Result'[t] = Result[t]
        BY <1>1, <2>1, <2>2, SeenIs
      <3>. QED BY <1>2, <2>1, <3>2, <3>3, AbstractPop
    <2>3. CASE next[h0[t]] # Null
      <3>1. State'[t] = State[t] /\ Result'[t] = Result[t] BY <1>1, <2>1, <2>3, SeenIs
      <3>. QED BY <1>2, <2>1, <3>1
    <2>. QED BY <2>2, <2>3
  <1>6. CASE PopUnlink(t) /\ begin = h0[t]
    <2>1. /\ pc[t] = "unlink" /\ pc'[t] = "read" /\ taken' = taken + 1
          /\ UNCHANGED <<history, data, h1>>
      BY <1>1, <1>6 DEF PopUnlink, TypeOK, nodeVars
    <2>2. taken < Pushed /\ data[h1[t]] = history[taken + 1]
      BY <1>6, UnlinkMoves DEF Shape
    <2>3. State[t] = "called" /\ State'[t] = "done" /\ Result'[t] = data[h1[t]]
      BY <1>1, <2>1, SeenIs
    <2>4. /\ Queue # <<>> /\ Head(Queue) = history[taken + 1]
          /\ SubSeq(history, taken + 2, Len(history)) = Tail(Queue)
      <3>1. Queue = SubSeq(history, taken + 1, Len(history)) /\ taken < Len(history)
        BY <2>2 DEF Queue, Pushed
      <3>. QED BY <1>1, <3>1, QueueShrinks
    <2>5. Queue' = SubSeq(history, taken + 2, Len(history))
      <3>1. Queue' = SubSeq(history, taken + 1 + 1, Len(history)) BY <2>1 DEF Queue, Pushed
      <3>2. taken + 1 + 1 = taken + 2 BY <1>1
      <3>. QED BY <3>1, <3>2
    <2>. QED BY <1>2, <2>2, <2>3, <2>4, <2>5, AbstractPop
  <1>7. CASE PopRead(t)
    <2>1. /\ pc[t] = "read" /\ pc'[t] = "retire" /\ item'[t] = data[h1[t]]
          /\ UNCHANGED <<history, taken>>
      BY <1>1, <1>7 DEF PopRead, TypeOK
    <2>2. State'[t] = State[t] /\ Result'[t] = Result[t] BY <1>1, <2>1, SeenIs
    <2>. QED BY <1>2, <2>1, <2>2
  <1>8. CASE PopPublish1(t)
    <2>1. /\ pc[t] = "publish1" /\ reg'[t] = reg[t] /\ UNCHANGED <<history, taken, item>>
          /\ pc'[t] = IF reg[t] = Null THEN "return" ELSE "check"
      BY <1>1, <1>8 DEF PopPublish1, TypeOK
    <2>2. State'[t] = State[t] /\ Result'[t] = Result[t] BY <1>1, <2>1, SeenIs
    <2>. QED BY <1>2, <2>1, <2>2
  <1>9. CASE PopRetire(t) \/ PopCount(t)
    <2>1. /\ pc[t] \in {"retire", "count"} /\ pc'[t] \in {"count", "return"}
          /\ UNCHANGED <<history, taken, item>>
      BY <1>1, <1>9 DEF PopRetire, PopCount, TypeOK
    <2>2. State'[t] = State[t] /\ Result'[t] = Result[t] BY <1>1, <2>1, SeenIs
    <2>. QED BY <1>2, <2>1, <2>2
  <1>10. CASE \/ PopLoadBegin(t) \/ PopPublish0(t) \/ PopCheck(t) \/ PopRefresh(t)
              \/ (PopUnlink(t) /\ begin # h0[t])
    <2>1. /\ pc[t] \in {"begin", "publish0", "check", "refresh", "unlink"}
          /\ pc'[t] \in {"publish0", "next", "unlink", "refresh", "begin"}
          /\ UNCHANGED <<history, taken, item>>
      BY <1>1, <1>10 DEF PopLoadBegin, PopPublish0, PopCheck, PopRefresh, PopUnlink, TypeOK
    <2>2. State'[t] = State[t] /\ Result'[t] = Result[t] BY <1>1, <2>1, SeenIs
    <2>. QED BY <1>2, <2>1, <2>2
  <1>. QED BY <1>3, <1>4, <1>5, <1>6, <1>7, <1>8, <1>9, <1>10 DEF PopStep

\* Every step of clear starts, effects or returns a clear of the queue, or changes nothing of it.
LEMMA SimulateClear ==
    ASSUME IInv, Shape, NEW t \in Clearers, ClearStep(t)
    PROVE  Abstract!Next \/ UNCHANGED <<Queue, State, Result>>
  <1>. USE DEF At, Goto, histVars, callVars
  <1>1. /\ t \in Threads /\ t \notin Pushers /\ TypeOK /\ LocalsOk /\ history \in Seq(Values)
        /\ item[t] = Null
    BY Kinds DEF IInv, TypeOK, LocalsOk
  <1>2. /\ State' = [State EXCEPT ![t] = State'[t]]
        /\ Result' = [Result EXCEPT ![t] = Result'[t]]
        /\ State'[t] = State[t] => State' = State
        /\ Result'[t] = Result[t] => Result' = Result
        /\ UNCHANGED <<history, taken>> => Queue' = Queue
    BY <1>1, Unseen
  <1>3. CASE ClearCall(t)
    <2>1. pc[t] = "idle" /\ pc'[t] = "exchange" /\ UNCHANGED <<history, taken, item>>
      BY <1>1, <1>3 DEF ClearCall, TypeOK
    <2>2. State[t] = "idle" /\ State'[t] = "called" /\ Result'[t] = Null
      BY <1>1, <2>1, SeenIs
    <2>. QED BY <1>1, <1>2, <2>1, <2>2, AbstractCall
  <1>4. CASE ClearExchange(t)
    <2>1. /\ pc[t] = "exchange" /\ pc'[t] = "dispose" /\ UNCHANGED <<history, item>>
          /\ taken' = Pushed /\ Pushed' = Pushed
      BY <1>1, <1>4 DEF ClearExchange, TypeOK, Pushed
    <2>2. State[t] = "called" /\ State'[t] = "done" /\ Result'[t] = Result[t]
      BY <1>1, <2>1, SeenIs
    <2>3. Queue' = <<>>
      <3>1. Len(history) \in Nat BY <1>1
      <3>2. Queue' = SubSeq(history, Len(history) + 1, Len(history)) BY <2>1 DEF Queue, Pushed
      <3>3. SubSeq(history, Len(history) + 1, Len(history)) = <<>> BY <1>1, <3>1
      <3>. QED BY <3>2, <3>3
    <2>. QED BY <1>2, <2>2, <2>3, AbstractClear
  <1>5. CASE ClearRetire(t)
    <2>1. /\ pc[t] = "dispose" /\ pc'[t] \in {"dispose", "return"}
          /\ UNCHANGED <<history, taken, item>>
      BY <1>1, <1>5 DEF ClearRetire, TypeOK
    <2>2. State'[t] = State[t] /\ Result'[t] = Result[t] BY <1>1, <2>1, SeenIs
    <2>. QED BY <1>2, <2>1, <2>2
  <1>6. CASE Return(t)
    <2>1. pc[t] = "return" /\ pc'[t] = "idle" /\ item'[t] = Null /\ UNCHANGED <<history, taken>>
      BY <1>1, <1>6 DEF Return, TypeOK
    <2>2. State[t] = "done" /\ State'[t] = "idle" /\ Result'[t] = Null
      BY <1>1, <2>1, SeenIs
    <2>. QED BY <1>1, <1>2, <2>1, <2>2, AbstractReturn
  <1>7. CASE ClearInUse(t)
    <2>1. /\ pc[t] = "exchange" /\ pc'[t] = "undefined"
          /\ UNCHANGED <<history, taken, item>>
      BY <1>1, <1>7, InUseIs DEF TypeOK
    <2>2. State'[t] = State[t] /\ Result'[t] = Result[t] BY <1>1, <2>1, SeenIs
    <2>. QED BY <1>2, <2>1, <2>2
  <1>. QED BY <1>3, <1>4, <1>5, <1>6, <1>7 DEF ClearStep

\* The queue is empty first.
LEMMA SimulateInit == Init => Abstract!Init
  <1>. SUFFICES ASSUME Init PROVE Abstract!Init
    OBVIOUS
  <1>1. history \in Seq(Values) /\ taken = Pushed BY DEF Init, Pushed
  <1>2. Queue = <<>> BY <1>1, QueueEmpty
  <1>3. \A t \in Threads : pc[t] = "idle" /\ item[t] = Null BY DEF Init
  <1>4. State = [t \in Threads |-> "idle"] BY <1>3 DEF State, At
  <1>5. Result = [t \in Threads |-> Null] BY <1>3 DEF Result, At
  <1>. QED BY <1>2, <1>4, <1>5, AbstractVars DEF Abstract!Init, Queue, State, Result

\* A step that changes nothing of msque changes nothing of the queue.
LEMMA SimulateStutter ==
    ASSUME UNCHANGED vars
    PROVE  UNCHANGED <<Queue, State, Result>>
  BY DEF vars, nodeVars, histVars, callVars, Queue, State, Result, At, TookEffect, Pushed

\* msque implements the first-in first-out queue of LinQueue, as long as no node is reused or
\* there is one push and one pop at a time: a push takes effect when it links its node, a pop
\* when it swings _begin or reads a null next, a clear when it exchanges the list.
THEOREM ImplementsLinQueue ==
    ASSUME NeverSwept \/ OneEach
    PROVE  Spec => Linearizable
  <1>1. IInv /\ Shape /\ [Next]_vars => [Abstract!Next]_(Abstract!vars)
    <2>. SUFFICES ASSUME IInv, Shape, [Next]_vars
                  PROVE  Abstract!Next \/ UNCHANGED <<Queue, State, Result>>
      BY AbstractStutter
    <2>1. CASE UNCHANGED vars BY <2>1, SimulateStutter
    <2>2. CASE \E t \in Pushers : PushStep(t) BY <2>2, SimulatePush
    <2>3. CASE \E t \in Poppers : PopStep(t) BY <2>3, SimulatePop
    <2>4. CASE \E t \in Clearers : ClearStep(t) BY <2>4, SimulateClear
    <2>. QED BY <2>1, <2>2, <2>3, <2>4, NextCases, StepCases
  <1>. QED
    BY <1>1, SimulateInit, Invariance, ListShape, PTL DEF Spec, Linearizable, Abstract!Spec
=============================================================================
