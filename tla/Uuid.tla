-------------------------------- MODULE Uuid --------------------------------
(***************************************************************************)
(* uuid/uuid.cpp: the sixteen bytes that name a remote call.               *)
(***************************************************************************)
EXTENDS Integers, Sequences

Byte(n, i) == (n \div 256^i) % 256      \* of any integer, in two's complement
Bytes(n, count) == [i \in 1..count |-> Byte(n, i - 1)]

\* The static counter starts at one and leaves out zero.
FirstKey == 1
NextKey(key) == IF Byte(key + 1, 0) = 0 THEN 1 ELSE Byte(key + 1, 0)

\* The key of the n-th call of a process.
KeyOf(n) == ((n - 1) % 255) + 1

\* From time(0), the adapter's address, the process, clock(), rand() and the counter.
UUID(t, address, id, c, random, key) ==
    Bytes(t, 4) \o address \o Bytes(id, 2) \o Bytes(c, 2) \o <<Byte(random + 1, 0), key>>

\* What the registry of callbacks relies on: two of any 255 calls in a row have
\* different names, whatever the clocks and rand return, and no key is zero.
NamesDiffer(instants, address, id) ==
    /\ KeyOf(1) = FirstKey
    /\ \A n \in 1..300 : KeyOf(n) # 0 /\ KeyOf(n + 1) = NextKey(KeyOf(n))
    /\ \A n \in 1..300, m \in 1..254, p, q \in instants :
          UUID(p.t, address, id, p.c, p.random, KeyOf(n))
              # UUID(q.t, address, id, q.c, q.random, KeyOf(n + m))

\* The 256th call has the name of the first, if it comes in the same second, at the
\* same reading of clock() modulo 65536, and rand() returns the same byte.
NamesRepeat(now, address, id) ==
    LET name(n) == UUID(now.t, address, id, now.c, now.random, KeyOf(n))
    IN  name(256) = name(1)
=============================================================================
