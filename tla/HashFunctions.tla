--------------------------- MODULE HashFunctions ----------------------------
(***************************************************************************)
(* The hash functions of small_hash_map.h (198-264).  A 32-bit word is a   *)
(* record of two halves of 16 bits, since TLC's integers have 32.          *)
(***************************************************************************)
EXTENDS Integers, Bitwise, SequencesExt

mask == 1023    \* line 19; an index into _hash_array is below it

Half == 65536
Word(n) == [hi |-> (n \div Half) % Half, lo |-> n % Half]   \* of any integer, in two's complement

Inverted(w) == [hi |-> Half - 1 - w.hi, lo |-> Half - 1 - w.lo]
Plus(v, w) ==
    [hi |-> (v.hi + w.hi + (v.lo + w.lo) \div Half) % Half, lo |-> (v.lo + w.lo) % Half]
Xored(v, w) == [hi |-> v.hi ^^ w.hi, lo |-> v.lo ^^ w.lo]

\* Shifts by n in 1..16; a signed word shifts its sign in.
Left(w, n) ==
    [hi |-> (w.hi * 2^n + w.lo \div 2^(16 - n)) % Half, lo |-> (w.lo * 2^n) % Half]
Right(w, n, signed) ==
    [hi |-> w.hi \div 2^n + (IF signed /\ w.hi >= Half \div 2 THEN Half - 2^(16 - n) ELSE 0),
     lo |-> (w.lo \div 2^n + w.hi * 2^(16 - n)) % Half]

\* 237-242, 248-253
Mixed(key, signed) ==
    LET a == Plus(key, Inverted(Left(key, 15)))
        b == Xored(a, Right(a, 10, signed))
        c == Plus(b, Left(b, 3))
        d == Xored(c, Right(c, 6, signed))
        e == Plus(d, Inverted(Left(d, 11)))
    IN  Xored(e, Right(e, 16, signed))

Remainder(w) == (w.hi * (Half % mask) + w.lo) % mask

HashUint32(key) == Remainder(Mixed(Word(key), FALSE))

\* The last step clears the sign bit, so that the remainder is not negative.
HashInt32(key) == Remainder(Mixed(Word(key), TRUE))

\* The remainder of a negative number is negative or zero, and as an unsigned index
\* -1 is 2^32 - 1.
HashUint64(key) == key % mask
HashInt64(key) == IF key >= 0 THEN key % mask ELSE - ((- key) % mask)

\* hash += (hash<<5) + hash + c; a char is signed, and a string a sequence of numbers.
HashString(s) ==
    LET step(h, c) == Plus(h, Plus(Plus(Left(h, 5), h), Word(c)))
    IN  Remainder(FoldLeft(step, Word(5831), s))
=============================================================================
