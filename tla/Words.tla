------------------------------- MODULE Words -------------------------------
(***************************************************************************)
(* Bytes, and the machine words that src/sha2 and src/rijndael compute     *)
(* with.  A word is the sequence of its bytes, the highest first; TLC has  *)
(* no integers of 32 bits.  GETU32 and PACK32 take words out of bytes.     *)
(***************************************************************************)
EXTENDS Loops, Integers, Sequences, SequencesExt

\* A sequence, computed once and for all by TLC.
Settled(s) == s \o << >>

\* The sum of the bits 0 to 7 of a byte.
OfBits(bit(_)) ==
    LET from[i \in 0 .. 8] == IF i = 8 THEN 0 ELSE bit(i) * 2 ^ i + from[i + 1]
    IN  from[0]

BitOf(a, i) == (a \div 2 ^ i) % 2

XorTable ==
    Settled([a \in 1 .. 256 |-> Settled([b \in 1 .. 256 |->
        OfBits(LAMBDA i : (BitOf(a - 1, i) + BitOf(b - 1, i)) % 2)])])

AndTable ==
    Settled([a \in 1 .. 256 |-> Settled([b \in 1 .. 256 |->
        OfBits(LAMBDA i : BitOf(a - 1, i) * BitOf(b - 1, i))])])

Xor(a, b) == XorTable[a + 1][b + 1]
And(a, b) == AndTable[a + 1][b + 1]

XorWord(x, y) == Settled([i \in 1 .. Len(x) |-> Xor(x[i], y[i])])
AndWord(x, y) == Settled([i \in 1 .. Len(x) |-> And(x[i], y[i])])
NotWord(x) == Settled([i \in 1 .. Len(x) |-> 255 - x[i]])

\* Modulo 2 to the width of the words.
PlusWord(x, y) ==
    LET carry[i \in 1 .. Len(x) + 1] ==
            IF i > Len(x) THEN 0 ELSE (x[i] + y[i] + carry[i + 1]) \div 256
    IN  Settled([i \in 1 .. Len(x) |-> (x[i] + y[i] + carry[i + 1]) % 256])

XorAll(words) == FoldLeft(XorWord, Head(words), Tail(words))
SumWord(words) == FoldLeft(PlusWord, Head(words), Tail(words))

\* Bytes down by n, into the place of which those above come, and then by bits.
Down(x, n, above(_)) ==
    LET byte(i) == IF i < 1 THEN above(i + Len(x)) ELSE x[i]
        at(i) == i - (n \div 8)
    IN  Settled([i \in 1 .. Len(x) |->
            ((byte(at(i)) \div 2 ^ (n % 8)) + byte(at(i) - 1) * 2 ^ (8 - (n % 8))) % 256])

ROTR(x, n) == Down(x, n, LAMBDA i : x[i])
SHFR(x, n) == Down(x, n, LAMBDA i : 0)

\* Consecutive parts of bytes, n bytes each.
Parts(bytes, n) ==
    Settled([j \in 1 .. Len(bytes) \div n |-> SubSeq(bytes, (j - 1) * n + 1, j * n)])

\* The bytes of parts of n bytes each.
Joined(parts, n) ==
    Settled([i \in 1 .. Len(parts) * n |->
                parts[((i - 1) \div n) + 1][((i - 1) % n) + 1]])

Zeros(n) == Settled([i \in 1 .. n |-> 0])

\* A number below 2^31 in n bytes.
BytesOf(v, n) ==
    Settled([i \in 1 .. n |-> IF n - i > 3 THEN 0 ELSE (v \div 256 ^ (n - i)) % 256])
=============================================================================
