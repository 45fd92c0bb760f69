--------------------------- MODULE MpiConversions ---------------------------
(***************************************************************************)
(* Conversions of src/mpi/mpi.c from and to machine integers, bytes and    *)
(* text.  A text is a sign and the values of its characters; a character   *)
(* that is no digit does not occur.  Bytes are values below 2^CharBit.     *)
(***************************************************************************)
EXTENDS MpiNumbers

CONSTANTS
    Plus,           \* the value of "+" as a digit, 62
    LongChars,      \* sizeof(long)
    IntMax          \* INT_MAX

ASSUME MpiConversionsAssumption ==
    /\ Plus \in Nat /\ LongChars \in Nat \ {0}
    /\ IntMax \in 0 .. 2 ^ (CharBit * LongChars) - 1

CHAR == 2 ^ CharBit
DigitChars == DigitBit \div CharBit

\* Char i of v, the lowest being 0.
CharOf(v, i) == (v \div 2 ^ (CharBit * i)) % CHAR

\* mp * CHAR + ch.  That a number has a digit is asked first here and below, which keeps
\* TLC's recursion shallow.
ShiftIn(mp, ch) == CASE mp.used > 0 -> s_mp_add_d(s_mp_mul_2d(mp, CharBit), ch)

\* mp_set_int, of a z that fits an int, which abs() takes.
mp_set_int(mp, z) ==
    LET v == IF z < 0 THEN -z ELSE z
        read[n \in 0 .. LongChars] ==
            IF n = 0 THEN Zeroed(mp) ELSE ShiftIn(read[n - 1], CharOf(v, LongChars - n))
    IN  IF z = 0 THEN Zeroed(mp)
        ELSE [read[LongChars] EXCEPT !.sign = IF z < 0 THEN NEG ELSE ZPOS]

mp_cmp_int(a, z) == mp_cmp(a, mp_set_int(mp_init, z))

mp_read_unsigned_bin(mp, str) ==
    LET Onward(s, ch) == CASE s.used > 0 -> PlusDigit(s_mp_mul_2d(s, CharBit), ch)
        read[n \in 0 .. Len(str)] ==
            IF n = 0 THEN Zeroed(mp) ELSE Onward(read[n - 1], str[n])
    IN  read[Len(str)]

\* A byte for the sign comes first.
mp_read_signed_bin(mp, str) ==
    [mp_read_unsigned_bin(mp, Tail(str)) EXCEPT !.sign = IF Head(str) # 0 THEN NEG ELSE ZPOS]

\* Chars of a digit without leading zeroes.
CharsUsed(d) == IF d = 0 THEN 0 ELSE 1 + Max({i \in 0 .. DigitChars - 1 : d \div 2 ^ (CharBit * i) > 0})

\* Variant: every digit counts in full.
mp_unsigned_bin_size_full(mp) == mp.used * DigitChars

mp_unsigned_bin_size(mp) ==
    IF IsZero(mp) THEN 1
    ELSE (mp.used - 1) * DigitChars + CharsUsed(mp.dp[mp.used - 1])

\* The digits are written lowest char first, all but the last in full, and then
\* everything is reversed.
mp_to_unsigned_bin(mp) ==
    LET n == (mp.used - 1) * DigitChars + CharsUsed(mp.dp[mp.used - 1])
        written(i) == CharOf(mp.dp[i \div DigitChars], i % DigitChars)
    IN  IF IsZero(mp) THEN <<0>> ELSE [i \in 1 .. n |-> written(n - i)]

mp_to_signed_bin(mp) == <<mp.sign>> \o mp_to_unsigned_bin(mp)

BitsOfDigit(d) == IF d = 0 THEN 0 ELSE 1 + Max({i \in 0 .. DigitBit - 1 : d \div 2 ^ i > 0})

mp_count_bits(mp) == DigitBit * (mp.used - 1) + BitsOfDigit(mp.dp[mp.used - 1])

\* n factors r.
Powers(r) ==
    LET power[n \in Nat] == IF n = 0 THEN 1 ELSE r * power[n - 1]
    IN  power

\* Bits times the logarithm of 2, rounded to the nearest.
s_mp_outlen(bits, r) ==
    LET fits(n) == Powers(r)[2 * n] <= 2 ^ (2 * bits) * r
    IN  CHOOSE n \in 0 .. bits : fits(n) /\ ~fits(n + 1)

\* Room for the digits, a sign and the final NUL, by estimate.
mp_radix_size(mp, r) ==
    s_mp_outlen(mp_count_bits(mp), r) + 1 + IF mp_cmp_z(mp) < 0 THEN 1 ELSE 0

\* The digits of mp, by division until it is zero.
RadixDigits(mp, r) ==
    LET Shown(divided, digits) == [mp |-> divided.q, digits |-> <<divided.r>> \o digits]
        Onward(s) == IF mp_cmp_z(s.mp) = 0 THEN s ELSE Shown(s_mp_div_d(s.mp, r), s.digits)
        left[n \in 0 .. DigitBit * mp.used] ==
            IF n = 0 THEN [mp |-> mp, digits |-> << >>] ELSE Onward(left[n - 1])
    IN  left[DigitBit * mp.used].digits

Magnitude(m) == [Copied(m) EXCEPT !.sign = ZPOS]

mp_toradix(mp, r) ==
    IF mp_cmp_z(mp) = 0
    THEN [minus |-> FALSE, digits |-> <<0>>]
    ELSE [minus |-> mp.sign = NEG, digits |-> RadixDigits(Magnitude(mp), r)]

\* "+" in front is a sign, even where it is a digit.
mp_read_radix(mp, str, r) ==
    LET digits == IF ~str.minus /\ Head(str.digits) = Plus THEN Tail(str.digits) ELSE str.digits
        read[n \in 0 .. Len(digits)] ==
            IF n = 0 THEN Zeroed(mp) ELSE s_mp_add_d(s_mp_mul_d(read[n - 1], r), digits[n])
    IN  Signed(read[Len(digits)], IF str.minus THEN NEG ELSE ZPOS)
=============================================================================
