----------------------------- MODULE MpiDigits -----------------------------
(***************************************************************************)
(* The internal functions s_mp_* of src/mpi/mpi.c: arithmetic on the       *)
(* digits of one mp_int, carry by carry, in the storage it has.  Squaring  *)
(* and long division are in MpiDivision.                                   *)
(*                                                                         *)
(* An mp_int is its sign, the number of digits in use, the number of       *)
(* digits allocated, and the digits themselves, the lowest first.  Storage *)
(* never runs out here.  RADIX, the width of a char and the default        *)
(* precision are parameters; the program is built with 16-bit digits,      *)
(* 8-bit chars and 16 digits.                                              *)
(***************************************************************************)
EXTENDS Integers, Sequences, FiniteSetsExt, SequencesExt

CONSTANTS
    DigitBit,       \* MP_DIGIT_BIT
    CharBit,        \* CHAR_BIT
    DefPrec         \* s_mp_defprec

ASSUME MpiAssumption ==
    /\ CharBit \in Nat \ {0} /\ DefPrec \in Nat \ {0}
    /\ DigitBit \in Nat \ {0} /\ DigitBit % CharBit = 0

RADIX == 2 ^ DigitBit

ZPOS == 0
NEG == 1

\* Variant: the word is not cut to a digit.
ACCUM_word(w) == w

ACCUM(w) == w % RADIX
CARRYOUT(w) == w \div RADIX

\* f.  TLC keeps a function as its defining expression; comparing it makes TLC
\* compute it once and for all.
Computed(f) == IF f = << >> THEN << >> ELSE f

\* What mp_init_size leaves: calloc clears the digits.
Fresh(prec) == [sign |-> ZPOS, used |-> 1, alloc |-> prec, dp |-> [i \in 0 .. prec - 1 |-> 0]]

\* The low digits of mp, with zeroes above, in storage for n digits.
Stored(mp, n) == Computed([i \in 0 .. n - 1 |-> IF i < mp.used THEN mp.dp[i] ELSE 0])

Zeroed(mp) == [mp EXCEPT !.sign = ZPOS, !.used = 1, !.dp = [i \in DOMAIN mp.dp |-> 0]]

InUse(mp) == 0 .. mp.used - 1

\* mp with digits in use replaced.
WithDigits(mp, digits) ==
    [mp EXCEPT !.dp = Computed([i \in DOMAIN mp.dp |->
                          IF i \in DOMAIN digits THEN digits[i] ELSE mp.dp[i]])]

\* mp with one more digit in use.
Longer(mp, digit) ==
    [mp EXCEPT !.used = mp.used + 1,
               !.dp = Computed([i \in DOMAIN mp.dp \cup {mp.used} |->
                          IF i = mp.used THEN digit ELSE mp.dp[i]])]

\* The digit of weight RADIX^i, counting 0 above the digits in use.
DigitOf(mp, i) == IF i < mp.used THEN mp.dp[i] ELSE 0

\* The same, as a function; and the number of one digit.
AllDigits(mp) == [i \in Nat |-> DigitOf(mp, i)]
OnlyDigit(d) == [i \in Nat |-> IF i = 0 THEN d ELSE 0]

-----------------------------------------------------------------------------
(* Memory.                                                                 *)

\* Storage is handed out in multiples of the default precision.
s_mp_grow(mp, min) ==
    IF min <= mp.alloc
    THEN mp
    ELSE LET n == ((min + DefPrec - 1) \div DefPrec) * DefPrec
         IN  [mp EXCEPT !.alloc = n, !.dp = Stored(mp, n)]

\* "Increase precision; should already be 0-filled."
s_mp_pad(mp, min) ==
    IF min <= mp.used THEN mp ELSE [s_mp_grow(mp, min) EXCEPT !.used = min]

\* Variant: a single digit is not looked at again.
s_mp_clamp_minus(mp) ==
    [mp EXCEPT !.used = 1 + Max({0} \cup {i \in 1 .. mp.used - 1 : mp.dp[i] # 0})]

\* Leading zeroes go, and zero is positive.
s_mp_clamp(mp) ==
    LET du == 1 + Max({0} \cup {i \in 1 .. mp.used - 1 : mp.dp[i] # 0})
    IN  [mp EXCEPT !.used = du,
                   !.sign = IF du = 1 /\ mp.dp[0] = 0 THEN ZPOS ELSE mp.sign]

-----------------------------------------------------------------------------
(* Shifts.                                                                 *)

MovedUp(mp, p) == WithDigits(mp, [i \in InUse(mp) |-> IF i < p THEN 0 ELSE mp.dp[i - p]])

s_mp_lshd(mp, p) == IF p = 0 THEN mp ELSE MovedUp(s_mp_pad(mp, mp.used + p), p)

s_mp_rshd(mp, p) ==
    IF p = 0 THEN mp
    ELSE IF p >= mp.used THEN Zeroed(mp)
    ELSE s_mp_clamp(WithDigits(mp, [i \in InUse(mp) |-> DigitOf(mp, i + p)]))

\* The bit that is shifted into digit i.
BitBelow(mp, i) == IF i = 0 THEN 0 ELSE mp.dp[i - 1] \div 2 ^ (DigitBit - 1)

\* Variant: no room is made for the carry.
s_mp_mul_2_tight(mp) ==
    LET twice == WithDigits(mp, [i \in InUse(mp) |-> ACCUM(2 * mp.dp[i]) + BitBelow(mp, i)])
    IN  IF BitBelow(mp, mp.used) = 0 THEN twice ELSE Longer(twice, 1)

s_mp_mul_2(mp) ==
    LET twice == WithDigits(mp, [i \in InUse(mp) |-> ACCUM(2 * mp.dp[i]) + BitBelow(mp, i)])
        room == IF mp.used >= mp.alloc THEN s_mp_grow(twice, mp.alloc + 1) ELSE twice
    IN  IF BitBelow(mp, mp.used) = 0 THEN twice ELSE Longer(room, 1)

\* The bits from 2^d up go.
s_mp_mod_2d(mp, d) ==
    LET ndig == d \div DigitBit
    IN  IF ndig >= mp.used
        THEN mp
        ELSE s_mp_clamp(WithDigits(mp, [i \in InUse(mp) |->
                 IF i < ndig THEN mp.dp[i]
                 ELSE IF i = ndig THEN mp.dp[i] % 2 ^ (d % DigitBit) ELSE 0]))

\* Up by n bits, less than a digit.
BitsUp(mp, n) ==
    LET save(i) == IF i = 0 THEN 0 ELSE mp.dp[i - 1] \div 2 ^ (DigitBit - n)
        shifted == WithDigits(mp, [i \in InUse(mp) |-> ACCUM(mp.dp[i] * 2 ^ n) + save(i)])
    IN  IF save(mp.used) = 0 THEN shifted
        ELSE Longer(s_mp_grow(shifted, mp.used + 1), save(mp.used))

BitsDown(mp, n) ==
    LET save(i) == ACCUM((DigitOf(mp, i + 1) % 2 ^ n) * 2 ^ (DigitBit - n))
    IN  WithDigits(mp, [i \in InUse(mp) |-> mp.dp[i] \div 2 ^ n + save(i)])

\* By digits, and then by the bits that are left.
s_mp_mul_2d(mp, d) ==
    s_mp_clamp(BitsUp(s_mp_lshd(mp, d \div DigitBit), d % DigitBit))

s_mp_div_2d(mp, d) ==
    s_mp_clamp(BitsDown(s_mp_rshd(mp, d \div DigitBit), d % DigitBit))

s_mp_div_2(mp) == s_mp_div_2d(mp, 1)

\* The shift that brings the leading digit of the divisor to half the radix.
s_mp_norm(b) == Min({d \in 0 .. DigitBit - 1 : b.dp[b.used - 1] * 2 ^ d >= RADIX \div 2})

s_mp_2expt(mp, k) ==
    LET p == s_mp_pad(Zeroed(mp), k \div DigitBit + 1)
    IN  [p EXCEPT !.dp[k \div DigitBit] = 2 ^ (k % DigitBit)]

-----------------------------------------------------------------------------
(* Comparisons.                                                            *)

\* Variant: the loop begins at the lowest digit.
s_mp_cmp_up(a, b) ==
    LET differ == {i \in 0 .. a.used - 1 : a.dp[i] # b.dp[i]}
    IN  IF a.used # b.used
        THEN IF a.used > b.used THEN 1 ELSE -1
        ELSE IF differ = {}
             THEN 0
             ELSE IF a.dp[Min(differ)] > b.dp[Min(differ)] THEN 1 ELSE -1

s_mp_cmp(a, b) ==
    LET differ == {i \in 0 .. a.used - 1 : a.dp[i] # b.dp[i]}
    IN  IF a.used # b.used
        THEN IF a.used > b.used THEN 1 ELSE -1
        ELSE IF differ = {}
             THEN 0
             ELSE IF a.dp[Max(differ)] > b.dp[Max(differ)] THEN 1 ELSE -1

s_mp_cmp_d(a, d) ==
    IF a.used > 1 \/ a.dp[0] > d THEN 1 ELSE IF a.dp[0] < d THEN -1 ELSE 0

\* k such that the digit is 2^k, or -1.
s_mp_ispow2d(d) ==
    IF \E k \in 0 .. DigitBit - 1 : d = 2 ^ k
    THEN CHOOSE k \in 0 .. DigitBit - 1 : d = 2 ^ k
    ELSE -1

s_mp_ispow2(v) ==
    LET extra == s_mp_ispow2d(v.dp[v.used - 1])
    IN  IF extra >= 0 /\ \A i \in 0 .. v.used - 2 : v.dp[i] = 0
        THEN (v.used - 1) * DigitBit + extra
        ELSE -1

-----------------------------------------------------------------------------
(* Addition and subtraction of magnitudes.                                 *)

\* What is carried into each of n places, where c carried into place i makes it
\* carry out[i][c].
Carries(n, out) ==
    LET carry[i \in 0 .. n] == IF i = 0 THEN 0 ELSE out[i - 1][carry[i - 1]]
    IN  carry

\* mp + addend, digit by digit; a carry out of the last digit takes one more.
AddDigits(mp, addend) ==
    LET carry == Carries(mp.used, [i \in InUse(mp) |->
                     [c \in Nat |-> CARRYOUT(mp.dp[i] + addend[i] + c)]])
        sum == WithDigits(mp, [i \in InUse(mp) |-> ACCUM(mp.dp[i] + addend[i] + carry[i])])
    IN  IF carry[mp.used] = 0
        THEN sum
        ELSE Longer(s_mp_grow(sum, mp.used + 1), carry[mp.used])

\* mp - subtrahend, which must not be more.
SubDigits(mp, subtrahend) ==
    LET borrow == Carries(mp.used, [i \in InUse(mp) |->
                      [c \in Nat |-> 1 - CARRYOUT(RADIX + mp.dp[i] - subtrahend[i] - c)]])
    IN  s_mp_clamp(WithDigits(mp, [i \in InUse(mp) |->
            ACCUM(RADIX + mp.dp[i] - subtrahend[i] - borrow[i])]))

s_mp_add_d(mp, d) == AddDigits(mp, OnlyDigit(d))
s_mp_sub_d(mp, d) == SubDigits(mp, OnlyDigit(d))

s_mp_add(a, b) == AddDigits(s_mp_pad(a, b.used), AllDigits(b))
s_mp_sub(a, b) == SubDigits(a, AllDigits(b))

-----------------------------------------------------------------------------
(* Multiplication of magnitudes.                                           *)

\* One more digit is provided for only if the leading digit alone calls for it.
\* When only the carry from below does, and the storage is full, the digit is
\* written beyond it: dp then has more digits than alloc says.
s_mp_mul_d(mp, d) ==
    LET top == mp.used - 1
        carry == Carries(mp.used, [i \in InUse(mp) |->
                     [c \in Nat |-> CARRYOUT(mp.dp[i] * d + c)]])
        product == WithDigits(mp, [i \in InUse(mp) |-> ACCUM(mp.dp[i] * d + carry[i])])
        room == IF CARRYOUT(mp.dp[top] * d) # 0 THEN s_mp_grow(product, mp.used + 1) ELSE product
    IN  s_mp_clamp(IF carry[mp.used] = 0 THEN room ELSE Longer(room, carry[mp.used]))

\* A temporary of n zero digits.
Zeroes(n) == [Fresh(n) EXCEPT !.used = n]

\* One turn of the outer loop of s_mp_mul: tmp + b[ix] * a * RADIX^ix.
Row(tmp, a, d, ix) ==
    LET carry == Carries(a.used, [j \in InUse(a) |->
                     [c \in Nat |-> CARRYOUT(d * a.dp[j] + c + tmp.dp[ix + j])]])
    IN  WithDigits(tmp, [i \in ix .. ix + a.used |->
            IF i = ix + a.used THEN carry[a.used]
            ELSE ACCUM(d * a.dp[i - ix] + carry[i - ix] + tmp.dp[i])])

\* tmp after ix turns of the outer loop; none of them is for a digit 0.
s_mp_mul(a, b) ==
    LET tmp[ix \in 0 .. b.used] ==
            IF ix = 0 THEN Zeroes(a.used + b.used)
            ELSE IF b.dp[ix - 1] = 0 THEN tmp[ix - 1]
            ELSE Row(tmp[ix - 1], a, b.dp[ix - 1], ix - 1)
    IN  s_mp_clamp(tmp[b.used])

-----------------------------------------------------------------------------
(* Copies.                                                                 *)

\* mp_init_copy: storage for the digits in use and no more.
Copied(from) ==
    [sign |-> from.sign, used |-> from.used, alloc |-> from.used, dp |-> Stored(from, from.used)]

\* Variant: the storage is not cleared above the copied digits.
CopyIntoDirty(from, to) ==
    IF to.alloc < from.used
    THEN Copied(from)
    ELSE [to EXCEPT !.sign = from.sign, !.used = from.used,
                    !.dp = Computed([i \in DOMAIN to.dp |->
                        IF i < from.used THEN from.dp[i] ELSE to.dp[i]])]

\* mp_copy between two different mp_ints: the storage is kept if it will do.
CopyInto(from, to) ==
    IF to.alloc < from.used
    THEN Copied(from)
    ELSE [to EXCEPT !.sign = from.sign, !.used = from.used, !.dp = Stored(from, to.alloc)]

-----------------------------------------------------------------------------
(* Division by a digit.                                                    *)

\* Quotient of mp by a digit, in new storage, and the remainder.
s_mp_div_d(mp, d) ==
    LET w[i \in 0 .. mp.used] ==       \* the remainder above digit i
            IF i = mp.used THEN 0 ELSE (w[i + 1] * RADIX + mp.dp[i]) % d
        quot == WithDigits(Zeroes(mp.used),
                           [i \in InUse(mp) |-> (w[i + 1] * RADIX + mp.dp[i]) \div d])
    IN  [q |-> s_mp_clamp(quot), r |-> w[0]]
=============================================================================
