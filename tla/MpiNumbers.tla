---------------------------- MODULE MpiNumbers ----------------------------
(***************************************************************************)
(* Functions mp_* of src/mpi/mpi.c.  Their arguments are pointers, and     *)
(* a result may go where an operand is: h is the memory, a function from   *)
(* names to mp_ints, an argument is a name, and the value of a function is *)
(* the memory after it.  A call that returns MP_RANGE leaves the memory as *)
(* it is.  Local variables are values; Null is the null pointer.           *)
(***************************************************************************)
EXTENDS MpiDigits

CONSTANT Null

mp_cmp_z(m) == IF m.sign = NEG THEN -1 ELSE IF m.used = 1 /\ m.dp[0] = 0 THEN 0 ELSE 1

mp_cmp(a, b) ==
    IF a.sign # b.sign
    THEN IF a.sign = ZPOS THEN 1 ELSE -1
    ELSE IF a.sign = ZPOS THEN s_mp_cmp(a, b) ELSE -s_mp_cmp(a, b)

mp_cmp_d(a, d) == IF a.sign = NEG THEN -1 ELSE s_mp_cmp_d(a, d)

mp_isodd(a) == a.dp[0] % 2 = 1

IsZero(m) == s_mp_cmp_d(m, 0) = 0

\* m with a sign, unless it is zero.
Signed(m, sign) == [m EXCEPT !.sign = IF IsZero(m) THEN ZPOS ELSE sign]

\* mp_set.
SetDigit(m, d) == [Zeroed(m) EXCEPT !.dp[0] = d]

mp_init == Fresh(DefPrec)

\* s_mp_exch with a local variable that is then cleared.
Put(h, c, m) == [h EXCEPT ![c] = m]

\* Work on c in place.
Update(h, c, Work(_)) == [h EXCEPT ![c] = Work(h[c])]

mp_copy(h, from, to) ==
    IF from = to THEN h ELSE Put(h, to, CopyInto(h[from], h[to]))

mp_exch(h, a, b) == [h EXCEPT ![a] = h[b], ![b] = h[a]]

mp_zero(h, c) == Put(h, c, Zeroed(h[c]))

-----------------------------------------------------------------------------
(* Digits and signs.  First a copy, then work on the copy.                 *)

mp_abs(h, a, b) == Update(mp_copy(h, a, b), b, LAMBDA m : [m EXCEPT !.sign = ZPOS])

Negated(m) == Signed(m, 1 - m.sign)

mp_neg(h, a, b) == Update(mp_copy(h, a, b), b, Negated)

PlusDigit(m, d) ==
    IF m.sign = ZPOS THEN s_mp_add_d(m, d)
    ELSE IF s_mp_cmp_d(m, d) >= 0 THEN s_mp_sub_d(m, d)
    ELSE [m EXCEPT !.sign = ZPOS, !.dp[0] = d - m.dp[0]]

mp_add_d(h, a, d, b) == Update(mp_copy(h, a, b), b, LAMBDA m : PlusDigit(m, d))

MinusDigit(m, d) ==
    IF m.sign = NEG THEN s_mp_add_d(m, d)
    ELSE IF s_mp_cmp_d(m, d) >= 0 THEN s_mp_sub_d(m, d)
    ELSE [m EXCEPT !.sign = NEG, !.dp[0] = d - m.dp[0]]

\* What the functions do at their end to a result that may be zero.
ZeroPositive(m) == Signed(m, m.sign)

mp_sub_d(h, a, d, b) ==
    Update(mp_copy(h, a, b), b, LAMBDA m : ZeroPositive(MinusDigit(m, d)))

mp_mul_d(h, a, d, b) ==
    IF d = 0 THEN mp_zero(h, b)
    ELSE Update(mp_copy(h, a, b), b, LAMBDA m : s_mp_mul_d(m, d))

mp_mul_2(h, a, c) == Update(mp_copy(h, a, c), c, s_mp_mul_2)

mp_mul_2d(h, a, d, c) ==
    Update(mp_copy(h, a, c), c, LAMBDA m : IF d = 0 THEN m ELSE s_mp_mul_2d(m, d))

mp_2expt(h, a, k) == Put(h, a, s_mp_2expt(h[a], k))

mp_div_2(h, a, c) == Update(mp_copy(h, a, c), c, s_mp_div_2)

\* The quotient is made first; where it is a, the remainder is made of it.
mp_div_2d(h, a, d, q, r) ==
    LET Quot(k) == IF q = Null THEN k
                   ELSE Update(mp_copy(k, a, q), q, LAMBDA m : s_mp_div_2d(m, d))
        Rem(k) == IF r = Null THEN k
                  ELSE Update(mp_copy(k, a, r), r, LAMBDA m : s_mp_mod_2d(m, d))
    IN  Rem(Quot(h))

\* The memory with the quotient, and the remainder.  The quotient comes out of
\* s_mp_div_d in new storage without the sign; by a power of two it is shifted in
\* place and keeps it.
mp_div_d(h, a, d, q) ==
    LET pow == s_mp_ispow2d(d)
        Shifted == Update(mp_copy(h, a, q), q, LAMBDA m : s_mp_div_2d(m, pow))
        Taken(divided) == [h |-> Put(h, q, divided.q), r |-> divided.r]
    IN  IF d = 0 THEN [h |-> h, r |-> 0]
        ELSE IF pow >= 0 THEN [h |-> Shifted, r |-> h[a].dp[0] % 2 ^ pow]
        ELSE Taken(s_mp_div_d(h[a], d))

\* mp_mod_d, of the remainder of mp_div_d.
mp_mod_d(h, a, d) ==
    IF s_mp_cmp_d(h[a], d) > 0 THEN mp_div_d(h, a, d, a).r
    ELSE IF h[a].sign = NEG THEN d - h[a].dp[0] ELSE h[a].dp[0]

-----------------------------------------------------------------------------
(* Addition, subtraction, multiplication.                                  *)

\* Variant: the result is made in place even if the other operand is there.
DifferenceInPlace(h, a, b, c) ==
    Update(mp_copy(h, a, c), c, LAMBDA m : s_mp_sub(m, IF c = b THEN h[a] ELSE h[b]))

\* c = |a| - |b| with the sign of a, |a| being more.
Difference(h, a, b, c) ==
    IF c = b
    THEN Put(h, c, s_mp_sub(Copied(h[a]), h[b]))
    ELSE Update(mp_copy(h, a, c), c, LAMBDA m : s_mp_sub(m, h[b]))

\* c = |a| + |b| with the sign that is in c.
Total(h, a, b, c) ==
    IF c = b
    THEN Put(h, c, s_mp_add(h[b], h[a]))
    ELSE Update(mp_copy(h, a, c), c, LAMBDA m : s_mp_add(m, h[b]))

mp_add(h, a, b, c) ==
    LET cmp == s_mp_cmp(h[a], h[b])
    IN  Update(IF h[a].sign = h[b].sign THEN Total(h, a, b, c)
               ELSE IF cmp > 0 THEN Difference(h, a, b, c)
               ELSE IF cmp = 0 THEN mp_zero(h, c)
               ELSE Difference(h, b, a, c), c, ZeroPositive)

\* The sum has the sign of a, and a difference the other way round not that of b.
mp_sub(h, a, b, c) ==
    LET cmp == s_mp_cmp(h[a], h[b])
        Opposite(m) == [m EXCEPT !.sign = 1 - h[b].sign]
    IN  Update(IF h[a].sign # h[b].sign
               THEN Update(IF c = a THEN Total(h, a, b, c) ELSE Total(h, b, a, c), c,
                           LAMBDA m : [m EXCEPT !.sign = h[a].sign])
               ELSE IF cmp > 0 THEN Difference(h, a, b, c)
               ELSE IF cmp = 0 THEN mp_zero(h, c)
               ELSE Update(Difference(h, b, a, c), c, Opposite), c, ZeroPositive)

mp_mul(h, a, b, c) ==
    LET sgn == IF h[a].sign = h[b].sign THEN ZPOS ELSE NEG
    IN  Put(h, c, Signed(IF c = b THEN s_mp_mul(h[b], h[a])
                         ELSE s_mp_mul(mp_copy(h, a, c)[c], h[b]), sgn))
=============================================================================
