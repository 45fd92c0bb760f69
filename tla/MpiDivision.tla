---------------------------- MODULE MpiDivision ----------------------------
(***************************************************************************)
(* Squaring and long division of src/mpi/mpi.c, remainders, and sums,      *)
(* differences, products and squares modulo a number.                      *)
(***************************************************************************)
EXTENDS MpiNumbers

WORD == RADIX * RADIX           \* an mp_word is less

-----------------------------------------------------------------------------
(* Squaring.                                                               *)

\* One turn of the inner loop: the product of two digits counts twice, and v is
\* added.  Doubled, it may not fit an mp_word; what falls off the top is in the carry.
DoubleSum(product, v) == (((2 * product) % WORD) + v) % WORD

DoubleCarry(product, v) ==
    LET u == IF product >= WORD \div 2 \/ WORD - 1 - v < (2 * product) % WORD THEN 1 ELSE 0
    IN  CARRYOUT(DoubleSum(product, v)) + u * RADIX

\* A carry out of the row goes up "by one" until it is absorbed.
Cascade(mp, i) ==
    LET top == Min({j \in DOMAIN mp.dp : j >= i /\ CARRYOUT(mp.dp[j] + 1) = 0})
    IN  WithDigits(mp, [j \in i .. top |-> ACCUM(mp.dp[j] + 1)])

\* The end of a turn: the digit i takes the carry k out of the row.
CarryUp(mp, k, i) ==
    LET last == mp.dp[i] + k
        done == [mp EXCEPT !.dp[i] = ACCUM(last)]
    IN  IF CARRYOUT(last) = 0 THEN done ELSE Cascade(done, i + 1)

\* One turn of the outer loop: the square of digit ix, and twice its products with
\* the digits above it.
SquareRow(tmp, a, ix) ==
    LET n == a.used - ix
        square == a.dp[ix] * a.dp[ix]
        product(j) == a.dp[ix] * a.dp[ix + j]
        carry == Carries(n, [j \in 0 .. n - 1 |-> [c \in Nat |->
                     IF j = 0 THEN CARRYOUT(tmp.dp[2 * ix] + square)
                     ELSE DoubleCarry(product(j), tmp.dp[2 * ix + j] + c)]])
        digit(j) == IF j = 0 THEN ACCUM(tmp.dp[2 * ix] + square)
                    ELSE ACCUM(DoubleSum(product(j), tmp.dp[2 * ix + j] + carry[j]))
        row == WithDigits(tmp, [i \in 2 * ix .. ix + a.used - 1 |-> digit(i - 2 * ix)])
    IN  CarryUp(row, carry[n], ix + a.used)

\* tmp after ix turns; none of them is for a digit 0.
s_mp_sqr(a) ==
    LET tmp[ix \in 0 .. a.used] ==
            IF ix = 0 THEN Zeroes(2 * a.used)
            ELSE IF a.dp[ix - 1] = 0 THEN tmp[ix - 1]
            ELSE SquareRow(tmp[ix - 1], a, ix - 1)
    IN  s_mp_clamp(tmp[a.used])

-----------------------------------------------------------------------------
(* Division of magnitudes.                                                 *)

\* The next digit of a moves down into rem, and makes room for one of the quotient.
BringDown(s, a) ==
    [s EXCEPT !.rem = s_mp_clamp([s_mp_lshd(s.rem, 1) EXCEPT !.dp[0] = a.dp[s.ix]]),
              !.quot = s_mp_lshd(s.quot, 1),
              !.ix = s.ix - 1]

\* Digits of a move down until rem is at least b or there are no more.
Substring(s, a, b) ==
    LET Onward(t) == IF s_mp_cmp(t.rem, b) >= 0 THEN t ELSE BringDown(t, a)
        down[n \in 0 .. s.ix + 1] == IF n = 0 THEN s ELSE Onward(down[n - 1])
    IN  down[s.ix + 1]

\* The next digit of the quotient, guessed from the leading digits: never less
\* than it should be.
Guess(rem, b) ==
    LET top == rem.dp[rem.used - 1]
        lead == b.dp[b.used - 1]
        q == IF top <= lead /\ rem.used > 1
             THEN (top * RADIX + rem.dp[rem.used - 2]) \div lead
             ELSE top \div lead
    IN  Min({q, RADIX - 1})

\* q and t = q * b go down until t is no more than rem.
BackOff(q, t, rem, b) ==
    LET Onward(s) == IF s_mp_cmp(s.t, rem) <= 0 THEN s
                     ELSE [q |-> s.q - 1, t |-> s_mp_sub(s.t, b)]
        less[n \in 0 .. q] == IF n = 0 THEN [q |-> q, t |-> t] ELSE Onward(less[n - 1])
    IN  less[q]

\* The rest of a turn when the digit of the quotient is known.
WithDigit(s, digit) ==
    [s EXCEPT !.rem = s_mp_sub(s.rem, digit.t), !.quot.dp[0] = digit.q, !.t = digit.t]

DivideDown(s, b) ==
    LET Try(q) == BackOff(q, s_mp_mul_d(CopyInto(b, s.t), q), s.rem, b)
    IN  IF s_mp_cmp(s.rem, b) < 0 THEN s ELSE WithDigit(s, Try(Guess(s.rem, b)))

\* The loop over the digits of a.  Each turn takes one of them or more.
Divide(s, a, b) ==
    LET Onward(t) == IF t.ix < 0 THEN t ELSE DivideDown(Substring(t, a, b), b)
        turns[n \in 0 .. a.used] == IF n = 0 THEN s ELSE Onward(turns[n - 1])
    IN  turns[a.used]

\* The results of the loop, shifted back by d bits.
Results(done, d) ==
    [q |-> s_mp_clamp(done.quot),
     r |-> s_mp_clamp(IF d = 0 THEN done.rem ELSE s_mp_div_2d(done.rem, d))]

NormalizedDiv(a, b, d, room) ==
    Results(Divide([rem |-> Fresh(room), quot |-> Fresh(room), t |-> Fresh(room),
                    ix |-> a.used - 1], a, b), d)

\* Quotient and remainder of a by b, not zero.
s_mp_div(a, b) ==
    LET d == s_mp_norm(b)
        Norm(mp) == IF d = 0 THEN mp ELSE s_mp_mul_2d(mp, d)
    IN  IF s_mp_ispow2(b) >= 0
        THEN [q |-> s_mp_div_2d(a, s_mp_ispow2(b)),
              r |-> s_mp_mod_2d(CopyInto(a, b), s_mp_ispow2(b))]
        ELSE NormalizedDiv(Norm(a), Norm(b), d, a.used)

-----------------------------------------------------------------------------
(* Squares, quotients and remainders of numbers.                           *)

mp_sqr(h, a, b) ==
    Update(mp_copy(h, a, b), b, LAMBDA m : [s_mp_sqr(m) EXCEPT !.sign = ZPOS])

Store(h, c, m) == IF c = Null THEN h ELSE Put(h, c, m)

\* The results of a division go where they are wanted, with their signs.
StoreBoth(h, q, r, divided, sgn, rsgn) ==
    Store(Store(h, q, Signed(divided.q, sgn)), r, Signed(divided.r, rsgn))

\* The shortcuts when |a| is not more than |b| work on the results directly.
mp_div(h, a, b, q, r) ==
    LET cmp == s_mp_cmp(h[a], h[b])
        sgn == IF h[a].sign = h[b].sign THEN ZPOS ELSE NEG
        Copy(k) == IF r = Null THEN k ELSE mp_copy(k, a, r)
        Zero(k, c) == IF c = Null THEN k ELSE mp_zero(k, c)
        One(k) == IF q = Null THEN k
                  ELSE Put(k, q, [SetDigit(k[q], 1) EXCEPT !.sign = sgn])
    IN  IF mp_cmp_z(h[b]) = 0 THEN h
        ELSE IF cmp < 0 THEN Zero(Copy(h), q)
        ELSE IF cmp = 0 THEN Zero(One(h), r)
        ELSE StoreBoth(h, q, r, s_mp_div(Copied(h[a]), Copied(h[b])), sgn, h[a].sign)

\* A negative residue c gets the modulus added.
Residue(h, m, c, negative) == IF negative THEN mp_add(h, c, m, c) ELSE h

mp_mod(h, a, m, c) ==
    LET mag == s_mp_cmp(h[a], h[m])
        Divided(k) == Residue(k, m, c, k[c].sign = NEG)
        Same(k) == Residue(k, m, c, mp_cmp_z(k[a]) < 0)
    IN  IF h[m].sign = NEG \/ (mag > 0 /\ IsZero(h[m])) THEN h
        ELSE IF mag > 0 THEN Divided(mp_div(h, a, m, Null, c))
        ELSE IF mag < 0 THEN Same(mp_copy(h, a, c))
        ELSE mp_zero(h, c)

\* Of numbers that nobody names.
ModValue(x, m) == mp_mod([x |-> x, m |-> m], "x", "m", "x")["x"]

-----------------------------------------------------------------------------
(* Arithmetic modulo m.                                                    *)

mp_addmod(h, a, b, m, c) == mp_mod(mp_add(h, a, b, c), c, m, c)
mp_submod(h, a, b, m, c) == mp_mod(mp_sub(h, a, b, c), c, m, c)
mp_mulmod(h, a, b, m, c) == mp_mod(mp_mul(h, a, b, c), c, m, c)
mp_sqrmod(h, a, m, c) == mp_mod(mp_sqr(h, a, c), c, m, c)
=============================================================================
