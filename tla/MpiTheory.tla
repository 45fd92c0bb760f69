----------------------------- MODULE MpiTheory -----------------------------
(***************************************************************************)
(* What src/mpi/mpi.c makes of products and quotients: powers, roots,      *)
(* powers modulo a number, greatest common divisors and inverses.          *)
(***************************************************************************)
EXTENDS MpiDivision, MpiConversions, Loops

-----------------------------------------------------------------------------
(* Powers and roots.                                                       *)

\* for(ix = 0; ix < n; ++ix).
Turns(turn(_, _), start, n) == Iterated(turn, start, 0, n - 1)

\* The bits of an exponent, the lowest first: all the bits of a digit but of the
\* leading one, where the loop ends with the highest 1.
ExponentBits(b) == (b.used - 1) * DigitBit + BitsOfDigit(b.dp[b.used - 1])

Bit(b, i) == (b.dp[i \div DigitBit] \div 2 ^ (i % DigitBit)) % 2

\* The loop of the power functions over the bits: s is multiplied by x when the
\* bit is 1, and x is squared; Reduce is what is done to each product.
Power(a, b, Reduce(_)) ==
    LET turn(t, i) ==
            [s |-> IF Bit(b, i) = 1 THEN Reduce(s_mp_mul(t.s, t.x)) ELSE t.s,
             x |-> Reduce(s_mp_sqr(t.x))]
    IN  Turns(turn, [s |-> SetDigit(mp_init, 1), x |-> a], ExponentBits(b)).s

OneDigit(d) == SetDigit(Fresh(1), d)

mp_expt_d(h, a, d, c) ==
    Put(h, c, [Power(Copied(h[a]), OneDigit(d), LAMBDA m : m)
                 EXCEPT !.sign = IF d % 2 = 1 THEN h[a].sign ELSE ZPOS])

\* The sign of the base goes to the result when the exponent is even.
ExptSigned(s, a, b) == [s EXCEPT !.sign = IF mp_isodd(b) THEN s.sign ELSE a.sign]

mp_expt(h, a, b, c) ==
    IF mp_cmp_z(h[b]) < 0
    THEN h
    ELSE Put(h, c, CopyInto(
             ExptSigned(Power(Copied(h[a]), h[b], LAMBDA m : m), h[a], h[b]), h[c]))

\* t = (x * x - a) / 2x, with x doubled in the meantime.
Correction(h) ==
    LET Excess(k) == mp_sub(mp_sqr(mp_copy(k, "x", "t"), "t", "t"), "t", "a", "t")
        Quot(k) == mp_div(Update(k, "x", s_mp_mul_2), "t", "x", "t", Null)
    IN  Update(Quot(Excess(h)), "x", s_mp_div_2)

\* Newton's iteration from above; what is left is one more than the root.
RECURSIVE Newton(_)
Newton(h) ==
    LET Onward(k) ==
            IF mp_cmp_z(k["t"]) = 0 THEN k["x"] ELSE Newton(mp_sub(k, "x", "t", "x"))
    IN  Onward(Correction(h))

mp_sqrt(h, a, b) ==
    LET x == Newton([a |-> h[a], x |-> Copied(h[a]), t |-> Fresh(h[a].used)])
    IN  IF h[a].sign = NEG THEN h
        ELSE IF mp_cmp_d(h[a], 0) = 0 \/ mp_cmp_d(h[a], 1) = 0 THEN mp_copy(h, a, b)
        ELSE Put(h, b, mp_sub_d([x |-> x], "x", 1, "x")["x"])

-----------------------------------------------------------------------------
(* Powers modulo m.                                                        *)

RECURSIVE SubtractWhileMore(_, _)
SubtractWhileMore(x, m) == IF mp_cmp(x, m) >= 0 THEN SubtractWhileMore(s_mp_sub(x, m), m) ELSE x

\* Barrett reduction of x by m with mu = RADIX^(2 * USED(m)) / m.  It takes from
\* the low digits of x those of q3 * m, and a borrow is put back.
BarrettQ3(x, m, mu) ==
    s_mp_rshd(s_mp_mul(s_mp_rshd(Copied(x), m.used - 1), mu), m.used + 1)

BorrowBack(h, digits) ==
    LET Power0(k) == Update(k, "q", LAMBDA q : s_mp_lshd(SetDigit(q, 1), digits))
    IN  IF mp_cmp_z(h["x"]) < 0 THEN mp_add(Power0(h), "x", "q", "x") ELSE h

s_mp_reduce(x, m, mu) ==
    LET Low(mp) == s_mp_mod_2d(mp, DigitBit * (m.used + 1))
        h == [x |-> Low(x), q |-> Low(s_mp_mul(BarrettQ3(x, m, mu), m))]
    IN  SubtractWhileMore(BorrowBack(mp_sub(h, "x", "q", "x"), m.used + 1)["x"], m)

\* The power that mu is a quotient of.
BarrettPower(m) == s_mp_lshd(s_mp_add_d(mp_init, 1), 2 * m.used)

mp_exptmod(h, a, b, m, c) ==
    LET mu == mp_div([m |-> h[m], mu |-> BarrettPower(h[m])], "mu", "m", "mu", Null)["mu"]
        Raised(k) == Power(ModValue(Copied(h[a]), h[m]), h[b],
                           LAMBDA x : s_mp_reduce(x, h[m], k))
    IN  IF mp_cmp_z(h[b]) < 0 \/ mp_cmp_z(h[m]) <= 0
        THEN h
        ELSE Put(h, c, Raised(mu))

\* mp_exptmod_d, for m not negative.
mp_exptmod_d(h, a, d, m, c) ==
    Put(h, c, Power(Copied(h[a]), OneDigit(d), LAMBDA x : ModValue(x, h[m])))

-----------------------------------------------------------------------------
(* Greatest common divisors and inverses.                                  *)

IsOdd(h, r) == mp_isodd(h[r])
Halve(h, r) == Put(h, r, s_mp_div_2(h[r]))

\* Common factors of 2 of u and v go, and are counted in k.
RECURSIVE HalveBoth(_)
HalveBoth(s) ==
    IF mp_isodd(s.u) \/ mp_isodd(s.v) THEN s
    ELSE HalveBoth([u |-> s_mp_div_2(s.u), v |-> s_mp_div_2(s.v), k |-> s.k + 1])

\* t, odd, replaces u or v according to its sign, and becomes their difference.
Replace(h) ==
    LET Minus(m) == [m EXCEPT !.sign = 1 - h["t"].sign]
    IN  mp_sub(IF mp_cmp_z(h["t"]) = 1
               THEN mp_copy(h, "t", "u")
               ELSE Update(mp_copy(h, "t", "v"), "v", Minus), "u", "v", "t")

\* The loop of mp_gcd.
RECURSIVE Stein(_)
Stein(h) ==
    LET Onward(k) == IF IsZero(k["t"]) THEN k ELSE Stein(k)
    IN  IF IsOdd(h, "t") THEN Onward(Replace(h)) ELSE Stein(Halve(h, "t"))

\* u * v * 2^k, where k factors of 2 had been taken out.
SteinStart(both, c) ==
    [u |-> both.u, v |-> both.v, c |-> c,
     t |-> IF mp_isodd(both.u)
           THEN [CopyInto(both.v, mp_init) EXCEPT !.sign = NEG]
           ELSE CopyInto(both.u, mp_init)]

SteinGcd(both, c) ==
    mp_mul(Update(Stein(SteinStart(both, c)), "v", LAMBDA v : s_mp_2expt(v, both.k)),
           "u", "v", "c")["c"]

WithoutTwos(a, b) == HalveBoth([u |-> Magnitude(a), v |-> Magnitude(b), k |-> 0])

mp_gcd(h, a, b, c) ==
    IF mp_cmp_z(h[a]) = 0 /\ mp_cmp_z(h[b]) = 0 THEN h
    ELSE IF mp_cmp_z(h[a]) = 0 THEN mp_abs(h, b, c)
    ELSE IF mp_cmp_z(h[b]) = 0 THEN mp_abs(h, a, c)
    ELSE Put(h, c, SteinGcd(WithoutTwos(h[a], h[b]), h[c]))

mp_lcm(h, a, b, c) ==
    LET Both(k) == mp_gcd(mp_mul(k, a, b, "prod"), a, b, "gcd")
    IN  IF mp_cmp_z(h[a]) = 0 /\ mp_cmp_z(h[b]) = 0
        THEN h
        ELSE Put(h, c, mp_div(Both(h @@ [prod |-> mp_init, gcd |-> mp_init]),
                              "prod", "gcd", c, Null)[c])

\* The loops of mp_xgcd keep A*xc + B*yc = u and C*xc + D*yc = v.
HalveWith(h, w, m, n) ==
    IF ~IsOdd(h, m) /\ ~IsOdd(h, n)
    THEN Halve(Halve(Halve(h, w), m), n)
    ELSE Halve(mp_sub(Halve(mp_add(Halve(h, w), m, "yc", m), m), n, "xc", n), n)

\* The row of the second triple taken from that of the first.
Less(h, first, second) ==
    LET Sub(k, i) == mp_sub(k, first[i], second[i], first[i])
    IN  FoldLeft(Sub, h, <<1, 2, 3>>)

UABrow == <<"u", "A", "B">>
VCDrow == <<"v", "C", "D">>

RECURSIVE Bezout(_)
Bezout(h) ==
    LET Onward(k) == IF mp_cmp_z(k["u"]) = 0 THEN k ELSE Bezout(k)
    IN  IF ~IsOdd(h, "u") THEN Bezout(HalveWith(h, "u", "A", "B"))
        ELSE IF ~IsOdd(h, "v") THEN Bezout(HalveWith(h, "v", "C", "D"))
        ELSE Onward(IF mp_cmp(h["u"], h["v"]) >= 0
                    THEN Less(h, UABrow, VCDrow) ELSE Less(h, VCDrow, UABrow))

RECURSIVE DoubleTimes(_, _)
DoubleTimes(m, k) == IF k = 0 THEN m ELSE DoubleTimes(s_mp_mul_2(m), k - 1)

One == SetDigit(mp_init, 1)

BezoutStart(both) ==
    [xc |-> both.u, yc |-> both.v,
     u |-> CopyInto(both.u, mp_init), v |-> CopyInto(both.v, mp_init),
     A |-> One, B |-> mp_init, C |-> mp_init, D |-> One,
     gx |-> DoubleTimes(One, both.k)]

\* g, x and y of mp_xgcd as values, for a and b not zero: with a = 0 the loop that
\* makes u odd does not end.
BezoutOf(a, b) == Bezout(BezoutStart(WithoutTwos(a, b)))

\* Outputs in the order of the code: y over x, g over both.
BezoutResults(h, done, g, x, y) ==
    LET Copy(k, c, m) == IF c = Null THEN k ELSE Put(k, c, CopyInto(m, k[c]))
        Gcd0(k) == Put(k, g, mp_mul(done @@ [g |-> k[g]], "gx", "v", "g")["g"])
    IN  Gcd0(Copy(Copy(h, x, done["C"]), y, done["D"]))

mp_xgcd(h, a, b, g, x, y) ==
    IF mp_cmp_z(h[b]) = 0 THEN h ELSE BezoutResults(h, BezoutOf(h[a], h[b]), g, x, y)

\* The sign of a goes to the inverse of |a|; without an inverse c keeps its number.
Inverted(h, done, sa, m, c) ==
    LET gcd == mp_mul(done, "gx", "v", "v")["v"]
        k == mp_mod(h @@ [x |-> CopyInto(done["C"], mp_init)], "x", m, c)
    IN  IF mp_cmp_d(gcd, 1) # 0 THEN h ELSE Put(h, c, [k[c] EXCEPT !.sign = sa])

mp_invmod(h, a, m, c) ==
    IF mp_cmp_z(h[a]) = 0 \/ mp_cmp_z(h[m]) = 0
    THEN h
    ELSE Inverted(h, BezoutOf(h[a], h[m]), h[a].sign, m, c)
=============================================================================
