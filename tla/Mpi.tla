-------------------------------- MODULE Mpi --------------------------------
(***************************************************************************)
(* Sequences of all calls of src/mpi/mpi.c on a few mp_ints: to those of   *)
(* MpiCalls come powers, roots and number theory.                          *)
(***************************************************************************)
EXTENDS MpiCalls, MpiTheory

CONSTANTS
    Start,          \* how the mp_ints may begin, and the number of calls then made
    MaxBase,        \* bound on the bases of powers
    MaxExponent     \* bound on their exponents

ASSUME MpiRunAssumption ==
    \A s \in Start : s.calls \in Nat /\ s.exact \in BOOLEAN

\* As mp_set_int leaves numbers of the default precision, or as mp_init_copy leaves
\* copies of them, in storage for just their digits.
Init ==
    \E start \in Start :
        /\ val = start.val
        /\ calls = start.calls
        /\ overrun = {}
        /\ reg = [r \in Regs |-> LET m == mp_set_int(mp_init, start.val[r])
                                 IN  IF start.exact THEN Copied(m) ELSE m]

Gcd(m, n) ==
    IF m = 0 \/ n = 0
    THEN Magn(m + n)
    ELSE Max({d \in 1 .. Magn(m) : Magn(m) % d = 0 /\ Magn(n) % d = 0})

ToThe(a, n) == IF n = 0 THEN 1 ELSE a ^ n

\* Powers small enough to compute.
Raisable(a, n) == Magn(a) <= MaxBase /\ n <= MaxExponent

-----------------------------------------------------------------------------
(* Powers and roots.                                                       *)

ExptD ==
    \E a, c \in Regs, d \in Digits :
        /\ Raisable(val[a], d)
        /\ Returns("mp_expt_d", mp_expt_d(reg, a, d, c), c, ToThe(val[a], d))

\* A negative base gets the wrong sign.
Expt ==
    \E a, b, c \in Regs :
        /\ val[a] >= 0 /\ Raisable(val[a], val[b])
        /\ Returns("mp_expt", mp_expt(reg, a, b, c), c,
                   IF val[b] < 0 THEN val[c] ELSE ToThe(val[a], val[b]))

Root(n) == Max({x \in 0 .. n : x * x <= n})

Sqrt ==
    \E a, c \in Regs :
        Returns("mp_sqrt", mp_sqrt(reg, a, c), c, IF val[a] < 0 THEN val[c] ELSE Root(val[a]))

\* The power 0 is 1, even modulo 1.
ExptMod ==
    \E a, b, m, c \in Regs :
        /\ Raisable(val[a], val[b])
        /\ val[b] # 0 \/ val[m] # 1
        /\ Returns("mp_exptmod", mp_exptmod(reg, a, b, m, c), c,
                   IF val[b] < 0 \/ val[m] <= 0 THEN val[c] ELSE ToThe(val[a], val[b]) % val[m])

\* The sign of the base is lost.
ExptModD ==
    \E a, m, c \in Regs, d \in Digits :
        /\ Raisable(val[a], d)
        /\ val[a] >= 0 /\ val[m] > 0
        /\ d # 0 \/ val[m] # 1
        /\ Returns("mp_exptmod_d", mp_exptmod_d(reg, a, d, m, c), c, ToThe(val[a], d) % val[m])

-----------------------------------------------------------------------------
(* Number theory.                                                          *)

GcdOf ==
    \E a, b, c \in Regs :
        Returns("mp_gcd", mp_gcd(reg, a, b, c), c,
                IF val[a] = 0 /\ val[b] = 0 THEN val[c] ELSE Gcd(val[a], val[b]))

Lcm ==
    \E a, b, c \in Regs :
        Returns("mp_lcm", mp_lcm(reg, a, b, c), c,
                IF val[a] = 0 /\ val[b] = 0 THEN val[c]
                ELSE Quotient(val[a] * val[b], Gcd(val[a], val[b])))

\* Any x and y will do if they make the gcd, as val is made to say.  The signs of a
\* and b are lost, and for a = 0 the function does not return.
XgcdGives(h, a, b, g, x, y) ==
    LET gcd == Gcd(val[a], val[b])
        vx == Value(h[x])
        vy == IF y = Null THEN Quotient(gcd - val[a] * vx, val[b]) ELSE Value(h[y])
        right == val[a] * vx + val[b] * vy = gcd
    IN  Call("mp_xgcd", h,
             [r \in Regs |-> IF r = g THEN gcd
                             ELSE IF r = x THEN IF right THEN vx ELSE vx + 1
                             ELSE IF r = y THEN vy
                             ELSE val[r]])

Xgcd ==
    \E a, b, g, x \in Regs, y \in OrNull :
        /\ Cardinality({g, x, y}) = 3
        /\ val[a] > 0 /\ val[b] > 0
        /\ XgcdGives(mp_xgcd(reg, a, b, g, x, y), a, b, g, x, y)

\* Nothing is done to numbers without an inverse.
InvMod ==
    \E a, m, c \in Regs :
        /\ val[m] > 1 /\ c # m
        /\ Returns("mp_invmod", mp_invmod(reg, a, m, c), c,
                   IF val[a] = 0 \/ Gcd(val[a], val[m]) # 1
                   THEN val[c]
                   ELSE Sgn(val[a]) * CHOOSE n \in 1 .. val[m] - 1 :
                                          (n * Magn(val[a])) % val[m] = 1)

Next ==
    \/ Arithmetic
    \/ ExptD \/ Expt \/ Sqrt \/ ExptMod \/ ExptModD
    \/ GcdOf \/ Lcm \/ Xgcd \/ InvMod

Spec == Init /\ [][Next]_vars
=============================================================================
