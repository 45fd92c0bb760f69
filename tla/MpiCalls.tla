------------------------------ MODULE MpiCalls ------------------------------
(***************************************************************************)
(* Sequences of calls of src/mpi/mpi.c on a few mp_ints, in any order and  *)
(* with any of them as operands and results at once: here the arithmetic,  *)
(* plain and modulo a number, and the conversions; Mpi adds powers, roots  *)
(* and number theory.                                                      *)
(*                                                                         *)
(* val holds the integers that the documentation of the calls promises.    *)
(*                                                                         *)
(* Where a function does not do what it says for some arguments (README,   *)
(* "What the code does not keep") its action leaves them out; the guard    *)
(* that does so names them.                                                *)
(***************************************************************************)
EXTENDS MpiDivision, MpiConversions

CONSTANTS
    Regs,           \* names of mp_ints
    Digits,         \* single digits that calls are made with
    Shifts,         \* numbers of bits to shift by
    Radixes,        \* radixes of texts
    MaxMagnitude    \* bound on the values

ASSUME MpiCallsAssumption ==
    /\ Null \notin Regs            \* nor is a local variable of MpiTheory
    /\ Digits \subseteq 0 .. RADIX - 1
    /\ Shifts \subseteq Nat
    /\ Radixes \subseteq 2 .. RADIX - 1
    /\ MaxMagnitude \in Nat

VARIABLES
    reg,            \* the mp_ints
    val,            \* history: the values they should have
    overrun,        \* history: the call that wrote beyond the storage of a result
    calls           \* calls still to be made

vars == <<reg, val, overrun, calls>>

Magn(n) == IF n < 0 THEN -n ELSE n

Overruns(m) == DOMAIN m.dp # 0 .. m.alloc - 1

\* After a call the memory is h, and the values should be v.  Nothing is said of
\* what follows a write beyond the storage.
Call(name, h, v) ==
    /\ calls > 0 /\ overrun = {}
    /\ \A r \in Regs : Magn(v[r]) <= MaxMagnitude
    /\ reg' = h
    /\ val' = v
    /\ overrun' = {name : r \in {s \in Regs : Overruns(h[s])}}
    /\ calls' = calls - 1

\* One result, or two, where a null pointer takes none.
Returns(name, h, c, n) == Call(name, h, [val EXCEPT ![c] = n])

ReturnsTwo(name, h, q, m, r, n) ==
    Call(name, h, [s \in Regs |-> IF s = r THEN n ELSE IF s = q THEN m ELSE val[s]])

Sgn(n) == IF n < 0 THEN -1 ELSE IF n = 0 THEN 0 ELSE 1

OrNull == Regs \cup {Null}

\* Division truncates, and the remainder has the sign of the dividend.
Quotient(m, n) == Sgn(m) * Sgn(n) * (Magn(m) \div Magn(n))
Remainder(m, n) == Sgn(m) * (Magn(m) % Magn(n))

-----------------------------------------------------------------------------
(* The calls.                                                              *)

Copy == \E a, c \in Regs : Returns("mp_copy", mp_copy(reg, a, c), c, val[a])

Exch ==
    \E a, c \in Regs : ReturnsTwo("mp_exch", mp_exch(reg, a, c), a, val[c], c, val[a])

Zero == \E c \in Regs : Returns("mp_zero", mp_zero(reg, c), c, 0)

Set == \E c \in Regs, d \in Digits : Returns("mp_set", Put(reg, c, SetDigit(reg[c], d)), c, d)

AddD ==
    \E a, c \in Regs, d \in Digits : Returns("mp_add_d", mp_add_d(reg, a, d, c), c, val[a] + d)

SubD ==
    \E a, c \in Regs, d \in Digits : Returns("mp_sub_d", mp_sub_d(reg, a, d, c), c, val[a] - d)

MulD ==
    \E a, c \in Regs, d \in Digits : Returns("mp_mul_d", mp_mul_d(reg, a, d, c), c, val[a] * d)

\* A negative number's quotient by a digit that is no power of two loses its sign.
DivD ==
    \E a, c \in Regs, d \in Digits \ {0} :
        /\ val[a] >= 0 \/ s_mp_ispow2d(d) >= 0
        /\ Returns("mp_div_d", mp_div_d(reg, a, d, c).h, c, Quotient(val[a], d))

Mul2 == \E a, c \in Regs : Returns("mp_mul_2", mp_mul_2(reg, a, c), c, 2 * val[a])

Mul2d ==
    \E a, c \in Regs, d \in Shifts :
        Returns("mp_mul_2d", mp_mul_2d(reg, a, d, c), c, val[a] * 2 ^ d)

Div2 == \E a, c \in Regs : Returns("mp_div_2", mp_div_2(reg, a, c), c, Quotient(val[a], 2))

\* Where the quotient is a, the remainder is made of it.
Div2d ==
    \E a, q, r \in OrNull, d \in Shifts :
        /\ a # Null /\ (q # r \/ q = Null) /\ (q # a \/ r = Null)
        /\ ReturnsTwo("mp_div_2d", mp_div_2d(reg, a, d, q, r),
                      q, Quotient(val[a], 2 ^ d), r, Remainder(val[a], 2 ^ d))

Abs == \E a, c \in Regs : Returns("mp_abs", mp_abs(reg, a, c), c, Magn(val[a]))

Neg == \E a, c \in Regs : Returns("mp_neg", mp_neg(reg, a, c), c, -val[a])

Add == \E a, b, c \in Regs : Returns("mp_add", mp_add(reg, a, b, c), c, val[a] + val[b])

Sub == \E a, b, c \in Regs : Returns("mp_sub", mp_sub(reg, a, b, c), c, val[a] - val[b])

Mul == \E a, b, c \in Regs : Returns("mp_mul", mp_mul(reg, a, b, c), c, val[a] * val[b])

Sqr == \E a, c \in Regs : Returns("mp_sqr", mp_sqr(reg, a, c), c, val[a] * val[a])

Div ==
    \E a, b \in Regs, q, r \in OrNull :
        /\ q # r
        /\ IF val[b] = 0
           THEN Call("mp_div", mp_div(reg, a, b, q, r), val)
           ELSE ReturnsTwo("mp_div", mp_div(reg, a, b, q, r),
                           q, Quotient(val[a], val[b]), r, Remainder(val[a], val[b]))

TwoExpt == \E c \in Regs, k \in Shifts : Returns("mp_2expt", mp_2expt(reg, c, k), c, 2 ^ k)

-----------------------------------------------------------------------------
(* Modular arithmetic.  A result in the place of the modulus would destroy *)
(* it, where the modulus is needed after the result.                       *)

Mod ==
    \E a, m, c \in Regs :
        /\ val[m] # 0
        /\ c = m => val[a] >= 0 \/ val[m] < 0
        /\ Returns("mp_mod", mp_mod(reg, a, m, c), c,
                   IF val[m] < 0 THEN val[c] ELSE val[a] % val[m])

AddMod ==
    \E a, b, m, c \in Regs :
        /\ val[m] > 0 /\ c # m
        /\ Returns("mp_addmod", mp_addmod(reg, a, b, m, c), c, (val[a] + val[b]) % val[m])

SubMod ==
    \E a, b, m, c \in Regs :
        /\ val[m] > 0 /\ c # m
        /\ Returns("mp_submod", mp_submod(reg, a, b, m, c), c, (val[a] - val[b]) % val[m])

MulMod ==
    \E a, b, m, c \in Regs :
        /\ val[m] > 0 /\ c # m
        /\ Returns("mp_mulmod", mp_mulmod(reg, a, b, m, c), c, (val[a] * val[b]) % val[m])

SqrMod ==
    \E a, m, c \in Regs :
        /\ val[m] > 0 /\ c # m
        /\ Returns("mp_sqrmod", mp_sqrmod(reg, a, m, c), c, (val[a] * val[a]) % val[m])

-----------------------------------------------------------------------------
(* Conversions there and back.                                             *)

SetInt ==
    \E a, c \in Regs :
        /\ Magn(val[a]) <= IntMax
        /\ Returns("mp_set_int", Put(reg, c, mp_set_int(reg[c], val[a])), c, val[a])

Bytes ==
    \E a, c \in Regs :
        Returns("mp_read_unsigned_bin",
                Put(reg, c, mp_read_unsigned_bin(reg[c], mp_to_unsigned_bin(reg[a]))),
                c, Magn(val[a]))

SignedBytes ==
    \E a, c \in Regs :
        Returns("mp_read_signed_bin",
                Put(reg, c, mp_read_signed_bin(reg[c], mp_to_signed_bin(reg[a]))), c, val[a])

\* A positive number that begins with the digit "+" is read without it.
Text ==
    \E a, c \in Regs, r \in Radixes :
        LET str == mp_toradix(reg[a], r)
        IN  /\ str.minus \/ Head(str.digits) # Plus
            /\ Returns("mp_read_radix", Put(reg, c, mp_read_radix(reg[c], str, r)), c, val[a])

-----------------------------------------------------------------------------
Arithmetic ==
    \/ Copy \/ Exch \/ Zero \/ Set \/ AddD \/ SubD \/ MulD \/ DivD
    \/ Mul2 \/ Mul2d \/ Div2 \/ Div2d \/ Abs \/ Neg \/ Add \/ Sub \/ Mul
    \/ Sqr \/ Div \/ TwoExpt
    \/ Mod \/ AddMod \/ SubMod \/ MulMod \/ SqrMod
    \/ SetInt \/ Bytes \/ SignedBytes \/ Text

\* As mp_init_size leaves them, whatever precision is asked for.
Begin ==
    /\ reg \in [Regs -> {Fresh(prec) : prec \in Nat \ {0}}]
    /\ val = [r \in Regs |-> 0]
    /\ overrun = {}
    /\ calls \in Nat

ArithmeticSpec == Begin /\ [][Arithmetic]_vars

-----------------------------------------------------------------------------
(* Properties.                                                             *)

\* What the digits from i up are worth.
Worth(m) ==
    LET sum[i \in 0 .. m.used] == IF i = m.used THEN 0 ELSE m.dp[i] + RADIX * sum[i + 1]
    IN  sum

Value(m) == IF m.sign = NEG THEN -Worth(m)[0] ELSE Worth(m)[0]

\* Signs, sizes and digits are such, and the storage is all there.
TypeOK ==
    /\ \A r \in Regs :
          /\ reg[r].sign \in {ZPOS, NEG}
          /\ reg[r].alloc \in Nat \ {0} /\ reg[r].used \in Nat \ {0}
          /\ 0 .. reg[r].alloc - 1 \subseteq DOMAIN reg[r].dp
          /\ 0 .. reg[r].used - 1 \subseteq DOMAIN reg[r].dp
          /\ \A i \in DOMAIN reg[r].dp : reg[r].dp[i] \in 0 .. RADIX - 1
    /\ val \in [Regs -> Int]
    /\ calls \in Nat

\* Every call computes what it says (mpi.c), wherever its results go: "Input
\* parameters may be re-used as output parameters", "All parameters may be
\* identical"; and it leaves the numbers that are not its results alone.
Values == \A r \in Regs : Value(reg[r]) = val[r]

\* What the comparisons, and the ends of all loops over digits, count on: the
\* leading digit is not zero, and zero is positive.
Canonical ==
    \A r \in Regs :
        /\ reg[r].used > 1 => reg[r].dp[reg[r].used - 1] # 0
        /\ IsZero(reg[r]) => reg[r].sign = ZPOS

\* "Maintains the invariant that digits above the precision are all zero" (s_mp_rshd,
\* mpi.c:2862), and "should already be 0-filled" (s_mp_pad, mpi.c:2703): a number may
\* grow into its storage at any time.
CleanAbove ==
    \A r \in Regs : \A i \in DOMAIN reg[r].dp : i >= reg[r].used => reg[r].dp[i] = 0

\* "the above test guarantees we have enough storage to do this safely" (mpi.c:3200)
\* is not so in s_mp_mul_d; everything else stays within the storage.
OverrunOnlyTimesDigit == overrun \subseteq {"mp_mul_d", "mp_read_radix"}

\* Numbers are ordered as their values are, whatever their storage is.
Comparisons ==
    \A r, s \in Regs :
        /\ mp_cmp(reg[r], reg[s]) = Sgn(val[r] - val[s])
        /\ s_mp_cmp(reg[r], reg[s]) = Sgn(Magn(val[r]) - Magn(val[s]))
        /\ mp_cmp_z(reg[r]) = Sgn(val[r])
        /\ \A d \in Digits : mp_cmp_d(reg[r], d) = Sgn(val[r] - d)

\* What calls answer that change nothing.  mp_to_unsigned_bin fills just the bytes that
\* mp_unsigned_bin_size counts.  Of a text mp_radix_size may miss one character, no
\* more: mpToDecimalString (ppp.c:324) allocates enough to spare.  Remainders by
\* digits, and comparisons with integers, are those of the values.
Answers ==
    \A r \in Regs :
        /\ Len(mp_to_unsigned_bin(reg[r])) = mp_unsigned_bin_size(reg[r])
        /\ \A x \in Radixes :
              LET str == mp_toradix(reg[r], x)
                  text == Len(str.digits) + IF str.minus THEN 1 ELSE 0
              IN  text <= mp_radix_size(reg[r], x)
        /\ \A s \in Regs : Magn(val[s]) <= IntMax => mp_cmp_int(reg[r], val[s]) = Sgn(val[r] - val[s])
        /\ \A d \in Digits :
              val[r] >= 0 /\ d \notin {0, val[r]} => mp_mod_d(reg, r, d) = val[r] % d

=============================================================================
