----------------------------- MODULE MpiProofs -----------------------------
(***************************************************************************)
(* The calls of MpiNumbers compute what they promise, for every radix,     *)
(* every precision and numbers of any length.                              *)
(*                                                                         *)
(* From the bottom: loops over digits, by induction; what digits are worth *)
(* (Above) and what makes two numbers the same, less or more; each         *)
(* function on digits; and each call on the memory, with all the ways in   *)
(* which its operands and its result may be the same mp_int.               *)
(*                                                                         *)
(* s_mp_cmp, s_mp_add and s_mp_sub are right because the leading digits    *)
(* are not zero, numbers may be padded in place because the storage above  *)
(* them is clear, and both hold because every call leaves them so: none of *)
(* Values, Canonical and CleanAbove is inductive without the other two.    *)
(***************************************************************************)
EXTENDS MpiCalls, FiniteSetTheorems, WellFoundedInduction, TLAPS

\* The naturals are well-founded, as the library proves.
LEMMA NatOrder == IsWellFoundedOn({ss \in Nat \X Nat : ss[1] < ss[2]}, Nat)
  BY NatLessThanWellFounded DEF OpToRel

\* A set of naturals has a least element.
LEMMA Least ==
  ASSUME NEW T \in SUBSET Nat, T # {}
  PROVE  \E x \in T : \A y \in T : x <= y
  <1> DEFINE R == {ss \in Nat \X Nat : ss[1] < ss[2]}
  <1>1. IsWellFoundedOn(R, Nat)
    BY NatOrder
  <1>2. \A x, y \in Nat : x < y => <<x, y>> \in R
    OBVIOUS
  <1> HIDE DEF R
  <1>3. PICK x \in T : \A y \in T : ~ (<<y, x>> \in R)
    BY <1>1, WFMin
  <1>4. ASSUME NEW y \in T, ~ x <= y
        PROVE  FALSE
    <2>1. x \in Nat /\ y \in Nat /\ y < x
      BY <1>4
    <2>2. <<y, x>> \in R
      BY <1>2, <2>1
    <2> QED BY <1>3, <2>2
  <1> QED BY <1>4

\* Induction over the naturals.
LEMMA Induction ==
  ASSUME NEW T \in SUBSET Nat, 0 \in T, \A n \in T : n + 1 \in T
  PROVE  T = Nat
  <1> SUFFICES ASSUME T # Nat PROVE FALSE
    OBVIOUS
  <1>1. PICK x \in Nat \ T : \A y \in Nat \ T : x <= y
    BY Least
  <1>2. x # 0 /\ x - 1 \in Nat
    BY <1>1
  <1>3. x - 1 \in T
    BY <1>1, <1>2
  <1>4. (x - 1) + 1 \in T
    BY <1>3
  <1> QED BY <1>1, <1>4

\* A loop from 0 up to n.
LEMMA Upwards ==
  ASSUME NEW n \in Nat, NEW P, 0 \in P, \A i \in 1 .. n : i - 1 \in P => i \in P
  PROVE  \A i \in 0 .. n : i \in P
  <1> DEFINE T == {i \in Nat : i <= n => i \in P}
  <1>1. \A i \in T : i + 1 \in T
    <2> SUFFICES ASSUME NEW i \in Nat, i <= n => i \in P, i + 1 <= n
                 PROVE  i + 1 \in P
      OBVIOUS
    <2>1. (i + 1) - 1 = i /\ i + 1 \in 1 .. n
      OBVIOUS
    <2> QED BY <2>1
  <1>2. T = Nat
    <2>1. 0 \in T /\ T \in SUBSET Nat
      OBVIOUS
    <2> HIDE DEF T
    <2> QED BY <1>1, <2>1, Induction
  <1> QED BY <1>2

\* A loop from n down to 0.
LEMMA Downwards ==
  ASSUME NEW n \in Nat, NEW P, n \in P, \A i \in 0 .. n - 1 : i + 1 \in P => i \in P
  PROVE  \A i \in 0 .. n : i \in P
  <1> DEFINE Q == {i \in 0 .. n : n - i \in P}
  <1>1. 0 \in Q
    OBVIOUS
  <1>2. \A i \in 1 .. n : i - 1 \in Q => i \in Q
    <2> SUFFICES ASSUME NEW i \in 1 .. n, n - (i - 1) \in P
                 PROVE  n - i \in P
      OBVIOUS
    <2>1. (n - i) + 1 = n - (i - 1) /\ n - i \in 0 .. n - 1
      OBVIOUS
    <2> QED BY <2>1
  <1> HIDE DEF Q
  <1>3. \A i \in 0 .. n : i \in Q
    BY <1>1, <1>2, Upwards
  <1> SUFFICES ASSUME NEW i \in 0 .. n PROVE i \in P
    OBVIOUS
  <1>4. n - i \in 0 .. n /\ n - (n - i) = i
    OBVIOUS
  <1>5. n - (n - i) \in P
    BY <1>3, <1>4 DEF Q
  <1> QED BY <1>4, <1>5

-----------------------------------------------------------------------------
(* Loops over digits.                                                      *)

\* No place carries anything but members of C.
Within(C, n, out) == 0 \in C /\ \A i \in 0 .. n - 1 : \A c \in C : out[i][c] \in C

\* A loop that carries from place to place.
LEMMA CarriesRun ==
  ASSUME NEW n \in Nat, NEW C, NEW out, Within(C, n, out)
  PROVE  /\ Carries(n, out) \in [0 .. n -> C]
         /\ Carries(n, out)[0] = 0
         /\ \A i \in 0 .. n - 1 : Carries(n, out)[i + 1] = out[i][Carries(n, out)[i]]
  <1> USE DEF Within
  <1> DEFINE Runs(f, k) == f[0] = 0 /\ \A i \in 0 .. k - 1 : f[i + 1] = out[i][f[i]]
             P == {k \in 0 .. n : \E f \in [0 .. k -> C] : Runs(f, k)}
  <1>1. 0 \in P
    <2> DEFINE z == [i \in 0 .. 0 |-> 0]
    <2>1. z \in [0 .. 0 -> C] /\ Runs(z, 0) /\ 0 \in 0 .. n
      OBVIOUS
    <2> HIDE DEF z
    <2> QED BY <2>1
  <1>2. \A k \in 1 .. n : k - 1 \in P => k \in P
    <2> SUFFICES ASSUME NEW k \in 1 .. n, NEW f \in [0 .. k - 1 -> C], Runs(f, k - 1)
                 PROVE  \E g \in [0 .. k -> C] : Runs(g, k)
      OBVIOUS
    <2> DEFINE g == [i \in 0 .. k |-> IF i < k THEN f[i] ELSE out[k - 1][f[k - 1]]]
    <2>1. f[k - 1] \in C /\ out[k - 1][f[k - 1]] \in C
      OBVIOUS
    <2>2. g \in [0 .. k -> C]
      BY <2>1
    <2>3. g[0] = 0
      OBVIOUS
    <2>4. ASSUME NEW i \in 0 .. k - 1
          PROVE  g[i + 1] = out[i][g[i]]
      <3>1. CASE i < k - 1
        <4>1. i \in 0 .. (k - 1) - 1 /\ i < k /\ i + 1 < k
          BY <3>1
        <4>2. g[i] = f[i] /\ g[i + 1] = f[i + 1]
          BY <4>1
        <4> QED BY <4>1, <4>2
      <3>2. CASE i = k - 1
        <4>1. g[i] = f[k - 1] /\ g[i + 1] = out[k - 1][f[k - 1]]
          BY <3>2
        <4> QED BY <3>2, <4>1
      <3> QED BY <3>1, <3>2
    <2> HIDE DEF g
    <2> QED BY <2>2, <2>3, <2>4
  <1> HIDE DEF P
  <1>3. n \in P
    BY <1>1, <1>2, Upwards
  <1>4. PICK f \in [0 .. n -> C] : Runs(f, n)
    BY <1>3 DEF P
  <1> DEFINE Is(h) == h = [i \in 0 .. n |-> IF i = 0 THEN 0 ELSE out[i - 1][h[i - 1]]]
  <1>5. Is(f)
    <2> SUFFICES ASSUME NEW i \in 0 .. n
                 PROVE  f[i] = IF i = 0 THEN 0 ELSE out[i - 1][f[i - 1]]
      OBVIOUS
    <2>1. CASE i # 0
      <3>1. i - 1 \in 0 .. n - 1 /\ (i - 1) + 1 = i
        BY <2>1
      <3> QED BY <1>4, <3>1
    <2> QED BY <1>4, <2>1
  <1>6. Carries(n, out) = CHOOSE h : Is(h)
    BY DEF Carries
  <1>7. Is(Carries(n, out))
    BY <1>5, <1>6
  <1> DEFINE F == Carries(n, out)
  <1>8. F = [i \in 0 .. n |-> IF i = 0 THEN 0 ELSE out[i - 1][F[i - 1]]]
    BY <1>7
  <1> HIDE DEF F
  <1>9. F[0] = 0
    BY <1>8
  <1>10. ASSUME NEW i \in 0 .. n - 1
         PROVE  F[i + 1] = out[i][F[i]]
    <2>1. i + 1 \in 0 .. n /\ i + 1 # 0 /\ (i + 1) - 1 = i
      OBVIOUS
    <2> QED BY <1>8, <2>1
  <1>11. \A i \in 0 .. n : F[i] \in C
    <2> DEFINE Q == {i \in 0 .. n : F[i] \in C}
    <2>1. 0 \in Q
      BY <1>9
    <2>2. \A i \in 1 .. n : i - 1 \in Q => i \in Q
      <3> SUFFICES ASSUME NEW i \in 1 .. n, i - 1 \in Q PROVE i \in Q
        OBVIOUS
      <3>1. F[i - 1] \in C /\ i \in 0 .. n /\ i - 1 \in 0 .. n - 1 /\ (i - 1) + 1 = i
        OBVIOUS
      <3>2. F[i] \in C
        BY <1>10, <3>1
      <3> QED BY <3>1, <3>2
    <2> HIDE DEF Q
    <2>3. \A i \in 0 .. n : i \in Q
      BY <2>1, <2>2, Upwards
    <2> QED BY <2>3 DEF Q
  <1>12. F \in [0 .. n -> C]
    BY <1>8, <1>11
  <1> QED BY <1>9, <1>10, <1>12 DEF F

-----------------------------------------------------------------------------
(* What digits are worth.                                                  *)

Digit == 0 .. RADIX - 1

\* Powers of 2, as the numbers of subsets.
LEMMA TwoTo ==
  ASSUME NEW n \in Nat
  PROVE  2 ^ n \in Nat /\ 2 ^ n > 0 /\ 2 ^ (n + 1) = 2 ^ n + 2 ^ n
  <1> DEFINE N == 1 .. n
             T == SUBSET N
             U == {X \cup {n + 1} : X \in T}
             f == [X \in T |-> X \cup {n + 1}]
  <1>1. IsFiniteSet(N) /\ Cardinality(N) = n
    BY FS_Interval
  <1>2. N \cup {n + 1} = 1 .. n + 1 /\ n + 1 \notin N
    OBVIOUS
  <1>3. IsFiniteSet(N \cup {n + 1}) /\ Cardinality(N \cup {n + 1}) = n + 1
    BY <1>1, <1>2, FS_AddElement
  <1> HIDE DEF N
  <1>4. IsFiniteSet(T) /\ Cardinality(T) = 2 ^ n
    BY <1>1, FS_SUBSET
  <1>5. Cardinality(SUBSET (N \cup {n + 1})) = 2 ^ (n + 1)
    BY <1>3, FS_SUBSET
  <1>6. SUBSET (N \cup {n + 1}) = T \cup U
    <2>1. ASSUME NEW Y \in SUBSET (N \cup {n + 1}) PROVE Y \in T \cup U
      <3>1. CASE n + 1 \in Y
        <4> DEFINE X == Y \ {n + 1}
        <4>1. X \in T /\ Y = X \cup {n + 1}
          BY <3>1
        <4> HIDE DEF X
        <4> QED BY <4>1
      <3>2. CASE n + 1 \notin Y
        BY <3>2
      <3> QED BY <3>1, <3>2
    <2> QED BY <2>1
  <1>7. T \cap U = {}
    BY <1>2
  <1>8. f \in Bijection(T, U)
    <2>1. f \in [T -> U]
      OBVIOUS
    <2>2. \A X, Y \in T : f[X] = f[Y] => X = Y
      BY <1>2
    <2>3. \A Z \in U : \E X \in T : f[X] = Z
      OBVIOUS
    <2> HIDE DEF f, T, U
    <2> QED BY <2>1, <2>2, <2>3 DEF Bijection, Injection, Surjection, IsInjective
  <1> HIDE DEF T, U, f
  <1>9. IsFiniteSet(U) /\ Cardinality(U) = 2 ^ n
    BY <1>4, <1>8, FS_Bijection DEF ExistsBijection
  <1>10. Cardinality(T \cup U) = Cardinality(T) + Cardinality(U) - Cardinality(T \cap U)
    BY <1>4, <1>9, FS_Union
  <1>11. Cardinality(T) \in Nat /\ Cardinality({}) = 0
    BY <1>4, FS_CardinalityType, FS_EmptySet
  <1>12. 2 ^ n > 0
    <2>1. {} \in T
      BY DEF T
    <2>2. Cardinality(T) # 0
      BY <1>4, <2>1, FS_EmptySet
    <2> QED BY <1>4, <1>11, <2>2
  <1>13. 2 ^ (n + 1) = 2 ^ n + 2 ^ n - 0
    BY <1>4, <1>5, <1>6, <1>7, <1>9, <1>10, <1>11
  <1>14. 2 ^ n \in Nat
    BY <1>4, <1>11
  <1>15. 2 ^ (n + 1) = 2 ^ n + 2 ^ n
    <2> DEFINE x == 2 ^ n
    <2>1. x + x - 0 = x + x
      <3>1. x \in Nat
        BY <1>14
      <3> HIDE DEF x
      <3> QED BY <3>1
    <2> QED BY <1>13, <2>1
  <1> QED BY <1>12, <1>14, <1>15
\* The radix is twice a power of 2.
LEMMA HalfIs ==
  LET H == 2 ^ (DigitBit - 1) IN H \in Nat /\ H > 0 /\ RADIX = H + H
  <1> DEFINE n == DigitBit - 1
  <1>1. n \in Nat /\ n + 1 = DigitBit
    BY MpiAssumption
  <1> HIDE DEF n
  <1>2. 2 ^ n \in Nat /\ 2 ^ n > 0 /\ 2 ^ (n + 1) = 2 ^ n + 2 ^ n
    BY <1>1, TwoTo
  <1>3. 2 ^ n \in Nat /\ 2 ^ n > 0 /\ RADIX = 2 ^ n + 2 ^ n
    BY <1>1, <1>2 DEF RADIX
  <1> QED BY <1>3 DEF n

\* The radix is at least 2.
LEMMA RadixIs == RADIX \in Nat /\ RADIX > 1 /\ 0 \in Digit /\ Digit \subseteq Nat
  <1> DEFINE H == 2 ^ (DigitBit - 1)
  <1>1. H \in Nat /\ H > 0 /\ RADIX = H + H
    BY HalfIs
  <1> HIDE DEF H
  <1>2. RADIX \in Nat /\ RADIX > 1
    BY <1>1
  <1> QED BY <1>2 DEF Digit

\* Two sums with the same digits are the same: what is 0 above all digits is 0.
LEMMA Vanishes ==
  ASSUME NEW n \in Nat, NEW X \in [0 .. n -> Int], X[n] = 0,
         \A i \in 0 .. n - 1 : X[i] = RADIX * X[i + 1]
  PROVE  \A i \in 0 .. n : X[i] = 0
  <1> DEFINE P == {i \in 0 .. n : X[i] = 0}
  <1>1. n \in P
    OBVIOUS
  <1>2. \A i \in 0 .. n - 1 : i + 1 \in P => i \in P
    BY RadixIs
  <1> HIDE DEF P
  <1>3. \A i \in 0 .. n : i \in P
    BY <1>1, <1>2, Downwards
  <1> QED BY <1>3 DEF P

\* The first digit from above that differs decides.
LEMMA Dominates ==
  ASSUME NEW n \in Nat, NEW X \in [0 .. n -> Int], X[n] > 0,
         \A i \in 0 .. n - 1 : X[i] > RADIX * X[i + 1] - RADIX
  PROVE  \A i \in 0 .. n : X[i] > 0
  <1> DEFINE P == {i \in 0 .. n : X[i] > 0}
  <1>1. n \in P
    OBVIOUS
  <1>2. \A i \in 0 .. n - 1 : i + 1 \in P => i \in P
    <2> SUFFICES ASSUME NEW i \in 0 .. n - 1, i + 1 \in P PROVE i \in P
      OBVIOUS
    <2>1. X[i + 1] \in Int /\ X[i + 1] > 0 /\ X[i] \in Int /\ X[i] > RADIX * X[i + 1] - RADIX
      OBVIOUS
    <2>2. \A R, x \in Int : R > 1 /\ x > 0 => R * x - R >= 0
      OBVIOUS
    <2>3. RADIX * X[i + 1] - RADIX >= 0
      BY <2>1, <2>2, RadixIs
    <2>4. X[i] > 0
      <3> DEFINE y == RADIX * X[i + 1] - RADIX
      <3>1. y \in Int
        BY <2>1, RadixIs
      <3> HIDE DEF y
      <3> QED BY <2>1, <2>3, <3>1 DEF y
    <2> QED BY <2>4
  <1> HIDE DEF P
  <1>3. \A i \in 0 .. n : i \in P
    BY <1>1, <1>2, Downwards
  <1> QED BY <1>3 DEF P

\* Worth is the sum of its recursion: the digit, and RADIX times what is above.
LEMMA WorthUnfolds ==
  ASSUME NEW m, m.used \in Nat, \A i \in 0 .. m.used - 1 : m.dp[i] \in Digit
  PROVE  /\ Worth(m) \in [0 .. m.used -> Nat]
         /\ Worth(m)[m.used] = 0
         /\ \A i \in 0 .. m.used - 1 : Worth(m)[i] = m.dp[i] + RADIX * Worth(m)[i + 1]
  <1> DEFINE n == m.used
             out == [i \in 0 .. n - 1 |-> [c \in Nat |-> m.dp[n - 1 - i] + RADIX * c]]
             g == Carries(n, out)
             Is(f) == f = [i \in 0 .. m.used |->
                              IF i = m.used THEN 0 ELSE m.dp[i] + RADIX * f[i + 1]]
  <1>1. \A i \in 0 .. n - 1 : \A c \in Nat : out[i][c] \in Nat
    <2> SUFFICES ASSUME NEW i \in 0 .. n - 1, NEW c \in Nat PROVE out[i][c] \in Nat
      OBVIOUS
    <2>1. n - 1 - i \in 0 .. n - 1
      OBVIOUS
    <2>2. m.dp[n - 1 - i] \in Nat
      <3>1. m.dp[n - 1 - i] \in Digit
        BY <2>1
      <3> QED BY <3>1, RadixIs
    <2>3. RADIX * c \in Nat
      BY RadixIs
    <2>4. out[i][c] = m.dp[n - 1 - i] + RADIX * c
      OBVIOUS
    <2> QED BY <2>2, <2>3, <2>4
  <1>2. /\ g \in [0 .. n -> Nat] /\ g[0] = 0
        /\ \A i \in 0 .. n - 1 : g[i + 1] = out[i][g[i]]
    <2> HIDE DEF out
    <2>1. Within(Nat, n, out) /\ n \in Nat
      BY <1>1 DEF Within
    <2> HIDE DEF n
    <2> QED BY <2>1, CarriesRun
  <1>3. \A i \in 0 .. n - 1 : g[i + 1] = m.dp[n - 1 - i] + RADIX * g[i]
    <2> HIDE DEF g
    <2> SUFFICES ASSUME NEW i \in 0 .. n - 1
                 PROVE  out[i][g[i]] = m.dp[n - 1 - i] + RADIX * g[i]
      BY <1>2
    <2>1. g[i] \in Nat
      BY <1>2
    <2> QED BY <2>1
  <1> HIDE DEF g
  <1> DEFINE f == [i \in 0 .. n |-> g[n - i]]
  <1>4. Is(f)
    <2> SUFFICES ASSUME NEW i \in 0 .. n
                 PROVE  f[i] = IF i = n THEN 0 ELSE m.dp[i] + RADIX * f[i + 1]
      OBVIOUS
    <2>1. CASE i = n
      BY <1>2, <2>1
    <2>2. CASE i # n
      <3> DEFINE j == n - (i + 1)
      <3>1. j \in 0 .. n - 1 /\ i + 1 \in 0 .. n /\ n - 1 - j = i /\ j + 1 = n - i
        BY <2>2
      <3>2. g[j + 1] = m.dp[n - 1 - j] + RADIX * g[j]
        BY <1>3, <3>1
      <3> QED BY <2>2, <3>1, <3>2
    <2> QED BY <2>1, <2>2
  <1> HIDE DEF f
  <1>5. Worth(m) = CHOOSE h : Is(h)
    BY DEF Worth
  <1>6. Is(Worth(m))
    BY <1>4, <1>5
  <1> DEFINE W == Worth(m)
  <1>7. W = [i \in 0 .. n |-> IF i = n THEN 0 ELSE m.dp[i] + RADIX * W[i + 1]]
    BY <1>6
  <1> HIDE DEF W
  <1>8. /\ DOMAIN W = 0 .. n /\ W[n] = 0
        /\ \A i \in 0 .. n - 1 : W[i] = m.dp[i] + RADIX * W[i + 1]
    <2>1. n \in 0 .. n /\ \A i \in 0 .. n - 1 : i \in 0 .. n /\ i # n
      OBVIOUS
    <2> HIDE DEF n
    <2> QED BY <1>7, <2>1
  <1>9. \A i \in 0 .. n : W[i] \in Nat
    <2> DEFINE P == {i \in 0 .. n : W[i] \in Nat}
    <2>1. n \in P
      BY <1>8
    <2>2. \A i \in 0 .. n - 1 : i + 1 \in P => i \in P
      <3> SUFFICES ASSUME NEW i \in 0 .. n - 1, i + 1 \in P PROVE i \in P
        OBVIOUS
      <3>1. m.dp[i] \in Nat /\ W[i + 1] \in Nat
        BY RadixIs
      <3>2. RADIX * W[i + 1] \in Nat
        BY <3>1, RadixIs
      <3>3. W[i] = m.dp[i] + RADIX * W[i + 1]
        BY <1>8
      <3>4. W[i] \in Nat
        BY <3>1, <3>2, <3>3
      <3> QED BY <3>4
    <2> HIDE DEF P
    <2>3. \A i \in 0 .. n : i \in P
      BY <2>1, <2>2, Downwards
    <2> QED BY <2>3 DEF P
  <1>10. W \in [0 .. n -> Nat]
    BY <1>7, <1>8, <1>9
  <1> QED BY <1>8, <1>10 DEF W

\* What the digits of m from i up are worth, for all i.
Above(m, i) == IF i < m.used THEN Worth(m)[i] ELSE 0

\* An mp_int with k digits of storage.
Mp(k) == [sign : {ZPOS, NEG}, used : 1 .. k, alloc : 1 .. k, dp : [0 .. k - 1 -> Digit]]

\* The same for every place, those above the digits in use included.
LEMMA AboveUnfolds ==
  ASSUME NEW k \in Nat, NEW m \in Mp(k), NEW i \in Nat
  PROVE  /\ DigitOf(m, i) \in Digit /\ Above(m, i) \in Nat
         /\ Above(m, i) = DigitOf(m, i) + RADIX * Above(m, i + 1)
         /\ i >= m.used => Above(m, i) = 0
  <1>1. /\ m.used \in 1 .. k /\ m.used \in Nat /\ m.used \in 0 .. m.used
        /\ \A j \in 0 .. m.used - 1 : m.dp[j] \in Digit
    BY DEF Mp
  <1>2. /\ Worth(m) \in [0 .. m.used -> Nat]
        /\ Worth(m)[m.used] = 0
        /\ \A j \in 0 .. m.used - 1 : Worth(m)[j] = m.dp[j] + RADIX * Worth(m)[j + 1]
    BY <1>1, WorthUnfolds
  <1>3. CASE i >= m.used
    <2>1. ~ i < m.used /\ ~ i + 1 < m.used
      BY <1>1, <1>3
    <2> QED BY <1>3, <2>1, RadixIs DEF DigitOf, Above
  <1>4. CASE i < m.used
    <2>1. i \in 0 .. m.used - 1 /\ i \in 0 .. m.used /\ i + 1 \in 0 .. m.used
      BY <1>1, <1>4
    <2>2. Worth(m)[i + 1] = Above(m, i + 1)
      BY <1>1, <1>2, <2>1 DEF Above
    <2>3. ~ i >= m.used
      BY <1>1, <1>4
    <2> QED BY <1>1, <1>2, <1>4, <2>1, <2>2, <2>3 DEF DigitOf, Above
  <1> QED BY <1>1, <1>3, <1>4

\* A word is a digit and a carry.
LEMMA Splits ==
  ASSUME NEW w \in Nat
  PROVE  /\ ACCUM(w) \in Digit /\ CARRYOUT(w) \in Nat
         /\ w = ACCUM(w) + RADIX * CARRYOUT(w)
  <1>1. \A R \in Nat : R > 1 => /\ w % R \in 0 .. R - 1 /\ w \div R \in Nat
                                /\ w = (w % R) + R * (w \div R)
    OBVIOUS
  <1> QED BY <1>1, RadixIs DEF ACCUM, CARRYOUT, Digit

\* What is carried out of less than q times the radix is less than q.
LEMMA CarryBound ==
  ASSUME NEW w \in Nat, NEW q \in Nat, w < RADIX * q
  PROVE  CARRYOUT(w) < q
  <1>1. \A R, c, x, y \in Nat : R > 1 /\ x < R * y /\ x = R * c => c < y
    <2> SUFFICES ASSUME NEW R \in Nat, NEW c \in Nat, NEW y \in Nat, R > 1, R * c < R * y, c >= y
                 PROVE  FALSE
      OBVIOUS
    <2>1. PICK e \in Nat : c = y + e
      <3>1. c - y \in Nat /\ c = y + (c - y)
        OBVIOUS
      <3> QED BY <3>1
    <2>2. R * c = R * y + R * e /\ R * e \in Nat /\ R * y \in Nat
      BY <2>1
    <2> QED BY <2>2
  <1>2. /\ ACCUM(w) \in Nat /\ CARRYOUT(w) \in Nat
        /\ w = ACCUM(w) + RADIX * CARRYOUT(w)
    BY Splits, RadixIs
  <1> DEFINE x == RADIX * CARRYOUT(w)
             y == RADIX * q
  <1>3. x \in Nat /\ y \in Nat /\ w < y /\ w = ACCUM(w) + x
    BY <1>2, RadixIs
  <1> HIDE DEF x, y
  <1>4. x < y
    BY <1>2, <1>3
  <1> QED BY <1>1, <1>2, <1>3, <1>4, RadixIs DEF x, y

\* The greatest of some naturals up to n.
LEMMA Greatest ==
  ASSUME NEW n \in Nat, NEW S \in SUBSET (0 .. n), S # {}
  PROVE  Max(S) \in S /\ \A y \in S : y <= Max(S)
  <1> DEFINE T == {i \in Nat : n - i \in S}
  <1>1. T \in SUBSET Nat
    OBVIOUS
  <1>2. T # {}
    <2>1. PICK y \in S : TRUE
      OBVIOUS
    <2>2. n - y \in Nat /\ n - (n - y) = y
      OBVIOUS
    <2> QED BY <2>1, <2>2
  <1>3. PICK x \in T : \A y \in T : x <= y
    <2> HIDE DEF T
    <2> QED BY <1>1, <1>2, Least
  <1>4. n - x \in S /\ \A y \in S : n - x >= y
    <2>1. ASSUME NEW y \in S PROVE n - x >= y
      <3>1. n - y \in T
        <4>1. n - y \in Nat /\ n - (n - y) = y
          OBVIOUS
        <4> QED BY <4>1
      <3> QED BY <1>3, <3>1
    <2> QED BY <1>3, <2>1
  <1>5. \E m \in S : \A y \in S : m >= y
    BY <1>4
  <1>6. Max(S) \in S /\ \A y \in S : Max(S) >= y
    BY <1>5 DEF Max
  <1> QED BY <1>6

-----------------------------------------------------------------------------
(* Storage.                                                                *)

\* "Digits above the precision are all zero."
Clean(m) == \A i \in DOMAIN m.dp : i >= m.used => m.dp[i] = 0

\* An mp_int as calls find it.
Tidy(m) == m \in Mp(m.alloc) /\ Clean(m)

\* An mp_int that may have been written beyond its storage.
Held(m) == Clean(m) /\ \E k \in Nat : m \in Mp(k)

Same(m, n) == \A i \in Nat : DigitOf(m, i) = DigitOf(n, i)

\* Digits are worth the same if they are the same.
LEMMA SameAbove ==
  ASSUME NEW k \in Nat, NEW m \in Mp(k), NEW l \in Nat, NEW n \in Mp(l), NEW j \in Nat,
         \A i \in Nat : i >= j => DigitOf(m, i) = DigitOf(n, i)
  PROVE  Above(m, j) = Above(n, j)
  <1> DEFINE top == k + l
             X == [i \in 0 .. top |-> Above(m, j + i) - Above(n, j + i)]
  <1>1. \A i \in Nat : /\ Above(m, i) \in Nat /\ Above(n, i) \in Nat
                       /\ i >= m.used => Above(m, i) = 0
                       /\ i >= n.used => Above(n, i) = 0
    BY AboveUnfolds
  <1>2. \A i \in Nat : /\ DigitOf(m, i) \in Nat /\ DigitOf(n, i) \in Nat
                       /\ Above(m, i) = DigitOf(m, i) + RADIX * Above(m, i + 1)
                       /\ Above(n, i) = DigitOf(n, i) + RADIX * Above(n, i + 1)
    BY AboveUnfolds, RadixIs
  <1>3. m.used \in 1 .. k /\ n.used \in 1 .. l
    BY DEF Mp
  <1>4. X \in [0 .. top -> Int]
    <2>1. \A i \in 0 .. top : j + i \in Nat
      OBVIOUS
    <2> HIDE DEF top
    <2> QED BY <1>1, <2>1
  <1>5. X[top] = 0
    <2>1. j + top \in Nat /\ j + top >= m.used /\ j + top >= n.used /\ top \in 0 .. top
      BY <1>3
    <2> HIDE DEF top
    <2> QED BY <1>1, <2>1
  <1>6. \A i \in 0 .. top - 1 : X[i] = RADIX * X[i + 1]
    <2> SUFFICES ASSUME NEW i \in 0 .. top - 1 PROVE X[i] = RADIX * X[i + 1]
      OBVIOUS
    <2> DEFINE x == Above(m, (j + i) + 1)
               y == Above(n, (j + i) + 1)
    <2>1. /\ i \in 0 .. top /\ i + 1 \in 0 .. top
          /\ j + i \in Nat /\ j + i >= j /\ (j + i) + 1 \in Nat /\ j + (i + 1) = (j + i) + 1
      OBVIOUS
    <2>2. X[i] = Above(m, j + i) - Above(n, j + i) /\ X[i + 1] = x - y
      BY <2>1
    <2>3. x \in Nat /\ y \in Nat
      BY <1>1, <2>1
    <2>4. /\ DigitOf(m, j + i) \in Nat /\ DigitOf(n, j + i) = DigitOf(m, j + i)
          /\ Above(m, j + i) = DigitOf(m, j + i) + RADIX * x
          /\ Above(n, j + i) = DigitOf(n, j + i) + RADIX * y
      BY <1>2, <2>1
    <2> HIDE DEF X, x, y
    <2>5. RADIX * (x - y) = RADIX * x - RADIX * y /\ RADIX * x \in Nat /\ RADIX * y \in Nat
      BY <2>3, RadixIs
    <2>6. X[i] = RADIX * x - RADIX * y
      BY <2>2, <2>4, <2>5
    <2> QED BY <2>2, <2>5, <2>6
  <1>7. top \in Nat /\ 0 \in 0 .. top
    OBVIOUS
  <1> HIDE DEF X, top
  <1>8. X[0] = 0
    BY <1>4, <1>5, <1>6, <1>7, Vanishes
  <1>9. X[0] = Above(m, j) - Above(n, j)
    BY <1>7 DEF X
  <1> QED BY <1>1, <1>8, <1>9

\* Numbers with the same digits are worth the same.
LEMMA SameWorth ==
  ASSUME NEW k \in Nat, NEW m \in Mp(k), NEW l \in Nat, NEW n \in Mp(l), Same(m, n)
  PROVE  \A i \in Nat : Above(m, i) = Above(n, i)
  BY SameAbove DEF Same

\* What is known of the fields of a tidy mp_int.
LEMMA TidyIs ==
  ASSUME NEW m, Tidy(m)
  PROVE  /\ m.sign \in {ZPOS, NEG} /\ m.alloc \in Nat /\ m.alloc > 0 /\ m.used \in 1 .. m.alloc
         /\ m.used \in Nat /\ m.dp \in [0 .. m.alloc - 1 -> Digit]
         /\ \A i \in Nat : DigitOf(m, i) \in Digit
         /\ \A i \in 0 .. m.alloc - 1 : DigitOf(m, i) = m.dp[i]
         /\ \A i \in Nat : i >= m.used => DigitOf(m, i) = 0
  <1>1. /\ m.sign \in {ZPOS, NEG} /\ m.used \in 1 .. m.alloc /\ m.alloc \in 1 .. m.alloc
        /\ m.dp \in [0 .. m.alloc - 1 -> Digit]
    BY DEF Tidy, Mp
  <1>2. m.alloc \in Nat /\ m.alloc > 0 /\ m.used \in Nat
    BY <1>1
  <1>3. \A i \in 0 .. m.alloc - 1 : DigitOf(m, i) = m.dp[i]
    BY <1>1, <1>2 DEF DigitOf, Tidy, Clean
  <1>4. \A i \in Nat : DigitOf(m, i) \in Digit
    BY <1>1, <1>2, RadixIs DEF DigitOf
  <1>5. \A i \in Nat : i >= m.used => DigitOf(m, i) = 0
    BY <1>2 DEF DigitOf
  <1> QED BY <1>1, <1>2, <1>3, <1>4, <1>5

\* The same where it may have been written beyond the storage.
LEMMA HeldIs ==
  ASSUME NEW m, Held(m)
  PROVE  \E k \in Nat : /\ m \in Mp(k) /\ Clean(m) /\ (Tidy(m) => k = m.alloc)
                        /\ m.sign \in {ZPOS, NEG} /\ m.alloc \in 1 .. k /\ m.used \in 1 .. k
                        /\ m.used \in Nat /\ m.dp \in [0 .. k - 1 -> Digit]
                        /\ \A i \in Nat : DigitOf(m, i) \in Digit
                        /\ \A i \in Nat : i >= m.used => DigitOf(m, i) = 0
  <1>1. PICK k \in Nat : m \in Mp(k) /\ (Tidy(m) => k = m.alloc)
    <2>1. CASE Tidy(m)
      BY <2>1, TidyIs DEF Tidy
    <2>2. CASE ~ Tidy(m)
      BY <2>2 DEF Held
    <2> QED BY <2>1, <2>2
  <1>2. /\ m.sign \in {ZPOS, NEG} /\ m.alloc \in 1 .. k /\ m.used \in 1 .. k
        /\ m.dp \in [0 .. k - 1 -> Digit]
    BY <1>1 DEF Mp
  <1>3. m.used \in Nat /\ Clean(m)
    BY <1>2 DEF Held
  <1>4. ASSUME NEW i \in Nat
        PROVE  DigitOf(m, i) \in Digit /\ (i >= m.used => DigitOf(m, i) = 0)
    BY <1>2, <1>3, RadixIs DEF DigitOf
  <1> QED BY <1>1, <1>2, <1>3, <1>4

\* A tidy one has not been.
LEMMA TidyHeld ==
  ASSUME NEW m, Tidy(m)
  PROVE  Held(m)
  BY TidyIs DEF Tidy, Held

\* A number in storage for n digits.
LEMMA StoredIs ==
  ASSUME NEW m, Tidy(m), NEW n \in Nat
  PROVE  /\ Stored(m, n) \in [0 .. n - 1 -> Digit]
         /\ \A i \in 0 .. n - 1 : Stored(m, n)[i] = DigitOf(m, i)
  <1>1. Stored(m, n) = [i \in 0 .. n - 1 |-> DigitOf(m, i)]
    BY DEF Stored, Computed, DigitOf
  <1> QED BY <1>1, TidyIs

\* Rounding up to a multiple of the default precision loses nothing.
LEMMA Multiples ==
  ASSUME NEW min \in Nat
  PROVE  /\ ((min + DefPrec - 1) \div DefPrec) * DefPrec \in Nat
         /\ ((min + DefPrec - 1) \div DefPrec) * DefPrec >= min
  <1>1. DefPrec \in Nat /\ DefPrec > 0
    BY MpiAssumption
  <1>2. \A D, x \in Nat : D > 0 => /\ x \div D \in Nat /\ x % D \in 0 .. D - 1
                                   /\ x = (x % D) + D * (x \div D)
    OBVIOUS
  <1> DEFINE x == min + DefPrec - 1
             q == x \div DefPrec
             p == DefPrec * q
  <1>3. x \in Nat
    BY <1>1
  <1>4. q \in Nat /\ x % DefPrec \in 0 .. DefPrec - 1 /\ x = (x % DefPrec) + p
    BY <1>1, <1>2, <1>3
  <1>5. p \in Nat
    BY <1>1, <1>4
  <1> HIDE DEF p
  <1>6. p >= min
    BY <1>1, <1>4, <1>5
  <1>7. q * DefPrec = p
    <2>1. \A D, y \in Nat : y * D = D * y
      OBVIOUS
    <2> HIDE DEF q
    <2> QED BY <1>1, <1>4, <2>1 DEF p
  <1> QED BY <1>5, <1>6, <1>7

\* m was moved to storage for n digits.
LEMMA MovedIs ==
  ASSUME NEW m, Tidy(m), NEW n \in Nat, n >= m.used, NEW sign \in {ZPOS, NEG},
         NEW r, r = [sign |-> sign, used |-> m.used, alloc |-> n, dp |-> Stored(m, n)]
  PROVE  Tidy(r) /\ Same(r, m)
  <1>1. /\ r.sign = sign /\ r.used = m.used /\ r.alloc = n /\ r.dp = Stored(m, n)
    OBVIOUS
  <1>2. r \in Mp(n)
    <2>1. m.used \in 1 .. n
      BY TidyIs
    <2>2. n \in 1 .. n
      BY <2>1
    <2>3. Stored(m, n) \in [0 .. n - 1 -> Digit]
      BY StoredIs
    <2> QED BY <2>1, <2>2, <2>3 DEF Mp
  <1>3. Clean(r)
    BY <1>1, TidyIs, StoredIs DEF Clean
  <1>4. Same(r, m)
    <2> SUFFICES ASSUME NEW i \in Nat PROVE DigitOf(r, i) = DigitOf(m, i)
      BY DEF Same
    <2>1. CASE i < m.used
      <3>1. i \in 0 .. n - 1
        BY <2>1, TidyIs
      <3>2. Stored(m, n)[i] = DigitOf(m, i)
        BY <3>1, StoredIs
      <3> QED BY <1>1, <2>1, <3>2 DEF DigitOf
    <2>2. CASE ~ i < m.used
      BY <1>1, <2>2 DEF DigitOf
    <2> QED BY <2>1, <2>2
  <1> QED BY <1>1, <1>2, <1>3, <1>4 DEF Tidy

\* s_mp_grow changes the storage and nothing else.
LEMMA GrowIs ==
  ASSUME NEW m, Tidy(m), NEW min \in Nat, NEW r, r = s_mp_grow(m, min)
  PROVE  /\ Tidy(r) /\ Same(r, m) /\ r.used = m.used /\ r.sign = m.sign
         /\ r.alloc >= min /\ r.alloc >= m.alloc
  <1>1. CASE min <= m.alloc
    <2>1. r = m
      BY <1>1 DEF s_mp_grow
    <2> QED BY <1>1, <2>1, TidyIs DEF Same
  <1>2. CASE ~ min <= m.alloc
    <2> DEFINE n == ((min + DefPrec - 1) \div DefPrec) * DefPrec
    <2>1. n \in Nat /\ n >= min
      BY Multiples
    <2>2. r = [m EXCEPT !.alloc = n, !.dp = Stored(m, n)]
      BY <1>2 DEF s_mp_grow
    <2> HIDE DEF n
    <2>3. r = [sign |-> m.sign, used |-> m.used, alloc |-> n, dp |-> Stored(m, n)]
      BY <2>2 DEF Tidy, Mp
    <2>4. n >= m.used /\ m.alloc \in Nat /\ m.sign \in {ZPOS, NEG} /\ n >= m.alloc
      BY <1>2, <2>1, TidyIs
    <2>5. Tidy(r) /\ Same(r, m)
      BY <2>1, <2>3, <2>4, MovedIs
    <2> QED BY <2>1, <2>3, <2>4, <2>5
  <1> QED BY <1>1, <1>2

\* The same, where the storage may be too small already.
LEMMA GrowHeld ==
  ASSUME NEW k \in Nat, NEW m \in Mp(k), Clean(m), NEW min \in Nat, min > m.used,
         NEW r, r = s_mp_grow(m, min)
  PROVE  \E l \in Nat : /\ r \in Mp(l) /\ Clean(r) /\ Same(r, m) /\ r.used = m.used
                        /\ r.sign = m.sign /\ r.alloc >= min /\ (k = m.alloc => l = r.alloc)
  <1>1. CASE min <= m.alloc
    <2>1. r = m
      BY <1>1 DEF s_mp_grow
    <2>2. m.alloc \in Nat
      BY DEF Mp
    <2> QED BY <1>1, <2>1, <2>2 DEF Same
  <1>2. CASE ~ min <= m.alloc
    <2> DEFINE n == ((min + DefPrec - 1) \div DefPrec) * DefPrec
               t == [m EXCEPT !.alloc = k]
    <2>1. n \in Nat /\ n >= min
      BY Multiples
    <2>2. r = [m EXCEPT !.alloc = n, !.dp = Stored(m, n)]
      BY <1>2 DEF s_mp_grow
    <2> HIDE DEF n
    <2>3. /\ m.sign \in {ZPOS, NEG} /\ m.used \in 1 .. k /\ k \in 1 .. k
          /\ m.dp \in [0 .. k - 1 -> Digit]
      BY DEF Mp
    <2>4. t = [sign |-> m.sign, used |-> m.used, alloc |-> k, dp |-> m.dp]
      BY DEF Mp
    <2>5. t.sign = m.sign /\ t.used = m.used /\ t.alloc = k /\ t.dp = m.dp
      BY <2>4
    <2>6. t \in Mp(k)
      BY <2>3, <2>4 DEF Mp
    <2> HIDE DEF t
    <2>7. Tidy(t)
      BY <2>5, <2>6 DEF Tidy, Clean
    <2>8. Stored(t, n) = Stored(m, n) /\ Same(t, m)
      BY <2>5 DEF Stored, Same, DigitOf
    <2>9. r = [sign |-> m.sign, used |-> m.used, alloc |-> n, dp |-> Stored(m, n)]
      BY <2>2 DEF Mp
    <2>10. Tidy(r) /\ Same(r, t)
      BY <2>1, <2>3, <2>5, <2>7, <2>8, <2>9, MovedIs
    <2>11. r \in Mp(n) /\ Clean(r)
      BY <2>9, <2>10 DEF Tidy
    <2> QED BY <2>1, <2>8, <2>9, <2>10, <2>11 DEF Same
  <1> QED BY <1>1, <1>2

\* s_mp_pad takes clear digits into use.
LEMMA PadIs ==
  ASSUME NEW m, Tidy(m), NEW min \in Nat, NEW r, r = s_mp_pad(m, min)
  PROVE  /\ Tidy(r) /\ Same(r, m) /\ r.sign = m.sign
         /\ r.used = IF min <= m.used THEN m.used ELSE min
  <1>1. CASE min <= m.used
    BY <1>1 DEF s_mp_pad, Same
  <1>2. CASE ~ min <= m.used
    <2> DEFINE g == s_mp_grow(m, min)
    <2>1. /\ Tidy(g) /\ Same(g, m) /\ g.used = m.used /\ g.sign = m.sign /\ g.alloc >= min
      BY GrowIs
    <2>2. r = [g EXCEPT !.used = min]
      BY <1>2 DEF s_mp_pad
    <2> HIDE DEF g
    <2>3. min > m.used /\ m.used \in Nat /\ m.used > 0
      BY <1>2, TidyIs
    <2>4. r = [sign |-> g.sign, used |-> min, alloc |-> g.alloc, dp |-> g.dp]
      BY <2>1, <2>2 DEF Tidy, Mp
    <2>5. r \in Mp(g.alloc)
      BY <2>1, <2>3, <2>4, TidyIs DEF Mp
    <2>6. Clean(r)
      BY <2>1, <2>3, <2>4, TidyIs DEF Clean, Tidy
    <2>7. Same(r, g)
      <3> SUFFICES ASSUME NEW i \in Nat PROVE DigitOf(r, i) = DigitOf(g, i)
        BY DEF Same
      <3>1. g.alloc \in Nat /\ g.used \in Nat /\ i >= g.used => DigitOf(g, i) = 0
        BY <2>1, TidyIs
      <3>2. CASE i < g.used
        BY <2>1, <2>3, <2>4, <3>2 DEF DigitOf
      <3>3. CASE ~ i < g.used /\ i < min
        <4>1. i \in DOMAIN g.dp /\ i >= g.used
          BY <2>1, <2>3, <3>3, TidyIs
        <4>2. g.dp[i] = 0
          BY <2>1, <4>1 DEF Tidy, Clean
        <4> QED BY <2>4, <3>3, <4>2 DEF DigitOf
      <3>4. CASE ~ i < min
        BY <2>1, <2>3, <2>4, <3>4 DEF DigitOf
      <3> QED BY <3>2, <3>3, <3>4
    <2> QED BY <1>2, <2>1, <2>3, <2>4, <2>5, <2>6, <2>7 DEF Tidy, Same
  <1> QED BY <1>1, <1>2

\* New digits in some of the places in use.
LEMMA WithSomeIs ==
  ASSUME NEW k \in Nat, NEW m \in Mp(k), Clean(m), NEW digits,
         DOMAIN digits \subseteq InUse(m), \A i \in DOMAIN digits : digits[i] \in Digit,
         NEW r, r = WithDigits(m, digits)
  PROVE  /\ r \in Mp(k) /\ Clean(r)
         /\ r.sign = m.sign /\ r.used = m.used /\ r.alloc = m.alloc
         /\ \A i \in Nat : DigitOf(r, i) = IF i \in DOMAIN digits THEN digits[i]
                                           ELSE DigitOf(m, i)
  <1> DEFINE D == DOMAIN digits
             d == [i \in 0 .. k - 1 |-> IF i \in D THEN digits[i] ELSE m.dp[i]]
  <1>1. m.used \in 1 .. k /\ m.dp \in [0 .. k - 1 -> Digit] /\ DOMAIN m.dp = 0 .. k - 1
    BY DEF Mp
  <1>2. \A i \in D : digits[i] \in Digit /\ i \in Nat /\ i < m.used /\ i \in 0 .. k - 1
    BY <1>1 DEF InUse
  <1>3. r = [m EXCEPT !.dp = d]
    BY <1>1, <1>2 DEF WithDigits, Computed
  <1>4. /\ d \in [0 .. k - 1 -> Digit]
        /\ \A i \in D : d[i] = digits[i]
        /\ \A i \in 0 .. k - 1 : i \notin D => d[i] = m.dp[i]
    BY <1>1, <1>2
  <1>5. \A i \in 0 .. k - 1 : i >= m.used => d[i] = 0
    BY <1>1, <1>2 DEF Clean
  <1> HIDE DEF d, D
  <1>6. r = [sign |-> m.sign, used |-> m.used, alloc |-> m.alloc, dp |-> d]
    BY <1>3 DEF Mp
  <1>7. r \in Mp(k)
    BY <1>4, <1>6 DEF Mp
  <1>8. Clean(r)
    BY <1>1, <1>4, <1>5, <1>6 DEF Clean
  <1>9. ASSUME NEW i \in Nat
        PROVE  DigitOf(r, i) = IF i \in D THEN digits[i] ELSE DigitOf(m, i)
    <2>1. CASE i < m.used
      BY <1>1, <1>2, <1>4, <1>6, <2>1 DEF DigitOf
    <2>2. CASE ~ i < m.used
      BY <1>2, <1>6, <2>2 DEF DigitOf
    <2> QED BY <2>1, <2>2
  <1> QED BY <1>6, <1>7, <1>8, <1>9 DEF D

\* New digits in all of them.
LEMMA WithDigitsIs ==
  ASSUME NEW k \in Nat, NEW m \in Mp(k), Clean(m), NEW digits \in [InUse(m) -> Digit],
         NEW r, r = WithDigits(m, digits)
  PROVE  /\ r \in Mp(k) /\ Clean(r)
         /\ r.sign = m.sign /\ r.used = m.used /\ r.alloc = m.alloc
         /\ \A i \in Nat : DigitOf(r, i) = IF i < m.used THEN digits[i] ELSE 0
  <1>1. /\ r \in Mp(k) /\ Clean(r)
        /\ r.sign = m.sign /\ r.used = m.used /\ r.alloc = m.alloc
        /\ \A i \in Nat : DigitOf(r, i) = IF i \in InUse(m) THEN digits[i] ELSE DigitOf(m, i)
    BY WithSomeIs
  <1>2. m.used \in Nat
    BY DEF Mp
  <1>3. ASSUME NEW i \in Nat
        PROVE  DigitOf(r, i) = IF i < m.used THEN digits[i] ELSE 0
    <2>1. i \in InUse(m) <=> i < m.used
      BY <1>2 DEF InUse
    <2>2. ~ i < m.used => DigitOf(m, i) = 0
      BY DEF DigitOf
    <2> QED BY <1>1, <2>1, <2>2
  <1> QED BY <1>1, <1>3

\* One more digit, in storage or beyond it.
LEMMA LongerIs ==
  ASSUME NEW k \in Nat, NEW m \in Mp(k), Clean(m), NEW digit \in Digit,
         NEW r, r = Longer(m, digit)
  PROVE  /\ r \in Mp(IF m.used < k THEN k ELSE k + 1) /\ Clean(r)
         /\ r.sign = m.sign /\ r.used = m.used + 1 /\ r.alloc = m.alloc
         /\ r.dp[m.used] = digit
         /\ \A i \in Nat : DigitOf(r, i) = IF i = m.used THEN digit ELSE DigitOf(m, i)
  <1> DEFINE l == IF m.used < k THEN k ELSE k + 1
             d == [i \in 0 .. l - 1 |-> IF i = m.used THEN digit ELSE m.dp[i]]
  <1>1. /\ m.used \in 1 .. k /\ m.alloc \in 1 .. k /\ m.sign \in {ZPOS, NEG}
        /\ m.dp \in [0 .. k - 1 -> Digit] /\ DOMAIN m.dp = 0 .. k - 1
    BY DEF Mp
  <1>2. (0 .. k - 1) \cup {m.used} = 0 .. l - 1
    BY <1>1
  <1>3. r = [m EXCEPT !.used = m.used + 1, !.dp = d]
    BY <1>1, <1>2 DEF Longer, Computed
  <1>4. d \in [0 .. l - 1 -> Digit] /\ d[m.used] = digit
    BY <1>1
  <1>5. \A i \in 0 .. l - 1 : i # m.used => i \in 0 .. k - 1 /\ d[i] = m.dp[i]
    BY <1>1
  <1>6. l \in Nat /\ l >= k /\ m.used + 1 \in 1 .. l /\ m.alloc \in 1 .. l
    BY <1>1
  <1> HIDE DEF d, l
  <1>7. r = [sign |-> m.sign, used |-> m.used + 1, alloc |-> m.alloc, dp |-> d]
    BY <1>3 DEF Mp
  <1>8. r \in Mp(l)
    BY <1>1, <1>4, <1>6, <1>7 DEF Mp
  <1>9. Clean(r)
    BY <1>1, <1>4, <1>5, <1>6, <1>7 DEF Clean
  <1>10. ASSUME NEW i \in Nat
         PROVE  DigitOf(r, i) = IF i = m.used THEN digit ELSE DigitOf(m, i)
    BY <1>1, <1>4, <1>5, <1>6, <1>7 DEF DigitOf
  <1> QED BY <1>4, <1>7, <1>8, <1>9, <1>10 DEF l

\* The leading digit is not zero.
Top(m) == m.used > 1 => m.dp[m.used - 1] # 0

\* s_mp_clamp drops the leading zeroes: the same number, with its leading digit first.
LEMMA ClampIs ==
  ASSUME NEW k \in Nat, NEW m \in Mp(k), Clean(m), NEW r, r = s_mp_clamp(m)
  PROVE  /\ r \in Mp(k) /\ Clean(r) /\ Same(r, m) /\ Top(r) /\ r.alloc = m.alloc
         /\ r.sign = IF r.used = 1 /\ DigitOf(m, 0) = 0 THEN ZPOS ELSE m.sign
  <1> DEFINE S == {0} \cup {i \in 1 .. m.used - 1 : m.dp[i] # 0}
             du == 1 + Max(S)
             s == IF du = 1 /\ m.dp[0] = 0 THEN ZPOS ELSE m.sign
  <1>1. /\ m.used \in 1 .. k /\ m.alloc \in 1 .. k /\ m.sign \in {ZPOS, NEG}
        /\ m.dp \in [0 .. k - 1 -> Digit] /\ DOMAIN m.dp = 0 .. k - 1
    BY DEF Mp
  <1>2. Max(S) \in S /\ \A y \in S : y <= Max(S)
    <2>1. S \in SUBSET (0 .. m.used) /\ S # {} /\ m.used \in Nat
      BY <1>1
    <2> HIDE DEF S
    <2> QED BY <2>1, Greatest
  <1>3. Max(S) \in 0 .. m.used - 1 /\ (Max(S) > 0 => m.dp[Max(S)] # 0)
    BY <1>1, <1>2
  <1>4. \A i \in 0 .. k - 1 : i > Max(S) => m.dp[i] = 0
    <2> SUFFICES ASSUME NEW i \in 0 .. k - 1, i > Max(S), m.dp[i] # 0 PROVE FALSE
      OBVIOUS
    <2>1. CASE i < m.used
      <3>1. i \in S
        BY <1>1, <1>3, <2>1
      <3> QED BY <1>2, <1>3, <3>1
    <2>2. CASE ~ i < m.used
      BY <1>1, <2>2 DEF Clean
    <2> QED BY <2>1, <2>2
  <1>5. r = [m EXCEPT !.used = du, !.sign = s]
    BY DEF s_mp_clamp
  <1>6. du \in 1 .. m.used /\ du - 1 = Max(S)
    BY <1>1, <1>3
  <1>7. s \in {ZPOS, NEG}
    BY <1>1
  <1> HIDE DEF S, du
  <1>8. r = [sign |-> s, used |-> du, alloc |-> m.alloc, dp |-> m.dp]
    BY <1>5 DEF Mp
  <1>9. r \in Mp(k)
    BY <1>1, <1>6, <1>7, <1>8 DEF Mp
  <1>10. Clean(r)
    BY <1>1, <1>3, <1>4, <1>6, <1>8 DEF Clean
  <1>11. Top(r)
    BY <1>3, <1>6, <1>8 DEF Top
  <1>12. Same(r, m)
    BY <1>1, <1>3, <1>4, <1>6, <1>8 DEF Same, DigitOf
  <1>13. DigitOf(m, 0) = m.dp[0]
    BY <1>1 DEF DigitOf
  <1> QED BY <1>8, <1>9, <1>10, <1>11, <1>12, <1>13

-----------------------------------------------------------------------------
(* Comparison.                                                             *)

\* Types of what the proofs add up.
LEMMA AboveFacts ==
  ASSUME NEW k \in Nat, NEW m \in Mp(k)
  PROVE  /\ \A i \in Nat : Above(m, i) \in Nat /\ DigitOf(m, i) \in Nat /\ DigitOf(m, i) < RADIX
         /\ \A i \in Nat : i >= m.used => Above(m, i) = 0
         /\ m.used \in Nat /\ m.used > 0
  <1>1. \A i \in Nat : /\ Above(m, i) \in Nat /\ DigitOf(m, i) \in Digit
                       /\ i >= m.used => Above(m, i) = 0
    BY AboveUnfolds
  <1>2. \A d \in Digit : d \in Nat /\ d < RADIX
    BY RadixIs DEF Digit
  <1>3. m.used \in Nat /\ m.used > 0
    BY DEF Mp
  <1> QED BY <1>1, <1>2, <1>3

\* Types of the fields.
LEMMA MpFacts ==
  ASSUME NEW k \in Nat, NEW m \in Mp(k)
  PROVE  /\ m.sign \in {ZPOS, NEG} /\ m.used \in 1 .. k /\ m.alloc \in 1 .. k
         /\ m.dp \in [0 .. k - 1 -> Digit] /\ m.dp[0] \in Nat
  <1>1. /\ m.sign \in {ZPOS, NEG} /\ m.used \in 1 .. k /\ m.alloc \in 1 .. k
        /\ m.dp \in [0 .. k - 1 -> Digit]
    BY DEF Mp
  <1>2. 0 \in 0 .. k - 1
    BY <1>1
  <1>3. m.dp[0] \in Digit
    BY <1>1, <1>2
  <1> QED BY <1>1, <1>3, RadixIs

\* The number whose digits are greater in the first place, from above, where they
\* differ is greater.
LEMMA Greater ==
  ASSUME NEW k \in Nat, NEW a \in Mp(k), NEW l \in Nat, NEW b \in Mp(l),
         NEW n \in Nat, Above(a, n) > Above(b, n)
  PROVE  Above(a, 0) > Above(b, 0)
  <1> DEFINE X == [i \in 0 .. n |-> Above(a, i) - Above(b, i)]
  <1>1. \A i \in Nat : /\ Above(a, i) \in Nat /\ DigitOf(a, i) \in Nat
                       /\ Above(b, i) \in Nat /\ DigitOf(b, i) \in Nat /\ DigitOf(b, i) < RADIX
    BY AboveFacts
  <1>2. X \in [0 .. n -> Int] /\ X[n] > 0
    BY <1>1
  <1>3. \A i \in 0 .. n - 1 : X[i] > RADIX * X[i + 1] - RADIX
    <2> SUFFICES ASSUME NEW i \in 0 .. n - 1 PROVE X[i] > RADIX * X[i + 1] - RADIX
      OBVIOUS
    <2>1. i \in Nat /\ i + 1 \in Nat /\ i \in 0 .. n /\ i + 1 \in 0 .. n
      OBVIOUS
    <2> DEFINE x == Above(a, i + 1)
               y == Above(b, i + 1)
    <2>2. X[i] = Above(a, i) - Above(b, i) /\ X[i + 1] = x - y
      BY <2>1
    <2>3. x \in Nat /\ y \in Nat
      BY <1>1, <2>1
    <2>4. Above(a, i) = DigitOf(a, i) + RADIX * x /\ Above(b, i) = DigitOf(b, i) + RADIX * y
      BY <2>1, AboveUnfolds
    <2> HIDE DEF X, x, y
    <2>5. RADIX * (x - y) = RADIX * x - RADIX * y /\ RADIX * x \in Nat /\ RADIX * y \in Nat
      BY <2>3, RadixIs
    <2> DEFINE rx == RADIX * x
               ry == RADIX * y
    <2>6. /\ X[i] = (DigitOf(a, i) + rx) - (DigitOf(b, i) + ry)
          /\ RADIX * X[i + 1] = rx - ry
          /\ rx \in Nat /\ ry \in Nat
      <3>1. RADIX * X[i + 1] = RADIX * (x - y)
        BY <2>2
      <3>2. RADIX * X[i + 1] = rx - ry
        BY <2>5, <3>1
      <3>3. X[i] = (DigitOf(a, i) + rx) - (DigitOf(b, i) + ry)
        BY <2>2, <2>4
      <3> QED BY <2>5, <3>2, <3>3
    <2> HIDE DEF rx, ry
    <2> QED BY <1>1, <2>1, <2>6, RadixIs
  <1> HIDE DEF X
  <1>4. \A i \in 0 .. n : X[i] > 0
    BY <1>2, <1>3, Dominates
  <1>5. X[0] > 0 /\ X[0] = Above(a, 0) - Above(b, 0)
    BY <1>4 DEF X
  <1> QED BY <1>1, <1>5

\* A number with more digits than another is more.
LEMMA LongerIsMore ==
  ASSUME NEW k \in Nat, NEW a \in Mp(k), Top(a), NEW l \in Nat, NEW b \in Mp(l),
         a.used > b.used
  PROVE  Above(a, a.used - 1) > Above(b, a.used - 1)
  <1> DEFINE n == a.used - 1
  <1>1. a.used \in 1 .. k /\ b.used \in 1 .. l /\ a.dp \in [0 .. k - 1 -> Digit]
    BY DEF Mp
  <1>2. /\ n \in Nat /\ n >= b.used /\ n < a.used /\ n + 1 = a.used /\ n \in 0 .. k - 1
        /\ n + 1 \in Nat /\ n + 1 >= a.used /\ a.used > 1
    BY <1>1
  <1>3. DigitOf(a, n) = a.dp[n] /\ a.dp[n] # 0
    BY <1>2 DEF DigitOf, Top
  <1> HIDE DEF n
  <1>4. a.dp[n] \in Nat
    <2>1. a.dp[n] \in Digit
      BY <1>1, <1>2
    <2> QED BY <2>1, RadixIs
  <1>5. Above(b, n) = 0 /\ Above(a, n + 1) = 0
    <2>1. \A i \in Nat : i >= b.used => Above(b, i) = 0
      BY AboveFacts
    <2>2. \A i \in Nat : i >= a.used => Above(a, i) = 0
      BY AboveFacts
    <2> QED BY <1>2, <2>1, <2>2
  <1>6. Above(a, n) = a.dp[n] + RADIX * Above(a, n + 1)
    BY <1>2, <1>3, AboveUnfolds
  <1>7. Above(a, n) = a.dp[n]
    BY <1>4, <1>5, <1>6, RadixIs
  <1> QED BY <1>3, <1>4, <1>5, <1>7 DEF n

\* s_mp_cmp compares the magnitudes, given that no leading digit is 0.
LEMMA CmpIs ==
  ASSUME NEW k \in Nat, NEW a \in Mp(k), Top(a), NEW l \in Nat, NEW b \in Mp(l), Top(b)
  PROVE  s_mp_cmp(a, b) = Sgn(Above(a, 0) - Above(b, 0))
  <1>1. \A i \in Nat : /\ Above(a, i) \in Nat /\ DigitOf(a, i) \in Nat
                       /\ Above(b, i) \in Nat /\ DigitOf(b, i) \in Nat
    BY AboveFacts
  <1>2. a.used \in 1 .. k /\ b.used \in 1 .. l
    BY DEF Mp
  <1> DEFINE differ == {i \in 0 .. a.used - 1 : a.dp[i] # b.dp[i]}
  <1>3. CASE a.used > b.used
    <2>1. Above(a, a.used - 1) > Above(b, a.used - 1)
      BY <1>2, <1>3, LongerIsMore
    <2>2. Above(a, 0) > Above(b, 0)
      BY <1>2, <2>1, Greater
    <2> QED BY <1>1, <1>2, <1>3, <2>2 DEF s_mp_cmp, Sgn
  <1>4. CASE b.used > a.used
    <2>1. Above(b, b.used - 1) > Above(a, b.used - 1)
      BY <1>2, <1>4, LongerIsMore
    <2>2. Above(b, 0) > Above(a, 0)
      BY <1>2, <2>1, Greater
    <2> QED BY <1>1, <1>2, <1>4, <2>2 DEF s_mp_cmp, Sgn
  <1>5. CASE a.used = b.used /\ differ = {}
    <2>1. Same(a, b)
      BY <1>2, <1>5 DEF Same, DigitOf
    <2>2. Above(a, 0) = Above(b, 0)
      BY <2>1, SameWorth
    <2> QED BY <1>1, <1>5, <2>2 DEF s_mp_cmp, Sgn
  <1>6. CASE a.used = b.used /\ differ # {}
    <2> DEFINE j == Max(differ)
    <2>1. j \in differ /\ \A y \in differ : y <= j
      <3>1. differ \in SUBSET (0 .. a.used) /\ a.used \in Nat
        BY <1>2
      <3> HIDE DEF differ
      <3> QED BY <1>6, <3>1, Greatest
    <2>2. j \in 0 .. a.used - 1 /\ DigitOf(a, j) # DigitOf(b, j)
      BY <1>2, <1>6, <2>1 DEF DigitOf
    <2>3. /\ DigitOf(a, j) = a.dp[j] /\ DigitOf(b, j) = b.dp[j]
      BY <1>2, <1>6, <2>2 DEF DigitOf
    <2>4. \A i \in Nat : i >= j + 1 => DigitOf(a, i) = DigitOf(b, i)
      BY <1>2, <1>6, <2>1, <2>2 DEF DigitOf
    <2>5. s_mp_cmp(a, b) = IF a.dp[j] > b.dp[j] THEN 1 ELSE -1
      BY <1>6 DEF s_mp_cmp
    <2> HIDE DEF j, differ
    <2>6. j \in Nat /\ j + 1 \in Nat
      BY <1>2, <2>2
    <2>7. Above(a, j + 1) = Above(b, j + 1)
      BY <2>4, <2>6, SameAbove
    <2>8. /\ Above(a, j) = DigitOf(a, j) + RADIX * Above(a, j + 1)
          /\ Above(b, j) = DigitOf(b, j) + RADIX * Above(a, j + 1)
      BY <2>6, <2>7, AboveUnfolds
    <2>9. RADIX * Above(a, j + 1) \in Nat
      BY <1>1, <2>6, RadixIs
    <2>10. CASE DigitOf(a, j) > DigitOf(b, j)
      <3>1. Above(a, j) > Above(b, j)
        BY <1>1, <2>6, <2>8, <2>9, <2>10
      <3>2. Above(a, 0) > Above(b, 0)
        BY <2>6, <3>1, Greater
      <3> QED BY <1>1, <2>3, <2>5, <2>10, <3>2 DEF Sgn
    <2>11. CASE DigitOf(b, j) > DigitOf(a, j)
      <3>1. Above(b, j) > Above(a, j)
        BY <1>1, <2>6, <2>8, <2>9, <2>11
      <3>2. Above(b, 0) > Above(a, 0)
        BY <2>6, <3>1, Greater
      <3>3. ~ a.dp[j] > b.dp[j]
        BY <1>1, <2>3, <2>6, <2>11
      <3> QED BY <1>1, <2>5, <3>2, <3>3 DEF Sgn
    <2>12. DigitOf(a, j) \in Nat /\ DigitOf(b, j) \in Nat
      BY <1>1, <2>6
    <2> QED BY <2>2, <2>10, <2>11, <2>12
  <1> QED BY <1>2, <1>3, <1>4, <1>5, <1>6

\* A number is zero if it has one digit, and that is 0.
LEMMA ZeroIs ==
  ASSUME NEW k \in Nat, NEW m \in Mp(k), Top(m)
  PROVE  /\ Above(m, 0) = 0 <=> m.used = 1 /\ m.dp[0] = 0
         /\ IsZero(m) <=> Above(m, 0) = 0
         /\ DigitOf(m, 0) = m.dp[0]
  <1>1. m.used \in 1 .. k /\ m.dp[0] \in Nat
    BY MpFacts
  <1>2. DigitOf(m, 0) = m.dp[0]
    BY <1>1 DEF DigitOf
  <1>3. \A i \in Nat : Above(m, i) \in Nat
    BY AboveFacts
  <1>4. Above(m, 0) = m.dp[0] + RADIX * Above(m, 1)
    BY <1>2, AboveUnfolds
  <1>5. CASE m.used = 1
    <2>1. Above(m, 1) = 0
      BY <1>5, AboveFacts
    <2>2. Above(m, 0) = m.dp[0]
      BY <1>1, <1>4, <2>1, RadixIs
    <2> QED BY <1>1, <1>2, <1>5, <2>2 DEF IsZero, s_mp_cmp_d
  <1>6. CASE m.used > 1
    <2> DEFINE z == [sign |-> ZPOS, used |-> 1, alloc |-> 1, dp |-> [i \in 0 .. 0 |-> 0]]
    <2>1. z \in Mp(1) /\ z.used = 1
      BY RadixIs DEF Mp
    <2> HIDE DEF z
    <2>2. Above(m, m.used - 1) > Above(z, m.used - 1)
      BY <1>1, <1>6, <2>1, LongerIsMore
    <2>3. Above(m, 0) > Above(z, 0)
      BY <1>1, <2>1, <2>2, Greater
    <2>4. Above(z, 0) \in Nat
      BY <2>1, AboveFacts
    <2>5. Above(m, 0) # 0
      BY <1>3, <2>3, <2>4
    <2> QED BY <1>1, <1>2, <1>6, <2>5 DEF IsZero, s_mp_cmp_d
  <1> QED BY <1>1, <1>5, <1>6

\* A single digit is compared with the last one.
LEMMA CmpDigitIs ==
  ASSUME NEW k \in Nat, NEW m \in Mp(k), Top(m), NEW d \in Digit
  PROVE  s_mp_cmp_d(m, d) = Sgn(Above(m, 0) - d)
  <1> DEFINE z == [sign |-> ZPOS, used |-> 1, alloc |-> 1, dp |-> [i \in 0 .. 0 |-> d]]
  <1>1. z \in Mp(1) /\ z.used = 1 /\ z.dp[0] = d /\ Top(z)
    BY DEF Mp, Top
  <1> HIDE DEF z
  <1>2. s_mp_cmp(m, z) = Sgn(Above(m, 0) - Above(z, 0))
    BY <1>1, CmpIs
  <1>3. Above(z, 0) = d
    <2>1. Above(z, 0) = DigitOf(z, 0) + RADIX * Above(z, 1)
      BY <1>1, AboveUnfolds
    <2>2. Above(z, 1) = 0 /\ DigitOf(z, 0) = d
      BY <1>1, AboveFacts DEF DigitOf
    <2> QED BY <2>1, <2>2, RadixIs
  <1>4. m.used \in 1 .. k /\ m.dp[0] \in Nat /\ d \in Nat
    BY MpFacts, RadixIs
  <1>5. s_mp_cmp_d(m, d) = s_mp_cmp(m, z)
    <2>1. CASE m.used > 1
      BY <1>1, <1>4, <2>1 DEF s_mp_cmp_d, s_mp_cmp
    <2>2. CASE m.used = 1 /\ m.dp[0] = d
      <3>1. {i \in 0 .. m.used - 1 : m.dp[i] # z.dp[i]} = {}
        BY <1>1, <2>2
      <3> QED BY <1>1, <1>4, <2>2, <3>1 DEF s_mp_cmp_d, s_mp_cmp
    <2>3. CASE m.used = 1 /\ m.dp[0] # d
      <3> DEFINE differ == {i \in 0 .. m.used - 1 : m.dp[i] # z.dp[i]}
      <3>1. differ = {0}
        BY <1>1, <2>3
      <3>2. Max({0}) = 0
        <4>1. Max({0}) \in {0}
          <5>1. {0} \in SUBSET (0 .. 1) /\ {0} # {} /\ 1 \in Nat
            OBVIOUS
          <5> QED BY <5>1, Greatest
        <4> QED BY <4>1
      <3>3. s_mp_cmp(m, z) = IF m.dp[0] > d THEN 1 ELSE -1
        BY <1>1, <2>3, <3>1, <3>2 DEF s_mp_cmp
      <3> QED BY <1>4, <2>3, <3>3 DEF s_mp_cmp_d
    <2> QED BY <1>4, <2>1, <2>2, <2>3
  <1> QED BY <1>2, <1>3, <1>5

-----------------------------------------------------------------------------
(* Addition and subtraction of magnitudes.                                 *)

\* G has the digits of r from j up.
Follows(G, r, j, n) ==
    /\ G \in [0 .. n -> Int] /\ \A i \in 0 .. n - 1 : G[i] = DigitOf(r, j + i) + RADIX * G[i + 1]

\* Sums with the same digits are the same if they begin the same.
LEMMA Horner ==
  ASSUME NEW k \in Nat, NEW r \in Mp(k), NEW j \in Nat, NEW n \in Nat, NEW G,
         Follows(G, r, j, n), G[n] = Above(r, j + n)
  PROVE  G[0] = Above(r, j)
  <1> DEFINE X == [i \in 0 .. n |-> G[i] - Above(r, j + i)]
  <1>1. \A i \in Nat : Above(r, i) \in Nat /\ DigitOf(r, i) \in Nat
    BY AboveFacts
  <1>2. G \in [0 .. n -> Int]
    BY DEF Follows
  <1>3. X \in [0 .. n -> Int]
    <2>1. ASSUME NEW i \in 0 .. n PROVE G[i] - Above(r, j + i) \in Int
      <3>1. j + i \in Nat /\ G[i] \in Int
        BY <1>2
      <3>2. Above(r, j + i) \in Nat
        BY <1>1, <3>1
      <3> QED BY <3>1, <3>2
    <2> QED BY <2>1
  <1>4. X[n] = 0
    <2>1. j + n \in Nat /\ n \in 0 .. n
      OBVIOUS
    <2>2. Above(r, j + n) \in Int
      BY <1>1, <2>1
    <2> QED BY <2>1, <2>2
  <1>5. \A i \in 0 .. n - 1 : X[i] = RADIX * X[i + 1]
    <2> SUFFICES ASSUME NEW i \in 0 .. n - 1 PROVE X[i] = RADIX * X[i + 1]
      OBVIOUS
    <2> DEFINE x == G[i + 1]
               y == Above(r, (j + i) + 1)
    <2>1. /\ i \in 0 .. n /\ i + 1 \in 0 .. n
          /\ j + i \in Nat /\ (j + i) + 1 \in Nat /\ j + (i + 1) = (j + i) + 1
      OBVIOUS
    <2>2. X[i] = G[i] - Above(r, j + i) /\ X[i + 1] = x - y
      BY <2>1
    <2>3. x \in Int /\ y \in Int /\ DigitOf(r, j + i) \in Int
      <3>1. x \in Int
        BY <1>2, <2>1
      <3>2. y \in Nat /\ DigitOf(r, j + i) \in Nat
        BY <1>1, <2>1
      <3> QED BY <3>1, <3>2
    <2>4. Above(r, j + i) = DigitOf(r, j + i) + RADIX * y
      BY <2>1, AboveUnfolds
    <2>5. G[i] = DigitOf(r, j + i) + RADIX * x
      BY DEF Follows
    <2> HIDE DEF X, x, y
    <2>6. RADIX * (x - y) = RADIX * x - RADIX * y /\ RADIX * x \in Int /\ RADIX * y \in Int
      BY <2>3, RadixIs
    <2>7. X[i] = RADIX * x - RADIX * y
      BY <2>2, <2>3, <2>4, <2>5, <2>6
    <2> QED BY <2>2, <2>6, <2>7
  <1>6. 0 \in 0 .. n /\ j + 0 = j
    OBVIOUS
  <1> HIDE DEF X
  <1>7. X[0] = 0
    BY <1>3, <1>4, <1>5, <1>6, Vanishes
  <1>8. X[0] = G[0] - Above(r, j)
    BY <1>6 DEF X
  <1>9. G[0] \in Int /\ Above(r, j) \in Nat
    BY <1>1, <1>2, <1>6
  <1> QED BY <1>7, <1>8, <1>9

\* B is what the digits f are worth, and f has none from n up.
Weighs(B, f, n) ==
    /\ f \in [Nat -> Digit] /\ B \in [Nat -> Nat]
    /\ \A i \in Nat : B[i] = f[i] + RADIX * B[i + 1]
    /\ \A i \in Nat : i >= n => f[i] = 0 /\ B[i] = 0

\* AddDigits adds: the sums of all digits, with what is carried into them, are the digits
\* of the sum; a leading digit of one of the operands keeps the sum from having leading
\* zeroes.
LEMMA AddHeldIs ==
  ASSUME NEW m, Held(m), NEW f, NEW B, Weighs(B, f, m.used),
         m.used > 1 => m.dp[m.used - 1] + f[m.used - 1] > 0,
         NEW r, r = AddDigits(m, f)
  PROVE  /\ Held(r) /\ Top(r) /\ r.sign = m.sign /\ Above(r, 0) = Above(m, 0) + B[0]
         /\ Tidy(m) => Tidy(r)
  <1> DEFINE n == m.used
             out == [i \in InUse(m) |-> [c \in Nat |-> CARRYOUT(m.dp[i] + f[i] + c)]]
             carry == Carries(n, out)
             digits == [i \in InUse(m) |-> ACCUM(m.dp[i] + f[i] + carry[i])]
             sum == WithDigits(m, digits)
             room == s_mp_grow(sum, n + 1)
  <1>1. PICK k \in Nat : /\ m \in Mp(k) /\ Clean(m) /\ (Tidy(m) => k = m.alloc)
                         /\ m.sign \in {ZPOS, NEG} /\ m.alloc \in 1 .. k /\ n \in 1 .. k
                         /\ n \in Nat /\ m.dp \in [0 .. k - 1 -> Digit]
                         /\ \A i \in Nat : DigitOf(m, i) \in Digit
                         /\ \A i \in Nat : i >= n => DigitOf(m, i) = 0
    BY HeldIs
  <1>2. \A i \in 0 .. n - 1 : /\ i \in Nat /\ m.dp[i] \in Digit /\ f[i] \in Digit
                              /\ m.dp[i] = DigitOf(m, i)
    <2> SUFFICES ASSUME NEW i \in 0 .. n - 1
                 PROVE  /\ i \in Nat /\ m.dp[i] \in Digit /\ f[i] \in Digit
                        /\ m.dp[i] = DigitOf(m, i)
      OBVIOUS
    <2>1. i \in Nat /\ i < m.used
      BY <1>1
    <2>2. m.dp[i] = DigitOf(m, i) /\ DigitOf(m, i) \in Digit
      BY <1>1, <2>1 DEF DigitOf
    <2>3. f[i] \in Digit
      BY <2>1 DEF Weighs
    <2> QED BY <2>1, <2>2, <2>3
  <1>3. \A x, y \in Digit, c \in {0, 1} : x + y + c \in Nat /\ x + y + c < RADIX * 2
    BY RadixIs DEF Digit
  <1>4. Within({0, 1}, n, out)
    <2> SUFFICES ASSUME NEW i \in 0 .. n - 1, NEW c \in {0, 1} PROVE out[i][c] \in {0, 1}
      BY DEF Within
    <2>1. out[i][c] = CARRYOUT(m.dp[i] + f[i] + c)
      BY DEF InUse
    <2>2. m.dp[i] + f[i] + c \in Nat /\ m.dp[i] + f[i] + c < RADIX * 2
      BY <1>2, <1>3
    <2>3. CARRYOUT(m.dp[i] + f[i] + c) \in Nat /\ CARRYOUT(m.dp[i] + f[i] + c) < 2
      BY <2>2, Splits, CarryBound
    <2> QED BY <2>1, <2>3
  <1>5. /\ carry \in [0 .. n -> {0, 1}] /\ carry[0] = 0
        /\ \A i \in 0 .. n - 1 : carry[i + 1] = out[i][carry[i]]
    <2> HIDE DEF out, n
    <2> QED BY <1>1, <1>4, CarriesRun
  <1>6. \A i \in 0 .. n - 1 : carry[i + 1] = CARRYOUT(m.dp[i] + f[i] + carry[i])
    <2> HIDE DEF carry
    <2> SUFFICES ASSUME NEW i \in 0 .. n - 1
                 PROVE  carry[i + 1] = CARRYOUT(m.dp[i] + f[i] + carry[i])
      OBVIOUS
    <2>1. carry[i] \in Nat
      BY <1>1, <1>5
    <2>2. out[i][carry[i]] = CARRYOUT(m.dp[i] + f[i] + carry[i])
      BY <2>1 DEF InUse
    <2> HIDE DEF out
    <2> QED BY <1>5, <2>2
  <1> HIDE DEF out, carry
  <1>7. ASSUME NEW i \in 0 .. n - 1
        PROVE  /\ digits[i] \in Digit /\ digits[i] \in Nat
               /\ m.dp[i] + f[i] + carry[i] = digits[i] + RADIX * carry[i + 1]
    <2>1. carry[i] \in {0, 1}
      BY <1>1, <1>5
    <2>2. m.dp[i] + f[i] + carry[i] \in Nat
      BY <1>2, <1>3, <2>1
    <2>3. digits[i] = ACCUM(m.dp[i] + f[i] + carry[i])
      BY DEF InUse
    <2> QED BY <1>6, <2>2, <2>3, Splits, RadixIs
  <1>8. digits \in [InUse(m) -> Digit]
    BY <1>7 DEF InUse
  <1> HIDE DEF digits
  <1>9. /\ sum \in Mp(k) /\ Clean(sum)
        /\ sum.sign = m.sign /\ sum.used = n /\ sum.alloc = m.alloc
        /\ \A i \in Nat : DigitOf(sum, i) = IF i < n THEN digits[i] ELSE 0
    BY <1>1, <1>8, WithDigitsIs
  <1> HIDE DEF sum
  <1>11. /\ r.sign = m.sign /\ Top(r) /\ Clean(r)
         /\ \A i \in Nat : DigitOf(r, i) = IF i < n THEN digits[i]
                                           ELSE IF i = n THEN carry[n] ELSE 0
         /\ \E l \in Nat : r \in Mp(l) /\ (Tidy(m) => l = r.alloc)
    <2>1. CASE carry[n] = 0
      <3>1. r = sum
        BY <2>1 DEF AddDigits, sum, room, digits, carry, out
      <3>2. Top(r)
        <4> SUFFICES ASSUME n > 1 PROVE digits[n - 1] # 0
          <5>1. n > 1 => DigitOf(sum, n - 1) = digits[n - 1] /\ DigitOf(sum, n - 1) = sum.dp[n - 1]
            BY <1>1, <1>9 DEF DigitOf
          <5> QED BY <1>9, <3>1, <5>1 DEF Top
        <4>1. n - 1 \in 0 .. n - 1 /\ (n - 1) + 1 = n
          BY <1>1
        <4>2. m.dp[n - 1] + f[n - 1] + carry[n - 1] = digits[n - 1] + RADIX * 0
          BY <1>7, <2>1, <4>1
        <4>3. carry[n - 1] \in {0, 1} /\ m.dp[n - 1] \in Nat /\ f[n - 1] \in Nat
          <5>1. carry[n - 1] \in {0, 1} /\ m.dp[n - 1] \in Digit /\ f[n - 1] \in Digit
            BY <1>1, <1>2, <1>5, <4>1
          <5> QED BY <5>1, RadixIs
        <4> QED BY <1>7, <4>1, <4>2, <4>3, RadixIs
      <3> QED BY <1>1, <1>9, <2>1, <3>1, <3>2
    <2>2. CASE carry[n] # 0
      <3>1. r = Longer(room, carry[n])
        BY <2>2 DEF AddDigits, sum, digits, carry, out
      <3>2. PICK l \in Nat : /\ room \in Mp(l) /\ Clean(room) /\ Same(room, sum)
                             /\ room.used = n /\ room.sign = m.sign /\ room.alloc >= n + 1
                             /\ k = sum.alloc => l = room.alloc
        <4>1. n + 1 \in Nat /\ n + 1 > sum.used
          BY <1>1, <1>9
        <4> QED BY <1>9, <4>1, GrowHeld
      <3> HIDE DEF room
      <3>3. n \in 0 .. n
        BY <1>1
      <3>4. carry[n] \in Digit
        BY <1>5, <3>3, RadixIs DEF Digit
      <3>5. room.used < l
        <4>1. room.alloc \in 1 .. l
          BY <3>2 DEF Mp
        <4> QED BY <1>1, <3>2, <4>1
      <3>6. /\ r \in Mp(l) /\ Clean(r)
            /\ r.sign = room.sign /\ r.used = n + 1 /\ r.alloc = room.alloc
            /\ r.dp[n] = carry[n]
            /\ \A i \in Nat : DigitOf(r, i) = IF i = n THEN carry[n] ELSE DigitOf(room, i)
        BY <3>1, <3>2, <3>4, <3>5, LongerIs
      <3>7. Tidy(m) => l = r.alloc
        BY <1>1, <1>9, <3>2, <3>6
      <3>8. Top(r)
        BY <1>1, <2>2, <3>6 DEF Top
      <3> QED BY <1>1, <1>9, <3>2, <3>6, <3>7, <3>8 DEF Same
    <2> QED BY <2>1, <2>2
  <1>12. PICK l \in Nat : r \in Mp(l) /\ (Tidy(m) => l = r.alloc)
    BY <1>11
  <1> DEFINE G == [i \in 0 .. n |-> Above(m, i) + B[i] + carry[i]]
  <1>13. \A i \in 0 .. n : /\ i \in Nat /\ Above(m, i) \in Nat /\ B[i] \in Nat /\ carry[i] \in Nat
    <2>1. \A i \in Nat : Above(m, i) \in Nat
      BY <1>1, AboveFacts
    <2>2. B \in [Nat -> Nat]
      BY DEF Weighs
    <2>3. \A i \in 0 .. n : i \in Nat /\ carry[i] \in Nat
      <3>1. n \in Nat
        BY <1>1
      <3> QED BY <1>5, <3>1
    <2> QED BY <2>1, <2>2, <2>3
  <1>14. ASSUME NEW i \in 0 .. n - 1
         PROVE  G[i] = DigitOf(r, 0 + i) + RADIX * G[i + 1]
    <2> DEFINE x == Above(m, i + 1)
               y == B[i + 1]
               c == carry[i + 1]
    <2>1. i \in Nat /\ i \in 0 .. n /\ i + 1 \in 0 .. n /\ 0 + i = i /\ i < n
      BY <1>1
    <2>2. G[i] = Above(m, i) + B[i] + carry[i] /\ G[i + 1] = x + y + c
      BY <2>1
    <2>3. Above(m, i) = m.dp[i] + RADIX * x
      <3>1. Above(m, i) = DigitOf(m, i) + RADIX * Above(m, i + 1)
        BY <1>1, <2>1, AboveUnfolds
      <3> QED BY <1>2, <3>1
    <2>4. B[i] = f[i] + RADIX * y
      BY <2>1 DEF Weighs
    <2>5. m.dp[i] + f[i] + carry[i] = digits[i] + RADIX * c
      BY <1>7
    <2>6. DigitOf(r, 0 + i) = digits[i]
      BY <1>11, <2>1
    <2>7. x \in Nat /\ y \in Nat /\ c \in Nat
      BY <1>13, <2>1
    <2>8. m.dp[i] \in Nat /\ f[i] \in Nat /\ carry[i] \in Nat /\ digits[i] \in Nat
      BY <1>2, <1>7, <1>13, <2>1, RadixIs
    <2> HIDE DEF G, x, y, c
    <2>9. /\ RADIX * (x + y + c) = RADIX * x + RADIX * y + RADIX * c
          /\ RADIX * x \in Nat /\ RADIX * y \in Nat /\ RADIX * c \in Nat
      BY <2>7, RadixIs
    <2>10. G[i] = digits[i] + (RADIX * x + RADIX * y + RADIX * c)
      BY <2>2, <2>3, <2>4, <2>5, <2>8, <2>9
    <2>11. RADIX * G[i + 1] = RADIX * x + RADIX * y + RADIX * c
      BY <2>2, <2>9
    <2> QED BY <2>6, <2>10, <2>11
  <1>15. G \in [0 .. n -> Int]
    BY <1>13
  <1>16. G[n] = Above(r, 0 + n)
    <2>1. n \in 0 .. n /\ n + 1 \in Nat /\ 0 + n = n
      BY <1>1
    <2>2. Above(m, n) = 0 /\ B[n] = 0 /\ Above(m, n + 1) = 0
      <3>1. \A i \in Nat : i >= n => Above(m, i) = 0
        BY <1>1, AboveFacts
      <3>2. \A i \in Nat : i >= n => B[i] = 0
        BY DEF Weighs
      <3>3. n \in Nat /\ n + 1 \in Nat
        BY <1>1
      <3> HIDE DEF n
      <3> QED BY <3>1, <3>2, <3>3
    <2>3. G[n] = carry[n]
      <3>1. G[n] = Above(m, n) + B[n] + carry[n]
        BY <2>1
      <3>2. carry[n] \in Nat
        BY <1>13, <2>1
      <3> QED BY <2>2, <3>1, <3>2
    <2>4. Above(r, n) = DigitOf(r, n) + RADIX * Above(r, n + 1)
      BY <1>1, <1>12, AboveUnfolds
    <2>5. Above(r, n + 1) = 0
      <3>1. \A i \in Nat : i >= n + 1 => DigitOf(r, i) = DigitOf(m, i)
        BY <1>1, <1>11
      <3>2. Above(r, n + 1) = Above(m, n + 1)
        BY <1>1, <1>12, <2>1, <3>1, SameAbove
      <3>3. Above(m, n + 1) = 0
        BY <2>2
      <3> QED BY <3>2, <3>3
    <2>6. DigitOf(r, n) = carry[n] /\ carry[n] \in Nat
      BY <1>1, <1>11, <1>13, <2>1
    <2> QED BY <2>1, <2>3, <2>4, <2>5, <2>6, RadixIs
  <1> HIDE DEF G
  <1>17. Follows(G, r, 0, n)
    BY <1>14, <1>15 DEF Follows
  <1>18. G[0] = Above(r, 0)
    BY <1>1, <1>12, <1>16, <1>17, Horner
  <1>19. 0 \in 0 .. n /\ Above(m, 0) \in Nat /\ B[0] \in Nat
    BY <1>1, <1>13
  <1>20. G[0] = Above(m, 0) + B[0]
    BY <1>5, <1>19 DEF G
  <1>21. Held(r) /\ (Tidy(m) => Tidy(r))
    BY <1>11, <1>12 DEF Held, Tidy
  <1> QED BY <1>11, <1>18, <1>20, <1>21

\* The same, where nothing was written beyond the storage.
LEMMA AddIs ==
  ASSUME NEW m, Tidy(m), NEW f, NEW B, Weighs(B, f, m.used),
         m.used > 1 => m.dp[m.used - 1] + f[m.used - 1] > 0,
         NEW r, r = AddDigits(m, f)
  PROVE  Tidy(r) /\ Top(r) /\ r.sign = m.sign /\ Above(r, 0) = Above(m, 0) + B[0]
  BY TidyHeld, AddHeldIs

\* What begins below 0 stays there.
LEMMA Negative ==
  ASSUME NEW k \in Nat, NEW r \in Mp(k), NEW n \in Nat, NEW G,
         Follows(G, r, 0, n), G[n] < 0
  PROVE  G[0] < 0
  <1> DEFINE X == [i \in 0 .. n |-> 0 - G[i]]
  <1>1. G \in [0 .. n -> Int]
    BY DEF Follows
  <1>2. X \in [0 .. n -> Int] /\ X[n] > 0
    BY <1>1
  <1>3. \A i \in 0 .. n - 1 : X[i] > RADIX * X[i + 1] - RADIX
    <2> SUFFICES ASSUME NEW i \in 0 .. n - 1 PROVE X[i] > RADIX * X[i + 1] - RADIX
      OBVIOUS
    <2> DEFINE x == G[i + 1]
               rx == RADIX * x
               d == DigitOf(r, i)
    <2>1. i \in Nat /\ i \in 0 .. n /\ i + 1 \in 0 .. n /\ 0 + i = i
      OBVIOUS
    <2>2. d \in Nat /\ d < RADIX
      BY <2>1, AboveFacts
    <2>3. x \in Int /\ G[i] \in Int
      BY <1>1, <2>1
    <2>4. G[i] = d + rx
      BY <2>1 DEF Follows
    <2>5. X[i] = 0 - G[i] /\ X[i + 1] = 0 - x
      BY <2>1
    <2> HIDE DEF X, x, d
    <2>6. RADIX * (0 - x) = 0 - rx /\ rx \in Int
      BY <2>3, RadixIs
    <2>7. RADIX * X[i + 1] = 0 - rx
      BY <2>5, <2>6
    <2> HIDE DEF rx
    <2> QED BY <2>2, <2>3, <2>4, <2>5, <2>6, <2>7, RadixIs
  <1>4. 0 \in 0 .. n
    OBVIOUS
  <1> HIDE DEF X
  <1>5. X[0] > 0
    BY <1>2, <1>3, <1>4, Dominates
  <1> QED BY <1>1, <1>4, <1>5 DEF X

\* SubDigits subtracts what is not more, and never borrows from beyond the last digit.
LEMMA SubIs ==
  ASSUME NEW m, Tidy(m), NEW f, NEW B, NEW l \in Nat, Weighs(B, f, l),
         B[0] <= Above(m, 0), NEW r, r = SubDigits(m, f)
  PROVE  /\ Tidy(r) /\ Top(r) /\ r.alloc = m.alloc
         /\ Above(r, 0) = Above(m, 0) - B[0]
         /\ r.sign = IF Above(r, 0) = 0 THEN ZPOS ELSE m.sign
  <1> DEFINE n == m.used
             Low(i, c) == RADIX + m.dp[i] - f[i] - c
             out == [i \in InUse(m) |-> [c \in Nat |-> 1 - CARRYOUT(Low(i, c))]]
             borrow == Carries(n, out)
             digits == [i \in InUse(m) |-> ACCUM(Low(i, borrow[i]))]
             diff == WithDigits(m, digits)
  <1>1. /\ m.alloc \in Nat /\ n \in 1 .. m.alloc /\ n \in Nat /\ m \in Mp(m.alloc) /\ Clean(m)
        /\ m.sign \in {ZPOS, NEG}
    BY TidyIs DEF Tidy
  <1>2. \A i \in 0 .. n - 1 : /\ i \in Nat /\ m.dp[i] \in Digit /\ f[i] \in Digit
                              /\ m.dp[i] = DigitOf(m, i)
    <2>1. m.dp \in [0 .. m.alloc - 1 -> Digit]
      BY TidyIs
    <2>2. f \in [Nat -> Digit]
      BY DEF Weighs
    <2> QED BY <1>1, <2>1, <2>2 DEF DigitOf
  <1>3. \A x, y \in Digit, c \in {0, 1} : /\ RADIX + x - y - c \in Nat
                                          /\ RADIX + x - y - c < RADIX * 2
    BY RadixIs DEF Digit
  <1>4. Within({0, 1}, n, out)
    <2> SUFFICES ASSUME NEW i \in 0 .. n - 1, NEW c \in {0, 1} PROVE out[i][c] \in {0, 1}
      BY DEF Within
    <2>1. out[i][c] = 1 - CARRYOUT(Low(i, c))
      BY DEF InUse
    <2>2. Low(i, c) \in Nat /\ Low(i, c) < RADIX * 2
      BY <1>2, <1>3
    <2> HIDE DEF Low
    <2>3. CARRYOUT(Low(i, c)) \in Nat /\ CARRYOUT(Low(i, c)) < 2
      BY <2>2, Splits, CarryBound
    <2> QED BY <2>1, <2>3
  <1>5. /\ borrow \in [0 .. n -> {0, 1}] /\ borrow[0] = 0
        /\ \A i \in 0 .. n - 1 : borrow[i + 1] = out[i][borrow[i]]
    <2> HIDE DEF out, n
    <2> QED BY <1>1, <1>4, CarriesRun
  <1>6. \A i \in 0 .. n - 1 : borrow[i + 1] = 1 - CARRYOUT(Low(i, borrow[i]))
    <2> HIDE DEF borrow
    <2> SUFFICES ASSUME NEW i \in 0 .. n - 1
                 PROVE  borrow[i + 1] = 1 - CARRYOUT(Low(i, borrow[i]))
      OBVIOUS
    <2>1. borrow[i] \in Nat
      BY <1>1, <1>5
    <2>2. out[i][borrow[i]] = 1 - CARRYOUT(Low(i, borrow[i]))
      BY <2>1 DEF InUse
    <2> HIDE DEF out, Low
    <2> QED BY <1>5, <2>2
  <1> HIDE DEF out, borrow
  <1>7. ASSUME NEW i \in 0 .. n - 1
        PROVE  /\ digits[i] \in Digit /\ digits[i] \in Nat
               /\ m.dp[i] - f[i] - borrow[i] = digits[i] - RADIX * borrow[i + 1]
    <2> DEFINE w == Low(i, borrow[i])
               c == CARRYOUT(w)
    <2>1. borrow[i] \in {0, 1} /\ borrow[i + 1] \in {0, 1}
      BY <1>1, <1>5
    <2>2. w \in Nat
      BY <1>2, <1>3, <2>1
    <2>3. digits[i] = ACCUM(w)
      BY DEF InUse
    <2>4. w = RADIX + m.dp[i] - f[i] - borrow[i]
      OBVIOUS
    <2>5. m.dp[i] \in Nat /\ f[i] \in Nat
      BY <1>2, RadixIs
    <2>6. borrow[i + 1] = 1 - c
      BY <1>6
    <2> HIDE DEF w, digits
    <2>7. digits[i] \in Digit /\ c \in Nat /\ w = digits[i] + RADIX * c
      BY <2>2, <2>3, Splits
    <2> HIDE DEF c
    <2>8. c = 1 - borrow[i + 1]
      BY <2>1, <2>6, <2>7
    <2>9. digits[i] \in Nat
      BY <2>7, RadixIs
    <2>10. CASE borrow[i + 1] = 0
      BY <2>1, <2>4, <2>5, <2>7, <2>8, <2>9, <2>10, RadixIs
    <2>11. CASE borrow[i + 1] = 1
      BY <2>1, <2>4, <2>5, <2>7, <2>8, <2>9, <2>11, RadixIs
    <2> QED BY <2>1, <2>10, <2>11
  <1>8. digits \in [InUse(m) -> Digit]
    BY <1>7 DEF InUse
  <1> HIDE DEF digits, Low
  <1>9. /\ diff \in Mp(m.alloc) /\ Clean(diff)
        /\ diff.sign = m.sign /\ diff.used = n /\ diff.alloc = m.alloc
        /\ \A i \in Nat : DigitOf(diff, i) = IF i < n THEN digits[i] ELSE 0
    BY <1>1, <1>8, WithDigitsIs
  <1>10. r = s_mp_clamp(diff)
    BY DEF SubDigits, diff, digits, borrow, out, Low
  <1> HIDE DEF diff
  <1>11. /\ r \in Mp(m.alloc) /\ Clean(r) /\ Same(r, diff) /\ Top(r) /\ r.alloc = m.alloc
         /\ r.sign = IF r.used = 1 /\ DigitOf(diff, 0) = 0 THEN ZPOS ELSE m.sign
    BY <1>1, <1>9, <1>10, ClampIs
  <1>12. Above(diff, 0) = Above(r, 0)
    BY <1>1, <1>9, <1>11, SameWorth
  <1> DEFINE G == [i \in 0 .. n |-> Above(m, i) - B[i] - borrow[i]]
  <1>13. \A i \in 0 .. n : /\ i \in Nat /\ Above(m, i) \in Nat /\ B[i] \in Nat
                           /\ borrow[i] \in Nat
    <2>1. \A i \in Nat : Above(m, i) \in Nat
      BY <1>1, AboveFacts
    <2>2. B \in [Nat -> Nat]
      BY DEF Weighs
    <2>3. \A i \in 0 .. n : i \in Nat /\ borrow[i] \in Nat
      BY <1>1, <1>5
    <2> QED BY <2>1, <2>2, <2>3
  <1>14. ASSUME NEW i \in 0 .. n - 1
         PROVE  G[i] = DigitOf(diff, 0 + i) + RADIX * G[i + 1]
    <2> DEFINE x == Above(m, i + 1)
               y == B[i + 1]
               c == borrow[i + 1]
    <2>1. i \in Nat /\ i \in 0 .. n /\ i + 1 \in 0 .. n /\ 0 + i = i /\ i < n
      BY <1>1
    <2>2. G[i] = Above(m, i) - B[i] - borrow[i] /\ G[i + 1] = x - y - c
      BY <2>1
    <2>3. Above(m, i) = m.dp[i] + RADIX * x
      BY <1>1, <1>2, <2>1, AboveUnfolds
    <2>4. B[i] = f[i] + RADIX * y
      BY <2>1 DEF Weighs
    <2>5. m.dp[i] - f[i] - borrow[i] = digits[i] - RADIX * c
      BY <1>7
    <2>6. DigitOf(diff, 0 + i) = digits[i]
      BY <1>9, <2>1
    <2>7. x \in Nat /\ y \in Nat /\ c \in Nat
      BY <1>13, <2>1
    <2>8. m.dp[i] \in Nat /\ f[i] \in Nat /\ borrow[i] \in Nat /\ digits[i] \in Nat
      BY <1>2, <1>7, <1>13, <2>1, RadixIs
    <2> HIDE DEF G, x, y, c
    <2>9. /\ RADIX * (x - y - c) = RADIX * x - RADIX * y - RADIX * c
          /\ RADIX * x \in Nat /\ RADIX * y \in Nat /\ RADIX * c \in Nat
      BY <2>7, RadixIs
    <2>10. G[i] = digits[i] + (RADIX * x - RADIX * y - RADIX * c)
      BY <2>2, <2>3, <2>4, <2>5, <2>8, <2>9
    <2>11. RADIX * G[i + 1] = RADIX * x - RADIX * y - RADIX * c
      BY <2>2, <2>9
    <2> QED BY <2>6, <2>10, <2>11
  <1>15. G \in [0 .. n -> Int]
    BY <1>13
  <1>16. 0 \in 0 .. n /\ n \in 0 .. n /\ 0 + n = n
    BY <1>1
  <1>17. G[0] = Above(m, 0) - B[0]
    <2>1. G[0] = Above(m, 0) - B[0] - borrow[0]
      BY <1>16
    <2> QED BY <1>5, <1>13, <1>16, <2>1
  <1>18. G[n] = 0 - B[n] - borrow[n]
    <2>1. Above(m, n) = 0
      BY <1>1, AboveFacts
    <2>2. G[n] = Above(m, n) - B[n] - borrow[n]
      BY <1>16
    <2> QED BY <2>1, <2>2
  <1> HIDE DEF G
  <1>19. Follows(G, diff, 0, n)
    BY <1>14, <1>15 DEF Follows
  <1>20. G[n] \in Int /\ ~ G[n] < 0
    <2>1. G[n] \in Int /\ G[0] \in Int
      BY <1>15, <1>16
    <2>2. ~ G[0] < 0
      <3>1. Above(m, 0) \in Nat /\ B[0] \in Nat
        BY <1>13, <1>16
      <3> QED BY <1>17, <3>1
    <2>3. G[n] < 0 => G[0] < 0
      BY <1>1, <1>9, <1>19, Negative
    <2> QED BY <2>1, <2>2, <2>3
  <1>21. G[n] = 0
    <2>1. B[n] \in Nat /\ borrow[n] \in Nat
      BY <1>13, <1>16
    <2> QED BY <1>18, <1>20, <2>1
  <1>22. Above(diff, n) = 0
    BY <1>1, <1>9, AboveFacts
  <1>23. G[0] = Above(diff, 0)
    <2>1. G[n] = Above(diff, 0 + n)
      BY <1>16, <1>21, <1>22
    <2> QED BY <1>1, <1>9, <1>19, <2>1, Horner
  <1>24. DigitOf(diff, 0) = DigitOf(r, 0)
    BY <1>11 DEF Same
  <1>25. /\ Above(r, 0) = 0 <=> r.used = 1 /\ r.dp[0] = 0
         /\ DigitOf(r, 0) = r.dp[0]
    BY <1>1, <1>11, ZeroIs
  <1>26. Tidy(r)
    BY <1>11 DEF Tidy
  <1> QED BY <1>11, <1>12, <1>17, <1>23, <1>24, <1>25, <1>26

-----------------------------------------------------------------------------
(* Multiplication of magnitudes.                                           *)

\* A digit times a digit, and two digits more, fit a word of two digits.
LEMMA RowProduct ==
  ASSUME NEW d \in Digit
  PROVE  \A x, y, c \in Digit : d * x + c + y \in Nat /\ d * x + c + y < RADIX * RADIX
  <1>1. \A R, p, q, s, z \in Nat : p < R /\ q < R /\ s < R /\ z < R => p * q + s + z < R * R
    <2> SUFFICES ASSUME NEW R \in Nat, NEW p \in Nat, NEW q \in Nat, NEW s \in Nat, NEW z \in Nat,
                        p < R, q < R, s < R, z < R
                 PROVE  p * q + s + z < R * R
      OBVIOUS
    <2>1. p * q <= (R - 1) * (R - 1)
      <3>1. PICK e \in Nat : R - 1 = p + e
        <4>1. (R - 1) - p \in Nat /\ R - 1 = p + ((R - 1) - p)
          OBVIOUS
        <4> QED BY <4>1
      <3>2. PICK f \in Nat : R - 1 = q + f
        <4>1. (R - 1) - q \in Nat /\ R - 1 = q + ((R - 1) - q)
          OBVIOUS
        <4> QED BY <4>1
      <3>3. (R - 1) * (R - 1) = (p + e) * (q + f)
        BY <3>1, <3>2
      <3>4. (p + e) * (q + f) = p * q + p * f + e * q + e * f
        OBVIOUS
      <3>5. p * f \in Nat /\ e * q \in Nat /\ e * f \in Nat /\ p * q \in Nat
        OBVIOUS
      <3> QED BY <3>3, <3>4, <3>5
    <2>2. R * R = (R - 1) * (R - 1) + (R + R - 1)
      OBVIOUS
    <2>3. p * q \in Nat /\ (R - 1) * (R - 1) \in Int
      OBVIOUS
    <2> QED BY <2>1, <2>2, <2>3
  <1>2. \A p, q, s, z \in Nat : p * q + s + z \in Nat
    OBVIOUS
  <1>3. \A x \in Digit : x \in Nat /\ x < RADIX
    BY RadixIs DEF Digit
  <1> SUFFICES ASSUME NEW x \in Digit, NEW y \in Digit, NEW c \in Digit
               PROVE  d * x + c + y \in Nat /\ d * x + c + y < RADIX * RADIX
    OBVIOUS
  <1> QED BY <1>1, <1>2, <1>3, RadixIs

\* The product of two digits, and a carry, is a word.
LEMMA DigitProduct ==
  ASSUME NEW x \in Digit, NEW d \in Digit, NEW c \in Digit
  PROVE  x * d + c \in Nat /\ x * d + c < RADIX * RADIX
  <1>1. x * d + c + 0 \in Nat /\ x * d + c + 0 < RADIX * RADIX
    BY RowProduct, RadixIs
  <1>2. \A p, q, s \in Nat : p * q + s + 0 = p * q + s
    OBVIOUS
  <1>3. x * d + c + 0 = x * d + c
    BY <1>2, RadixIs
  <1> QED BY <1>1, <1>3

\* s_mp_mul_d multiplies, even where it writes beyond the storage: what it writes there is
\* the right digit.  It does not if the product is no longer than m or the leading digit
\* alone makes it so.
LEMMA TimesDigitHeld ==
  ASSUME NEW m, Held(m), NEW d \in Digit, NEW r, r = s_mp_mul_d(m, d)
  PROVE  /\ Held(r) /\ Top(r) /\ Above(r, 0) = d * Above(m, 0)
         /\ r.sign = IF Above(r, 0) = 0 THEN ZPOS ELSE m.sign
         /\ DigitOf(r, m.used) = 0 \/ CARRYOUT(m.dp[m.used - 1] * d) # 0 => (Tidy(m) => Tidy(r))
  <1> DEFINE n == m.used
             Word(i, c) == m.dp[i] * d + c
             out == [i \in InUse(m) |-> [c \in Nat |-> CARRYOUT(Word(i, c))]]
             carry == Carries(n, out)
             digits == [i \in InUse(m) |-> ACCUM(Word(i, carry[i]))]
             product == WithDigits(m, digits)
             room == IF CARRYOUT(m.dp[n - 1] * d) # 0
                     THEN s_mp_grow(product, n + 1) ELSE product
             long == IF carry[n] = 0 THEN room ELSE Longer(room, carry[n])
  <1>1. PICK k \in Nat : /\ m \in Mp(k) /\ Clean(m) /\ (Tidy(m) => k = m.alloc)
                         /\ m.sign \in {ZPOS, NEG} /\ m.alloc \in 1 .. k /\ n \in 1 .. k
                         /\ n \in Nat /\ m.dp \in [0 .. k - 1 -> Digit]
                         /\ \A i \in Nat : DigitOf(m, i) \in Digit
                         /\ \A i \in Nat : i >= n => DigitOf(m, i) = 0
    BY HeldIs
  <1>2. \A i \in 0 .. n - 1 : i \in Nat /\ m.dp[i] \in Digit /\ m.dp[i] = DigitOf(m, i)
    BY <1>1 DEF DigitOf
  <1>3. \A x, c \in Digit : x * d + c \in Nat /\ x * d + c < RADIX * RADIX
    BY DigitProduct
  <1>4. Within(Digit, n, out)
    <2> SUFFICES ASSUME NEW i \in 0 .. n - 1, NEW c \in Digit PROVE out[i][c] \in Digit
      BY RadixIs DEF Within
    <2>1. out[i][c] = CARRYOUT(Word(i, c))
      BY RadixIs DEF InUse
    <2>2. Word(i, c) \in Nat /\ Word(i, c) < RADIX * RADIX
      BY <1>2, <1>3
    <2> HIDE DEF Word
    <2>3. CARRYOUT(Word(i, c)) \in Nat /\ CARRYOUT(Word(i, c)) < RADIX
      BY <2>2, Splits, CarryBound, RadixIs
    <2> QED BY <2>1, <2>3, RadixIs DEF Digit
  <1>5. /\ carry \in [0 .. n -> Digit] /\ carry[0] = 0
        /\ \A i \in 0 .. n - 1 : carry[i + 1] = out[i][carry[i]]
    <2> HIDE DEF out, n
    <2>1. n \in Nat
      BY <1>1
    <2> QED BY <1>4, <2>1, CarriesRun
  <1>6. \A i \in 0 .. n - 1 : carry[i + 1] = CARRYOUT(Word(i, carry[i]))
    <2> HIDE DEF carry
    <2> SUFFICES ASSUME NEW i \in 0 .. n - 1
                 PROVE  carry[i + 1] = CARRYOUT(Word(i, carry[i]))
      OBVIOUS
    <2>1. carry[i] \in Nat
      <3>1. carry[i] \in Digit
        BY <1>1, <1>5
      <3> QED BY <3>1, RadixIs
    <2>2. out[i][carry[i]] = CARRYOUT(Word(i, carry[i]))
      BY <2>1 DEF InUse
    <2> HIDE DEF out, Word
    <2> QED BY <1>5, <2>2
  <1> HIDE DEF out, carry
  <1>7. ASSUME NEW i \in 0 .. n - 1
        PROVE  /\ digits[i] \in Digit /\ digits[i] \in Nat
               /\ m.dp[i] * d + carry[i] = digits[i] + RADIX * carry[i + 1]
    <2>1. carry[i] \in Digit
      BY <1>1, <1>5
    <2>2. Word(i, carry[i]) \in Nat
      BY <1>2, <1>3, <2>1
    <2>3. digits[i] = ACCUM(Word(i, carry[i]))
      BY DEF InUse
    <2>4. Word(i, carry[i]) = m.dp[i] * d + carry[i]
      OBVIOUS
    <2> HIDE DEF Word, digits
    <2> QED BY <1>6, <2>2, <2>3, <2>4, Splits, RadixIs
  <1>8. digits \in [InUse(m) -> Digit]
    BY <1>7 DEF InUse
  <1> HIDE DEF digits, Word
  <1>9. /\ product \in Mp(k) /\ Clean(product)
        /\ product.sign = m.sign /\ product.used = n /\ product.alloc = m.alloc
        /\ \A i \in Nat : DigitOf(product, i) = IF i < n THEN digits[i] ELSE 0
    BY <1>1, <1>8, WithDigitsIs
  <1> HIDE DEF product
  <1>11. PICK p \in Nat : /\ room \in Mp(p) /\ Clean(room) /\ Same(room, product)
                          /\ room.used = n /\ room.sign = m.sign
                          /\ CARRYOUT(m.dp[n - 1] * d) # 0 => room.alloc >= n + 1
                          /\ k = m.alloc => p = room.alloc
    <2>1. n + 1 \in Nat /\ n + 1 > product.used
      BY <1>1, <1>9
    <2>2. CASE CARRYOUT(m.dp[n - 1] * d) # 0
      <3>1. room = s_mp_grow(product, n + 1)
        BY <2>2
      <3> HIDE DEF room
      <3>2. PICK p \in Nat : /\ room \in Mp(p) /\ Clean(room) /\ Same(room, product)
                             /\ room.used = product.used /\ room.sign = product.sign
                             /\ room.alloc >= n + 1 /\ (k = product.alloc => p = room.alloc)
        BY <1>9, <2>1, <3>1, GrowHeld
      <3> QED BY <1>9, <3>2
    <2>3. CASE CARRYOUT(m.dp[n - 1] * d) = 0
      <3>1. room = product
        BY <2>3
      <3> HIDE DEF room
      <3> QED BY <1>9, <2>3, <3>1 DEF Same
    <2> QED BY <2>2, <2>3
  <1>12. r = s_mp_clamp(long)
    BY DEF s_mp_mul_d, long, room, product, digits, carry, out, Word
  <1> HIDE DEF room
  <1>13. PICK q \in Nat : /\ long \in Mp(q) /\ Clean(long) /\ long.sign = m.sign
                          /\ \A i \in Nat : DigitOf(long, i) = IF i < n THEN digits[i]
                                                ELSE IF i = n THEN carry[n] ELSE 0
                          /\ carry[n] = 0 \/ CARRYOUT(m.dp[n - 1] * d) # 0 =>
                               (Tidy(m) => q = long.alloc)
    <2>1. room.alloc \in 1 .. p /\ room.used \in 1 .. p /\ (Tidy(m) => p = room.alloc)
      BY <1>1, <1>11 DEF Mp
    <2>2. CASE carry[n] = 0
      <3>1. long = room
        BY <2>2
      <3> HIDE DEF long
      <3>2. \A i \in Nat : DigitOf(long, i) = IF i < n THEN digits[i]
                               ELSE IF i = n THEN carry[n] ELSE 0
        BY <1>1, <1>9, <1>11, <2>2, <3>1 DEF Same
      <3>3. long \in Mp(p) /\ Clean(long) /\ long.sign = m.sign /\ (Tidy(m) => p = long.alloc)
        BY <1>11, <2>1, <3>1
      <3> QED BY <3>2, <3>3
    <2>3. CASE carry[n] # 0
      <3>1. long = Longer(room, carry[n])
        BY <2>3
      <3> HIDE DEF long
      <3>2. n \in 0 .. n
        BY <1>1
      <3>3. carry[n] \in Digit
        BY <1>5, <3>2
      <3> DEFINE l == IF room.used < p THEN p ELSE p + 1
      <3>4. /\ long \in Mp(l) /\ Clean(long) /\ long.sign = room.sign
            /\ long.alloc = room.alloc
            /\ \A i \in Nat : DigitOf(long, i) = IF i = room.used THEN carry[n]
                                                 ELSE DigitOf(room, i)
        BY <1>11, <3>1, <3>3, LongerIs
      <3>5. l \in Nat /\ (CARRYOUT(m.dp[n - 1] * d) # 0 => (Tidy(m) => l = long.alloc))
        BY <1>1, <1>11, <2>1, <3>4
      <3> HIDE DEF l
      <3>6. \A i \in Nat : DigitOf(long, i) = IF i < n THEN digits[i]
                               ELSE IF i = n THEN carry[n] ELSE 0
        BY <1>1, <1>9, <1>11, <3>4 DEF Same
      <3> QED BY <1>11, <2>3, <3>4, <3>5, <3>6
    <2> QED BY <2>2, <2>3
  <1> HIDE DEF long
  <1>14. /\ r \in Mp(q) /\ Clean(r) /\ Same(r, long) /\ Top(r) /\ r.alloc = long.alloc
         /\ r.sign = IF r.used = 1 /\ DigitOf(long, 0) = 0 THEN ZPOS ELSE m.sign
    BY <1>12, <1>13, ClampIs
  <1>15. Above(long, 0) = Above(r, 0)
    BY <1>13, <1>14, SameWorth
  <1> DEFINE G == [i \in 0 .. n |-> d * Above(m, i) + carry[i]]
  <1>16. \A i \in 0 .. n : i \in Nat /\ Above(m, i) \in Nat /\ carry[i] \in Nat
    <2>1. \A i \in Nat : Above(m, i) \in Nat
      BY <1>1, AboveFacts
    <2>2. \A i \in 0 .. n : i \in Nat /\ carry[i] \in Digit
      BY <1>1, <1>5
    <2> QED BY <2>1, <2>2, RadixIs
  <1>17. d \in Nat
    BY RadixIs
  <1>18. ASSUME NEW i \in 0 .. n - 1
         PROVE  G[i] = DigitOf(long, 0 + i) + RADIX * G[i + 1]
    <2> DEFINE x == Above(m, i + 1)
               c == carry[i + 1]
               rx == RADIX * x
               rc == RADIX * c
    <2>1. i \in Nat /\ i \in 0 .. n /\ i + 1 \in 0 .. n /\ 0 + i = i /\ i < n
      BY <1>1
    <2>2. G[i] = d * Above(m, i) + carry[i] /\ G[i + 1] = d * x + c
      BY <2>1
    <2>3. Above(m, i) = m.dp[i] + rx
      <3>1. Above(m, i) = DigitOf(m, i) + RADIX * Above(m, i + 1)
        BY <1>1, <2>1, AboveUnfolds
      <3> QED BY <1>2, <3>1
    <2>4. m.dp[i] * d + carry[i] = digits[i] + rc
      BY <1>7
    <2>5. DigitOf(long, 0 + i) = digits[i]
      BY <1>13, <2>1
    <2>6. x \in Nat /\ c \in Nat
      BY <1>16, <2>1
    <2>7. m.dp[i] \in Nat /\ carry[i] \in Nat /\ digits[i] \in Nat
      BY <1>2, <1>7, <1>16, <2>1, RadixIs
    <2> HIDE DEF G, x, c
    <2>8. rx \in Nat /\ rc \in Nat
      BY <2>6, RadixIs
    <2>9. RADIX * (d * x + c) = d * rx + rc
      <3>1. \A R, g, h, s \in Nat : R * (g * h + s) = g * (R * h) + R * s
        OBVIOUS
      <3> QED BY <1>17, <2>6, <3>1, RadixIs
    <2> HIDE DEF rx, rc
    <2>10. d * (m.dp[i] + rx) = m.dp[i] * d + d * rx
      <3>1. \A g, h, s \in Nat : g * (h + s) = h * g + g * s
        OBVIOUS
      <3> QED BY <1>17, <2>7, <2>8, <3>1
    <2> DEFINE md == m.dp[i] * d
               drx == d * rx
    <2>11. md \in Nat /\ drx \in Nat
      BY <1>17, <2>7, <2>8
    <2>12. G[i] = (md + drx) + carry[i]
      BY <2>2, <2>3, <2>10
    <2>13. RADIX * G[i + 1] = drx + rc
      BY <2>2, <2>9
    <2>14. md + carry[i] = digits[i] + rc
      BY <2>4
    <2> HIDE DEF md, drx
    <2>15. G[i] = digits[i] + (drx + rc)
      BY <2>7, <2>8, <2>11, <2>12, <2>14
    <2> QED BY <2>5, <2>13, <2>15
  <1>19. G \in [0 .. n -> Int]
    <2>1. ASSUME NEW i \in 0 .. n PROVE d * Above(m, i) + carry[i] \in Int
      BY <1>16, <1>17
    <2> QED BY <2>1
  <1>20. 0 \in 0 .. n /\ n \in 0 .. n /\ 0 + n = n /\ n + 1 \in Nat
    BY <1>1
  <1>21. G[0] = d * Above(m, 0)
    <2>1. G[0] = d * Above(m, 0) + carry[0]
      BY <1>20
    <2>2. d * Above(m, 0) \in Nat
      BY <1>16, <1>17, <1>20
    <2> QED BY <1>5, <2>1, <2>2
  <1>22. G[n] = Above(long, 0 + n)
    <2>1. G[n] = d * Above(m, n) + carry[n]
      BY <1>20
    <2>2. Above(m, n) = 0
      <3>1. \A i \in Nat : i >= m.used => Above(m, i) = 0
        BY <1>1, AboveFacts
      <3> QED BY <1>1, <3>1
    <2>3. carry[n] \in Nat
      BY <1>16, <1>20
    <2>4. G[n] = carry[n]
      BY <1>17, <2>1, <2>2, <2>3
    <2>5. Above(long, n) = DigitOf(long, n) + RADIX * Above(long, n + 1)
      BY <1>1, <1>13, AboveUnfolds
    <2>6. Above(long, n + 1) = 0
      <3>1. \A i \in Nat : i >= n + 1 => DigitOf(long, i) = DigitOf(m, i)
        BY <1>1, <1>13
      <3>2. Above(long, n + 1) = Above(m, n + 1)
        BY <1>1, <1>13, <1>20, <3>1, SameAbove
      <3>3. Above(m, n + 1) = 0
        <4>1. \A i \in Nat : i >= n => Above(m, i) = 0
          BY <1>1, AboveFacts
        <4>2. n + 1 >= n
          BY <1>1
        <4> QED BY <1>20, <4>1, <4>2
      <3> QED BY <3>2, <3>3
    <2>7. DigitOf(long, n) = carry[n]
      BY <1>1, <1>13
    <2> QED BY <1>20, <2>3, <2>4, <2>5, <2>6, <2>7, RadixIs
  <1> HIDE DEF G
  <1>23. Follows(G, long, 0, n)
    BY <1>18, <1>19 DEF Follows
  <1>24. G[0] = Above(long, 0)
    BY <1>1, <1>13, <1>22, <1>23, Horner
  <1>25. DigitOf(long, 0) = DigitOf(r, 0)
    BY <1>14 DEF Same
  <1>26. /\ Above(r, 0) = 0 <=> r.used = 1 /\ r.dp[0] = 0
         /\ DigitOf(r, 0) = r.dp[0]
    BY <1>14, ZeroIs
  <1>27. Held(r)
    BY <1>14 DEF Held
  <1>28. ASSUME DigitOf(r, n) = 0 \/ CARRYOUT(m.dp[n - 1] * d) # 0
         PROVE  Tidy(m) => Tidy(r)
    <2>1. DigitOf(r, n) = carry[n]
      BY <1>1, <1>13, <1>14 DEF Same
    <2>2. Tidy(m) => q = r.alloc
      BY <1>13, <1>14, <1>28, <2>1
    <2> QED BY <1>14, <2>2 DEF Tidy
  <1> QED BY <1>14, <1>15, <1>21, <1>24, <1>25, <1>26, <1>27, <1>28

\* The same, where nothing was written beyond the storage before.
LEMMA TimesDigitIs ==
  ASSUME NEW m, Tidy(m), NEW d \in Digit, NEW r, r = s_mp_mul_d(m, d)
  PROVE  /\ Held(r) /\ Top(r) /\ Above(r, 0) = d * Above(m, 0)
         /\ r.sign = IF Above(r, 0) = 0 THEN ZPOS ELSE m.sign
         /\ DigitOf(r, m.used) = 0 \/ CARRYOUT(m.dp[m.used - 1] * d) # 0 => Tidy(r)
  BY TidyHeld, TimesDigitHeld

\* Only zeroes are worth nothing.
LEMMA NoneAbove ==
  ASSUME NEW k \in Nat, NEW m \in Mp(k), NEW j \in Nat, \A i \in Nat : i >= j => DigitOf(m, i) = 0
  PROVE  Above(m, j) = 0
  <1> DEFINE z == [sign |-> ZPOS, used |-> 1, alloc |-> 1, dp |-> [i \in 0 .. 0 |-> 0]]
  <1>1. z \in Mp(1) /\ z.used = 1 /\ z.dp[0] = 0
    BY RadixIs DEF Mp
  <1>2. \A i \in Nat : DigitOf(z, i) = 0
    BY <1>1 DEF DigitOf
  <1> HIDE DEF z
  <1>3. Above(m, j) = Above(z, j)
    BY <1>1, <1>2, SameAbove
  <1>4. \A i \in Nat : i >= 1 => Above(z, i) = 0
    BY <1>1, AboveFacts
  <1>5. CASE j >= 1
    BY <1>3, <1>4, <1>5
  <1>6. CASE j = 0
    <2>1. Above(z, 0) = DigitOf(z, 0) + RADIX * Above(z, 0 + 1)
      BY <1>1, AboveUnfolds
    <2>2. Above(z, 0 + 1) = 0
      BY <1>4
    <2> QED BY <1>2, <1>3, <1>6, <2>1, <2>2, RadixIs
  <1> QED BY <1>5, <1>6

\* One row of long multiplication adds d * a * RADIX^ix.
LEMMA RowIs ==
  ASSUME NEW k \in Nat, NEW t \in Mp(k), Clean(t), NEW l \in Nat, NEW a \in Mp(l),
         NEW d \in Digit, NEW ix \in Nat, ix + a.used < t.used,
         \A i \in Nat : i >= ix + a.used => DigitOf(t, i) = 0,
         NEW r, r = Row(t, a, d, ix)
  PROVE  /\ r \in Mp(k) /\ Clean(r) /\ r.sign = t.sign /\ r.used = t.used /\ r.alloc = t.alloc
         /\ \A i \in Nat : i < ix \/ i > ix + a.used => DigitOf(r, i) = DigitOf(t, i)
         /\ Above(r, ix) = Above(t, ix) + d * Above(a, 0)
  <1> DEFINE n == a.used
             Word(j, c) == d * a.dp[j] + c + t.dp[ix + j]
             out == [j \in InUse(a) |-> [c \in Nat |-> CARRYOUT(Word(j, c))]]
             carry == Carries(n, out)
             digits == [i \in ix .. ix + n |->
                           IF i = ix + n THEN carry[n]
                           ELSE ACCUM(d * a.dp[i - ix] + carry[i - ix] + t.dp[i])]
  <1>1. /\ n \in Nat /\ n > 0 /\ t.used \in 1 .. k /\ t.dp \in [0 .. k - 1 -> Digit]
        /\ n \in 1 .. l /\ a.dp \in [0 .. l - 1 -> Digit]
    <2>1. n \in 1 .. l /\ a.dp \in [0 .. l - 1 -> Digit]
      BY MpFacts
    <2>2. t.used \in 1 .. k /\ t.dp \in [0 .. k - 1 -> Digit]
      BY MpFacts
    <2> HIDE DEF n
    <2> QED BY <2>1, <2>2
  <1>2. \A j \in 0 .. n - 1 : /\ j \in Nat /\ ix + j \in Nat /\ a.dp[j] \in Digit
                              /\ t.dp[ix + j] \in Digit
                              /\ a.dp[j] = DigitOf(a, j) /\ t.dp[ix + j] = DigitOf(t, ix + j)
    <2> SUFFICES ASSUME NEW j \in 0 .. n - 1
                 PROVE  /\ j \in Nat /\ ix + j \in Nat /\ a.dp[j] \in Digit
                        /\ t.dp[ix + j] \in Digit
                        /\ a.dp[j] = DigitOf(a, j) /\ t.dp[ix + j] = DigitOf(t, ix + j)
      OBVIOUS
    <2>1. /\ j \in Nat /\ ix + j \in Nat /\ j \in 0 .. l - 1 /\ ix + j \in 0 .. k - 1
          /\ j < a.used /\ ix + j < t.used
      <3>1. j \in Nat /\ j < n /\ ix + j \in Nat /\ ix + j < t.used
        BY <1>1
      <3>2. j \in 0 .. l - 1
        BY <1>1, <3>1
      <3>3. ix + j \in 0 .. k - 1
        BY <1>1, <3>1
      <3> QED BY <3>1, <3>2, <3>3
    <2> QED BY <1>1, <2>1 DEF DigitOf
  <1>3. \A x, y, c \in Digit : d * x + c + y \in Nat /\ d * x + c + y < RADIX * RADIX
    BY RowProduct
  <1>4. Within(Digit, n, out)
    <2> SUFFICES ASSUME NEW j \in 0 .. n - 1, NEW c \in Digit PROVE out[j][c] \in Digit
      BY RadixIs DEF Within
    <2>1. out[j][c] = CARRYOUT(Word(j, c))
      BY RadixIs DEF InUse
    <2>2. Word(j, c) \in Nat /\ Word(j, c) < RADIX * RADIX
      BY <1>2, <1>3
    <2> HIDE DEF Word
    <2>3. CARRYOUT(Word(j, c)) \in Nat /\ CARRYOUT(Word(j, c)) < RADIX
      BY <2>2, Splits, CarryBound, RadixIs
    <2> QED BY <2>1, <2>3, RadixIs DEF Digit
  <1>5. /\ carry \in [0 .. n -> Digit] /\ carry[0] = 0
        /\ \A j \in 0 .. n - 1 : carry[j + 1] = out[j][carry[j]]
    <2> HIDE DEF out, n
    <2>1. n \in Nat
      BY <1>1
    <2> QED BY <1>4, <2>1, CarriesRun
  <1>6. \A j \in 0 .. n - 1 : carry[j + 1] = CARRYOUT(Word(j, carry[j]))
    <2> HIDE DEF carry
    <2> SUFFICES ASSUME NEW j \in 0 .. n - 1
                 PROVE  carry[j + 1] = CARRYOUT(Word(j, carry[j]))
      OBVIOUS
    <2>1. carry[j] \in Nat
      <3>1. carry[j] \in Digit
        <4>1. j \in 0 .. n
          BY <1>1
        <4> QED BY <1>5, <4>1
      <3> QED BY <3>1, RadixIs
    <2>2. out[j][carry[j]] = CARRYOUT(Word(j, carry[j]))
      BY <2>1 DEF InUse
    <2> HIDE DEF out, Word
    <2> QED BY <1>5, <2>2
  <1> HIDE DEF out, carry
  <1>7. ASSUME NEW j \in 0 .. n - 1
        PROVE  /\ digits[ix + j] \in Digit /\ digits[ix + j] \in Nat
               /\ Word(j, carry[j]) = digits[ix + j] + RADIX * carry[j + 1]
    <2>1. carry[j] \in Digit
      <3>1. j \in 0 .. n
        BY <1>1
      <3> QED BY <1>5, <3>1
    <2>2. Word(j, carry[j]) \in Nat
      BY <1>2, <1>3, <2>1
    <2>3. ix + j \in ix .. ix + n /\ ix + j # ix + n /\ (ix + j) - ix = j
      BY <1>1
    <2>4. digits[ix + j] = ACCUM(Word(j, carry[j]))
      BY <2>3
    <2> HIDE DEF Word, digits
    <2> QED BY <1>6, <2>2, <2>4, Splits, RadixIs
  <1>8. n \in 0 .. n /\ 0 \in 0 .. n /\ ix + n \in Nat /\ ix + n \in ix .. ix + n
    BY <1>1
  <1>9. digits[ix + n] = carry[n] /\ carry[n] \in Digit
    BY <1>5, <1>8
  <1>10. digits \in [ix .. ix + n -> Digit]
    <2>1. ASSUME NEW i \in ix .. ix + n PROVE digits[i] \in Digit
      <3>1. CASE i = ix + n
        BY <1>9, <3>1
      <3>2. CASE i # ix + n
        <4>1. i - ix \in 0 .. n - 1 /\ ix + (i - ix) = i
          <5>1. n \in Nat
            BY <1>1
          <5> HIDE DEF n
          <5> QED BY <3>2, <5>1
        <4> QED BY <1>7, <4>1
      <3> QED BY <3>1, <3>2
    <2>2. digits = [i \in ix .. ix + n |-> digits[i]]
      OBVIOUS
    <2> HIDE DEF digits
    <2> QED BY <2>1, <2>2
  <1> HIDE DEF digits
  <1>11. /\ DOMAIN digits = ix .. ix + n /\ DOMAIN digits \subseteq InUse(t)
         /\ \A i \in DOMAIN digits : digits[i] \in Digit
    BY <1>1, <1>10 DEF InUse
  <1>12. r = WithDigits(t, digits)
    BY DEF Row, digits, carry, out
  <1>13. /\ r \in Mp(k) /\ Clean(r)
         /\ r.sign = t.sign /\ r.used = t.used /\ r.alloc = t.alloc
         /\ \A i \in Nat : DigitOf(r, i) = IF i \in ix .. ix + n THEN digits[i]
                                           ELSE DigitOf(t, i)
    <2> DEFINE D == DOMAIN digits
    <2>1. /\ r \in Mp(k) /\ Clean(r)
          /\ r.sign = t.sign /\ r.used = t.used /\ r.alloc = t.alloc
          /\ \A i \in Nat : DigitOf(r, i) = IF i \in DOMAIN digits THEN digits[i]
                                            ELSE DigitOf(t, i)
      <3>1. DOMAIN digits \subseteq InUse(t) /\ \A i \in DOMAIN digits : digits[i] \in Digit
        BY <1>11
      <3> QED BY <1>12, <3>1, WithSomeIs
    <2>2. D = ix .. ix + n
      BY <1>11
    <2>3. \A i \in Nat : DigitOf(r, i) = IF i \in D THEN digits[i] ELSE DigitOf(t, i)
      BY <2>1
    <2> HIDE DEF D
    <2> QED BY <2>1, <2>2, <2>3
  <1>14. \A i \in Nat : i < ix \/ i > ix + n => DigitOf(r, i) = DigitOf(t, i)
    BY <1>1, <1>13
  <1> DEFINE G == [j \in 0 .. n |-> d * Above(a, j) + Above(t, ix + j) + carry[j]]
  <1>15. \A j \in 0 .. n : /\ j \in Nat /\ ix + j \in Nat /\ Above(a, j) \in Nat
                           /\ Above(t, ix + j) \in Nat /\ carry[j] \in Nat
    <2> SUFFICES ASSUME NEW j \in 0 .. n
                 PROVE  /\ j \in Nat /\ ix + j \in Nat /\ Above(a, j) \in Nat
                        /\ Above(t, ix + j) \in Nat /\ carry[j] \in Nat
      OBVIOUS
    <2>1. j \in Nat /\ ix + j \in Nat /\ carry[j] \in Digit
      BY <1>1, <1>5
    <2>2. Above(a, j) \in Nat /\ Above(t, ix + j) \in Nat
      BY <2>1, AboveFacts
    <2> QED BY <2>1, <2>2, RadixIs
  <1>16. d \in Nat
    BY RadixIs
  <1>17. ASSUME NEW j \in 0 .. n - 1
         PROVE  G[j] = DigitOf(r, ix + j) + RADIX * G[j + 1]
    <2> DEFINE x == Above(a, j + 1)
               y == Above(t, ix + (j + 1))
               c == carry[j + 1]
               rx == RADIX * x
               ry == RADIX * y
               rc == RADIX * c
               u == a.dp[j]
               v == t.dp[ix + j]
               w == digits[ix + j]
    <2>1. /\ j \in Nat /\ j \in 0 .. n /\ j + 1 \in 0 .. n /\ ix + (j + 1) = (ix + j) + 1
          /\ ix + j \in Nat /\ ix + j \in ix .. ix + n
      BY <1>1
    <2>2. /\ G[j] = d * Above(a, j) + Above(t, ix + j) + carry[j]
          /\ G[j + 1] = d * x + y + c
      BY <2>1
    <2>3. Above(a, j) = u + rx
      <3>1. Above(a, j) = DigitOf(a, j) + RADIX * Above(a, j + 1)
        BY <2>1, AboveUnfolds
      <3> QED BY <1>2, <3>1
    <2>4. Above(t, ix + j) = v + ry
      <3>1. Above(t, ix + j) = DigitOf(t, ix + j) + RADIX * Above(t, (ix + j) + 1)
        BY <2>1, AboveUnfolds
      <3> QED BY <1>2, <2>1, <3>1
    <2>5. d * u + carry[j] + v = w + rc
      BY <1>7
    <2>6. DigitOf(r, ix + j) = w
      BY <1>13, <2>1
    <2>7. x \in Nat /\ y \in Nat /\ c \in Nat /\ carry[j] \in Nat
      BY <1>15, <2>1
    <2>8. u \in Nat /\ v \in Nat /\ w \in Nat
      BY <1>2, <1>7, RadixIs
    <2> HIDE DEF G, x, y, c, u, v, w
    <2>9. rx \in Nat /\ ry \in Nat /\ rc \in Nat
      BY <2>7, RadixIs
    <2>10. RADIX * (d * x + y + c) = d * rx + ry + rc
      <3>1. \A R, p, q, s, z \in Nat : R * (p * q + s + z) = p * (R * q) + R * s + R * z
        OBVIOUS
      <3> QED BY <1>16, <2>7, <3>1, RadixIs
    <2> HIDE DEF rx, ry, rc
    <2>11. d * (u + rx) = d * u + d * rx
      <3>1. \A p, q, s \in Nat : p * (q + s) = p * q + p * s
        OBVIOUS
      <3> QED BY <1>16, <2>8, <2>9, <3>1
    <2> DEFINE du == d * u
               drx == d * rx
    <2>12. du \in Nat /\ drx \in Nat
      BY <1>16, <2>8, <2>9
    <2>13. G[j] = (du + drx) + (v + ry) + carry[j]
      BY <2>2, <2>3, <2>4, <2>11
    <2>14. RADIX * G[j + 1] = drx + ry + rc
      BY <2>2, <2>10
    <2>15. du + carry[j] + v = w + rc
      BY <2>5
    <2> HIDE DEF du, drx
    <2>16. G[j] = w + (drx + ry + rc)
      BY <2>7, <2>8, <2>9, <2>12, <2>13, <2>15
    <2> QED BY <2>6, <2>14, <2>16
  <1>18. G \in [0 .. n -> Int]
    <2>1. ASSUME NEW j \in 0 .. n PROVE d * Above(a, j) + Above(t, ix + j) + carry[j] \in Int
      BY <1>15, <1>16
    <2> QED BY <2>1
  <1>19. G[0] = d * Above(a, 0) + Above(t, ix)
    <2>1. G[0] = d * Above(a, 0) + Above(t, ix + 0) + carry[0]
      BY <1>8
    <2>2. d * Above(a, 0) \in Nat /\ Above(t, ix) \in Nat /\ ix + 0 = ix
      BY <1>8, <1>15, <1>16, AboveFacts
    <2> QED BY <1>5, <2>1, <2>2
  <1>20. G[n] = Above(r, ix + n)
    <2>1. G[n] = d * Above(a, n) + Above(t, ix + n) + carry[n]
      BY <1>8
    <2>2. Above(a, n) = 0
      <3>1. \A i \in Nat : i >= a.used => Above(a, i) = 0
        BY AboveFacts
      <3> QED BY <1>1, <3>1
    <2>3. Above(t, ix + n) = 0
      BY <1>8, NoneAbove
    <2>4. carry[n] \in Nat
      BY <1>8, <1>15
    <2>5. G[n] = carry[n]
      BY <1>16, <2>1, <2>2, <2>3, <2>4
    <2>6. (ix + n) + 1 \in Nat
      BY <1>1
    <2>7. Above(r, (ix + n) + 1) = 0
      <3>1. \A i \in Nat : i >= (ix + n) + 1 => DigitOf(r, i) = 0
        BY <1>1, <1>14
      <3> QED BY <1>13, <2>6, <3>1, NoneAbove
    <2>8. Above(r, ix + n) = DigitOf(r, ix + n) + RADIX * Above(r, (ix + n) + 1)
      BY <1>8, <1>13, AboveUnfolds
    <2>9. DigitOf(r, ix + n) = carry[n]
      BY <1>8, <1>9, <1>13
    <2> QED BY <2>4, <2>5, <2>7, <2>8, <2>9, RadixIs
  <1> HIDE DEF G
  <1>21. Follows(G, r, ix, n)
    BY <1>17, <1>18 DEF Follows
  <1>22. G[0] = Above(r, ix)
    BY <1>1, <1>13, <1>20, <1>21, Horner
  <1>23. d * Above(a, 0) \in Nat /\ Above(t, ix) \in Nat
    <2>1. Above(a, 0) \in Nat /\ Above(t, ix) \in Nat
      BY AboveFacts
    <2> QED BY <1>16, <2>1
  <1> QED BY <1>13, <1>14, <1>19, <1>22, <1>23

\* The temporary of s_mp_mul begins as 0.
LEMMA ZeroesIs ==
  ASSUME NEW n \in Nat, n > 0, NEW r, r = Zeroes(n)
  PROVE  /\ r \in Mp(n) /\ Clean(r) /\ r.sign = ZPOS /\ r.used = n /\ r.alloc = n
         /\ \A i \in Nat : DigitOf(r, i) = 0
  <1>1. r = [sign |-> ZPOS, used |-> n, alloc |-> n, dp |-> [i \in 0 .. n - 1 |-> 0]]
    BY DEF Zeroes, Fresh
  <1>2. r \in Mp(n)
    BY <1>1, RadixIs DEF Mp
  <1>3. Clean(r)
    BY <1>1 DEF Clean
  <1>4. \A i \in Nat : DigitOf(r, i) = 0
    BY <1>1 DEF DigitOf
  <1> QED BY <1>1, <1>2, <1>3, <1>4

\* One turn of the outer loop.
Turn(t, a, b, ix) == IF b.dp[ix] = 0 THEN t ELSE Row(t, a, b.dp[ix], ix)

\* The numbers that the outer loop goes through.
LEMMA TurnsRun ==
  ASSUME NEW a, NEW b, b.used \in Nat
  PROVE  \E T : /\ T[0] = Zeroes(a.used + b.used)
                /\ \A ix \in 0 .. b.used - 1 : T[ix + 1] = Turn(T[ix], a, b, ix)
                /\ s_mp_mul(a, b) = s_mp_clamp(T[b.used])
  <1> DEFINE n == b.used
             z == Zeroes(a.used + b.used)
             Runs(f, k) == f[0] = z /\ \A i \in 0 .. k - 1 : f[i + 1] = Turn(f[i], a, b, i)
             P == {k \in 0 .. n : \E f : Runs(f, k)}
             Is(h) == h = [ix \in 0 .. b.used |->
                              IF ix = 0 THEN Zeroes(a.used + b.used)
                              ELSE IF b.dp[ix - 1] = 0 THEN h[ix - 1]
                              ELSE Row(h[ix - 1], a, b.dp[ix - 1], ix - 1)]
             T == CHOOSE h : Is(h)
  <1>1. 0 \in P
    <2> DEFINE f == [i \in 0 .. 0 |-> z]
    <2>1. Runs(f, 0) /\ 0 \in 0 .. n
      BY DEF Zeroes
    <2> HIDE DEF f
    <2> QED BY <2>1
  <1>2. \A k \in 1 .. n : k - 1 \in P => k \in P
    <2> SUFFICES ASSUME NEW k \in 1 .. n, NEW f, Runs(f, k - 1)
                 PROVE  \E g : Runs(g, k)
      OBVIOUS
    <2> HIDE DEF z
    <2> DEFINE g == [i \in 0 .. k |-> IF i < k THEN f[i] ELSE Turn(f[k - 1], a, b, k - 1)]
    <2>1. g[0] = z
      OBVIOUS
    <2>2. ASSUME NEW i \in 0 .. k - 1
          PROVE  g[i + 1] = Turn(g[i], a, b, i)
      <3>1. CASE i < k - 1
        <4>1. i \in 0 .. (k - 1) - 1 /\ i < k /\ i + 1 < k /\ i \in 0 .. k /\ i + 1 \in 0 .. k
          BY <3>1
        <4>2. g[i] = f[i] /\ g[i + 1] = f[i + 1]
          BY <4>1
        <4> QED BY <4>1, <4>2
      <3>2. CASE i = k - 1
        <4>1. g[i] = f[k - 1] /\ g[i + 1] = Turn(f[k - 1], a, b, k - 1)
          BY <3>2
        <4> QED BY <3>2, <4>1
      <3> QED BY <3>1, <3>2
    <2> HIDE DEF g
    <2> QED BY <2>1, <2>2
  <1> HIDE DEF P, z
  <1>3. n \in P
    BY <1>1, <1>2, Upwards
  <1>4. PICK f : Runs(f, n)
    BY <1>3 DEF P
  <1> DEFINE g == [i \in 0 .. n |-> f[i]]
  <1>5. Is(g)
    <2> SUFFICES ASSUME NEW ix \in 0 .. n
                 PROVE  f[ix] = IF ix = 0 THEN z
                                ELSE IF b.dp[ix - 1] = 0 THEN g[ix - 1]
                                ELSE Row(g[ix - 1], a, b.dp[ix - 1], ix - 1)
      BY DEF z
    <2>1. CASE ix # 0
      <3>1. ix - 1 \in 0 .. n - 1 /\ (ix - 1) + 1 = ix /\ ix - 1 \in 0 .. n
        BY <2>1
      <3>2. f[ix] = Turn(f[ix - 1], a, b, ix - 1) /\ g[ix - 1] = f[ix - 1]
        BY <1>4, <3>1
      <3> QED BY <2>1, <3>2 DEF Turn
    <2> QED BY <1>4, <2>1
  <1> HIDE DEF g
  <1>6. Is(T)
    BY <1>5
  <1>7. s_mp_mul(a, b) = s_mp_clamp(T[n])
    BY DEF s_mp_mul
  <1> HIDE DEF T
  <1>8. T[0] = z
    BY <1>6 DEF z
  <1>9. ASSUME NEW ix \in 0 .. n - 1
        PROVE  T[ix + 1] = Turn(T[ix], a, b, ix)
    <2>1. ix + 1 \in 0 .. n /\ ix + 1 # 0 /\ (ix + 1) - 1 = ix
      OBVIOUS
    <2> QED BY <1>6, <2>1 DEF Turn
  <1> QED BY <1>7, <1>8, <1>9 DEF z

\* tmp before turn ix: nothing yet above the digits that were written.
Begun(t, N, an, ix) ==
    /\ t \in Mp(N) /\ Clean(t) /\ t.sign = ZPOS /\ t.used = N /\ t.alloc = N
    /\ \A i \in Nat : i >= ix + an => DigitOf(t, i) = 0

\* One turn of the outer loop adds one row and settles one digit.
LEMMA TurnIs ==
  ASSUME NEW k \in Nat, NEW a \in Mp(k), NEW l \in Nat, NEW b \in Mp(l),
         NEW ix \in 0 .. b.used - 1, NEW t, Begun(t, a.used + b.used, a.used, ix),
         NEW r, r = Turn(t, a, b, ix)
  PROVE  /\ Begun(r, a.used + b.used, a.used, ix + 1)
         /\ \A i \in Nat : i < ix => DigitOf(r, i) = DigitOf(t, i)
         /\ Above(r, ix) = Above(t, ix) + DigitOf(b, ix) * Above(a, 0)
  <1> DEFINE N == a.used + b.used
  <1>1. /\ a.used \in Nat /\ a.used > 0 /\ b.used \in 1 .. l /\ b.dp \in [0 .. l - 1 -> Digit]
        /\ ix \in Nat /\ ix < b.used /\ ix \in 0 .. l - 1 /\ ix + a.used < N /\ N \in Nat
    BY MpFacts
  <1>2. b.dp[ix] \in Digit /\ b.dp[ix] = DigitOf(b, ix)
    BY <1>1 DEF DigitOf
  <1>3. /\ t \in Mp(N) /\ Clean(t) /\ t.sign = ZPOS /\ t.used = N /\ t.alloc = N
        /\ \A i \in Nat : i >= ix + a.used => DigitOf(t, i) = 0
    BY DEF Begun
  <1> HIDE DEF N
  <1>4. CASE b.dp[ix] = 0
    <2>1. r = t
      BY <1>4 DEF Turn
    <2>2. Above(a, 0) \in Nat /\ Above(t, ix) \in Nat
      BY <1>1, <1>3, AboveFacts
    <2>3. Above(t, ix) = Above(t, ix) + 0 * Above(a, 0)
      BY <2>2
    <2>4. \A i \in Nat : i >= (ix + 1) + a.used => i >= ix + a.used
      BY <1>1
    <2>5. Begun(r, N, a.used, ix + 1)
      BY <1>3, <2>1, <2>4 DEF Begun
    <2> QED BY <1>2, <1>4, <2>1, <2>3, <2>5 DEF N
  <1>5. CASE b.dp[ix] # 0
    <2>1. r = Row(t, a, b.dp[ix], ix)
      BY <1>5 DEF Turn
    <2>2. /\ r \in Mp(N) /\ Clean(r) /\ r.sign = t.sign /\ r.used = t.used
          /\ r.alloc = t.alloc
          /\ \A i \in Nat : i < ix \/ i > ix + a.used => DigitOf(r, i) = DigitOf(t, i)
          /\ Above(r, ix) = Above(t, ix) + b.dp[ix] * Above(a, 0)
      <3> DEFINE d == b.dp[ix]
      <3>1. d \in Digit
        BY <1>2
      <3>2. r = Row(t, a, d, ix)
        BY <2>1
      <3>3. /\ t \in Mp(N) /\ Clean(t) /\ ix \in Nat /\ ix + a.used < t.used /\ N \in Nat
        BY <1>1, <1>3
      <3> HIDE DEF d
      <3>4. /\ r \in Mp(N) /\ Clean(r) /\ r.sign = t.sign /\ r.used = t.used
            /\ r.alloc = t.alloc
            /\ \A i \in Nat : i < ix \/ i > ix + a.used => DigitOf(r, i) = DigitOf(t, i)
            /\ Above(r, ix) = Above(t, ix) + d * Above(a, 0)
        BY <1>3, <3>1, <3>2, <3>3, RowIs
      <3> QED BY <3>4 DEF d
    <2>3. ASSUME NEW i \in Nat, i >= (ix + 1) + a.used
          PROVE  DigitOf(r, i) = 0
      <3>1. i > ix + a.used
        <4>1. ix \in Nat /\ a.used \in Nat
          BY <1>1
        <4> QED BY <2>3, <4>1
      <3>2. i >= ix + a.used
        <4>1. ix \in Nat /\ a.used \in Nat
          BY <1>1
        <4> QED BY <2>3, <4>1
      <3> QED BY <1>3, <2>2, <3>1, <3>2
    <2>4. Begun(r, N, a.used, ix + 1)
      BY <1>3, <2>2, <2>3 DEF Begun
    <2> QED BY <1>2, <2>2, <2>4 DEF N
  <1> QED BY <1>4, <1>5

\* s_mp_mul multiplies, row by row, in storage for the digits of both operands.
LEMMA MulIs ==
  ASSUME NEW k \in Nat, NEW a \in Mp(k), NEW l \in Nat, NEW b \in Mp(l),
         NEW r, r = s_mp_mul(a, b)
  PROVE  /\ Tidy(r) /\ Top(r) /\ r.sign = ZPOS
         /\ Above(r, 0) = Above(a, 0) * Above(b, 0)
  <1> DEFINE n == b.used
             N == a.used + b.used
  <1>1. a.used \in Nat /\ a.used > 0 /\ n \in Nat /\ n > 0 /\ N \in Nat /\ N > 0
    BY MpFacts
  <1>2. PICK T : /\ T[0] = Zeroes(N)
                 /\ \A ix \in 0 .. n - 1 : T[ix + 1] = Turn(T[ix], a, b, ix)
                 /\ s_mp_mul(a, b) = s_mp_clamp(T[n])
    BY <1>1, TurnsRun
  <1> HIDE DEF n, N
  <1>3. Begun(T[0], N, a.used, 0) /\ \A i \in Nat : DigitOf(T[0], i) = 0
    BY <1>1, <1>2, ZeroesIs DEF Begun
  <1>4. ASSUME NEW ix \in 0 .. n - 1, Begun(T[ix], N, a.used, ix)
        PROVE  /\ Begun(T[ix + 1], N, a.used, ix + 1)
               /\ \A i \in Nat : i < ix => DigitOf(T[ix + 1], i) = DigitOf(T[ix], i)
               /\ Above(T[ix + 1], ix) = Above(T[ix], ix) + DigitOf(b, ix) * Above(a, 0)
    <2>1. T[ix + 1] = Turn(T[ix], a, b, ix)
      BY <1>2
    <2> QED BY <1>4, <2>1, TurnIs DEF n, N
  <1> DEFINE P == {ix \in 0 .. n : Begun(T[ix], N, a.used, ix)}
  <1>5. \A ix \in 0 .. n : ix \in P
    <2>1. 0 \in P
      BY <1>1, <1>3
    <2>2. \A ix \in 1 .. n : ix - 1 \in P => ix \in P
      <3> SUFFICES ASSUME NEW ix \in 1 .. n, ix - 1 \in P PROVE ix \in P
        OBVIOUS
      <3>1. ix - 1 \in 0 .. n - 1 /\ (ix - 1) + 1 = ix
        BY <1>1
      <3>2. Begun(T[ix - 1], N, a.used, ix - 1)
        OBVIOUS
      <3>3. Begun(T[(ix - 1) + 1], N, a.used, (ix - 1) + 1)
        BY <1>4, <3>1, <3>2
      <3> QED BY <3>1, <3>3
    <2> HIDE DEF P
    <2> QED BY <1>1, <2>1, <2>2, Upwards
  <1> DEFINE Q == {ix \in 0 .. n :
                     \A i \in Nat : i < ix => DigitOf(T[ix], i) = DigitOf(T[i + 1], i)}
  <1>6. \A ix \in 0 .. n : ix \in Q
    <2>1. 0 \in Q
      BY <1>1
    <2>2. \A ix \in 1 .. n : ix - 1 \in Q => ix \in Q
      <3> SUFFICES ASSUME NEW ix \in 1 .. n, ix - 1 \in Q PROVE ix \in Q
        OBVIOUS
      <3> DEFINE jx == ix - 1
      <3>1. jx \in 0 .. n - 1 /\ jx + 1 = ix /\ jx \in 0 .. n /\ ix \in 0 .. n /\ jx \in Nat
        BY <1>1
      <3>2. Begun(T[jx], N, a.used, jx)
        BY <1>5, <3>1
      <3>3. \A i \in Nat : i < jx => DigitOf(T[jx + 1], i) = DigitOf(T[jx], i)
        BY <1>4, <3>1, <3>2
      <3>4. \A i \in Nat : i < jx => DigitOf(T[jx], i) = DigitOf(T[i + 1], i)
        OBVIOUS
      <3> HIDE DEF jx
      <3>5. ASSUME NEW i \in Nat, i < ix
            PROVE  DigitOf(T[ix], i) = DigitOf(T[i + 1], i)
        <4>1. CASE i = jx
          BY <3>1, <4>1
        <4>2. CASE i < jx
          BY <3>1, <3>3, <3>4, <4>2
        <4> QED BY <3>1, <3>5, <4>1, <4>2
      <3> QED BY <3>1, <3>5
    <2> HIDE DEF Q
    <2> QED BY <1>1, <2>1, <2>2, Upwards
  <1> DEFINE t == T[n]
  <1>7. n \in 0 .. n /\ 0 \in 0 .. n
    BY <1>1
  <1>8. /\ t \in Mp(N) /\ Clean(t) /\ t.sign = ZPOS /\ t.alloc = N
        /\ \A i \in Nat : i >= n + a.used => DigitOf(t, i) = 0
    BY <1>5, <1>7 DEF Begun
  <1>9. \A i \in Nat : i < n => DigitOf(t, i) = DigitOf(T[i + 1], i)
    BY <1>6, <1>7
  <1>10. \A ix \in 0 .. n : T[ix] \in Mp(N)
    BY <1>5 DEF Begun
  <1> HIDE DEF P, Q
  <1> DEFINE A == Above(a, 0)
             G == [ix \in 0 .. n |-> Above(T[ix], ix) + A * Above(b, ix)]
  <1>11. A \in Nat
    BY AboveFacts
  <1>12. \A ix \in 0 .. n : ix \in Nat /\ Above(T[ix], ix) \in Nat /\ Above(b, ix) \in Nat
    <2> SUFFICES ASSUME NEW ix \in 0 .. n
                 PROVE  ix \in Nat /\ Above(T[ix], ix) \in Nat /\ Above(b, ix) \in Nat
      OBVIOUS
    <2>1. ix \in Nat /\ T[ix] \in Mp(N)
      BY <1>1, <1>10
    <2> QED BY <1>1, <2>1, AboveFacts
  <1>13. ASSUME NEW ix \in 0 .. n - 1
         PROVE  G[ix] = DigitOf(t, 0 + ix) + RADIX * G[ix + 1]
    <2> DEFINE x == Above(T[ix + 1], ix + 1)
               y == Above(b, ix + 1)
               d == DigitOf(b, ix)
               w == DigitOf(T[ix + 1], ix)
               v == Above(T[ix], ix)
               ry == RADIX * y
               rx == RADIX * x
    <2>1. ix \in Nat /\ ix \in 0 .. n /\ ix + 1 \in 0 .. n /\ 0 + ix = ix /\ ix < n
      BY <1>1
    <2>2. G[ix] = v + A * Above(b, ix) /\ G[ix + 1] = x + A * y
      BY <2>1
    <2>3. Above(b, ix) = d + ry
      BY <2>1, AboveUnfolds
    <2>4. Above(T[ix + 1], ix) = v + d * A
      BY <1>4, <1>5, <2>1 DEF P
    <2>5. Above(T[ix + 1], ix) = w + rx
      BY <1>1, <1>10, <2>1, AboveUnfolds
    <2>6. DigitOf(t, 0 + ix) = w
      BY <1>9, <2>1
    <2>7. v \in Nat /\ x \in Nat /\ y \in Nat
      BY <1>12, <2>1
    <2>8. d \in Nat /\ w \in Nat
      <3>1. T[ix + 1] \in Mp(N)
        BY <1>10, <2>1
      <3> QED BY <1>1, <2>1, <3>1, AboveFacts
    <2> HIDE DEF G, A, t, x, y, d, w, v
    <2>9. rx \in Nat /\ ry \in Nat
      BY <2>7, RadixIs
    <2>10. RADIX * (x + A * y) = rx + A * ry
      <3>1. \A R, p, q, s \in Nat : R * (s + p * q) = R * s + p * (R * q)
        OBVIOUS
      <3> QED BY <1>11, <2>7, <3>1, RadixIs
    <2> HIDE DEF rx, ry
    <2>11. A * (d + ry) = d * A + A * ry
      <3>1. \A p, q, s \in Nat : p * (q + s) = q * p + p * s
        OBVIOUS
      <3> QED BY <1>11, <2>8, <2>9, <3>1
    <2> DEFINE da == d * A
               ary == A * ry
    <2>12. da \in Nat /\ ary \in Nat
      BY <1>11, <2>8, <2>9
    <2>13. G[ix] = v + (da + ary)
      BY <2>2, <2>3, <2>11
    <2>14. RADIX * G[ix + 1] = rx + ary
      BY <2>2, <2>10
    <2>15. v + da = w + rx
      BY <2>4, <2>5
    <2> HIDE DEF da, ary
    <2>16. G[ix] = w + (rx + ary)
      BY <2>7, <2>8, <2>9, <2>12, <2>13, <2>15
    <2> QED BY <2>6, <2>14, <2>16
  <1>14. G \in [0 .. n -> Int]
    <2>1. ASSUME NEW ix \in 0 .. n PROVE Above(T[ix], ix) + A * Above(b, ix) \in Int
      BY <1>11, <1>12
    <2> QED BY <2>1
  <1>15. G[0] = A * Above(b, 0)
    <2>1. G[0] = Above(T[0], 0) + A * Above(b, 0)
      BY <1>7
    <2>2. Above(T[0], 0) = 0
      BY <1>1, <1>3, <1>7, <1>10, NoneAbove
    <2>3. A * Above(b, 0) \in Nat
      BY <1>7, <1>11, <1>12
    <2> QED BY <2>1, <2>2, <2>3
  <1>16. G[n] = Above(t, 0 + n)
    <2>1. G[n] = Above(t, n) + A * Above(b, n)
      BY <1>7
    <2>2. Above(b, n) = 0
      <3>1. \A i \in Nat : i >= b.used => Above(b, i) = 0
        BY AboveFacts
      <3> QED BY <1>1, <3>1 DEF n
    <2>3. Above(t, n) \in Nat /\ 0 + n = n
      BY <1>1, <1>7, <1>12
    <2> QED BY <1>11, <2>1, <2>2, <2>3
  <1> HIDE DEF G
  <1>17. Follows(G, t, 0, n)
    BY <1>13, <1>14 DEF Follows
  <1>18. G[0] = Above(t, 0)
    BY <1>1, <1>8, <1>16, <1>17, Horner
  <1>19. r = s_mp_clamp(t)
    BY <1>2
  <1> HIDE DEF t
  <1>20. /\ r \in Mp(N) /\ Clean(r) /\ Same(r, t) /\ Top(r) /\ r.alloc = N
         /\ r.sign = IF r.used = 1 /\ DigitOf(t, 0) = 0 THEN ZPOS ELSE t.sign
    BY <1>1, <1>8, <1>19, ClampIs
  <1>21. Above(r, 0) = Above(t, 0)
    BY <1>1, <1>8, <1>20, SameWorth
  <1>22. r.sign = ZPOS
    BY <1>8, <1>20
  <1>23. Tidy(r)
    BY <1>20 DEF Tidy
  <1> QED BY <1>15, <1>18, <1>20, <1>21, <1>22, <1>23

-----------------------------------------------------------------------------
(* Numbers and what they are worth with their signs.                       *)

\* m is the number n, in order.
Good(m, n) ==
    /\ Tidy(m) /\ Top(m)
    /\ n \in Int /\ Above(m, 0) = Magn(n) /\ m.sign = IF n < 0 THEN NEG ELSE ZPOS

\* A tidy mp_int has a magnitude.
LEMMA TidyAbove ==
  ASSUME NEW m, Tidy(m)
  PROVE  m.alloc \in Nat /\ m \in Mp(m.alloc) /\ Clean(m) /\ Above(m, 0) \in Nat
  <1>1. m.alloc \in Nat /\ m \in Mp(m.alloc) /\ Clean(m)
    BY TidyIs DEF Tidy
  <1> QED BY <1>1, AboveFacts

\* A number in other storage or with another sign.
LEMMA AlikeIs ==
  ASSUME NEW m, Tidy(m), Top(m), NEW r, Tidy(r), Same(r, m), r.used = m.used
  PROVE  Top(r) /\ Above(r, 0) = Above(m, 0)
  <1>1. Above(r, 0) = Above(m, 0)
    BY TidyAbove, SameWorth
  <1>2. ASSUME m.used > 1 PROVE r.dp[m.used - 1] = m.dp[m.used - 1]
    BY <1>2, TidyIs DEF Same, DigitOf
  <1> QED BY <1>1, <1>2 DEF Top

\* The sign is no part of the magnitude.
LEMMA WithSignIs ==
  ASSUME NEW m, Tidy(m), Top(m), NEW sign \in {ZPOS, NEG}, NEW r, r = [m EXCEPT !.sign = sign]
  PROVE  Tidy(r) /\ Top(r) /\ Above(r, 0) = Above(m, 0) /\ r.sign = sign
  <1>1. r = [sign |-> sign, used |-> m.used, alloc |-> m.alloc, dp |-> m.dp]
    BY DEF Tidy, Mp
  <1>2. Tidy(r)
    BY <1>1 DEF Tidy, Mp, Clean
  <1>3. Same(r, m) /\ r.used = m.used
    BY <1>1 DEF Same, DigitOf
  <1> QED BY <1>1, <1>2, <1>3, AlikeIs

\* Signed makes the number with that sign, and a positive zero.
LEMMA SignedIs ==
  ASSUME NEW m, Tidy(m), Top(m), NEW n \in Int, Above(m, 0) = Magn(n),
         NEW sign \in {ZPOS, NEG}, n < 0 => sign = NEG, n > 0 => sign = ZPOS,
         NEW r, r = Signed(m, sign)
  PROVE  Good(r, n)
  <1>1. IsZero(m) <=> Above(m, 0) = 0
    BY TidyAbove, ZeroIs
  <1>2. IsZero(m) <=> n = 0
    BY <1>1 DEF Magn
  <1> DEFINE s == IF IsZero(m) THEN ZPOS ELSE sign
  <1>3. s \in {ZPOS, NEG} /\ s = IF n < 0 THEN NEG ELSE ZPOS
    BY <1>2
  <1>4. r = [m EXCEPT !.sign = s]
    BY DEF Signed
  <1> HIDE DEF s
  <1> QED BY <1>3, <1>4, WithSignIs DEF Good

\* A number of one digit.
LEMMA OneDigit ==
  ASSUME NEW m, Tidy(m), m.used = 1
  PROVE  Top(m) /\ Above(m, 0) = m.dp[0] /\ m.dp[0] \in Nat
  <1>1. Above(m, 0) = DigitOf(m, 0) + RADIX * Above(m, 1) /\ Above(m, 1) = 0
    BY TidyAbove, AboveUnfolds
  <1>2. DigitOf(m, 0) = m.dp[0] /\ DigitOf(m, 0) \in Digit
    BY TidyIs DEF DigitOf
  <1>3. RADIX * 0 = 0 /\ m.dp[0] \in Nat
    <2>1. \A x \in Nat : x * 0 = 0
      OBVIOUS
    <2>2. RADIX \in Nat /\ Digit \subseteq Nat
      BY RadixIs
    <2> QED BY <1>2, <2>1, <2>2
  <1>4. Above(m, 0) = m.dp[0] + 0
    BY <1>1, <1>2, <1>3
  <1> QED BY <1>3, <1>4 DEF Top

\* Digit 0 of such a number replaced.
LEMMA ReplacedIs ==
  ASSUME NEW m, Tidy(m), NEW sign \in {ZPOS, NEG}, NEW d \in Digit, NEW dp,
         dp = [m.dp EXCEPT ![0] = d], \A i \in 0 .. m.alloc - 1 : i >= 1 => m.dp[i] = 0,
         NEW r, r = [sign |-> sign, used |-> 1, alloc |-> m.alloc, dp |-> dp]
  PROVE  Tidy(r) /\ Top(r) /\ Above(r, 0) = d /\ r.sign = sign
  <1>1. m.alloc \in Nat /\ m.alloc > 0 /\ m.dp \in [0 .. m.alloc - 1 -> Digit]
    BY TidyIs
  <1>2. /\ dp \in [0 .. m.alloc - 1 -> Digit] /\ dp[0] = d
        /\ \A i \in 0 .. m.alloc - 1 : i >= 1 => dp[i] = 0
    BY <1>1
  <1>3. r.used = 1 /\ r.sign = sign /\ r.dp = dp /\ r.alloc = m.alloc
    OBVIOUS
  <1>4. Tidy(r)
    BY <1>1, <1>2 DEF Tidy, Mp, Clean
  <1>5. Top(r) /\ Above(r, 0) = r.dp[0]
    BY <1>3, <1>4, OneDigit
  <1> QED BY <1>2, <1>3, <1>4, <1>5

\* mp_zero and mp_set leave 0 and the digit, with the storage clear above.
LEMMA ZeroedIs ==
  ASSUME NEW m, Tidy(m), NEW d \in Digit
  PROVE  Good(Zeroed(m), 0) /\ Good(SetDigit(m, d), d)
  <1> DEFINE z == Zeroed(m)
             s == SetDigit(m, d)
             dp == [i \in 0 .. m.alloc - 1 |-> 0]
  <1>1. /\ m.alloc \in Nat /\ m.alloc > 0 /\ DOMAIN m.dp = 0 .. m.alloc - 1
    BY TidyIs
  <1>2. z = [sign |-> ZPOS, used |-> 1, alloc |-> m.alloc, dp |-> dp]
    <2>1. z = [m EXCEPT !.sign = ZPOS, !.used = 1, !.dp = dp]
      BY <1>1 DEF Zeroed
    <2> HIDE DEF dp, z
    <2> QED BY <2>1 DEF Tidy, Mp
  <1>3. Tidy(z) /\ z.sign = ZPOS /\ z.used = 1 /\ z.dp[0] = 0
    BY <1>1, <1>2, RadixIs DEF Tidy, Mp, Clean
  <1>4. Top(z) /\ Above(z, 0) = 0
    BY <1>3, OneDigit
  <1>5. s = [z EXCEPT !.dp[0] = d]
    BY DEF SetDigit
  <1> HIDE DEF z, s, dp
  <1>6. s = [sign |-> ZPOS, used |-> 1, alloc |-> z.alloc, dp |-> [z.dp EXCEPT ![0] = d]]
    BY <1>2, <1>5
  <1>7. Tidy(s) /\ Top(s) /\ Above(s, 0) = d /\ s.sign = ZPOS
    <2>1. \A i \in 0 .. z.alloc - 1 : i >= 1 => z.dp[i] = 0
      BY <1>2 DEF dp
    <2> QED BY <1>3, <1>6, <2>1, ReplacedIs
  <1>8. d \in Nat
    BY RadixIs
  <1> QED BY <1>3, <1>4, <1>7, <1>8 DEF Good, Magn, z, s

\* mp_init_size makes 0.
LEMMA FreshIs ==
  ASSUME NEW n \in Nat \ {0}
  PROVE  Good(Fresh(n), 0)
  <1> DEFINE z == Fresh(n)
  <1>1. Tidy(z) /\ z.sign = ZPOS /\ z.used = 1 /\ z.dp[0] = 0
    BY RadixIs DEF Tidy, Mp, Clean, Fresh
  <1> HIDE DEF z
  <1>2. Top(z) /\ Above(z, 0) = 0
    BY <1>1, OneDigit
  <1> QED BY <1>1, <1>2 DEF Good, Magn, z

\* mp_init_copy makes the same number in storage of its own size.
LEMMA CopiedIs ==
  ASSUME NEW m, NEW n, Good(m, n)
  PROVE  Good(Copied(m), n)
  <1>1. m.used \in Nat /\ m.sign \in {ZPOS, NEG} /\ m.used >= m.used
    BY TidyIs DEF Good
  <1>2. Tidy(Copied(m)) /\ Same(Copied(m), m)
    BY <1>1, MovedIs DEF Copied, Good
  <1>3. Copied(m).used = m.used /\ Copied(m).sign = m.sign
    BY DEF Copied
  <1> HIDE DEF Copied
  <1> QED BY <1>2, <1>3, AlikeIs DEF Good

\* mp_copy makes the same number in whatever storage there is.
LEMMA CopyIntoIs ==
  ASSUME NEW m, NEW n, Good(m, n), NEW to, Tidy(to)
  PROVE  Good(CopyInto(m, to), n)
  <1>1. CASE to.alloc < m.used
    BY <1>1, CopiedIs DEF CopyInto
  <1>2. CASE ~ to.alloc < m.used
    <2> DEFINE r == CopyInto(m, to)
    <2>1. m.used \in Nat /\ m.sign \in {ZPOS, NEG} /\ to.alloc \in Nat /\ to.alloc >= m.used
      BY <1>2, TidyIs DEF Good
    <2>2. r = [sign |-> m.sign, used |-> m.used, alloc |-> to.alloc, dp |-> Stored(m, to.alloc)]
      BY <1>2 DEF CopyInto, Tidy, Mp
    <2> HIDE DEF r
    <2>3. Tidy(r) /\ Same(r, m)
      BY <2>1, <2>2, MovedIs DEF Good
    <2>4. r.used = m.used /\ r.sign = m.sign
      BY <2>2
    <2> QED BY <2>3, <2>4, AlikeIs DEF Good, r
  <1> QED BY <1>1, <1>2

-----------------------------------------------------------------------------
(* Sums and differences of magnitudes.                                     *)

\* The digits of a number are worth the number.
LEMMA AllDigitsWeigh ==
  ASSUME NEW b, Tidy(b)
  PROVE  \A n \in Nat : n >= b.used =>
             Weighs([i \in Nat |-> Above(b, i)], AllDigits(b), n)
  <1> DEFINE B == [i \in Nat |-> Above(b, i)]
             f == AllDigits(b)
  <1>1. \A i \in Nat : B[i] = Above(b, i) /\ f[i] = DigitOf(b, i)
    BY DEF AllDigits
  <1>2. \A i \in Nat : DigitOf(b, i) \in Digit /\ (i >= b.used => DigitOf(b, i) = 0)
    BY TidyIs
  <1>3. \A i \in Nat : Above(b, i) \in Nat /\ (i >= b.used => Above(b, i) = 0)
    BY TidyAbove, AboveFacts
  <1>4. \A i \in Nat : Above(b, i) = DigitOf(b, i) + RADIX * Above(b, i + 1)
    BY TidyAbove, AboveUnfolds
  <1>5. f \in [Nat -> Digit] /\ B \in [Nat -> Nat]
    BY <1>2, <1>3 DEF AllDigits
  <1> HIDE DEF f, B
  <1>6. ASSUME NEW i \in Nat PROVE B[i] = f[i] + RADIX * B[i + 1]
    BY <1>1, <1>4
  <1>7. ASSUME NEW n \in Nat, n >= b.used, NEW i \in Nat, i >= n
        PROVE  f[i] = 0 /\ B[i] = 0
    <2>1. i >= b.used
      BY <1>7, TidyIs
    <2> QED BY <1>1, <1>2, <1>3, <2>1
  <1> QED BY <1>5, <1>6, <1>7 DEF Weighs, f, B

\* s_mp_add adds magnitudes, whichever operand is longer.
LEMMA SumIs ==
  ASSUME NEW a, Tidy(a), Top(a), NEW b, Tidy(b), Top(b), NEW r, r = s_mp_add(a, b)
  PROVE  /\ Tidy(r) /\ Top(r) /\ r.sign = a.sign
         /\ Above(r, 0) = Above(a, 0) + Above(b, 0)
  <1> DEFINE p == s_mp_pad(a, b.used)
             f == AllDigits(b)
             B == [i \in Nat |-> Above(b, i)]
  <1>1. a.used \in Nat /\ a.used > 0 /\ b.used \in Nat /\ b.used > 0
    BY TidyIs
  <1>2. /\ Tidy(p) /\ Same(p, a) /\ p.sign = a.sign
        /\ p.used = IF b.used <= a.used THEN a.used ELSE b.used
    <2>1. p = s_mp_pad(a, b.used)
      OBVIOUS
    <2> DEFINE min == b.used
    <2>2. min \in Nat /\ p = s_mp_pad(a, min)
      BY <1>1, <2>1
    <2> HIDE DEF p, min
    <2>3. /\ Tidy(p) /\ Same(p, a) /\ p.sign = a.sign
          /\ p.used = IF min <= a.used THEN a.used ELSE min
      BY <2>2, PadIs
    <2> QED BY <2>3 DEF min
  <1>3. r = AddDigits(p, f)
    BY DEF s_mp_add
  <1> HIDE DEF p
  <1>4. p.used \in Nat /\ p.used >= b.used /\ p.used > 0
    BY <1>1, <1>2
  <1>5. Weighs(B, f, p.used)
    BY <1>4, AllDigitsWeigh
  <1>6. Above(p, 0) = Above(a, 0)
    BY <1>2, TidyAbove, SameWorth
  <1>7. B[0] = Above(b, 0)
    OBVIOUS
  <1>8. ASSUME p.used > 1 PROVE p.dp[p.used - 1] + f[p.used - 1] > 0
    <2> DEFINE t == p.used - 1
    <2>1. t \in Nat /\ t < p.used /\ p.used = t + 1 /\ t > 0
      BY <1>4, <1>8
    <2>2. f[t] = DigitOf(b, t) /\ p.dp[t] = DigitOf(p, t)
      BY <2>1 DEF AllDigits, DigitOf
    <2>3. DigitOf(p, t) = DigitOf(a, t)
      BY <1>2, <2>1 DEF Same
    <2>4. DigitOf(a, t) \in Nat /\ DigitOf(b, t) \in Nat
      BY <2>1, TidyIs, RadixIs
    <2> HIDE DEF t
    <2>5. CASE b.used <= a.used
      <3>1. a.used = t + 1 /\ t < a.used /\ a.used > 1 /\ a.used - 1 = t
        BY <1>1, <1>2, <2>1, <2>5
      <3>2. DigitOf(a, t) # 0
        BY <3>1 DEF Top, DigitOf
      <3> QED BY <2>1, <2>2, <2>3, <2>4, <3>2 DEF t
    <2>6. CASE ~ b.used <= a.used
      <3>1. b.used = t + 1 /\ t < b.used /\ b.used > 1 /\ b.used - 1 = t
        BY <1>1, <1>2, <2>1, <2>6
      <3>2. DigitOf(b, t) # 0
        BY <3>1 DEF Top, DigitOf
      <3> QED BY <2>1, <2>2, <2>3, <2>4, <3>2 DEF t
    <2> QED BY <2>5, <2>6
  <1> HIDE DEF f, B
  <1>9. Tidy(r) /\ Top(r) /\ r.sign = p.sign /\ Above(r, 0) = Above(p, 0) + B[0]
    BY <1>2, <1>3, <1>5, <1>8, AddIs
  <1> QED BY <1>2, <1>6, <1>7, <1>9

\* s_mp_sub subtracts the magnitude that is not more.
LEMMA DifferenceIs ==
  ASSUME NEW a, Tidy(a), NEW b, Tidy(b), Above(b, 0) <= Above(a, 0),
         NEW r, r = s_mp_sub(a, b)
  PROVE  /\ Tidy(r) /\ Top(r) /\ Above(r, 0) = Above(a, 0) - Above(b, 0)
         /\ r.sign = IF Above(r, 0) = 0 THEN ZPOS ELSE a.sign
  <1> DEFINE f == AllDigits(b)
             B == [i \in Nat |-> Above(b, i)]
  <1>1. b.used \in Nat /\ b.used >= b.used
    BY TidyIs
  <1>2. Weighs(B, f, b.used)
    BY <1>1, AllDigitsWeigh
  <1>3. B[0] = Above(b, 0)
    OBVIOUS
  <1>4. r = SubDigits(a, f)
    BY DEF s_mp_sub
  <1> HIDE DEF f, B
  <1> QED BY <1>1, <1>2, <1>3, <1>4, SubIs

\* A digit is worth itself.
LEMMA OnlyDigitWeighs ==
  ASSUME NEW d \in Digit, NEW n \in Nat, n > 0
  PROVE  Weighs(OnlyDigit(d), OnlyDigit(d), n) /\ OnlyDigit(d)[0] = d
  <1> DEFINE f == OnlyDigit(d)
  <1>1. \A i \in Nat : f[i] = IF i = 0 THEN d ELSE 0
    BY DEF OnlyDigit
  <1>2. f \in [Nat -> Digit] /\ f \in [Nat -> Nat]
    BY RadixIs DEF OnlyDigit
  <1> HIDE DEF f
  <1>3. ASSUME NEW i \in Nat PROVE f[i] = f[i] + RADIX * f[i + 1]
    <2>1. f[i + 1] = 0 /\ f[i] \in Nat
      BY <1>1, <1>2
    <2>2. \A x \in Nat : x * 0 = 0
      OBVIOUS
    <2>3. RADIX * f[i + 1] = 0
      BY <2>1, <2>2, RadixIs
    <2> QED BY <2>1, <2>3
  <1> QED BY <1>1, <1>2, <1>3 DEF Weighs, f

\* s_mp_add_d adds a digit to a magnitude.
LEMMA SumWithDigitHeld ==
  ASSUME NEW m, Held(m), Top(m), NEW d \in Digit, NEW r, r = s_mp_add_d(m, d)
  PROVE  /\ Held(r) /\ Top(r) /\ r.sign = m.sign /\ Above(r, 0) = Above(m, 0) + d
         /\ Tidy(m) => Tidy(r)
  <1> DEFINE f == OnlyDigit(d)
  <1>1. m.used \in Nat /\ m.used > 0 /\ \A i \in Nat : DigitOf(m, i) \in Digit
    BY HeldIs
  <1>2. Weighs(f, f, m.used) /\ f[0] = d
    BY <1>1, OnlyDigitWeighs
  <1>3. r = AddDigits(m, f)
    BY DEF s_mp_add_d
  <1>4. ASSUME m.used > 1 PROVE m.dp[m.used - 1] + f[m.used - 1] > 0
    <2>1. m.used - 1 \in Nat /\ m.used - 1 # 0 /\ m.used - 1 < m.used
      BY <1>1, <1>4
    <2>2. f[m.used - 1] = 0
      BY <2>1 DEF OnlyDigit
    <2>3. m.dp[m.used - 1] \in Nat
      BY <1>1, <2>1, RadixIs DEF DigitOf
    <2> HIDE DEF f
    <2> QED BY <1>4, <2>2, <2>3 DEF Top
  <1> HIDE DEF f
  <1> QED BY <1>2, <1>3, <1>4, AddHeldIs

\* The same, where nothing was written beyond the storage.
LEMMA SumWithDigitIs ==
  ASSUME NEW m, Tidy(m), Top(m), NEW d \in Digit, NEW r, r = s_mp_add_d(m, d)
  PROVE  Tidy(r) /\ Top(r) /\ r.sign = m.sign /\ Above(r, 0) = Above(m, 0) + d
  BY TidyHeld, SumWithDigitHeld

\* s_mp_sub_d subtracts a digit that is not more.
LEMMA DifferenceWithDigitIs ==
  ASSUME NEW m, Tidy(m), NEW d \in Digit, d <= Above(m, 0), NEW r, r = s_mp_sub_d(m, d)
  PROVE  /\ Tidy(r) /\ Top(r) /\ Above(r, 0) = Above(m, 0) - d
         /\ r.sign = IF Above(r, 0) = 0 THEN ZPOS ELSE m.sign
  <1> DEFINE f == OnlyDigit(d)
  <1>1. Weighs(f, f, 1) /\ f[0] = d
    BY OnlyDigitWeighs
  <1>2. r = SubDigits(m, f)
    BY DEF s_mp_sub_d
  <1> HIDE DEF f
  <1> QED BY <1>1, <1>2, SubIs

\* How words below twice the radix are cut.
LEMMA SplitsAs ==
  ASSUME NEW v \in Nat, v < RADIX
  PROVE  /\ ACCUM(v) = v /\ CARRYOUT(v) = 0
         /\ ACCUM(RADIX + v) = v /\ CARRYOUT(RADIX + v) = 1
  <1> DEFINE w == RADIX + v
  <1>1. RADIX \in Nat /\ RADIX > 1 /\ Digit \subseteq Nat /\ w \in Nat
    BY RadixIs
  <1>2. \A x \in Nat : x * 0 = 0 /\ x * 1 = x /\ x * 2 = x + x
    OBVIOUS
  <1>3. RADIX * 0 = 0 /\ RADIX * 1 = RADIX /\ RADIX * 2 = RADIX + RADIX
    BY <1>1, <1>2
  <1>4. ACCUM(v) = v /\ CARRYOUT(v) = 0
    <2>1. CARRYOUT(v) \in Nat /\ ACCUM(v) \in Nat /\ v = ACCUM(v) + RADIX * CARRYOUT(v)
      BY <1>1, Splits
    <2>2. CARRYOUT(v) < 1
      BY <1>3, CarryBound
    <2>3. CARRYOUT(v) = 0
      BY <2>1, <2>2
    <2> QED BY <1>3, <2>1, <2>3
  <1>5. w < RADIX * 2
    BY <1>1, <1>3
  <1>6. /\ CARRYOUT(w) \in Nat /\ ACCUM(w) \in Nat /\ ACCUM(w) < RADIX
        /\ w = ACCUM(w) + RADIX * CARRYOUT(w)
    BY <1>1, Splits DEF Digit
  <1> HIDE DEF w
  <1>7. CARRYOUT(w) < 2
    BY <1>1, <1>5, CarryBound
  <1>8. CARRYOUT(w) # 0
    <2> SUFFICES ASSUME CARRYOUT(w) = 0 PROVE FALSE
      OBVIOUS
    <2>1. w = ACCUM(w) + 0
      BY <1>3, <1>6
    <2> QED BY <1>1, <1>6, <2>1 DEF w
  <1>9. CARRYOUT(w) = 1
    BY <1>6, <1>7, <1>8
  <1>10. w = ACCUM(w) + RADIX
    BY <1>3, <1>6, <1>9
  <1>11. ACCUM(w) = v
    BY <1>1, <1>6, <1>10 DEF w
  <1> QED BY <1>4, <1>9, <1>11 DEF w

\* Twice a digit carries its highest bit, whatever is carried into it.
LEMMA TwiceIs ==
  ASSUME NEW x \in Digit, NEW c \in {0, 1}
  PROVE  /\ x \div 2 ^ (DigitBit - 1) \in {0, 1}
         /\ CARRYOUT(x + x + c) = x \div 2 ^ (DigitBit - 1)
         /\ ACCUM(x + x + c) = ACCUM(2 * x) + c
  <1> DEFINE H == 2 ^ (DigitBit - 1)
             q == x \div H
             s == x % H
  <1>1. H \in Nat /\ H > 0 /\ RADIX = H + H
    BY HalfIs
  <1> HIDE DEF H
  <1>2. x \in Nat /\ x < RADIX /\ 2 * x = x + x
    <2>1. RADIX \in Nat
      BY RadixIs
    <2> QED BY <2>1 DEF Digit
  <1>3. \A D, y \in Nat : D > 0 => /\ y \div D \in Nat /\ y % D \in 0 .. D - 1
                                   /\ y = (y % D) + D * (y \div D)
    OBVIOUS
  <1>4. q \in Nat /\ s \in 0 .. H - 1 /\ x = s + H * q
    BY <1>1, <1>2, <1>3
  <1> HIDE DEF q, s
  <1>5. q \in {0, 1}
    <2> SUFFICES ASSUME q >= 2 PROVE FALSE
      BY <1>4
    <2>1. \A a, b \in Nat : b >= 2 => a * b >= a + a
      <3> SUFFICES ASSUME NEW a \in Nat, NEW b \in Nat, b >= 2 PROVE a * b >= a + a
        OBVIOUS
      <3>1. PICK e \in Nat : b = 2 + e
        <4>1. b - 2 \in Nat /\ b = 2 + (b - 2)
          OBVIOUS
        <4> QED BY <4>1
      <3>2. a * (2 + e) = a + a + a * e /\ a * e \in Nat
        OBVIOUS
      <3> QED BY <3>1, <3>2
    <2>2. H * q >= H + H /\ H * q \in Nat
      BY <1>1, <1>4, <2>1
    <2> QED BY <1>1, <1>2, <1>4, <2>2
  <1>6. \A y \in Nat : y * 0 = 0 /\ y * 1 = y
    OBVIOUS
  <1>7. CASE q = 0
    <2>1. x < H
      <3>1. x = s + 0
        BY <1>1, <1>4, <1>6, <1>7
      <3> QED BY <1>1, <1>4, <3>1
    <2>2. x + x \in Nat /\ x + x < RADIX /\ x + x + c \in Nat /\ x + x + c < RADIX
      BY <1>1, <1>2, <2>1
    <2>3. /\ CARRYOUT(x + x + c) = 0 /\ ACCUM(x + x + c) = x + x + c /\ ACCUM(x + x) = x + x
      BY <2>2, SplitsAs
    <2> QED BY <1>2, <1>5, <1>7, <2>3 DEF q, H
  <1>8. CASE q = 1
    <2> DEFINE v == s + s
    <2>1. x = s + H
      <3>1. x = s + H * 1
        BY <1>4, <1>8
      <3> QED BY <1>1, <1>6, <3>1
    <2>2. v \in Nat /\ v < RADIX /\ v + c \in Nat /\ v + c < RADIX
      BY <1>1, <1>4
    <2>3. x + x = RADIX + v /\ x + x + c = RADIX + (v + c)
      BY <1>1, <1>4, <2>1
    <2> HIDE DEF v
    <2>4. CARRYOUT(x + x + c) = 1 /\ ACCUM(x + x + c) = v + c /\ ACCUM(x + x) = v
      BY <2>2, <2>3, SplitsAs
    <2> QED BY <1>2, <1>5, <1>8, <2>4 DEF q, H
  <1> QED BY <1>5, <1>7, <1>8

\* Shifted up by a bit, a number is added to itself.
LEMMA DoubledIs ==
  ASSUME NEW m, Tidy(m), Top(m), NEW r, r = s_mp_mul_2(m)
  PROVE  /\ Tidy(r) /\ Top(r) /\ r.sign = m.sign
         /\ Above(r, 0) = Above(m, 0) + Above(m, 0)
  <1> DEFINE n == m.used
             f == AllDigits(m)
             B == [i \in Nat |-> Above(m, i)]
             out == [i \in InUse(m) |-> [c \in Nat |-> CARRYOUT(m.dp[i] + f[i] + c)]]
             carry == Carries(n, out)
             digits == [i \in InUse(m) |-> ACCUM(m.dp[i] + f[i] + carry[i])]
             sum == WithDigits(m, digits)
             shifted == [i \in InUse(m) |-> ACCUM(2 * m.dp[i]) + BitBelow(m, i)]
             twice == WithDigits(m, shifted)
  <1>1. /\ m.alloc \in Nat /\ n \in 1 .. m.alloc /\ n \in Nat /\ n > 0
        /\ m \in Mp(m.alloc) /\ Clean(m)
    BY TidyIs DEF Tidy
  <1>2. \A i \in 0 .. n - 1 : i \in Nat /\ m.dp[i] \in Digit /\ f[i] = m.dp[i]
    <2> SUFFICES ASSUME NEW i \in 0 .. n - 1
                 PROVE  i \in Nat /\ m.dp[i] \in Digit /\ f[i] = m.dp[i]
      OBVIOUS
    <2>1. i \in Nat /\ i < m.used
      BY <1>1
    <2>2. f[i] = DigitOf(m, i) /\ DigitOf(m, i) = m.dp[i] /\ DigitOf(m, i) \in Digit
      BY <2>1, TidyIs DEF AllDigits, DigitOf
    <2> QED BY <2>1, <2>2
  <1> HIDE DEF f
  <1>3. ASSUME NEW i \in 0 .. n - 1, NEW c \in {0, 1}
        PROVE  /\ out[i][c] = BitBelow(m, i + 1) /\ BitBelow(m, i + 1) \in {0, 1}
               /\ ACCUM(m.dp[i] + f[i] + c) = ACCUM(2 * m.dp[i]) + c
    <2>1. out[i][c] = CARRYOUT(m.dp[i] + m.dp[i] + c)
      BY <1>2 DEF InUse
    <2>2. i + 1 # 0 /\ (i + 1) - 1 = i
      BY <1>2
    <2>3. BitBelow(m, i + 1) = m.dp[i] \div 2 ^ (DigitBit - 1)
      BY <2>2 DEF BitBelow
    <2> HIDE DEF out
    <2> QED BY <1>2, <2>1, <2>3, TwiceIs
  <1> HIDE DEF out
  <1>4. Within({0, 1}, n, out)
    BY <1>3 DEF Within
  <1>5. /\ carry \in [0 .. n -> {0, 1}] /\ carry[0] = 0
        /\ \A i \in 0 .. n - 1 : carry[i + 1] = out[i][carry[i]]
    <2> HIDE DEF n
    <2> QED BY <1>1, <1>4, CarriesRun
  <1> HIDE DEF carry
  <1>6. \A i \in 0 .. n : carry[i] = BitBelow(m, i) /\ carry[i] \in {0, 1}
    <2> SUFFICES ASSUME NEW i \in 0 .. n PROVE carry[i] = BitBelow(m, i)
      BY <1>5
    <2>1. CASE i = 0
      BY <1>5, <2>1 DEF BitBelow
    <2>2. CASE i # 0
      <3> DEFINE j == i - 1
      <3>1. j \in 0 .. n - 1 /\ j \in 0 .. n /\ j + 1 = i
        BY <1>1, <2>2
      <3> HIDE DEF j
      <3>2. carry[j] \in {0, 1} /\ carry[j + 1] = out[j][carry[j]]
        BY <1>5, <3>1
      <3> QED BY <1>3, <3>1, <3>2
    <2> QED BY <2>1, <2>2
  <1>7. shifted = digits
    <2>1. ASSUME NEW i \in InUse(m)
          PROVE  ACCUM(2 * m.dp[i]) + BitBelow(m, i) = ACCUM(m.dp[i] + f[i] + carry[i])
      <3>1. i \in 0 .. n - 1 /\ i \in 0 .. n
        BY <1>1 DEF InUse
      <3> QED BY <1>3, <1>6, <3>1
    <2> QED BY <2>1
  <1> HIDE DEF shifted, digits
  <1>8. sum.alloc = m.alloc
    BY DEF WithDigits, Tidy, Mp
  <1>9. n \in 0 .. n
    BY <1>1
  <1>10. r = AddDigits(m, f)
    <2>1. twice = sum
      BY <1>7
    <2>2. AddDigits(m, f) = IF carry[n] = 0 THEN sum
                            ELSE Longer(s_mp_grow(sum, n + 1), carry[n])
      BY DEF AddDigits, sum, digits, carry, out
    <2>3. r = IF BitBelow(m, n) = 0 THEN twice
              ELSE Longer(IF n >= m.alloc THEN s_mp_grow(twice, m.alloc + 1) ELSE twice, 1)
      BY DEF s_mp_mul_2, twice, shifted
    <2> HIDE DEF sum, twice
    <2>4. CASE n >= m.alloc
      <3>1. n + 1 = m.alloc + 1
        BY <1>1, <2>4
      <3> QED BY <1>6, <1>9, <2>1, <2>2, <2>3, <2>4, <3>1
    <2>5. CASE ~ n >= m.alloc
      <3>1. n + 1 <= sum.alloc
        BY <1>1, <1>8, <2>5 DEF sum
      <3>2. s_mp_grow(sum, n + 1) = sum
        BY <3>1 DEF s_mp_grow
      <3> QED BY <1>6, <1>9, <2>1, <2>2, <2>3, <2>5, <3>2
    <2> QED BY <2>4, <2>5
  <1>11. Weighs(B, f, n) /\ B[0] = Above(m, 0)
    BY <1>1, AllDigitsWeigh DEF f
  <1>12. ASSUME n > 1 PROVE m.dp[n - 1] + f[n - 1] > 0
    <2>1. n - 1 \in 0 .. n - 1
      BY <1>1
    <2>2. m.dp[n - 1] \in Nat /\ f[n - 1] = m.dp[n - 1]
      BY <1>2, <2>1, RadixIs
    <2> QED BY <1>12, <2>2 DEF Top
  <1> HIDE DEF B
  <1> QED BY <1>10, <1>11, <1>12, AddIs

-----------------------------------------------------------------------------
(* Shifts, and division by powers of 2 and by digits.                      *)

\* Exponents add up.
LEMMA TwoSums ==
  ASSUME NEW a \in Nat, NEW b \in Nat
  PROVE  2 ^ (a + b) = 2 ^ a * 2 ^ b
  <1> DEFINE T == {n \in Nat : 2 ^ (a + n) = 2 ^ a * 2 ^ n}
             x == 2 ^ a
  <1>1. x \in Nat
    BY TwoTo
  <1>2. 0 \in T
    <2>1. a + 0 = a /\ 2 ^ 0 = 1
      OBVIOUS
    <2> HIDE DEF x
    <2>2. x * 1 = x
      BY <1>1
    <2>3. 2 ^ (a + 0) = x * 2 ^ 0
      BY <2>1, <2>2 DEF x
    <2> QED BY <2>3 DEF x
  <1>3. ASSUME NEW n \in T PROVE n + 1 \in T
    <2> DEFINE y == 2 ^ n
    <2>1. n \in Nat /\ 2 ^ (a + n) = x * y /\ a + n \in Nat /\ a + (n + 1) = (a + n) + 1
      OBVIOUS
    <2>2. y \in Nat /\ 2 ^ (n + 1) = y + y
      BY <2>1, TwoTo
    <2>3. 2 ^ ((a + n) + 1) = x * y + x * y
      BY <2>1, TwoTo
    <2> HIDE DEF x, y
    <2>4. x * (y + y) = x * y + x * y
      BY <1>1, <2>2
    <2>5. 2 ^ (a + (n + 1)) = x * 2 ^ (n + 1)
      BY <2>1, <2>2, <2>3, <2>4
    <2> QED BY <2>1, <2>5 DEF x
  <1> HIDE DEF T
  <1>4. T \in SUBSET Nat
    BY DEF T
  <1>5. T = Nat
    BY <1>2, <1>3, <1>4, Induction
  <1> QED BY <1>5 DEF T

\* The two parts a digit is cut into.
LEMMA Parts ==
  ASSUME NEW n \in 0 .. DigitBit
  PROVE  /\ 2 ^ n \in Nat /\ 2 ^ n > 0 /\ 2 ^ (DigitBit - n) \in Nat /\ 2 ^ (DigitBit - n) > 0
         /\ 2 ^ n * 2 ^ (DigitBit - n) = RADIX
  <1> DEFINE k == DigitBit - n
  <1>1. n \in Nat /\ k \in Nat /\ n + k = DigitBit
    BY MpiAssumption
  <1> HIDE DEF k
  <1>2. 2 ^ n * 2 ^ k = 2 ^ DigitBit
    BY <1>1, TwoSums
  <1>3. 2 ^ n \in Nat /\ 2 ^ n > 0 /\ 2 ^ k \in Nat /\ 2 ^ k > 0
    BY <1>1, TwoTo
  <1> QED BY <1>2, <1>3 DEF k, RADIX

\* What \div and % make of a sum.
LEMMA Divides ==
  ASSUME NEW b \in Nat, b > 0, NEW q \in Nat, NEW r \in Nat, r < b,
         NEW x, x = b * q + r
  PROVE  x \in Nat /\ x \div b = q /\ x % b = r
  <1> DEFINE u == x \div b
             v == x % b
  <1>1. b * q \in Nat
    OBVIOUS
  <1>2. x \in Nat
    BY <1>1
  <1>3. u \in Nat /\ v \in Nat /\ v < b /\ x = b * u + v
    BY <1>2
  <1> HIDE DEF u, v
  <1>4. b * u \in Nat
    BY <1>3
  <1>5. ~ u > q
    <2> SUFFICES ASSUME u > q PROVE FALSE
      OBVIOUS
    <2>1. b * (q + 1) <= b * u
      <3>1. \A s, t \in Nat : s <= t => b * s <= b * t
        OBVIOUS
      <3> QED BY <1>3, <3>1
    <2>2. b * (q + 1) = b * q + b
      OBVIOUS
    <2> QED BY <1>1, <1>3, <1>4, <2>1, <2>2
  <1>6. ~ q > u
    <2> SUFFICES ASSUME q > u PROVE FALSE
      OBVIOUS
    <2>1. b * (u + 1) <= b * q
      <3>1. \A s, t \in Nat : s <= t => b * s <= b * t
        OBVIOUS
      <3> QED BY <1>3, <3>1
    <2>2. b * (u + 1) = b * u + b
      BY <1>3
    <2> QED BY <1>1, <1>3, <1>4, <2>1, <2>2
  <1>7. u = q
    BY <1>3, <1>5, <1>6
  <1>8. v = r
    BY <1>1, <1>3, <1>7
  <1> QED BY <1>2, <1>7, <1>8 DEF u, v

\* Dividing twice is dividing once by the product.
LEMMA DividesTwice ==
  ASSUME NEW x \in Nat, NEW b \in Nat, b > 0, NEW c \in Nat, c > 0
  PROVE  (x \div b) \div c = x \div (b * c)
  <1> DEFINE u == x \div b
             v == x % b
             s == u \div c
             t == u % c
             r == b * t + v
  <1>1. u \in Nat /\ v \in Nat /\ v < b /\ x = b * u + v
    OBVIOUS
  <1>2. s \in Nat /\ t \in Nat /\ t < c /\ u = c * s + t
    BY <1>1
  <1> HIDE DEF u, v, s, t
  <1>3. b * c \in Nat /\ b * c > 0
    OBVIOUS
  <1>4. r \in Nat /\ r < b * c
    <2>1. b * (t + 1) <= b * c
      <3>1. \A y, z \in Nat : y <= z => b * y <= b * z
        OBVIOUS
      <3> QED BY <1>2, <3>1
    <2>2. b * (t + 1) = b * t + b /\ b * t \in Nat
      BY <1>2
    <2> QED BY <1>1, <1>3, <2>1, <2>2
  <1>5. x = (b * c) * s + r
    <2>1. b * (c * s + t) = b * (c * s) + b * t
      BY <1>2
    <2>2. b * (c * s) = (b * c) * s
      BY <1>2
    <2>3. (b * c) * s \in Nat /\ b * t \in Nat
      BY <1>2, <1>3
    <2> QED BY <1>1, <1>2, <2>1, <2>2, <2>3
  <1> HIDE DEF r
  <1>6. x \div (b * c) = s
    <2> DEFINE p == b * c
    <2> HIDE DEF p
    <2>1. p \in Nat /\ p > 0 /\ r < p /\ x = p * s + r
      BY <1>3, <1>4, <1>5 DEF p
    <2>2. x \div p = s
      BY <1>2, <1>4, <2>1, Divides
    <2> QED BY <2>2 DEF p
  <1> QED BY <1>6 DEF s, u

\* Bits of two parts, P and Q, of the radix: a digit is its upper bits and its lower bits.
LEMMA CutAs ==
  ASSUME NEW P \in Nat, P > 0, NEW Q \in Nat, Q > 0, P * Q = RADIX, NEW x \in Digit
  PROVE  /\ x \div P \in Nat /\ x \div P < Q /\ x % P \in Nat /\ x % P < P
         /\ x = P * (x \div P) + (x % P)
  <1> DEFINE u == x \div P
             v == x % P
  <1>1. x \in Nat /\ x < P * Q
    BY RadixIs DEF Digit
  <1>2. u \in Nat /\ v \in Nat /\ v < P /\ x = P * u + v
    BY <1>1
  <1> HIDE DEF u, v
  <1>3. ~ u >= Q
    <2> SUFFICES ASSUME u >= Q PROVE FALSE
      OBVIOUS
    <2>1. P * Q <= P * u
      <3>1. \A s, t \in Nat : s <= t => P * s <= P * t
        OBVIOUS
      <3> QED BY <1>2, <3>1
    <2>2. P * u \in Nat /\ P * Q \in Nat
      BY <1>2
    <2> QED BY <1>1, <1>2, <2>1, <2>2
  <1>4. u < Q
    BY <1>2, <1>3
  <1>5. /\ u \in Nat /\ u < Q /\ v \in Nat /\ v < P
        /\ x = P * u + v
    BY <1>2, <1>4
  <1> QED BY <1>5 DEF u, v

\* The lower bits go up, and there is room for as many from below.
LEMMA DigitUp ==
  ASSUME NEW P \in Nat, P > 0, NEW Q \in Nat, Q > 0, P * Q = RADIX,
         NEW x \in Digit, NEW s \in Nat, s < P
  PROVE  /\ ACCUM(x * P) + s \in Digit
         /\ P * x = ACCUM(x * P) + RADIX * (x \div Q)
         /\ x \div Q \in Nat /\ x \div Q < P
  <1> DEFINE u == x \div Q
             v == x % Q
             y == P * v
  <1>1. Q * P = RADIX
    OBVIOUS
  <1>2. u \in Nat /\ u < P /\ v \in Nat /\ v < Q /\ x = Q * u + v
    BY <1>1, CutAs
  <1> HIDE DEF u, v
  <1>3. y \in Nat /\ y + P <= RADIX
    <2>1. P * (v + 1) <= P * Q
      <3>1. \A a, b \in Nat : a <= b => P * a <= P * b
        OBVIOUS
      <3> QED BY <1>2, <3>1
    <2>2. P * (v + 1) = P * v + P /\ P * v \in Nat
      BY <1>2
    <2> QED BY <2>1, <2>2
  <1>4. x * P = RADIX * u + y
    <2>1. (Q * u + v) * P = (Q * u) * P + P * v
      BY <1>2
    <2>2. (Q * u) * P = (Q * P) * u
      BY <1>2
    <2> QED BY <1>1, <1>2, <2>1, <2>2
  <1> HIDE DEF y
  <1>5. RADIX \in Nat /\ RADIX > 0 /\ y < RADIX
    BY <1>3, RadixIs
  <1>6. (x * P) % RADIX = y
    BY <1>2, <1>3, <1>4, <1>5, Divides
  <1>7. ACCUM(x * P) = y
    BY <1>6 DEF ACCUM
  <1>8. x * P = P * x
    BY RadixIs
  <1>9. RADIX * u \in Nat
    BY <1>2, <1>5
  <1>10. y + s \in Digit
    BY <1>3, <1>5 DEF Digit
  <1>11. P * x = y + RADIX * u
    BY <1>3, <1>4, <1>8, <1>9
  <1> QED BY <1>2, <1>7, <1>10, <1>11 DEF u

\* The upper bits go down, and leave room for as many from above.
LEMMA DigitDown ==
  ASSUME NEW P \in Nat, P > 0, NEW Q \in Nat, Q > 0, P * Q = RADIX,
         NEW x \in Digit, NEW s \in Nat, s < P
  PROVE  /\ ACCUM(s * Q) = Q * s /\ x \div P + Q * s \in Digit
  <1> DEFINE u == x \div P
  <1>1. u \in Nat /\ u < Q
    BY CutAs
  <1> HIDE DEF u
  <1>2. Q * s \in Nat /\ Q * s + Q <= RADIX
    <2>1. Q * (s + 1) <= Q * P
      <3>1. \A a, b \in Nat : a <= b => Q * a <= Q * b
        OBVIOUS
      <3> QED BY <3>1
    <2>2. Q * (s + 1) = Q * s + Q /\ Q * s \in Nat /\ Q * P = P * Q
      OBVIOUS
    <2> QED BY <2>1, <2>2
  <1> DEFINE y == Q * s
  <1>3. s * Q = RADIX * 0 + y /\ RADIX \in Nat /\ RADIX > 0 /\ y < RADIX
    BY <1>2, RadixIs
  <1>4. y \in Nat /\ y + Q <= RADIX
    BY <1>2
  <1> HIDE DEF y
  <1>5. (s * Q) % RADIX = y
    BY <1>3, <1>4, Divides
  <1>6. ACCUM(s * Q) = y
    BY <1>5 DEF ACCUM
  <1>7. u + y \in Digit
    BY <1>1, <1>3, <1>4 DEF Digit
  <1> QED BY <1>6, <1>7 DEF u, y

\* A number whose digits are those of another from p up.
LEMMA ShiftedAbove ==
  ASSUME NEW k \in Nat, NEW m \in Mp(k), NEW l \in Nat, NEW r \in Mp(l), NEW p \in Nat,
         \A i \in Nat : DigitOf(r, i) = DigitOf(m, i + p)
  PROVE  Above(r, 0) = Above(m, p)
  <1> DEFINE n == m.used + r.used
             G == [i \in 0 .. n |-> Above(r, i)]
  <1>1. /\ \A i \in Nat : Above(m, i) \in Nat /\ Above(r, i) \in Nat
        /\ \A i \in Nat : i >= m.used => Above(m, i) = 0
        /\ \A i \in Nat : i >= r.used => Above(r, i) = 0
        /\ m.used \in Nat /\ n \in Nat /\ n >= m.used /\ n >= r.used
    BY AboveFacts
  <1> HIDE DEF n
  <1>2. Follows(G, m, p, n)
    <2>1. G \in [0 .. n -> Int]
      BY <1>1
    <2>2. ASSUME NEW i \in 0 .. n - 1
          PROVE  G[i] = DigitOf(m, p + i) + RADIX * G[i + 1]
      <3>1. i \in Nat /\ i \in 0 .. n /\ i + 1 \in 0 .. n /\ i + p = p + i
        BY <1>1
      <3>2. Above(r, i) = DigitOf(r, i) + RADIX * Above(r, i + 1)
        BY <3>1, AboveUnfolds
      <3> QED BY <3>1, <3>2
    <2> QED BY <2>1, <2>2 DEF Follows
  <1>3. G[n] = Above(m, p + n)
    <2>1. n \in 0 .. n /\ p + n \in Nat /\ p + n >= m.used
      BY <1>1
    <2>2. G[n] = Above(r, n)
      BY <2>1
    <2> QED BY <1>1, <2>1, <2>2
  <1>4. G[0] = Above(r, 0)
    BY <1>1
  <1>5. n \in Nat
    BY <1>1
  <1> HIDE DEF G
  <1>6. G[0] = Above(m, p)
    BY <1>2, <1>3, <1>5, Horner
  <1> QED BY <1>4, <1>6

\* The digits below k, where they are the same.
LEMMA LowAlike ==
  ASSUME NEW k \in Nat, NEW m \in Mp(k), NEW l \in Nat, NEW r \in Mp(l), NEW p \in Nat,
         \A i \in Nat : i < p => DigitOf(r, i) = DigitOf(m, i)
  PROVE  \E low \in Nat : /\ low < 2 ^ (DigitBit * p)
                          /\ Above(m, 0) = low + 2 ^ (DigitBit * p) * Above(m, p)
                          /\ Above(r, 0) = low + 2 ^ (DigitBit * p) * Above(r, p)
  <1> DEFINE G(j) == 2 ^ (DigitBit * j)
             Is(low, j) == /\ low < G(j)
                           /\ Above(m, 0) = low + G(j) * Above(m, j)
                           /\ Above(r, 0) = low + G(j) * Above(r, j)
             T == {j \in 0 .. p : \E low \in Nat : Is(low, j)}
  <1>1. \A i \in Nat : /\ Above(m, i) \in Nat /\ Above(r, i) \in Nat /\ DigitOf(m, i) \in Nat
                       /\ DigitOf(m, i) < RADIX
    BY AboveFacts
  <1>2. DigitBit \in Nat
    BY MpiAssumption
  <1>3. 0 \in T
    <2>1. G(0) = 1
      <3>1. DigitBit * 0 = 0 /\ 2 ^ 0 = 1
        BY <1>2
      <3> QED BY <3>1
    <2> HIDE DEF G
    <2>2. Is(0, 0)
      BY <1>1, <2>1
    <2> QED BY <2>2
  <1>4. ASSUME NEW i \in 1 .. p, i - 1 \in T PROVE i \in T
    <2> DEFINE j == i - 1
               g == G(j)
               d == DigitOf(m, j)
               x == Above(m, j + 1)
               y == Above(r, j + 1)
    <2>1. PICK low \in Nat : Is(low, j)
      BY <1>4
    <2>2. j \in Nat /\ j + 1 = i /\ j < p /\ i \in 0 .. p
      OBVIOUS
    <2> HIDE DEF j
    <2>3. g \in Nat /\ g > 0
      <3>1. DigitBit * j \in Nat
        BY <1>2, <2>2
      <3> QED BY <3>1, TwoTo
    <2>4. G(i) = g * RADIX
      <3>1. DigitBit * j \in Nat /\ DigitBit * i = DigitBit * j + DigitBit
        BY <1>2, <2>2
      <3>2. 2 ^ (DigitBit * j + DigitBit) = 2 ^ (DigitBit * j) * 2 ^ DigitBit
        BY <1>2, <3>1, TwoSums
      <3> QED BY <3>1, <3>2 DEF RADIX
    <2>5. Above(m, j) = d + RADIX * x /\ Above(r, j) = d + RADIX * y
      BY <2>2, AboveUnfolds
    <2>6. d \in Nat /\ d < RADIX /\ x \in Nat /\ y \in Nat
      BY <1>1, <2>2
    <2> HIDE DEF G, d, x, y, g
    <2> DEFINE lo == low + g * d
    <2>7. Above(m, 0) = low + g * (d + RADIX * x) /\ Above(r, 0) = low + g * (d + RADIX * y)
      BY <2>1, <2>5 DEF g
    <2>8. \A z \in Nat : low + g * (d + RADIX * z) = lo + (g * RADIX) * z
      <3> SUFFICES ASSUME NEW z \in Nat PROVE low + g * (d + RADIX * z) = lo + (g * RADIX) * z
        OBVIOUS
      <3>1. g * (d + RADIX * z) = g * d + g * (RADIX * z) /\ g * (RADIX * z) = (g * RADIX) * z
        BY <2>3, <2>6, RadixIs
      <3>2. g * d \in Nat /\ (g * RADIX) * z \in Nat
        BY <2>3, <2>6, RadixIs
      <3> QED BY <3>1, <3>2
    <2>9. lo \in Nat /\ lo < g * RADIX
      <3>1. g * d \in Nat /\ g * (d + 1) = g * d + g
        BY <2>3, <2>6
      <3>2. g * (d + 1) <= g * RADIX
        <4>1. \A a, b \in Nat : a <= b => g * a <= g * b
          BY <2>3
        <4> QED BY <2>6, <4>1, RadixIs
      <3>3. low < g
        BY <2>1 DEF g
      <3>4. g * RADIX \in Nat
        BY <2>3, RadixIs
      <3> QED BY <2>3, <3>1, <3>2, <3>3, <3>4
    <2> HIDE DEF lo
    <2>10. Is(lo, i)
      BY <2>2, <2>4, <2>6, <2>7, <2>8, <2>9 DEF x, y
    <2> QED BY <2>2, <2>9, <2>10
  <1> HIDE DEF T
  <1>5. p \in T
    BY <1>3, <1>4, Upwards
  <1> QED BY <1>5 DEF T

\* s_mp_rshd drops the digits below p.
LEMMA DownIs ==
  ASSUME NEW m, Tidy(m), NEW p \in Nat, NEW r, r = s_mp_rshd(m, p)
  PROVE  /\ Tidy(r) /\ Above(r, 0) = Above(m, p)
         /\ Above(r, 0) > 0 => r.sign = m.sign
  <1>1. m.alloc \in Nat /\ m \in Mp(m.alloc) /\ Clean(m)
    BY TidyAbove
  <1>2. /\ m.used \in Nat /\ m.used > 0
        /\ \A i \in Nat : Above(m, i) \in Nat
        /\ \A i \in Nat : i >= m.used => Above(m, i) = 0
    BY <1>1, AboveFacts
  <1>3. CASE p = 0
    BY <1>2, <1>3 DEF s_mp_rshd
  <1>4. CASE p # 0 /\ p >= m.used
    <2>1. r = Zeroed(m)
      BY <1>4 DEF s_mp_rshd
    <2>2. 0 \in Digit
      BY RadixIs
    <2>3. Tidy(r) /\ Above(r, 0) = 0
      BY <2>1, <2>2, ZeroedIs DEF Good, Magn
    <2> QED BY <1>2, <1>4, <2>3
  <1>5. CASE p # 0 /\ ~ p >= m.used
    <2> DEFINE digits == [i \in InUse(m) |-> DigitOf(m, i + p)]
               w == WithDigits(m, digits)
    <2>1. digits \in [InUse(m) -> Digit]
      <3>1. ASSUME NEW i \in InUse(m) PROVE DigitOf(m, i + p) \in Digit
        <4>1. i + p \in Nat
          BY <1>2 DEF InUse
        <4> QED BY <4>1, TidyIs
      <3> QED BY <3>1
    <2>2. r = s_mp_clamp(w)
      BY <1>5 DEF s_mp_rshd
    <2>3. \A i \in InUse(m) : digits[i] = DigitOf(m, i + p)
      OBVIOUS
    <2> HIDE DEF digits
    <2>4. /\ w \in Mp(m.alloc) /\ Clean(w) /\ w.sign = m.sign /\ w.alloc = m.alloc
          /\ \A i \in Nat : DigitOf(w, i) = IF i < m.used THEN digits[i] ELSE 0
      BY <1>1, <2>1, WithDigitsIs
    <2> HIDE DEF w
    <2>5. /\ r \in Mp(m.alloc) /\ Clean(r) /\ Same(r, w) /\ r.alloc = m.alloc /\ Top(r)
          /\ r.sign = IF r.used = 1 /\ DigitOf(w, 0) = 0 THEN ZPOS ELSE w.sign
      BY <1>1, <2>2, <2>4, ClampIs
    <2>6. ASSUME NEW i \in Nat PROVE DigitOf(r, i) = DigitOf(m, i + p)
      <3>1. DigitOf(r, i) = DigitOf(w, i)
        BY <2>5 DEF Same
      <3>2. CASE i < m.used
        <4>1. i \in InUse(m)
          BY <1>2, <3>2 DEF InUse
        <4> QED BY <2>3, <2>4, <3>1, <3>2, <4>1
      <3>3. CASE ~ i < m.used
        <4>1. i + p \in Nat /\ i + p >= m.used
          BY <1>2, <3>3
        <4>2. DigitOf(m, i + p) = 0
          BY <4>1, TidyIs
        <4> QED BY <2>4, <3>1, <3>3, <4>2
      <3> QED BY <3>2, <3>3
    <2>7. Above(r, 0) = Above(m, p)
      BY <1>1, <2>5, <2>6, ShiftedAbove
    <2>8. Tidy(r)
      BY <2>5 DEF Tidy
    <2>9. ASSUME Above(r, 0) > 0 PROVE r.sign = m.sign
      <3>1. ~ (r.used = 1 /\ r.dp[0] = 0) /\ DigitOf(r, 0) = r.dp[0]
        BY <1>1, <2>5, <2>9, ZeroIs
      <3>2. DigitOf(r, 0) = DigitOf(w, 0)
        BY <2>5 DEF Same
      <3> QED BY <2>4, <2>5, <3>1, <3>2
    <2> QED BY <2>7, <2>8, <2>9
  <1> QED BY <1>3, <1>4, <1>5

\* s_mp_lshd puts p zeroes below the digits.
LEMMA UpIs ==
  ASSUME NEW m, Tidy(m), NEW p \in Nat, NEW r, r = s_mp_lshd(m, p)
  PROVE  /\ Tidy(r) /\ r.sign = m.sign
         /\ Above(r, 0) = 2 ^ (DigitBit * p) * Above(m, 0)
  <1>1. m.alloc \in Nat /\ m \in Mp(m.alloc) /\ Clean(m) /\ Above(m, 0) \in Nat
    BY TidyAbove
  <1>2. DigitBit \in Nat
    BY MpiAssumption
  <1>3. CASE p = 0
    <2>1. 2 ^ (DigitBit * p) = 1
      <3>1. DigitBit * 0 = 0 /\ 2 ^ 0 = 1
        BY <1>2
      <3> QED BY <1>3, <3>1
    <2> QED BY <1>1, <1>3, <2>1 DEF s_mp_lshd
  <1>4. CASE p # 0
    <2> DEFINE min == m.used + p
               w == s_mp_pad(m, min)
               digits == [i \in InUse(w) |-> IF i < p THEN 0 ELSE w.dp[i - p]]
    <2>1. m.used \in Nat /\ m.used > 0 /\ min \in Nat /\ ~ min <= m.used
      BY <1>4, TidyIs
    <2>2. r = WithDigits(w, digits)
      BY <1>4 DEF s_mp_lshd, MovedUp
    <2> HIDE DEF w
    <2> HIDE DEF min
    <2>3. Tidy(w) /\ Same(w, m) /\ w.sign = m.sign /\ w.used = min
      <3>1. w = s_mp_pad(m, min)
        BY DEF w
      <3>2. /\ Tidy(w) /\ Same(w, m) /\ w.sign = m.sign
            /\ w.used = IF min <= m.used THEN m.used ELSE min
        <4>1. min \in Nat
          BY <2>1
        <4> QED BY <3>1, <4>1, PadIs
      <3> QED BY <2>1, <3>2
    <2>4. w.alloc \in Nat /\ w \in Mp(w.alloc) /\ Clean(w)
      BY <2>3, TidyAbove
    <2>5. ASSUME NEW i \in InUse(w), ~ i < p
          PROVE  i - p \in Nat /\ w.dp[i - p] = DigitOf(m, i - p) /\ w.dp[i - p] \in Digit
      <3>1. i - p \in Nat /\ i - p < w.used
        BY <2>1, <2>3, <2>5 DEF InUse
      <3>2. DigitOf(w, i - p) = w.dp[i - p]
        BY <3>1 DEF DigitOf
      <3>3. DigitOf(w, i - p) \in Digit
        BY <2>3, <3>1, TidyIs
      <3> QED BY <2>3, <3>1, <3>2, <3>3 DEF Same
    <2>6. digits \in [InUse(w) -> Digit]
      BY <2>5, RadixIs
    <2>7. \A i \in InUse(w) : digits[i] = IF i < p THEN 0 ELSE w.dp[i - p]
      OBVIOUS
    <2> HIDE DEF digits
    <2>8. /\ r \in Mp(w.alloc) /\ Clean(r)
          /\ r.sign = w.sign /\ r.used = w.used /\ r.alloc = w.alloc
          /\ \A i \in Nat : DigitOf(r, i) = IF i < w.used THEN digits[i] ELSE 0
      BY <2>2, <2>4, <2>6, WithDigitsIs
    <2>9. ASSUME NEW i \in Nat, i < p PROVE DigitOf(r, i) = 0
      <3>1. i \in InUse(w) /\ i < w.used
        BY <2>1, <2>3, <2>9 DEF InUse, min
      <3> QED BY <2>7, <2>8, <2>9, <3>1
    <2>10. ASSUME NEW i \in Nat PROVE DigitOf(m, i) = DigitOf(r, i + p)
      <3>1. i + p \in Nat /\ ~ i + p < p /\ (i + p) - p = i
        OBVIOUS
      <3>2. CASE i + p < w.used
        <4>1. i + p \in InUse(w)
          BY <2>1, <2>3, <3>1, <3>2 DEF InUse
        <4> QED BY <2>5, <2>7, <2>8, <3>1, <3>2, <4>1
      <3>3. CASE ~ i + p < w.used
        <4>1. i >= m.used
          BY <2>1, <2>3, <3>3 DEF min
        <4> QED BY <2>8, <3>1, <3>3, <4>1, TidyIs
      <3> QED BY <3>2, <3>3
    <2>11. Above(m, 0) = Above(r, p)
      BY <1>1, <2>4, <2>8, <2>10, ShiftedAbove
    <2> DEFINE z == Zeroes(1)
    <2>12. z \in Mp(1) /\ \A i \in Nat : DigitOf(z, i) = 0
      BY ZeroesIs
    <2>13. Above(z, 0) = 0 /\ Above(z, p) = 0
      <3> HIDE DEF z
      <3> QED BY <2>12, NoneAbove
    <2> HIDE DEF z
    <2> DEFINE g == 2 ^ (DigitBit * p)
    <2>14. PICK low \in Nat : Above(r, 0) = low + g * Above(r, p) /\ Above(z, 0) = low + g * Above(z, p)
      BY <2>4, <2>8, <2>9, <2>12, LowAlike
    <2>15. g \in Nat
      <3>1. DigitBit * p \in Nat
        BY <1>2
      <3> QED BY <3>1, TwoTo
    <2> HIDE DEF g
    <2>16. low = 0
      BY <2>13, <2>14, <2>15
    <2>17. Above(r, 0) = g * Above(m, 0)
      <3>1. g * Above(r, p) \in Nat
        BY <1>1, <2>11, <2>15
      <3>2. Above(r, 0) = 0 + g * Above(r, p)
        BY <2>14, <2>16
      <3> QED BY <2>11, <3>1, <3>2
    <2> QED BY <2>3, <2>8, <2>17 DEF Tidy, g
  <1> QED BY <1>3, <1>4

\* Down by n bits: each digit takes its upper bits from the next.
LEMMA BitsDownIs ==
  ASSUME NEW m, Tidy(m), NEW n \in 0 .. DigitBit - 1, NEW r, r = BitsDown(m, n)
  PROVE  /\ Tidy(r) /\ r.sign = m.sign /\ r.used = m.used
         /\ Above(r, 0) = Above(m, 0) \div 2 ^ n
  <1> DEFINE P == 2 ^ n
             Q == 2 ^ (DigitBit - n)
             save(i) == ACCUM((DigitOf(m, i + 1) % P) * Q)
             digits == [i \in InUse(m) |-> m.dp[i] \div P + save(i)]
             G == [i \in 0 .. m.used |-> P * Above(r, i) + (DigitOf(m, i) % P)]
  <1>1. m.alloc \in Nat /\ m \in Mp(m.alloc) /\ Clean(m)
    BY TidyAbove
  <1>2. P \in Nat /\ P > 0 /\ Q \in Nat /\ Q > 0 /\ P * Q = RADIX
    <2>1. n \in 0 .. DigitBit
      BY MpiAssumption
    <2> QED BY <2>1, Parts
  <1>3. r = WithDigits(m, digits)
    BY DEF BitsDown
  <1>4. m.used \in Nat /\ m.used > 0
    BY TidyIs
  <1> HIDE DEF P, Q
  <1>5. ASSUME NEW i \in Nat
        PROVE  /\ DigitOf(m, i) % P \in Nat /\ DigitOf(m, i) % P < P
               /\ DigitOf(m, i) \div P \in Nat
               /\ DigitOf(m, i) = P * (DigitOf(m, i) \div P) + (DigitOf(m, i) % P)
               /\ save(i) = Q * (DigitOf(m, i + 1) % P)
               /\ DigitOf(m, i) \div P + save(i) \in Digit
    <2> DEFINE x == DigitOf(m, i)
               y == DigitOf(m, i + 1)
               s == y % P
    <2>1. i + 1 \in Nat
      OBVIOUS
    <2>2. x \in Digit /\ y \in Digit
      BY <2>1, TidyIs
    <2> HIDE DEF x, y
    <2>3. /\ x \div P \in Nat /\ x % P \in Nat /\ x % P < P /\ x = P * (x \div P) + (x % P)
          /\ s \in Nat /\ s < P
      BY <1>2, <2>2, CutAs
    <2> HIDE DEF s
    <2>4. ACCUM(s * Q) = Q * s /\ x \div P + Q * s \in Digit
      BY <1>2, <2>2, <2>3, DigitDown
    <2>5. save(i) = Q * s
      BY <2>4 DEF s, y
    <2> QED BY <2>3, <2>4, <2>5 DEF x, y, s
  <1> HIDE DEF save
  <1>6. digits \in [InUse(m) -> Digit]
    <2>1. ASSUME NEW i \in InUse(m) PROVE m.dp[i] \div P + save(i) \in Digit
      <3>1. i \in Nat /\ i < m.used
        BY <1>4 DEF InUse
      <3>2. DigitOf(m, i) = m.dp[i]
        BY <3>1 DEF DigitOf
      <3> QED BY <1>5, <3>1, <3>2
    <2> QED BY <2>1
  <1>7. \A i \in InUse(m) : digits[i] = m.dp[i] \div P + save(i)
    OBVIOUS
  <1> HIDE DEF digits
  <1>8. /\ r \in Mp(m.alloc) /\ Clean(r)
        /\ r.sign = m.sign /\ r.used = m.used /\ r.alloc = m.alloc
        /\ \A i \in Nat : DigitOf(r, i) = IF i < m.used THEN digits[i] ELSE 0
    BY <1>1, <1>3, <1>6, WithDigitsIs
  <1>9. \A i \in Nat : Above(r, i) \in Nat
    BY <1>1, <1>8, AboveFacts
  <1>10. Follows(G, m, 0, m.used)
    <2>1. ASSUME NEW i \in 0 .. m.used PROVE P * Above(r, i) + (DigitOf(m, i) % P) \in Int
      <3>1. i \in Nat
        BY <1>4
      <3>2. Above(r, i) \in Nat /\ DigitOf(m, i) % P \in Nat
        BY <1>5, <1>9, <3>1
      <3> QED BY <1>2, <3>2
    <2>2. G \in [0 .. m.used -> Int]
      BY <2>1
    <2>3. ASSUME NEW i \in 0 .. m.used - 1
          PROVE  G[i] = DigitOf(m, 0 + i) + RADIX * G[i + 1]
      <3> DEFINE x == DigitOf(m, i)
                 t == DigitOf(m, i + 1) % P
                 a == Above(r, i + 1)
                 u == x \div P
                 v == x % P
      <3>1. /\ i \in Nat /\ i \in 0 .. m.used /\ i + 1 \in 0 .. m.used /\ i + 1 \in Nat
            /\ 0 + i = i /\ i < m.used
        BY <1>4
      <3>2. G[i] = P * Above(r, i) + v /\ G[i + 1] = P * a + t
        BY <3>1
      <3>3. x = m.dp[i]
        BY <3>1 DEF DigitOf
      <3>4. DigitOf(r, i) = u + Q * t
        <4>1. i \in InUse(m)
          BY <1>4 DEF InUse
        <4> QED BY <1>5, <1>7, <1>8, <3>1, <3>3, <4>1
      <3>5. Above(r, i) = DigitOf(r, i) + RADIX * a
        BY <1>1, <1>8, <3>1, AboveUnfolds
      <3>6. u \in Nat /\ v \in Nat /\ x = P * u + v /\ t \in Nat /\ a \in Nat
        BY <1>5, <1>9, <3>1
      <3> HIDE DEF x, t, a, u, v, G
      <3>7. P * ((u + Q * t) + RADIX * a) = P * u + (P * Q) * t + RADIX * (P * a)
        <4>1. P * ((u + Q * t) + RADIX * a) = P * u + P * (Q * t) + P * (RADIX * a)
          BY <1>2, <3>6, RadixIs
        <4>2. P * (Q * t) = (P * Q) * t /\ P * (RADIX * a) = RADIX * (P * a)
          BY <1>2, <3>6, RadixIs
        <4> QED BY <4>1, <4>2
      <3>8. RADIX * (P * a + t) = RADIX * (P * a) + RADIX * t
        BY <1>2, <3>6, RadixIs
      <3>9. P * u \in Nat /\ RADIX * t \in Nat /\ RADIX * (P * a) \in Nat
        BY <1>2, <3>6, RadixIs
      <3>10. G[i] = P * u + RADIX * t + RADIX * (P * a) + v
        BY <1>2, <3>2, <3>4, <3>5, <3>7
      <3>11. x + RADIX * G[i + 1] = P * u + RADIX * t + RADIX * (P * a) + v
        BY <3>2, <3>6, <3>8, <3>9
      <3> QED BY <3>1, <3>10, <3>11 DEF x
    <2> QED BY <2>2, <2>3 DEF Follows
  <1>11. G[m.used] = Above(m, 0 + m.used)
    <2>1. m.used \in 0 .. m.used /\ 0 + m.used = m.used
      BY <1>4
    <2>2. Above(r, m.used) = 0 /\ Above(m, m.used) = 0 /\ DigitOf(m, m.used) = 0
      <3>1. Above(m, m.used) = 0
        BY <1>1, <1>4, AboveFacts
      <3>2. Above(r, m.used) = 0
        BY <1>1, <1>4, <1>8, AboveFacts
      <3>3. DigitOf(m, m.used) = 0
        BY <1>4, TidyIs
      <3> QED BY <3>1, <3>2, <3>3
    <2>3. 0 % P = 0 /\ P * 0 = 0
      BY <1>2
    <2> QED BY <2>1, <2>2, <2>3
  <1>12. G[0] = P * Above(r, 0) + (DigitOf(m, 0) % P)
    BY <1>4
  <1> HIDE DEF G
  <1>13. Above(m, 0) = P * Above(r, 0) + (DigitOf(m, 0) % P)
    BY <1>1, <1>4, <1>10, <1>11, <1>12, Horner
  <1>14. Above(m, 0) \div P = Above(r, 0)
    <2> DEFINE q == Above(r, 0)
               v == DigitOf(m, 0) % P
    <2>1. q \in Nat /\ v \in Nat /\ v < P /\ Above(m, 0) = P * q + v
      BY <1>5, <1>9, <1>13
    <2> HIDE DEF q, v
    <2>2. Above(m, 0) \div P = q
      BY <1>2, <2>1, Divides
    <2> QED BY <2>2 DEF q
  <1>15. Tidy(r)
    BY <1>8 DEF Tidy
  <1> QED BY <1>8, <1>14, <1>15 DEF P

\* Clamped, a number is the same, and a zero is positive.
LEMMA ClampedIs ==
  ASSUME NEW m, Tidy(m), NEW r, r = s_mp_clamp(m)
  PROVE  /\ Tidy(r) /\ Top(r) /\ Above(r, 0) = Above(m, 0)
         /\ r.sign = IF Above(r, 0) = 0 THEN ZPOS ELSE m.sign
  <1>1. m.alloc \in Nat /\ m \in Mp(m.alloc) /\ Clean(m)
    BY TidyAbove
  <1>2. /\ r \in Mp(m.alloc) /\ Clean(r) /\ Same(r, m) /\ Top(r) /\ r.alloc = m.alloc
        /\ r.sign = IF r.used = 1 /\ DigitOf(m, 0) = 0 THEN ZPOS ELSE m.sign
    BY <1>1, ClampIs
  <1>3. Above(r, 0) = Above(m, 0)
    BY <1>1, <1>2, SameWorth
  <1>4. /\ Above(r, 0) = 0 <=> r.used = 1 /\ r.dp[0] = 0
        /\ DigitOf(r, 0) = r.dp[0]
    BY <1>1, <1>2, ZeroIs
  <1>5. DigitOf(r, 0) = DigitOf(m, 0)
    BY <1>2 DEF Same
  <1> QED BY <1>2, <1>3, <1>4, <1>5 DEF Tidy

\* Up by n bits: each digit gives its upper bits to the next, the last to a new one.
LEMMA BitsUpIs ==
  ASSUME NEW m, Tidy(m), NEW n \in 0 .. DigitBit - 1, NEW r, r = BitsUp(m, n)
  PROVE  /\ Tidy(r) /\ r.sign = m.sign
         /\ Above(r, 0) = 2 ^ n * Above(m, 0)
  <1> DEFINE P == 2 ^ n
             Q == 2 ^ (DigitBit - n)
             u == m.used
             save(i) == IF i = 0 THEN 0 ELSE m.dp[i - 1] \div Q
             digits == [i \in InUse(m) |-> ACCUM(m.dp[i] * P) + save(i)]
             w == WithDigits(m, digits)
             G == [i \in 0 .. u |-> save(i) + P * Above(m, i)]
  <1>1. m.alloc \in Nat /\ m \in Mp(m.alloc) /\ Clean(m)
    BY TidyAbove
  <1>2. P \in Nat /\ P > 0 /\ Q \in Nat /\ Q > 0 /\ P * Q = RADIX
    <2>1. n \in 0 .. DigitBit
      BY MpiAssumption
    <2> QED BY <2>1, Parts
  <1>3. r = IF save(u) = 0 THEN w ELSE Longer(s_mp_grow(w, u + 1), save(u))
    BY DEF BitsUp
  <1>4. u \in Nat /\ u > 0 /\ u <= m.alloc
    BY TidyIs
  <1> HIDE DEF P, Q
  <1>5. \A i \in 0 .. u - 1 : m.dp[i] \in Digit /\ DigitOf(m, i) = m.dp[i] /\ m.dp[i] \in Nat
    <2> SUFFICES ASSUME NEW i \in 0 .. u - 1
                 PROVE  m.dp[i] \in Digit /\ DigitOf(m, i) = m.dp[i]
      BY RadixIs
    <2>1. i \in Nat /\ i < m.used
      BY <1>4
    <2>2. DigitOf(m, i) = m.dp[i]
      BY <2>1 DEF DigitOf
    <2> QED BY <2>1, <2>2, TidyIs
  <1>6. \A i \in 0 .. u : save(i) \in Nat /\ save(i) < P
    <2> SUFFICES ASSUME NEW i \in 0 .. u, i # 0
                 PROVE  m.dp[i - 1] \div Q \in Nat /\ m.dp[i - 1] \div Q < P
      BY <1>2
    <2> DEFINE x == m.dp[i - 1]
    <2>1. i - 1 \in 0 .. u - 1
      BY <1>4
    <2>2. x \in Digit
      BY <1>5, <2>1
    <2> HIDE DEF x
    <2>3. 0 \in Nat /\ 0 < P
      BY <1>2
    <2>4. x \div Q \in Nat /\ x \div Q < P
      BY <1>2, <2>2, <2>3, DigitUp
    <2> QED BY <2>4 DEF x
  <1>7. \A i \in 0 .. u - 1 : save(i + 1) = m.dp[i] \div Q
    <2> SUFFICES ASSUME NEW i \in 0 .. u - 1 PROVE save(i + 1) = m.dp[i] \div Q
      OBVIOUS
    <2>1. i + 1 # 0 /\ (i + 1) - 1 = i
      BY <1>4
    <2> QED BY <2>1
  <1> HIDE DEF save
  <1>8. ASSUME NEW i \in 0 .. u - 1
        PROVE  /\ ACCUM(m.dp[i] * P) + save(i) \in Digit
               /\ P * m.dp[i] = ACCUM(m.dp[i] * P) + RADIX * save(i + 1)
    <2> DEFINE x == m.dp[i]
               s == save(i)
    <2>1. x \in Digit /\ s \in Nat /\ s < P
      BY <1>4, <1>5, <1>6
    <2>2. save(i + 1) = x \div Q
      BY <1>7
    <2> HIDE DEF x, s
    <2>3. ACCUM(x * P) + s \in Digit /\ P * x = ACCUM(x * P) + RADIX * (x \div Q)
      BY <1>2, <2>1, DigitUp
    <2> QED BY <2>2, <2>3 DEF x, s
  <1>9. digits \in [InUse(m) -> Digit] /\ \A i \in 0 .. u - 1 : digits[i] = ACCUM(m.dp[i] * P) + save(i)
    <2>1. InUse(m) = 0 .. u - 1
      BY DEF InUse
    <2> HIDE DEF u
    <2> QED BY <1>8, <2>1
  <1> HIDE DEF digits
  <1>10. /\ w \in Mp(m.alloc) /\ Clean(w) /\ w.sign = m.sign /\ w.used = u /\ w.alloc = m.alloc
         /\ \A i \in Nat : DigitOf(w, i) = IF i < u THEN digits[i] ELSE 0
    BY <1>1, <1>9, WithDigitsIs
  <1> HIDE DEF w
  <1>11. u \in 0 .. u /\ u + 1 \in Nat /\ ~ u < u
    BY <1>4
  <1>12. /\ Tidy(r) /\ r.sign = m.sign /\ r.used <= u + 1
         /\ \A i \in 0 .. u - 1 : DigitOf(r, i) = digits[i]
         /\ DigitOf(r, u) = save(u)
    <2>1. Tidy(w)
      BY <1>10 DEF Tidy
    <2>2. \A i \in 0 .. u - 1 : i \in Nat /\ i < u /\ i # u
      BY <1>4
    <2>3. CASE save(u) = 0
      BY <1>3, <1>4, <1>10, <1>11, <2>1, <2>2, <2>3
    <2>4. CASE save(u) # 0
      <3> DEFINE g == s_mp_grow(w, u + 1)
                 l == g.alloc
      <3>1. Tidy(g) /\ Same(g, w) /\ g.used = w.used /\ g.sign = w.sign /\ l >= u + 1
        BY <1>11, <2>1, GrowIs
      <3> HIDE DEF g
      <3>2. l \in Nat /\ g \in Mp(l) /\ Clean(g)
        BY <3>1, TidyAbove
      <3>3. save(u) \in Digit
        <4> DEFINE s == save(u)
        <4>1. s \in Nat /\ s < P
          BY <1>6, <1>11
        <4> HIDE DEF s
        <4>2. P * 1 <= P * Q
          <5>1. \A a, b \in Nat : a <= b => P * a <= P * b
            BY <1>2
          <5> QED BY <1>2, <5>1
        <4>3. s < RADIX
          BY <1>2, <4>1, <4>2
        <4> QED BY <4>1, <4>3, RadixIs DEF Digit, s
      <3>4. r = Longer(g, save(u))
        BY <1>3, <2>4 DEF g
      <3>5. /\ r \in Mp(IF g.used < l THEN l ELSE l + 1) /\ Clean(r)
            /\ r.sign = g.sign /\ r.used = g.used + 1 /\ r.alloc = g.alloc
            /\ \A i \in Nat : DigitOf(r, i) = IF i = g.used THEN save(u) ELSE DigitOf(g, i)
        BY <3>2, <3>3, <3>4, LongerIs
      <3>6. g.used = u /\ g.used < l
        BY <1>4, <1>10, <3>1, <3>2
      <3>7. r \in Mp(r.alloc)
        BY <3>5, <3>6
      <3>8. \A i \in 0 .. u - 1 : DigitOf(r, i) = digits[i]
        <4> SUFFICES ASSUME NEW i \in 0 .. u - 1 PROVE DigitOf(r, i) = digits[i]
          OBVIOUS
        <4>1. DigitOf(r, i) = DigitOf(g, i)
          BY <2>2, <3>5, <3>6
        <4>2. DigitOf(g, i) = DigitOf(w, i)
          BY <2>2, <3>1 DEF Same
        <4> QED BY <1>10, <2>2, <4>1, <4>2
      <3>9. DigitOf(r, u) = save(u)
        BY <1>4, <3>5, <3>6
      <3> QED BY <1>4, <1>10, <3>1, <3>5, <3>6, <3>7, <3>8, <3>9 DEF Tidy
    <2> QED BY <2>3, <2>4
  <1>13. r.alloc \in Nat /\ r \in Mp(r.alloc)
    BY <1>12, TidyAbove
  <1>14. Follows(G, r, 0, u)
    <2>1. \A i \in Nat : Above(m, i) \in Nat
      BY <1>1, AboveFacts
    <2>2. G \in [0 .. u -> Int]
      <3>1. ASSUME NEW i \in 0 .. u PROVE save(i) + P * Above(m, i) \in Int
        <4>1. i \in Nat /\ save(i) \in Nat
          BY <1>4, <1>6
        <4>2. Above(m, i) \in Nat
          BY <2>1, <4>1
        <4> QED BY <1>2, <4>1, <4>2
      <3> QED BY <3>1
    <2>3. ASSUME NEW i \in 0 .. u - 1
          PROVE  G[i] = DigitOf(r, 0 + i) + RADIX * G[i + 1]
      <3> DEFINE s == save(i)
                 t == save(i + 1)
                 a == Above(m, i + 1)
                 x == m.dp[i]
                 y == ACCUM(x * P)
      <3>1. i \in Nat /\ i \in 0 .. u /\ i + 1 \in 0 .. u /\ i + 1 \in Nat /\ 0 + i = i
        BY <1>4
      <3>2. G[i] = s + P * Above(m, i) /\ G[i + 1] = t + P * a
        BY <3>1
      <3>3. Above(m, i) = x + RADIX * a
        BY <1>1, <1>5, <3>1, AboveUnfolds
      <3>4. DigitOf(r, i) = y + s
        BY <1>9, <1>12
      <3>5. P * x = y + RADIX * t
        BY <1>8
      <3>6. s \in Nat /\ t \in Nat /\ a \in Nat /\ x \in Nat
        BY <1>5, <1>6, <2>1, <3>1
      <3>7. x * P \in Nat
        BY <1>2, <3>6
      <3>8. y \in Nat
        BY <3>7, RadixIs, Splits
      <3> HIDE DEF s, t, a, x, y, G
      <3>9. P * (x + RADIX * a) = P * x + RADIX * (P * a)
        <4>1. P * (x + RADIX * a) = P * x + P * (RADIX * a)
          BY <1>2, <3>6, RadixIs
        <4>2. P * (RADIX * a) = RADIX * (P * a)
          BY <1>2, <3>6, RadixIs
        <4> QED BY <4>1, <4>2
      <3>10. RADIX * (t + P * a) = RADIX * t + RADIX * (P * a)
        BY <1>2, <3>6, RadixIs
      <3>11. RADIX * t \in Nat /\ RADIX * (P * a) \in Nat
        BY <1>2, <3>6, RadixIs
      <3>12. G[i] = s + (y + RADIX * t + RADIX * (P * a))
        BY <3>2, <3>3, <3>5, <3>9
      <3>13. DigitOf(r, i) + RADIX * G[i + 1] = (y + s) + (RADIX * t + RADIX * (P * a))
        BY <3>2, <3>4, <3>10
      <3> QED BY <3>1, <3>6, <3>8, <3>11, <3>12, <3>13
    <2> QED BY <2>2, <2>3 DEF Follows
  <1>15. G[u] = Above(r, 0 + u)
    <2>1. Above(m, u) = 0
      BY <1>1, <1>4, AboveFacts
    <2>2. save(u) \in Nat
      BY <1>6, <1>11
    <2>3. G[u] = save(u) + P * 0
      BY <1>11, <2>1
    <2>4. G[u] = save(u)
      BY <1>2, <2>2, <2>3
    <2>5. Above(r, u + 1) = 0
      BY <1>4, <1>12, <1>13, AboveFacts
    <2>6. Above(r, u) = save(u) + RADIX * 0
      BY <1>4, <1>12, <1>13, <2>5, AboveUnfolds
    <2>7. 0 + u = u
      BY <1>4
    <2> QED BY <2>2, <2>4, <2>6, <2>7, RadixIs
  <1>16. G[0] = P * Above(m, 0)
    <2>1. 0 \in 0 .. u /\ Above(m, 0) \in Nat
      BY <1>1, <1>4, AboveFacts
    <2>2. G[0] = save(0) + P * Above(m, 0)
      BY <2>1
    <2>3. save(0) = 0
      BY DEF save
    <2>4. P * Above(m, 0) \in Nat
      BY <1>2, <2>1
    <2> QED BY <2>2, <2>3, <2>4
  <1> HIDE DEF G
  <1>17. Above(r, 0) = P * Above(m, 0)
    BY <1>4, <1>13, <1>14, <1>15, <1>16, Horner
  <1> QED BY <1>12, <1>17 DEF P

\* s_mp_mul_2d and s_mp_div_2d, by digits and then by bits.
LEMMA PowersOf ==
  ASSUME NEW d \in Nat
  PROVE  LET p == d \div DigitBit
             b == d % DigitBit
         IN  /\ p \in Nat /\ b \in 0 .. DigitBit - 1
             /\ 2 ^ (DigitBit * p) \in Nat /\ 2 ^ (DigitBit * p) > 0
             /\ 2 ^ b \in Nat /\ 2 ^ b > 0
             /\ 2 ^ d = 2 ^ (DigitBit * p) * 2 ^ b
  <1> DEFINE p == d \div DigitBit
             b == d % DigitBit
  <1>1. DigitBit \in Nat /\ DigitBit > 0
    BY MpiAssumption
  <1>2. p \in Nat /\ b \in Nat /\ b < DigitBit /\ d = DigitBit * p + b
    BY <1>1
  <1> HIDE DEF p, b
  <1>3. DigitBit * p \in Nat
    BY <1>1, <1>2
  <1>4. 2 ^ d = 2 ^ (DigitBit * p) * 2 ^ b
    BY <1>2, <1>3, TwoSums
  <1>5. 2 ^ (DigitBit * p) \in Nat /\ 2 ^ (DigitBit * p) > 0
    BY <1>3, TwoTo
  <1>6. 2 ^ b \in Nat /\ 2 ^ b > 0
    BY <1>2, TwoTo
  <1>7. b \in 0 .. DigitBit - 1
    BY <1>1, <1>2
  <1> QED BY <1>2, <1>4, <1>5, <1>6, <1>7 DEF p, b

\* s_mp_mul_2d multiplies by 2^d.
LEMMA ShiftedUpIs ==
  ASSUME NEW m, Tidy(m), NEW d \in Nat, NEW r, r = s_mp_mul_2d(m, d)
  PROVE  /\ Tidy(r) /\ Top(r) /\ Above(r, 0) = Above(m, 0) * 2 ^ d
         /\ r.sign = IF Above(r, 0) = 0 THEN ZPOS ELSE m.sign
  <1> DEFINE p == d \div DigitBit
             b == d % DigitBit
             x == s_mp_lshd(m, p)
             y == BitsUp(x, b)
             g == 2 ^ (DigitBit * p)
             h == 2 ^ b
             e == 2 ^ d
  <1>1. /\ p \in Nat /\ b \in 0 .. DigitBit - 1 /\ g \in Nat /\ h \in Nat /\ e = g * h
    BY PowersOf
  <1>2. r = s_mp_clamp(y)
    BY DEF s_mp_mul_2d
  <1> HIDE DEF p, b
  <1>3. Tidy(x) /\ x.sign = m.sign /\ Above(x, 0) = g * Above(m, 0)
    BY <1>1, UpIs
  <1> HIDE DEF x
  <1>4. Tidy(y) /\ y.sign = m.sign /\ Above(y, 0) = h * Above(x, 0)
    BY <1>1, <1>3, BitsUpIs
  <1> HIDE DEF y, g, h, e
  <1>5. /\ Tidy(r) /\ Top(r) /\ Above(r, 0) = Above(y, 0)
        /\ r.sign = IF Above(r, 0) = 0 THEN ZPOS ELSE m.sign
    BY <1>2, <1>4, ClampedIs
  <1>6. Above(m, 0) \in Nat
    BY TidyAbove
  <1>7. h * (g * Above(m, 0)) = Above(m, 0) * (g * h)
    BY <1>1, <1>6
  <1>8. Above(r, 0) = Above(m, 0) * e
    BY <1>1, <1>3, <1>4, <1>5, <1>7
  <1> QED BY <1>5, <1>8 DEF e

\* s_mp_div_2d divides by 2^d.
LEMMA ShiftedDownIs ==
  ASSUME NEW m, Tidy(m), NEW d \in Nat, NEW r, r = s_mp_div_2d(m, d)
  PROVE  /\ Tidy(r) /\ Top(r) /\ Above(r, 0) = Above(m, 0) \div 2 ^ d
         /\ r.sign = IF Above(r, 0) = 0 THEN ZPOS ELSE m.sign
  <1> DEFINE p == d \div DigitBit
             b == d % DigitBit
             x == s_mp_rshd(m, p)
             y == BitsDown(x, b)
             g == 2 ^ (DigitBit * p)
             h == 2 ^ b
             e == 2 ^ d
             A == Above(m, 0)
             B == Above(m, p)
  <1>1. /\ p \in Nat /\ b \in 0 .. DigitBit - 1
        /\ g \in Nat /\ g > 0 /\ h \in Nat /\ h > 0 /\ e = g * h
    BY PowersOf
  <1>2. r = s_mp_clamp(y)
    BY DEF s_mp_div_2d
  <1> HIDE DEF p, b
  <1>3. m.alloc \in Nat /\ m \in Mp(m.alloc) /\ A \in Nat
    BY TidyAbove
  <1>4. B \in Nat
    BY <1>1, <1>3, AboveFacts
  <1>5. PICK low \in Nat : low < g /\ A = low + g * B
    BY <1>1, <1>3, LowAlike
  <1>6. Tidy(x) /\ Above(x, 0) = B /\ (Above(x, 0) > 0 => x.sign = m.sign)
    BY <1>1, DownIs
  <1> HIDE DEF x
  <1>7. Tidy(y) /\ y.sign = x.sign /\ Above(y, 0) = B \div h
    BY <1>1, <1>6, BitsDownIs
  <1> HIDE DEF y, g, h, e, A, B
  <1>8. /\ Tidy(r) /\ Top(r) /\ Above(r, 0) = Above(y, 0)
        /\ r.sign = IF Above(r, 0) = 0 THEN ZPOS ELSE y.sign
    BY <1>2, <1>7, ClampedIs
  <1>9. A \div g = B
    <2>1. A = g * B + low
      BY <1>1, <1>4, <1>5
    <2> QED BY <1>1, <1>4, <1>5, <2>1, Divides
  <1>10. B \div h = A \div (g * h)
    BY <1>1, <1>3, <1>9, DividesTwice DEF A
  <1>11. Above(r, 0) = A \div e
    BY <1>1, <1>7, <1>8, <1>10
  <1>12. ASSUME Above(r, 0) # 0 PROVE B > 0
    <2>1. B \div h # 0
      BY <1>7, <1>8, <1>12
    <2>2. 0 \div h = 0
      BY <1>1
    <2>3. B # 0
      BY <2>1, <2>2
    <2> QED BY <1>4, <2>3
  <1>13. r.sign = IF Above(r, 0) = 0 THEN ZPOS ELSE m.sign
    BY <1>6, <1>7, <1>8, <1>12
  <1> QED BY <1>8, <1>11, <1>13 DEF A, e

\* s_mp_mod_2d leaves the bits below 2^d.
LEMMA BitsBelowIs ==
  ASSUME NEW m, Tidy(m), Top(m), Above(m, 0) = 0 => m.sign = ZPOS,
         NEW d \in Nat, NEW r, r = s_mp_mod_2d(m, d)
  PROVE  /\ Tidy(r) /\ Top(r) /\ Above(r, 0) = Above(m, 0) % 2 ^ d
         /\ r.sign = IF Above(r, 0) = 0 THEN ZPOS ELSE m.sign
  <1> DEFINE p == d \div DigitBit
             b == d % DigitBit
             g == 2 ^ (DigitBit * p)
             h == 2 ^ b
             e == 2 ^ d
             A == Above(m, 0)
             B == Above(m, p)
  <1>1. /\ p \in Nat /\ b \in 0 .. DigitBit - 1
        /\ g \in Nat /\ g > 0 /\ h \in Nat /\ h > 0 /\ e = g * h
    BY PowersOf
  <1>2. /\ m.alloc \in Nat /\ m \in Mp(m.alloc) /\ Clean(m) /\ A \in Nat
        /\ m.used \in Nat /\ m.used > 0
    BY TidyAbove, TidyIs
  <1>3. \A i \in Nat : Above(m, i) \in Nat /\ (i >= m.used => Above(m, i) = 0)
    BY <1>2, AboveFacts
  <1>4. CASE p >= m.used
    <2>1. r = m
      BY <1>4 DEF s_mp_mod_2d
    <2> HIDE DEF p, b
    <2>2. PICK low \in Nat : low < g /\ A = low + g * B
      BY <1>1, <1>2, LowAlike
    <2> HIDE DEF g, h, e
    <2>3. B = 0
      BY <1>1, <1>3, <1>4
    <2> HIDE DEF A, B
    <2>4. g * B = 0
      BY <1>1, <2>3
    <2>5. g * 1 <= g * h
      <3>1. \A s, t \in Nat : s <= t => g * s <= g * t
        BY <1>1
      <3> QED BY <1>1, <3>1
    <2>6. e \in Nat /\ A < e /\ e > 0
      BY <1>1, <2>2, <2>4, <2>5
    <2>7. A % e = A
      <3> DEFINE z == 0
      <3>1. z \in Nat /\ e * z = 0
        BY <2>6
      <3> HIDE DEF z
      <3>2. A \in Nat /\ A = e * z + A
        BY <1>2, <3>1 DEF A
      <3> DEFINE t == A
      <3>3. t \in Nat /\ t < e /\ A = e * z + t
        BY <2>6, <3>2
      <3> HIDE DEF t
      <3>4. A % e = t
        BY <2>6, <3>1, <3>3, Divides
      <3> QED BY <3>4 DEF t
    <2> QED BY <2>1, <2>7 DEF A, e
  <1>5. CASE ~ p >= m.used
    <2> DEFINE cut(i) == IF i < p THEN m.dp[i] ELSE IF i = p THEN m.dp[i] % h ELSE 0
               digits == [i \in InUse(m) |-> cut(i)]
               w == WithDigits(m, digits)
               x == DigitOf(m, p)
               a == Above(m, p + 1)
               f == 2 ^ (DigitBit - b)
    <2>1. r = s_mp_clamp(w)
      BY <1>5 DEF s_mp_mod_2d
    <2>2. f \in Nat /\ f > 0 /\ h * f = RADIX
      <3> HIDE DEF b
      <3>1. b \in 0 .. DigitBit
        BY <1>1, MpiAssumption
      <3> QED BY <3>1, Parts
    <2> HIDE DEF p, b, f
    <2>3. \A y \in Digit : y % h \in Digit /\ y % h \in Nat /\ y % h < h /\ y = h * (y \div h) + (y % h)
                           /\ y \div h \in Nat
      <3> SUFFICES ASSUME NEW y \in Digit
                   PROVE  /\ y % h \in Digit /\ y % h \in Nat /\ y % h < h
                          /\ y = h * (y \div h) + (y % h)
                          /\ y \div h \in Nat
        OBVIOUS
      <3> HIDE DEF h
      <3>1. /\ y \div h \in Nat /\ y % h \in Nat /\ y % h < h
            /\ y = h * (y \div h) + (y % h)
        BY <1>1, <2>2, CutAs
      <3>2. h * (y \div h) \in Nat
        BY <1>1, <3>1
      <3>3. y \in Nat /\ y <= RADIX - 1 /\ RADIX \in Nat
        BY RadixIs DEF Digit
      <3>4. y % h <= RADIX - 1
        BY <3>1, <3>2, <3>3
      <3> QED BY <3>1, <3>3, <3>4 DEF Digit
    <2> HIDE DEF g, h, e
    <2>4. \A i \in 0 .. m.used - 1 : m.dp[i] \in Digit /\ DigitOf(m, i) = m.dp[i]
      <3> SUFFICES ASSUME NEW i \in 0 .. m.used - 1
                   PROVE  m.dp[i] \in Digit /\ DigitOf(m, i) = m.dp[i]
        OBVIOUS
      <3>1. i \in Nat /\ i < m.used
        BY <1>2
      <3>2. DigitOf(m, i) = m.dp[i]
        BY <3>1 DEF DigitOf
      <3> QED BY <3>1, <3>2, TidyIs
    <2>5. \A i \in InUse(m) : cut(i) \in Digit
      BY <2>3, <2>4, RadixIs DEF InUse
    <2> HIDE DEF cut
    <2>6. digits \in [InUse(m) -> Digit] /\ \A i \in InUse(m) : digits[i] = cut(i)
      BY <2>5
    <2> HIDE DEF digits
    <2>7. /\ w \in Mp(m.alloc) /\ Clean(w) /\ w.sign = m.sign /\ w.used = m.used
          /\ w.alloc = m.alloc
          /\ \A i \in Nat : DigitOf(w, i) = IF i < m.used THEN digits[i] ELSE 0
      BY <1>2, <2>6, WithDigitsIs
    <2> HIDE DEF w
    <2>8. p \in Nat /\ p < m.used /\ p \in 0 .. m.used - 1
      BY <1>1, <1>2, <1>5
    <2>9. ASSUME NEW i \in Nat
          PROVE  /\ i < p => DigitOf(w, i) = DigitOf(m, i)
                 /\ i = p => DigitOf(w, i) = x % h
                 /\ i > p => DigitOf(w, i) = 0
      <3>1. CASE i < m.used
        <4>1. i \in InUse(m) /\ i \in 0 .. m.used - 1
          BY <1>2, <3>1 DEF InUse
        <4>2. DigitOf(w, i) = cut(i) /\ DigitOf(m, i) = m.dp[i]
          BY <2>4, <2>6, <2>7, <3>1, <4>1
        <4>3. i < p => ~ i > p /\ i # p
          BY <2>8
        <4>4. i > p => ~ i < p /\ i # p
          BY <2>8
        <4> QED BY <2>8, <4>2, <4>3, <4>4 DEF cut
      <3>2. CASE ~ i < m.used
        BY <1>2, <2>7, <2>8, <3>2
      <3> QED BY <3>1, <3>2
    <2>10. Above(w, p) = x % h
      <3>1. p + 1 \in Nat /\ \A i \in Nat : i >= p + 1 => DigitOf(w, i) = 0
        BY <2>8, <2>9
      <3>2. Above(w, p + 1) = 0
        BY <1>2, <2>7, <3>1, NoneAbove
      <3>3. Above(w, p) = DigitOf(w, p) + RADIX * Above(w, p + 1) /\ DigitOf(w, p) \in Digit
        BY <1>2, <2>7, <2>8, AboveUnfolds
      <3>4. \A z \in Nat : z + RADIX * 0 = z
        BY RadixIs
      <3> QED BY <2>8, <2>9, <3>2, <3>3, <3>4, RadixIs
    <2>11. PICK low \in Nat : low < g /\ A = low + g * B /\ Above(w, 0) = low + g * Above(w, p)
      <3>1. \A i \in Nat : i < p => DigitOf(w, i) = DigitOf(m, i)
        BY <2>9
      <3> QED BY <1>2, <2>7, <2>8, <3>1, LowAlike DEF g
    <2>12. x \in Digit /\ a \in Nat /\ B = x + RADIX * a
      <3>1. p + 1 \in Nat
        BY <2>8
      <3> QED BY <1>2, <1>3, <2>8, <3>1, AboveUnfolds
    <2> HIDE DEF A, B, x, a
    <2> DEFINE u == x \div h
               v == x % h
               q == u + f * a
               s == low + g * v
    <2>13. u \in Nat /\ v \in Nat /\ v < h /\ x = h * u + v
      BY <2>3, <2>12
    <2> HIDE DEF u, v
    <2>14. B = h * q + v
      <3>1. h * (u + f * a) = h * u + (h * f) * a
        <4>1. h * (u + f * a) = h * u + h * (f * a) /\ h * (f * a) = (h * f) * a
          BY <1>1, <2>2, <2>12, <2>13
        <4> QED BY <4>1
      <3>2. h * u \in Nat /\ RADIX * a \in Nat
        BY <1>1, <2>12, <2>13, RadixIs
      <3> QED BY <2>2, <2>12, <2>13, <3>1, <3>2
    <2>15. q \in Nat
      <3>1. f * a \in Nat
        BY <2>2, <2>12
      <3> QED BY <2>13, <3>1
    <2> HIDE DEF q
    <2>16. A = e * q + s
      <3>1. g * (h * q + v) = g * (h * q) + g * v /\ g * (h * q) = (g * h) * q
        BY <1>1, <2>13, <2>15
      <3>2. (g * h) * q \in Nat /\ g * v \in Nat
        BY <1>1, <2>13, <2>15
      <3> QED BY <1>1, <2>11, <2>14, <3>1, <3>2
    <2>17. s \in Nat /\ s < e
      <3>1. g * (v + 1) <= g * h
        <4>1. \A y, z \in Nat : y <= z => g * y <= g * z
          BY <1>1
        <4> QED BY <1>1, <2>13, <4>1
      <3>2. g * (v + 1) = g * v + g /\ g * v \in Nat /\ g * h \in Nat
        BY <1>1, <2>13
      <3> QED BY <1>1, <2>11, <3>1, <3>2
    <2>18. Above(w, 0) = s
      BY <2>10, <2>11 DEF v
    <2> HIDE DEF s
    <2>19. A % e = s
      <3>1. e \in Nat /\ e > 0
        BY <1>1, <2>17
      <3> QED BY <2>15, <2>16, <2>17, <3>1, Divides
    <2>20. Tidy(w)
      BY <2>7 DEF Tidy
    <2>21. /\ Tidy(r) /\ Top(r) /\ Above(r, 0) = Above(w, 0)
           /\ r.sign = IF Above(r, 0) = 0 THEN ZPOS ELSE w.sign
      BY <2>1, <2>20, ClampedIs
    <2> QED BY <2>7, <2>18, <2>19, <2>21 DEF A, e
  <1> QED BY <1>4, <1>5

\* The quotient of m by a digit, from the remainders w above each digit.
DigitQuotient(m, d, w) ==
    WithDigits(Zeroes(m.used), [i \in InUse(m) |-> (w[i + 1] * RADIX + m.dp[i]) \div d])

\* The remainders above each digit of m.
RemaindersAre(m, d, w) ==
    /\ w \in [0 .. m.used -> Nat] /\ w[m.used] = 0
    /\ \A i \in 0 .. m.used : w[i] < d
    /\ \A i \in 0 .. m.used - 1 : w[i] = (w[i + 1] * RADIX + m.dp[i]) % d
    /\ s_mp_div_d(m, d).q = s_mp_clamp(DigitQuotient(m, d, w))
    /\ s_mp_div_d(m, d).r = w[0]

\* The loop of s_mp_div_d, from the leading digit down.
LEMMA RemaindersRun ==
  ASSUME NEW m, m.used \in Nat, \A i \in 0 .. m.used - 1 : m.dp[i] \in Nat,
         NEW d \in Nat, d > 0
  PROVE  \E w : RemaindersAre(m, d, w)
  <1> DEFINE n == m.used
             C == 0 .. d - 1
             out == [i \in 0 .. n - 1 |-> [c \in C |-> (c * RADIX + m.dp[n - 1 - i]) % d]]
             g == Carries(n, out)
             Is(f) == f = [i \in 0 .. m.used |->
                              IF i = m.used THEN 0 ELSE (f[i + 1] * RADIX + m.dp[i]) % d]
  <1>1. \A i \in 0 .. n - 1 : \A c \in C : out[i][c] \in C
    <2> SUFFICES ASSUME NEW i \in 0 .. n - 1, NEW c \in C PROVE out[i][c] \in C
      OBVIOUS
    <2> DEFINE x == m.dp[n - 1 - i]
               y == c * RADIX + x
    <2>1. n - 1 - i \in 0 .. n - 1
      OBVIOUS
    <2>2. x \in Nat
      BY <2>1
    <2> HIDE DEF x
    <2>3. c * RADIX \in Nat
      BY RadixIs
    <2>4. y \in Nat
      BY <2>2, <2>3
    <2> HIDE DEF y
    <2>5. y % d \in C
      BY <2>4
    <2> QED BY <2>5 DEF y, x
  <1>2. /\ g \in [0 .. n -> C] /\ g[0] = 0
        /\ \A i \in 0 .. n - 1 : g[i + 1] = out[i][g[i]]
    <2>1. 0 \in C
      OBVIOUS
    <2> HIDE DEF out, C
    <2>2. Within(C, n, out) /\ n \in Nat
      BY <1>1, <2>1 DEF Within
    <2> HIDE DEF n
    <2> QED BY <2>2, CarriesRun
  <1>3. \A i \in 0 .. n - 1 : g[i + 1] = (g[i] * RADIX + m.dp[n - 1 - i]) % d
    <2> HIDE DEF g, C
    <2> SUFFICES ASSUME NEW i \in 0 .. n - 1
                 PROVE  out[i][g[i]] = (g[i] * RADIX + m.dp[n - 1 - i]) % d
      BY <1>2
    <2>1. g[i] \in C
      BY <1>2
    <2> QED BY <2>1
  <1> HIDE DEF g
  <1> DEFINE f == [i \in 0 .. n |-> g[n - i]]
  <1>4. Is(f)
    <2> SUFFICES ASSUME NEW i \in 0 .. n
                 PROVE  f[i] = IF i = n THEN 0 ELSE (f[i + 1] * RADIX + m.dp[i]) % d
      OBVIOUS
    <2>1. CASE i = n
      BY <1>2, <2>1
    <2>2. CASE i # n
      <3> DEFINE j == n - (i + 1)
      <3>1. j \in 0 .. n - 1 /\ i + 1 \in 0 .. n /\ n - 1 - j = i /\ j + 1 = n - i
        BY <2>2
      <3>2. g[j + 1] = (g[j] * RADIX + m.dp[n - 1 - j]) % d
        BY <1>3, <3>1
      <3>3. f[i] = g[n - i] /\ f[i + 1] = g[j]
        BY <3>1
      <3> HIDE DEF f, j
      <3> QED BY <2>2, <3>1, <3>2, <3>3
    <2> QED BY <2>1, <2>2
  <1> HIDE DEF f
  <1> DEFINE w == CHOOSE h : Is(h)
  <1>5. s_mp_div_d(m, d).q = s_mp_clamp(DigitQuotient(m, d, w)) /\ s_mp_div_d(m, d).r = w[0]
    BY DEF s_mp_div_d, DigitQuotient
  <1>6. Is(w)
    BY <1>4
  <1> HIDE DEF w
  <1>7. w = [i \in 0 .. n |-> IF i = n THEN 0 ELSE (w[i + 1] * RADIX + m.dp[i]) % d]
    BY <1>6
  <1>8. /\ DOMAIN w = 0 .. n /\ w[n] = 0
        /\ \A i \in 0 .. n - 1 : w[i] = (w[i + 1] * RADIX + m.dp[i]) % d
    <2>1. n \in 0 .. n /\ \A i \in 0 .. n - 1 : i \in 0 .. n /\ i # n
      OBVIOUS
    <2> HIDE DEF n
    <2> QED BY <1>7, <2>1
  <1>9. \A i \in 0 .. n : w[i] \in C
    <2> DEFINE P == {i \in 0 .. n : w[i] \in C}
    <2>1. n \in P
      BY <1>8
    <2>2. \A i \in 0 .. n - 1 : i + 1 \in P => i \in P
      <3> SUFFICES ASSUME NEW i \in 0 .. n - 1, i + 1 \in P PROVE i \in P
        OBVIOUS
      <3> DEFINE y == w[i + 1] * RADIX + m.dp[i]
      <3>1. m.dp[i] \in Nat /\ w[i + 1] \in Nat
        OBVIOUS
      <3>2. w[i + 1] * RADIX \in Nat
        BY <3>1, RadixIs
      <3>3. y \in Nat
        BY <3>1, <3>2
      <3>4. w[i] = y % d
        BY <1>8
      <3> HIDE DEF y
      <3>5. w[i] \in C
        BY <3>3, <3>4
      <3> QED BY <3>5
    <2> HIDE DEF P
    <2>3. \A i \in 0 .. n : i \in P
      BY <2>1, <2>2, Downwards
    <2> QED BY <2>3 DEF P
  <1>10. w \in [0 .. n -> Nat] /\ \A i \in 0 .. n : w[i] < d
    <2>1. \A i \in 0 .. n : w[i] \in Nat /\ w[i] < d
      BY <1>9
    <2> HIDE DEF n
    <2> QED BY <1>7, <1>8, <2>1
  <1> QED BY <1>5, <1>8, <1>10 DEF RemaindersAre

\* s_mp_div_d divides by a digit.
LEMMA DividedByDigitHeld ==
  ASSUME NEW m, Held(m), NEW d \in Digit, d > 0, NEW r, r = s_mp_div_d(m, d).q
  PROVE  /\ Tidy(r) /\ Top(r) /\ Above(r, 0) = Above(m, 0) \div d /\ r.sign = ZPOS
         /\ s_mp_div_d(m, d).r = Above(m, 0) % d
  <1> DEFINE n == m.used
  <1>1. PICK k \in Nat : /\ m \in Mp(k) /\ Clean(m) /\ n \in Nat /\ n > 0
                         /\ \A i \in Nat : DigitOf(m, i) \in Digit
    BY HeldIs
  <1>2. \A i \in 0 .. n - 1 : m.dp[i] \in Nat /\ m.dp[i] < RADIX /\ DigitOf(m, i) = m.dp[i]
    <2> SUFFICES ASSUME NEW i \in 0 .. n - 1
                 PROVE  m.dp[i] \in Nat /\ m.dp[i] < RADIX /\ DigitOf(m, i) = m.dp[i]
      OBVIOUS
    <2>1. i \in Nat /\ i < m.used
      BY <1>1
    <2>2. DigitOf(m, i) = m.dp[i]
      BY <2>1 DEF DigitOf
    <2>3. DigitOf(m, i) \in Digit
      BY <1>1, <2>1
    <2> QED BY <2>2, <2>3, RadixIs DEF Digit
  <1>3. d \in Nat /\ RADIX \in Nat /\ RADIX > 1
    BY RadixIs
  <1>4. PICK w : /\ w \in [0 .. n -> Nat] /\ w[n] = 0
                 /\ \A i \in 0 .. n : w[i] < d
                 /\ \A i \in 0 .. n - 1 : w[i] = (w[i + 1] * RADIX + m.dp[i]) % d
                 /\ s_mp_div_d(m, d).q = s_mp_clamp(DigitQuotient(m, d, w))
                 /\ s_mp_div_d(m, d).r = w[0]
    <2>1. m.used \in Nat /\ \A i \in 0 .. m.used - 1 : m.dp[i] \in Nat
      BY <1>1, <1>2
    <2>2. PICK w : RemaindersAre(m, d, w)
      BY <1>3, <2>1, RemaindersRun
    <2> QED BY <2>2 DEF RemaindersAre
  <1> DEFINE z == Zeroes(n)
             word(i) == w[i + 1] * RADIX + m.dp[i]
             digits == [i \in InUse(m) |-> word(i) \div d]
             q == WithDigits(z, digits)
             G == [i \in 0 .. n |-> d * Above(q, i) + w[i]]
  <1>5. ASSUME NEW i \in 0 .. n - 1
        PROVE  /\ word(i) \in Nat /\ word(i) \div d \in Digit
               /\ word(i) = d * (word(i) \div d) + w[i]
    <2> DEFINE c == w[i + 1]
               x == m.dp[i]
               y == c * RADIX + x
    <2>1. c \in Nat /\ c < d /\ x \in Nat /\ x < RADIX
      BY <1>1, <1>2, <1>4
    <2>2. w[i] = y % d
      BY <1>4
    <2> HIDE DEF c, x
    <2>3. c * RADIX \in Nat
      BY <1>3, <2>1
    <2>4. y \in Nat
      BY <2>1, <2>3
    <2>5. y < RADIX * d
      <3>1. RADIX * (c + 1) <= RADIX * d
        <4>1. \A s, t \in Nat : s <= t => RADIX * s <= RADIX * t
          BY <1>3
        <4> QED BY <1>3, <2>1, <4>1
      <3>2. RADIX * (c + 1) = c * RADIX + RADIX /\ RADIX * d \in Nat
        BY <1>3, <2>1
      <3> QED BY <1>3, <2>1, <2>3, <3>1, <3>2
    <2> HIDE DEF y
    <2> DEFINE u == y \div d
               v == y % d
    <2>6. u \in Nat /\ v \in Nat /\ y = d * u + v
      BY <1>3, <2>4
    <2> HIDE DEF u, v
    <2>7. ~ u >= RADIX
      <3> SUFFICES ASSUME u >= RADIX PROVE FALSE
        OBVIOUS
      <3>1. d * RADIX <= d * u
        <4>1. \A s, t \in Nat : s <= t => d * s <= d * t
          BY <1>3
        <4> QED BY <1>3, <2>6, <4>1
      <3>2. d * RADIX = RADIX * d /\ RADIX * d \in Nat /\ d * u \in Nat
        BY <1>3, <2>6
      <3> QED BY <2>4, <2>5, <2>6, <3>1, <3>2
    <2>8. u \in Digit
      BY <1>3, <2>6, <2>7 DEF Digit
    <2> QED BY <2>2, <2>4, <2>6, <2>8 DEF u, v, y, c, x
  <1> HIDE DEF word
  <1>6. digits \in [InUse(m) -> Digit] /\ \A i \in 0 .. n - 1 : digits[i] = word(i) \div d
    <2>1. InUse(m) = 0 .. n - 1
      BY DEF InUse
    <2> HIDE DEF n
    <2> QED BY <1>5, <2>1
  <1>7. r = s_mp_clamp(q)
    BY <1>4 DEF DigitQuotient, word
  <1> HIDE DEF digits, z
  <1>8. z \in Mp(n) /\ Clean(z) /\ z.sign = ZPOS /\ z.used = n /\ z.alloc = n
    BY <1>1, ZeroesIs DEF z
  <1>9. InUse(z) = InUse(m)
    BY <1>8 DEF InUse
  <1>10. /\ q \in Mp(n) /\ Clean(q) /\ q.sign = ZPOS /\ q.used = n /\ q.alloc = n
         /\ \A i \in Nat : DigitOf(q, i) = IF i < n THEN digits[i] ELSE 0
    BY <1>1, <1>6, <1>8, <1>9, WithDigitsIs
  <1> HIDE DEF q
  <1>11. \A i \in Nat : Above(q, i) \in Nat
    BY <1>1, <1>10, AboveFacts
  <1>12. Follows(G, m, 0, n)
    <2>1. G \in [0 .. n -> Int]
      <3>1. ASSUME NEW i \in 0 .. n PROVE d * Above(q, i) + w[i] \in Int
        <4>1. Above(q, i) \in Nat /\ w[i] \in Nat
          <5>1. i \in Nat
            BY <1>1
          <5> QED BY <1>4, <1>11, <5>1
        <4> QED BY <1>3, <4>1
      <3> QED BY <3>1
    <2>2. ASSUME NEW i \in 0 .. n - 1
          PROVE  G[i] = DigitOf(m, 0 + i) + RADIX * G[i + 1]
      <3> DEFINE x == m.dp[i]
                 c == w[i + 1]
                 a == Above(q, i + 1)
                 u == word(i) \div d
      <3>1. /\ i \in Nat /\ i \in 0 .. n /\ i + 1 \in 0 .. n /\ i + 1 \in Nat /\ 0 + i = i
            /\ i < n
        BY <1>1
      <3>2. G[i] = d * Above(q, i) + w[i] /\ G[i + 1] = d * a + c
        BY <3>1
      <3>3. Above(q, i) = u + RADIX * a
        <4>1. DigitOf(q, i) = u
          BY <1>6, <1>10, <3>1
        <4> QED BY <1>1, <1>10, <3>1, <4>1, AboveUnfolds
      <3>4. c * RADIX + x = d * u + w[i]
        BY <1>5 DEF word
      <3>5. DigitOf(m, i) = x /\ x \in Nat
        BY <1>2
      <3>6. c \in Nat /\ a \in Nat /\ w[i] \in Nat
        BY <1>4, <1>11, <3>1
      <3>7. u \in Nat
        BY <1>5, RadixIs
      <3> HIDE DEF x, c, a, u, G
      <3>8. d * (u + RADIX * a) = d * u + RADIX * (d * a)
        <4>1. d * (u + RADIX * a) = d * u + d * (RADIX * a)
          BY <1>3, <3>6, <3>7
        <4>2. d * (RADIX * a) = RADIX * (d * a)
          BY <1>3, <3>6
        <4> QED BY <4>1, <4>2
      <3>9. RADIX * (d * a + c) = RADIX * (d * a) + c * RADIX
        BY <1>3, <3>6
      <3>10. d * u \in Nat /\ RADIX * (d * a) \in Nat /\ c * RADIX \in Nat
        BY <1>3, <3>6, <3>7
      <3>11. G[i] = (d * u + RADIX * (d * a)) + w[i]
        BY <3>2, <3>3, <3>8
      <3>12. x + RADIX * G[i + 1] = x + (RADIX * (d * a) + c * RADIX)
        BY <3>2, <3>9
      <3> DEFINE du == d * u
                 rda == RADIX * (d * a)
                 cr == c * RADIX
                 wi == w[i]
      <3>13. du \in Nat /\ rda \in Nat /\ cr \in Nat /\ wi \in Nat
        BY <3>6, <3>10
      <3>14. cr + x = du + wi /\ G[i] = (du + rda) + wi /\ x + RADIX * G[i + 1] = x + (rda + cr)
        BY <3>4, <3>11, <3>12
      <3> HIDE DEF du, rda, cr, wi
      <3>15. G[i] = x + RADIX * G[i + 1]
        BY <3>5, <3>13, <3>14
      <3> QED BY <3>1, <3>5, <3>15
    <2> QED BY <2>1, <2>2 DEF Follows
  <1>13. G[n] = Above(m, 0 + n)
    <2>1. n \in 0 .. n /\ 0 + n = n /\ ~ n < n
      BY <1>1
    <2>2. Above(m, n) = 0
      BY <1>1, AboveFacts
    <2>3. Above(q, n) = 0
      BY <1>1, <1>10, AboveFacts
    <2>4. d * 0 + 0 = 0
      BY <1>3
    <2> QED BY <1>4, <2>1, <2>2, <2>3, <2>4
  <1>14. G[0] = d * Above(q, 0) + w[0] /\ w[0] \in Nat /\ w[0] < d
    <2>1. 0 \in 0 .. n
      BY <1>1
    <2> QED BY <1>4, <2>1
  <1> HIDE DEF G
  <1>15. Above(m, 0) = d * Above(q, 0) + w[0]
    <2> HIDE DEF n
    <2>1. Above(m, 0) = G[0]
      BY <1>1, <1>12, <1>13, Horner
    <2> QED BY <1>14, <2>1
  <1>16. Above(m, 0) \div d = Above(q, 0) /\ Above(m, 0) % d = w[0]
    <2> DEFINE a == Above(q, 0)
               v == w[0]
               x == Above(m, 0)
    <2>1. a \in Nat /\ v \in Nat /\ v < d /\ x = d * a + v
      BY <1>11, <1>14, <1>15
    <2> HIDE DEF a, v, x
    <2>2. x \div d = a /\ x % d = v
      BY <1>3, <2>1, Divides
    <2> QED BY <2>2 DEF x, a, v
  <1>17. Tidy(q)
    BY <1>10 DEF Tidy
  <1>18. /\ Tidy(r) /\ Top(r) /\ Above(r, 0) = Above(q, 0)
         /\ r.sign = IF Above(r, 0) = 0 THEN ZPOS ELSE q.sign
    BY <1>7, <1>17, ClampedIs
  <1> QED BY <1>4, <1>10, <1>16, <1>18

\* The same of a number that was not written beyond its storage.
LEMMA DividedByDigitIs ==
  ASSUME NEW m, Tidy(m), NEW d \in Digit, d > 0, NEW r, r = s_mp_div_d(m, d).q
  PROVE  /\ Tidy(r) /\ Top(r) /\ Above(r, 0) = Above(m, 0) \div d /\ r.sign = ZPOS
         /\ s_mp_div_d(m, d).r = Above(m, 0) % d
  BY TidyHeld, DividedByDigitHeld

-----------------------------------------------------------------------------
(* Operations on numbers in order.                                         *)

\* What is known of a number in order.
LEMMA GoodIs ==
  ASSUME NEW m, NEW n, Good(m, n)
  PROVE  /\ Tidy(m) /\ Top(m) /\ n \in Int /\ m.sign \in {0, 1}
         /\ Above(m, 0) \in Nat
         /\ Above(m, 0) = IF n < 0 THEN -n ELSE n
         /\ (m.sign = 1 <=> n < 0) /\ (m.sign = 0 <=> n >= 0)
  BY TidyIs, TidyAbove DEF Good, Magn, ZPOS, NEG

\* The results of mp_abs and mp_neg.
LEMMA GoodSigned ==
  ASSUME NEW m, NEW n, Good(m, n)
  PROVE  /\ Good([m EXCEPT !.sign = ZPOS], Magn(n))
         /\ Good(Negated(m), -n)
  <1>1. /\ Tidy(m) /\ Top(m) /\ n \in Int /\ m.sign \in {0, 1}
        /\ Above(m, 0) = (IF n < 0 THEN -n ELSE n)
        /\ (m.sign = 1 <=> n < 0)
    BY GoodIs
  <1>2. Good([m EXCEPT !.sign = ZPOS], Magn(n))
    <2> DEFINE r == [m EXCEPT !.sign = ZPOS]
    <2>1. ZPOS \in {ZPOS, NEG} /\ r = [m EXCEPT !.sign = ZPOS]
      OBVIOUS
    <2> HIDE DEF r
    <2>2. Tidy(r) /\ Top(r) /\ Above(r, 0) = Above(m, 0) /\ r.sign = ZPOS
      BY <1>1, <2>1, WithSignIs
    <2> QED BY <1>1, <2>2 DEF Good, Magn, r
  <1>3. Good(Negated(m), -n)
    <2> DEFINE s == 1 - m.sign
    <2>1. s \in {ZPOS, NEG} /\ (-n < 0 => s = NEG) /\ (-n > 0 => s = ZPOS)
      BY <1>1 DEF ZPOS, NEG
    <2>2. -n \in Int /\ Above(m, 0) = Magn(-n)
      BY <1>1 DEF Magn
    <2>3. Negated(m) = Signed(m, s)
      BY DEF Negated
    <2> HIDE DEF s
    <2> QED BY <1>1, <2>1, <2>2, <2>3, SignedIs
  <1> QED BY <1>2, <1>3

\* s_mp_cmp_d compares the magnitude with a digit.
LEMMA AgainstDigit ==
  ASSUME NEW m, Tidy(m), Top(m), NEW d \in Digit
  PROVE  s_mp_cmp_d(m, d) >= 0 <=> Above(m, 0) >= d
  <1>1. Above(m, 0) \in Nat /\ d \in Nat
    BY TidyAbove, RadixIs
  <1>2. s_mp_cmp_d(m, d) = Sgn(Above(m, 0) - d)
    BY TidyAbove, CmpDigitIs
  <1> QED BY <1>1, <1>2 DEF Sgn

\* A digit less a number that is less.
Complement(m, d, sign) == [m EXCEPT !.sign = sign, !.dp[0] = d - m.dp[0]]

\* It has one digit, and is complemented in place.
LEMMA BelowDigit ==
  ASSUME NEW m, Tidy(m), Top(m), NEW d \in Digit, Above(m, 0) < d, NEW sign \in {ZPOS, NEG},
         NEW r, r = Complement(m, d, sign)
  PROVE  Tidy(r) /\ Top(r) /\ r.sign = sign /\ Above(r, 0) = d - Above(m, 0)
  <1>1. Above(m, 0) \in Nat /\ d \in Nat /\ RADIX \in Nat /\ m.used \in Nat /\ m.used > 0
    BY TidyAbove, TidyIs, RadixIs
  <1>2. m.used = 1
    <2>1. ~ s_mp_cmp_d(m, d) >= 0
      BY <1>1, AgainstDigit
    <2>2. m.used > 1 => s_mp_cmp_d(m, d) >= 0
      BY DEF s_mp_cmp_d
    <2> QED BY <1>1, <2>1, <2>2
  <1>3. Above(m, 0) = m.dp[0]
    BY <1>2, OneDigit
  <1> DEFINE e == d - m.dp[0]
             dp == [m.dp EXCEPT ![0] = e]
             t == [m EXCEPT !.sign = sign]
  <1>4. e \in Digit
    BY <1>1, <1>3 DEF Digit
  <1>5. r = [t EXCEPT !.dp[0] = e]
    BY DEF Complement
  <1>6. t = [sign |-> sign, used |-> 1, alloc |-> m.alloc, dp |-> m.dp]
    BY <1>2 DEF Tidy, Mp
  <1> HIDE DEF e, t
  <1>7. r = [sign |-> sign, used |-> 1, alloc |-> m.alloc, dp |-> dp]
    BY <1>5, <1>6
  <1>8. \A i \in 0 .. m.alloc - 1 : i >= 1 => m.dp[i] = 0
    BY <1>2, TidyIs DEF Tidy, Clean
  <1>9. dp = [m.dp EXCEPT ![0] = e]
    OBVIOUS
  <1> HIDE DEF dp
  <1>10. Tidy(r) /\ Top(r) /\ Above(r, 0) = e /\ r.sign = sign
    BY <1>4, <1>7, <1>8, <1>9, ReplacedIs
  <1> QED BY <1>3, <1>10 DEF e

\* The result of mp_add_d, through zero too.
LEMMA PlusDigitIs ==
  ASSUME NEW m, NEW n, Good(m, n), NEW d \in Digit
  PROVE  Good(PlusDigit(m, d), n + d)
  <1>1. /\ Tidy(m) /\ Top(m) /\ n \in Int /\ m.sign \in {0, 1}
        /\ Above(m, 0) \in Nat
        /\ Above(m, 0) = (IF n < 0 THEN -n ELSE n)
        /\ (m.sign = 1 <=> n < 0) /\ (m.sign = 0 <=> n >= 0)
    BY GoodIs
  <1>2. d \in Nat
    BY RadixIs
  <1> DEFINE r == PlusDigit(m, d)
  <1>3. CASE m.sign = 0
    <2>1. r = s_mp_add_d(m, d)
      BY <1>3 DEF PlusDigit, ZPOS
    <2> HIDE DEF r
    <2>2. Tidy(r) /\ Top(r) /\ r.sign = m.sign /\ Above(r, 0) = Above(m, 0) + d
      BY <1>1, <2>1, SumWithDigitIs
    <2> QED BY <1>1, <1>2, <1>3, <2>2 DEF Good, Magn, ZPOS, r
  <1>4. CASE m.sign = 1 /\ Above(m, 0) >= d
    <2>1. r = s_mp_sub_d(m, d)
      BY <1>1, <1>4, AgainstDigit DEF PlusDigit, ZPOS
    <2> HIDE DEF r
    <2>2. /\ Tidy(r) /\ Top(r) /\ Above(r, 0) = Above(m, 0) - d
          /\ r.sign = IF Above(r, 0) = 0 THEN ZPOS ELSE m.sign
      BY <1>1, <1>2, <1>4, <2>1, DifferenceWithDigitIs
    <2> QED BY <1>1, <1>2, <1>4, <2>2 DEF Good, Magn, ZPOS, NEG, r
  <1>5. CASE m.sign = 1 /\ ~ Above(m, 0) >= d
    <2>1. Above(m, 0) < d
      BY <1>1, <1>2, <1>5
    <2>2. r = Complement(m, d, ZPOS)
      BY <1>1, <1>5, AgainstDigit DEF PlusDigit, Complement, ZPOS
    <2>3. Tidy(r) /\ Top(r) /\ r.sign = ZPOS /\ Above(r, 0) = d - Above(m, 0)
      <3>1. ZPOS \in {ZPOS, NEG}
        OBVIOUS
      <3> HIDE DEF r
      <3> QED BY <1>1, <2>1, <2>2, <3>1, BelowDigit
    <2> HIDE DEF r
    <2> QED BY <1>1, <1>2, <1>5, <2>1, <2>3 DEF Good, Magn, r
  <1> QED BY <1>1, <1>3, <1>4, <1>5

\* The result of mp_sub_d.
LEMMA MinusDigitIs ==
  ASSUME NEW m, NEW n, Good(m, n), NEW d \in Digit
  PROVE  Good(ZeroPositive(MinusDigit(m, d)), n - d)
  <1>1. /\ Tidy(m) /\ Top(m) /\ n \in Int /\ m.sign \in {0, 1}
        /\ Above(m, 0) \in Nat
        /\ Above(m, 0) = (IF n < 0 THEN -n ELSE n)
        /\ (m.sign = 1 <=> n < 0) /\ (m.sign = 0 <=> n >= 0)
    BY GoodIs
  <1>2. d \in Nat
    BY RadixIs
  <1> DEFINE r == MinusDigit(m, d)
  <1>3. CASE m.sign = 1
    <2>1. r = s_mp_add_d(m, d)
      BY <1>3 DEF MinusDigit, NEG
    <2> HIDE DEF r
    <2>2. Tidy(r) /\ Top(r) /\ r.sign = m.sign /\ Above(r, 0) = Above(m, 0) + d
      BY <1>1, <2>1, SumWithDigitIs
    <2>3. /\ n - d \in Int /\ Above(r, 0) = Magn(n - d) /\ r.sign \in {ZPOS, NEG}
          /\ (n - d < 0 => r.sign = NEG) /\ (n - d > 0 => r.sign = ZPOS)
      BY <1>1, <1>2, <1>3, <2>2 DEF Magn, ZPOS, NEG
    <2> QED BY <2>2, <2>3, SignedIs DEF ZeroPositive, r
  <1>4. CASE m.sign = 0 /\ Above(m, 0) >= d
    <2>1. r = s_mp_sub_d(m, d)
      BY <1>1, <1>4, AgainstDigit DEF MinusDigit, NEG
    <2> HIDE DEF r
    <2>2. /\ Tidy(r) /\ Top(r) /\ Above(r, 0) = Above(m, 0) - d
          /\ r.sign = IF Above(r, 0) = 0 THEN ZPOS ELSE m.sign
      BY <1>1, <1>2, <1>4, <2>1, DifferenceWithDigitIs
    <2>3. /\ n - d \in Int /\ Above(r, 0) = Magn(n - d) /\ r.sign \in {ZPOS, NEG}
          /\ (n - d < 0 => r.sign = NEG) /\ (n - d > 0 => r.sign = ZPOS)
      BY <1>1, <1>2, <1>4, <2>2 DEF Magn, ZPOS, NEG
    <2> QED BY <2>2, <2>3, SignedIs DEF ZeroPositive, r
  <1>5. CASE m.sign = 0 /\ ~ Above(m, 0) >= d
    <2>1. Above(m, 0) < d
      BY <1>1, <1>2, <1>5
    <2>2. r = Complement(m, d, NEG)
      BY <1>1, <1>5, AgainstDigit DEF MinusDigit, Complement, NEG
    <2>3. Tidy(r) /\ Top(r) /\ r.sign = NEG /\ Above(r, 0) = d - Above(m, 0)
      <3>1. NEG \in {ZPOS, NEG}
        OBVIOUS
      <3> HIDE DEF r
      <3> QED BY <1>1, <2>1, <2>2, <3>1, BelowDigit
    <2> HIDE DEF r
    <2>4. /\ n - d \in Int /\ Above(r, 0) = Magn(n - d) /\ r.sign \in {ZPOS, NEG}
          /\ (n - d < 0 => r.sign = NEG) /\ (n - d > 0 => r.sign = ZPOS)
      BY <1>1, <1>2, <1>5, <2>1, <2>3 DEF Magn
    <2> QED BY <2>3, <2>4, SignedIs DEF ZeroPositive, r
  <1> QED BY <1>1, <1>3, <1>4, <1>5

\* A magnitude with the sign of n.
LEMMA WithSignOf ==
  ASSUME NEW n \in Int, NEW a \in Nat, n = 0 => a = 0, NEW x, Tidy(x), Top(x), Above(x, 0) = a,
         x.sign = IF a = 0 THEN ZPOS ELSE IF n < 0 THEN NEG ELSE ZPOS
  PROVE  Good(x, Sgn(n) * a)
  <1>1. CASE n > 0
    <2>1. Sgn(n) * a = a
      <3>1. Sgn(n) = 1
        BY <1>1 DEF Sgn
      <3> QED BY <3>1
    <2> QED BY <1>1, <2>1 DEF Good, Magn
  <1>2. CASE n = 0
    <2>1. Sgn(n) * a = 0 /\ a = 0
      <3>1. Sgn(n) = 0
        BY <1>2 DEF Sgn
      <3> QED BY <1>2, <3>1
    <2> QED BY <1>2, <2>1 DEF Good, Magn
  <1>3. CASE n < 0
    <2>1. Sgn(n) * a = -a
      <3>1. Sgn(n) = -1
        BY <1>3 DEF Sgn
      <3> QED BY <3>1
    <2> QED BY <1>3, <2>1 DEF Good, Magn
  <1> QED BY <1>1, <1>2, <1>3

\* Division by a positive number.
LEMMA ByPositive ==
  ASSUME NEW n \in Int, NEW e \in Nat, e > 0
  PROVE  /\ Magn(n) \in Nat /\ Magn(n) \div e \in Nat /\ Magn(n) % e \in Nat
         /\ Quotient(n, e) = Sgn(n) * (Magn(n) \div e)
         /\ Remainder(n, e) = Sgn(n) * (Magn(n) % e)
         /\ n = 0 => Magn(n) \div e = 0 /\ Magn(n) % e = 0
  <1>1. Magn(n) \in Nat /\ Magn(e) = e
    BY DEF Magn
  <1>2. Magn(n) \div e \in Nat /\ Magn(n) % e \in Nat
    BY <1>1
  <1>3. Sgn(e) = 1 /\ Sgn(n) \in Int
    BY DEF Sgn
  <1>4. Sgn(n) * Sgn(e) = Sgn(n)
    <2> DEFINE s == Sgn(n)
    <2>1. s \in Int
      BY <1>3
    <2> HIDE DEF s
    <2>2. s * 1 = s
      BY <2>1
    <2> QED BY <1>3, <2>2 DEF s
  <1>5. n = 0 => Magn(n) \div e = 0 /\ Magn(n) % e = 0
    <2>1. 0 \div e = 0 /\ 0 % e = 0
      OBVIOUS
    <2> QED BY <2>1 DEF Magn
  <1>6. Quotient(n, e) = Sgn(n) * (Magn(n) \div e)
    BY <1>1, <1>4 DEF Quotient
  <1>7. Remainder(n, e) = Sgn(n) * (Magn(n) % e)
    BY <1>1 DEF Remainder
  <1> QED BY <1>1, <1>2, <1>5, <1>6, <1>7

\* What is known of a number and its sign.
LEMMA GoodFacts ==
  ASSUME NEW m, NEW n, Good(m, n)
  PROVE  /\ Tidy(m) /\ Top(m) /\ n \in Int /\ Above(m, 0) = Magn(n)
         /\ m.sign = IF n < 0 THEN NEG ELSE ZPOS
         /\ Above(m, 0) = 0 => m.sign = ZPOS
  BY DEF Good, Magn

\* Shifted numbers, with their signs.
LEMMA GoodShifted ==
  ASSUME NEW m, NEW n, Good(m, n), NEW d \in Nat
  PROVE  /\ Good(s_mp_mul_2d(m, d), n * 2 ^ d)
         /\ Good(s_mp_div_2d(m, d), Quotient(n, 2 ^ d))
         /\ Good(s_mp_mod_2d(m, d), Remainder(n, 2 ^ d))
  <1> DEFINE e == 2 ^ d
             x == s_mp_mul_2d(m, d)
             y == s_mp_div_2d(m, d)
             z == s_mp_mod_2d(m, d)
  <1>1. e \in Nat /\ e > 0
    BY TwoTo
  <1>2. /\ Tidy(m) /\ Top(m) /\ n \in Int /\ Above(m, 0) = Magn(n)
        /\ m.sign = IF n < 0 THEN NEG ELSE ZPOS
        /\ Above(m, 0) = 0 => m.sign = ZPOS
    BY GoodFacts
  <1>3. /\ Tidy(x) /\ Top(x) /\ Above(x, 0) = Above(m, 0) * e
        /\ x.sign = IF Above(x, 0) = 0 THEN ZPOS ELSE m.sign
    BY <1>2, ShiftedUpIs
  <1>4. /\ Tidy(y) /\ Top(y) /\ Above(y, 0) = Above(m, 0) \div e
        /\ y.sign = IF Above(y, 0) = 0 THEN ZPOS ELSE m.sign
    BY <1>2, ShiftedDownIs
  <1>5. /\ Tidy(z) /\ Top(z) /\ Above(z, 0) = Above(m, 0) % e
        /\ z.sign = IF Above(z, 0) = 0 THEN ZPOS ELSE m.sign
    BY <1>2, BitsBelowIs
  <1> HIDE DEF e, x, y, z
  <1>6. Good(x, n * e)
    <2> DEFINE a == Magn(n) * e
    <2>1. a \in Nat /\ n * e \in Int /\ Sgn(n) * a = n * e /\ (n = 0 => a = 0)
      <3>1. CASE n > 0
        <4>1. Magn(n) = n /\ Sgn(n) = 1
          BY <1>2, <3>1 DEF Magn, Sgn
        <4>2. n * e \in Nat /\ 1 * (n * e) = n * e
          BY <1>1, <1>2, <3>1
        <4> QED BY <3>1, <4>1, <4>2
      <3>2. CASE n = 0
        <4>1. Magn(n) = 0 /\ Sgn(n) = 0
          BY <3>2 DEF Magn, Sgn
        <4>2. 0 * e = 0
          BY <1>1
        <4> QED BY <3>2, <4>1, <4>2
      <3>3. CASE n < 0
        <4>1. Magn(n) = -n /\ Sgn(n) = -1
          BY <1>2, <3>3 DEF Magn, Sgn
        <4>2. (-n) * e \in Nat /\ n * e \in Int /\ (-1) * ((-n) * e) = n * e
          BY <1>1, <1>2, <3>3
        <4> QED BY <3>3, <4>1, <4>2
      <3> QED BY <1>2, <3>1, <3>2, <3>3
    <2>2. Above(x, 0) = a /\ x.sign = IF a = 0 THEN ZPOS ELSE IF n < 0 THEN NEG ELSE ZPOS
      BY <1>2, <1>3
    <2> HIDE DEF a
    <2>3. Good(x, Sgn(n) * a)
      BY <1>2, <1>3, <2>1, <2>2, WithSignOf
    <2> QED BY <2>1, <2>3
  <1>7. Good(y, Quotient(n, e))
    <2> DEFINE a == Magn(n) \div e
    <2>1. a \in Nat /\ Quotient(n, e) = Sgn(n) * a /\ (n = 0 => a = 0)
      BY <1>1, <1>2, ByPositive
    <2>2. Above(y, 0) = a /\ y.sign = IF a = 0 THEN ZPOS ELSE IF n < 0 THEN NEG ELSE ZPOS
      BY <1>2, <1>4
    <2> HIDE DEF a
    <2>3. Good(y, Sgn(n) * a)
      BY <1>2, <1>4, <2>1, <2>2, WithSignOf
    <2> QED BY <2>1, <2>3
  <1>8. Good(z, Remainder(n, e))
    <2> DEFINE a == Magn(n) % e
    <2>1. a \in Nat /\ Remainder(n, e) = Sgn(n) * a /\ (n = 0 => a = 0)
      BY <1>1, <1>2, ByPositive
    <2>2. Above(z, 0) = a /\ z.sign = IF a = 0 THEN ZPOS ELSE IF n < 0 THEN NEG ELSE ZPOS
      BY <1>2, <1>5
    <2> HIDE DEF a
    <2>3. Good(z, Sgn(n) * a)
      BY <1>2, <1>5, <2>1, <2>2, WithSignOf
    <2> QED BY <2>1, <2>3
  <1> QED BY <1>6, <1>7, <1>8 DEF e, x, y, z

-----------------------------------------------------------------------------
(* Operations on the memory.                                               *)

\* The memory h has the numbers v, in order.
Holds(h, v) ==
    /\ h = [r \in Regs |-> h[r]] /\ v \in [Regs -> Int]
    /\ \A r \in Regs : Good(h[r], v[r])

\* One number is replaced.
LEMMA PutIs ==
  ASSUME NEW h, NEW v, Holds(h, v), NEW c \in Regs, NEW m, NEW n, Good(m, n),
         NEW k, k = [h EXCEPT ![c] = m]
  PROVE  Holds(k, [v EXCEPT ![c] = n])
  <1> DEFINE w == [v EXCEPT ![c] = n]
  <1>1. h = [r \in Regs |-> h[r]] /\ v \in [Regs -> Int] /\ n \in Int
    BY DEF Holds, Good
  <1>2. w \in [Regs -> Int] /\ w[c] = n /\ \A r \in Regs : r # c => w[r] = v[r]
    BY <1>1
  <1>3. k = [r \in Regs |-> k[r]] /\ k[c] = m /\ \A r \in Regs : r # c => k[r] = h[r]
    BY <1>1
  <1> HIDE DEF w
  <1>4. ASSUME NEW r \in Regs PROVE Good(k[r], w[r])
    BY <1>2, <1>3 DEF Holds
  <1> QED BY <1>2, <1>3, <1>4 DEF Holds, w

\* Every function that has one operand copies it first, unless it is in its place.
LEMMA CopyThen ==
  ASSUME NEW h, NEW v, Holds(h, v), NEW a \in Regs, NEW c \in Regs,
         NEW k, k = mp_copy(h, a, c)
  PROVE  /\ Good(k[c], v[a]) /\ k[c].sign = h[a].sign /\ Above(k[c], 0) = Above(h[a], 0)
         /\ k = [h EXCEPT ![c] = k[c]]
         /\ \A x : [k EXCEPT ![c] = x] = [h EXCEPT ![c] = x]
  <1>1. h = [r \in Regs |-> h[r]] /\ Good(h[a], v[a]) /\ Good(h[c], v[c])
    BY DEF Holds
  <1>2. Good(k[c], v[a]) /\ k = [h EXCEPT ![c] = k[c]]
    <2>1. CASE a = c
      BY <1>1, <2>1 DEF mp_copy
    <2>2. CASE a # c
      <3>1. k = [h EXCEPT ![c] = CopyInto(h[a], h[c])]
        BY <2>2 DEF mp_copy, Put
      <3>2. Good(CopyInto(h[a], h[c]), v[a])
        BY <1>1, CopyIntoIs DEF Good
      <3> DEFINE x == CopyInto(h[a], h[c])
      <3>3. DOMAIN h = Regs
        BY <1>1
      <3> HIDE DEF x
      <3>4. \A g : g = [h EXCEPT ![c] = x] => g[c] = x
        BY <3>3
      <3>5. k[c] = x
        BY <3>1, <3>4 DEF x
      <3> QED BY <3>1, <3>2, <3>5 DEF x
    <2> QED BY <2>1, <2>2
  <1>3. k[c].sign = h[a].sign /\ Above(k[c], 0) = Above(h[a], 0)
    BY <1>1, <1>2 DEF Good
  <1>4. ASSUME NEW x PROVE [k EXCEPT ![c] = x] = [h EXCEPT ![c] = x]
    <2> DEFINE y == k[c]
    <2>1. k = [h EXCEPT ![c] = y]
      BY <1>2
    <2> HIDE DEF y
    <2>2. [[h EXCEPT ![c] = y] EXCEPT ![c] = x] = [h EXCEPT ![c] = x]
      <3> DEFINE g == [h EXCEPT ![c] = y]
                 g1 == [g EXCEPT ![c] = x]
                 g2 == [h EXCEPT ![c] = x]
      <3>1. g1 = [r \in Regs |-> g1[r]] /\ g2 = [r \in Regs |-> g2[r]]
        BY <1>1
      <3>2. \A r \in Regs : g1[r] = g2[r]
        BY <1>1
      <3> HIDE DEF g1, g2
      <3>3. g1 = g2
        BY <3>1, <3>2
      <3> QED BY <3>3 DEF g1, g2, g
    <2> QED BY <2>1, <2>2
  <1> QED BY <1>2, <1>3, <1>4

\* mp_copy, mp_abs, mp_neg and mp_mul_2, in place or not.
LEMMA UnaryIs ==
  ASSUME NEW h, NEW v, Holds(h, v), NEW a \in Regs, NEW c \in Regs
  PROVE  /\ Holds(mp_copy(h, a, c), [v EXCEPT ![c] = v[a]])
         /\ Holds(mp_abs(h, a, c), [v EXCEPT ![c] = Magn(v[a])])
         /\ Holds(mp_neg(h, a, c), [v EXCEPT ![c] = -v[a]])
         /\ Holds(mp_mul_2(h, a, c), [v EXCEPT ![c] = 2 * v[a]])
  <1> DEFINE k == mp_copy(h, a, c)
             m == k[c]
             n == v[a]
  <1>1. /\ Good(m, n) /\ k = [h EXCEPT ![c] = m]
        /\ \A x : [k EXCEPT ![c] = x] = [h EXCEPT ![c] = x]
    BY CopyThen
  <1>2. /\ mp_abs(h, a, c) = [k EXCEPT ![c] = [m EXCEPT !.sign = ZPOS]]
        /\ mp_neg(h, a, c) = [k EXCEPT ![c] = Negated(m)]
        /\ mp_mul_2(h, a, c) = [k EXCEPT ![c] = s_mp_mul_2(m)]
    BY DEF mp_abs, mp_neg, mp_mul_2, Update
  <1> HIDE DEF k, m
  <1>3. Holds(k, [v EXCEPT ![c] = n])
    BY <1>1, PutIs
  <1>4. Holds(mp_abs(h, a, c), [v EXCEPT ![c] = Magn(n)])
    <2> DEFINE x == [m EXCEPT !.sign = ZPOS]
    <2>1. Good(x, Magn(n)) /\ mp_abs(h, a, c) = [h EXCEPT ![c] = x]
      BY <1>1, <1>2, GoodSigned
    <2> HIDE DEF x
    <2> QED BY <2>1, PutIs
  <1>5. Holds(mp_neg(h, a, c), [v EXCEPT ![c] = -n])
    <2> DEFINE x == Negated(m)
    <2>1. Good(x, -n) /\ mp_neg(h, a, c) = [h EXCEPT ![c] = x]
      BY <1>1, <1>2, GoodSigned
    <2> HIDE DEF x
    <2> QED BY <2>1, PutIs
  <1>6. Holds(mp_mul_2(h, a, c), [v EXCEPT ![c] = 2 * n])
    <2> DEFINE x == s_mp_mul_2(m)
    <2>1. mp_mul_2(h, a, c) = [h EXCEPT ![c] = x]
      BY <1>1, <1>2
    <2>2. /\ Tidy(m) /\ Top(m) /\ n \in Int /\ Above(m, 0) = (IF n < 0 THEN -n ELSE n)
          /\ m.sign = IF n < 0 THEN NEG ELSE ZPOS
      BY <1>1, GoodIs DEF Good
    <2>3. /\ Tidy(x) /\ Top(x) /\ x.sign = m.sign
          /\ Above(x, 0) = Above(m, 0) + Above(m, 0)
      BY <2>2, DoubledIs
    <2> HIDE DEF x
    <2>4. Good(x, 2 * n)
      BY <2>2, <2>3 DEF Good, Magn
    <2> QED BY <2>1, <2>4, PutIs
  <1> QED BY <1>3, <1>4, <1>5, <1>6 DEF k

\* mp_zero, mp_set, mp_add_d and mp_sub_d, in place or not.
LEMMA WithDigitAre ==
  ASSUME NEW h, NEW v, Holds(h, v), NEW a \in Regs, NEW c \in Regs, NEW d \in Digit
  PROVE  /\ Holds(mp_zero(h, c), [v EXCEPT ![c] = 0])
         /\ Holds(Put(h, c, SetDigit(h[c], d)), [v EXCEPT ![c] = d])
         /\ Holds(mp_add_d(h, a, d, c), [v EXCEPT ![c] = v[a] + d])
         /\ Holds(mp_sub_d(h, a, d, c), [v EXCEPT ![c] = v[a] - d])
  <1> DEFINE k == mp_copy(h, a, c)
             m == k[c]
             n == v[a]
  <1>1. /\ Good(m, n) /\ \A x : [k EXCEPT ![c] = x] = [h EXCEPT ![c] = x]
    BY CopyThen
  <1>2. /\ mp_add_d(h, a, d, c) = [k EXCEPT ![c] = PlusDigit(m, d)]
        /\ mp_sub_d(h, a, d, c) = [k EXCEPT ![c] = ZeroPositive(MinusDigit(m, d))]
    BY DEF mp_add_d, mp_sub_d, Update
  <1> HIDE DEF k, m
  <1>3. Tidy(h[c])
    BY DEF Holds, Good
  <1>4. Good(Zeroed(h[c]), 0) /\ Good(SetDigit(h[c], d), d)
    BY <1>3, ZeroedIs
  <1>5. Holds(mp_zero(h, c), [v EXCEPT ![c] = 0])
    BY <1>4, PutIs DEF mp_zero, Put
  <1>6. Holds(Put(h, c, SetDigit(h[c], d)), [v EXCEPT ![c] = d])
    BY <1>4, PutIs DEF Put
  <1>7. Holds(mp_add_d(h, a, d, c), [v EXCEPT ![c] = n + d])
    <2> DEFINE x == PlusDigit(m, d)
    <2>1. Good(x, n + d) /\ mp_add_d(h, a, d, c) = [h EXCEPT ![c] = x]
      BY <1>1, <1>2, PlusDigitIs
    <2> HIDE DEF x
    <2> QED BY <2>1, PutIs
  <1>8. Holds(mp_sub_d(h, a, d, c), [v EXCEPT ![c] = n - d])
    <2> DEFINE x == ZeroPositive(MinusDigit(m, d))
    <2>1. Good(x, n - d) /\ mp_sub_d(h, a, d, c) = [h EXCEPT ![c] = x]
      BY <1>1, <1>2, MinusDigitIs
    <2> HIDE DEF x
    <2> QED BY <2>1, PutIs
  <1> QED BY <1>5, <1>6, <1>7, <1>8

\* mp_exch swaps the numbers.
LEMMA ExchIs ==
  ASSUME NEW h, NEW v, Holds(h, v), NEW a \in Regs, NEW c \in Regs
  PROVE  Holds(mp_exch(h, a, c),
               [s \in Regs |-> IF s = c THEN v[a] ELSE IF s = a THEN v[c] ELSE v[s]])
  <1> DEFINE w == [s \in Regs |-> IF s = c THEN v[a] ELSE IF s = a THEN v[c] ELSE v[s]]
             k == mp_exch(h, a, c)
  <1>1. h = [r \in Regs |-> h[r]] /\ v \in [Regs -> Int] /\ \A r \in Regs : Good(h[r], v[r])
    BY DEF Holds
  <1>2. w \in [Regs -> Int]
    BY <1>1
  <1>3. k = [r \in Regs |-> IF r = c THEN h[a] ELSE IF r = a THEN h[c] ELSE h[r]]
    BY <1>1 DEF mp_exch
  <1> HIDE DEF k
  <1>4. k = [r \in Regs |-> k[r]]
    BY <1>3
  <1>5. \A r \in Regs : Good(k[r], w[r])
    BY <1>1, <1>3
  <1> HIDE DEF w
  <1> QED BY <1>2, <1>4, <1>5 DEF Holds, w, k

\* What work on a result in place makes of it.
LEMMA TwiceOver ==
  ASSUME NEW h, h = [r \in Regs |-> h[r]], NEW c \in Regs, NEW x, NEW k, k = [h EXCEPT ![c] = x]
  PROVE  k[c] = x /\ \A y : [k EXCEPT ![c] = y] = [h EXCEPT ![c] = y]
  <1>1. DOMAIN h = Regs
    OBVIOUS
  <1>2. k[c] = x
    BY <1>1
  <1>3. ASSUME NEW y PROVE [k EXCEPT ![c] = y] = [h EXCEPT ![c] = y]
    <2> DEFINE g1 == [k EXCEPT ![c] = y]
               g2 == [h EXCEPT ![c] = y]
    <2>1. g1 = [r \in Regs |-> g1[r]] /\ g2 = [r \in Regs |-> g2[r]]
      BY <1>1
    <2>2. \A r \in Regs : g1[r] = g2[r]
      BY <1>1
    <2> HIDE DEF g1, g2
    <2>3. g1 = g2
      BY <2>1, <2>2
    <2> QED BY <2>3 DEF g1, g2
  <1> QED BY <1>2, <1>3

\* The magnitude of a sum, wherever the operands are.
LEMMA TotalIs ==
  ASSUME NEW h, NEW v, Holds(h, v), NEW a \in Regs, NEW b \in Regs, NEW c \in Regs
  PROVE  \E x : /\ Total(h, a, b, c) = [h EXCEPT ![c] = x]
                /\ Tidy(x) /\ Top(x)
                /\ Above(x, 0) = Above(h[a], 0) + Above(h[b], 0)
                /\ x.sign = IF c = b THEN h[b].sign ELSE h[a].sign
  <1>1. Good(h[a], v[a]) /\ Good(h[b], v[b])
    BY DEF Holds
  <1>2. Above(h[a], 0) \in Nat /\ Above(h[b], 0) \in Nat
    BY <1>1, GoodIs
  <1>3. CASE c = b
    <2> DEFINE x == s_mp_add(h[b], h[a])
    <2>1. Total(h, a, b, c) = [h EXCEPT ![c] = x]
      BY <1>3 DEF Total, Put
    <2>2. /\ Tidy(x) /\ Top(x) /\ x.sign = h[b].sign
          /\ Above(x, 0) = Above(h[b], 0) + Above(h[a], 0)
      BY <1>1, SumIs DEF Good
    <2> HIDE DEF x
    <2>3. Above(x, 0) = Above(h[a], 0) + Above(h[b], 0)
      BY <1>2, <2>2
    <2> QED BY <1>3, <2>1, <2>2, <2>3
  <1>4. CASE c # b
    <2> DEFINE k == mp_copy(h, a, c)
               m == k[c]
               x == s_mp_add(m, h[b])
    <2>1. /\ Good(m, v[a]) /\ m.sign = h[a].sign /\ Above(m, 0) = Above(h[a], 0)
          /\ \A y : [k EXCEPT ![c] = y] = [h EXCEPT ![c] = y]
      <3>1. k = mp_copy(h, a, c)
        OBVIOUS
      <3> HIDE DEF k
      <3> QED BY <3>1, CopyThen
    <2>2. Total(h, a, b, c) = [k EXCEPT ![c] = x]
      BY <1>4 DEF Total, Update
    <2>3. Total(h, a, b, c) = [h EXCEPT ![c] = x]
      BY <2>1, <2>2
    <2> HIDE DEF k, m
    <2>4. /\ Tidy(x) /\ Top(x) /\ x.sign = m.sign
          /\ Above(x, 0) = Above(m, 0) + Above(h[b], 0)
      BY <1>1, <2>1, SumIs DEF Good
    <2> HIDE DEF x
    <2> QED BY <1>4, <2>1, <2>3, <2>4
  <1> QED BY <1>3, <1>4

\* That of a difference.
LEMMA GapIs ==
  ASSUME NEW h, NEW v, Holds(h, v), NEW a \in Regs, NEW b \in Regs, NEW c \in Regs,
         Above(h[b], 0) <= Above(h[a], 0)
  PROVE  \E x : /\ Difference(h, a, b, c) = [h EXCEPT ![c] = x]
                /\ Tidy(x) /\ Top(x)
                /\ Above(x, 0) = Above(h[a], 0) - Above(h[b], 0)
                /\ x.sign = IF Above(x, 0) = 0 THEN ZPOS ELSE h[a].sign
  <1>1. Good(h[a], v[a]) /\ Good(h[b], v[b])
    BY DEF Holds
  <1>2. CASE c = b
    <2> DEFINE m == Copied(h[a])
               x == s_mp_sub(m, h[b])
    <2>1. Difference(h, a, b, c) = [h EXCEPT ![c] = x]
      BY <1>2 DEF Difference, Put
    <2>2. Good(m, v[a])
      BY <1>1, CopiedIs
    <2> HIDE DEF m
    <2>3. Tidy(m) /\ m.sign = h[a].sign /\ Above(m, 0) = Above(h[a], 0)
      BY <1>1, <2>2 DEF Good
    <2>4. /\ Tidy(x) /\ Top(x) /\ Above(x, 0) = Above(m, 0) - Above(h[b], 0)
          /\ x.sign = IF Above(x, 0) = 0 THEN ZPOS ELSE m.sign
      BY <1>1, <2>3, DifferenceIs DEF Good
    <2> HIDE DEF x
    <2> QED BY <2>1, <2>3, <2>4
  <1>3. CASE c # b
    <2> DEFINE k == mp_copy(h, a, c)
               m == k[c]
               x == s_mp_sub(m, h[b])
    <2>1. /\ Good(m, v[a]) /\ m.sign = h[a].sign /\ Above(m, 0) = Above(h[a], 0)
          /\ \A y : [k EXCEPT ![c] = y] = [h EXCEPT ![c] = y]
      <3>1. k = mp_copy(h, a, c)
        OBVIOUS
      <3> HIDE DEF k
      <3> QED BY <3>1, CopyThen
    <2>2. Difference(h, a, b, c) = [k EXCEPT ![c] = x]
      BY <1>3 DEF Difference, Update
    <2>3. Difference(h, a, b, c) = [h EXCEPT ![c] = x]
      BY <2>1, <2>2
    <2> HIDE DEF k, m
    <2>4. /\ Tidy(x) /\ Top(x) /\ Above(x, 0) = Above(m, 0) - Above(h[b], 0)
          /\ x.sign = IF Above(x, 0) = 0 THEN ZPOS ELSE m.sign
      BY <1>1, <2>1, DifferenceIs DEF Good
    <2> HIDE DEF x
    <2> QED BY <2>1, <2>3, <2>4
  <1> QED BY <1>2, <1>3

\* Operands of known values.
LEMMA TwoOperands ==
  ASSUME NEW h, NEW v, Holds(h, v), NEW a \in Regs, NEW b \in Regs
  PROVE  /\ v[a] \in Int /\ v[b] \in Int /\ Above(h[a], 0) \in Nat /\ Above(h[b], 0) \in Nat
         /\ Above(h[a], 0) = Magn(v[a]) /\ Above(h[b], 0) = Magn(v[b])
         /\ h[a].sign = (IF v[a] < 0 THEN 1 ELSE 0) /\ h[b].sign = (IF v[b] < 0 THEN 1 ELSE 0)
         /\ s_mp_cmp(h[a], h[b]) = Sgn(Magn(v[a]) - Magn(v[b]))
  <1>1. Good(h[a], v[a]) /\ Good(h[b], v[b])
    BY DEF Holds
  <1>2. Above(h[a], 0) \in Nat /\ Above(h[b], 0) \in Nat
    BY <1>1, GoodIs
  <1>3. s_mp_cmp(h[a], h[b]) = Sgn(Above(h[a], 0) - Above(h[b], 0))
    BY <1>1, CmpIs, TidyAbove DEF Good
  <1> QED BY <1>1, <1>2, <1>3 DEF Good, ZPOS, NEG

\* The sign of a result is set, if it is not right already.
LEMMA SettledIs ==
  ASSUME NEW h, NEW v, Holds(h, v), NEW c \in Regs, NEW x, Tidy(x), Top(x),
         NEW n \in Int, Above(x, 0) = Magn(n), x.sign \in {0, 1},
         n < 0 => x.sign = 1, n > 0 => x.sign = 0,
         NEW k, k = [h EXCEPT ![c] = x], NEW r, r = Update(k, c, ZeroPositive)
  PROVE  Holds(r, [v EXCEPT ![c] = n])
  <1>1. h = [s \in Regs |-> h[s]]
    BY DEF Holds
  <1>2. k[c] = x /\ \A y : [k EXCEPT ![c] = y] = [h EXCEPT ![c] = y]
    BY <1>1, TwiceOver
  <1> DEFINE y == Signed(x, x.sign)
             s == x.sign
  <1>3. r = [k EXCEPT ![c] = y]
    BY <1>2 DEF Update, ZeroPositive
  <1>4. r = [h EXCEPT ![c] = y]
    BY <1>2, <1>3
  <1>5. s \in {ZPOS, NEG} /\ (n < 0 => s = NEG) /\ (n > 0 => s = ZPOS) /\ y = Signed(x, s)
    BY DEF ZPOS, NEG
  <1> HIDE DEF y, s
  <1>6. Good(y, n)
    BY <1>5, SignedIs
  <1> QED BY <1>4, <1>6, PutIs

\* mp_add, for all signs and all operands that are the same or the result.
LEMMA AddRight ==
  ASSUME NEW h, NEW v, Holds(h, v), NEW a \in Regs, NEW b \in Regs, NEW c \in Regs
  PROVE  Holds(mp_add(h, a, b, c), [v EXCEPT ![c] = v[a] + v[b]])
  <1> DEFINE k == IF h[a].sign = h[b].sign THEN Total(h, a, b, c)
                  ELSE IF s_mp_cmp(h[a], h[b]) > 0 THEN Difference(h, a, b, c)
                  ELSE IF s_mp_cmp(h[a], h[b]) = 0 THEN mp_zero(h, c)
                  ELSE Difference(h, b, a, c)
             r == Update(k, c, ZeroPositive)
             n == v[a] + v[b]
  <1>1. /\ v[a] \in Int /\ v[b] \in Int /\ Above(h[a], 0) \in Nat /\ Above(h[b], 0) \in Nat
        /\ Above(h[a], 0) = Magn(v[a]) /\ Above(h[b], 0) = Magn(v[b])
        /\ h[a].sign = (IF v[a] < 0 THEN 1 ELSE 0) /\ h[b].sign = (IF v[b] < 0 THEN 1 ELSE 0)
        /\ s_mp_cmp(h[a], h[b]) = Sgn(Magn(v[a]) - Magn(v[b]))
    BY TwoOperands
  <1>2. \E x : /\ k = [h EXCEPT ![c] = x] /\ Tidy(x) /\ Top(x)
               /\ Above(x, 0) = Magn(n) /\ x.sign \in {0, 1}
               /\ (n < 0 => x.sign = 1) /\ (n > 0 => x.sign = 0)
    <2>1. CASE h[a].sign = h[b].sign
      <3>1. PICK x : /\ Total(h, a, b, c) = [h EXCEPT ![c] = x]
                     /\ Tidy(x) /\ Top(x)
                     /\ Above(x, 0) = Above(h[a], 0) + Above(h[b], 0)
                     /\ x.sign = IF c = b THEN h[b].sign ELSE h[a].sign
        BY TotalIs
      <3>2. k = [h EXCEPT ![c] = x]
        BY <2>1, <3>1
      <3>3. /\ Above(x, 0) = Magn(n) /\ x.sign \in {0, 1}
            /\ (n < 0 => x.sign = 1) /\ (n > 0 => x.sign = 0)
        BY <1>1, <2>1, <3>1 DEF Magn
      <3> QED BY <3>1, <3>2, <3>3
    <2>2. CASE h[a].sign # h[b].sign /\ Magn(v[a]) > Magn(v[b])
      <3>1. s_mp_cmp(h[a], h[b]) > 0 /\ Above(h[b], 0) <= Above(h[a], 0)
        BY <1>1, <2>2 DEF Sgn, Magn
      <3>2. PICK x : /\ Difference(h, a, b, c) = [h EXCEPT ![c] = x]
                     /\ Tidy(x) /\ Top(x)
                     /\ Above(x, 0) = Above(h[a], 0) - Above(h[b], 0)
                     /\ x.sign = IF Above(x, 0) = 0 THEN ZPOS ELSE h[a].sign
        BY <3>1, GapIs
      <3>3. k = [h EXCEPT ![c] = x]
        BY <2>2, <3>1, <3>2
      <3>4. /\ Above(x, 0) = Magn(n) /\ x.sign \in {0, 1}
            /\ (n < 0 => x.sign = 1) /\ (n > 0 => x.sign = 0)
        BY <1>1, <2>2, <3>2 DEF Magn, ZPOS
      <3> QED BY <3>2, <3>3, <3>4
    <2>3. CASE h[a].sign # h[b].sign /\ Magn(v[a]) = Magn(v[b])
      <3>1. s_mp_cmp(h[a], h[b]) = 0
        BY <1>1, <2>3 DEF Sgn, Magn
      <3> DEFINE x == Zeroed(h[c])
      <3>2. k = [h EXCEPT ![c] = x]
        BY <2>3, <3>1 DEF mp_zero, Put
      <3>3. Tidy(h[c])
        BY DEF Holds, Good
      <3>4. Good(x, 0)
        BY <3>3, ZeroedIs, RadixIs
      <3> HIDE DEF x
      <3>5. /\ Tidy(x) /\ Top(x) /\ Above(x, 0) = Magn(n) /\ x.sign \in {0, 1}
            /\ (n < 0 => x.sign = 1) /\ (n > 0 => x.sign = 0)
        BY <1>1, <2>3, <3>4 DEF Magn, Good, ZPOS
      <3> QED BY <3>2, <3>5
    <2>4. CASE h[a].sign # h[b].sign /\ Magn(v[a]) < Magn(v[b])
      <3>1. s_mp_cmp(h[a], h[b]) < 0 /\ Above(h[a], 0) <= Above(h[b], 0)
        BY <1>1, <2>4 DEF Sgn, Magn
      <3>2. PICK x : /\ Difference(h, b, a, c) = [h EXCEPT ![c] = x]
                     /\ Tidy(x) /\ Top(x)
                     /\ Above(x, 0) = Above(h[b], 0) - Above(h[a], 0)
                     /\ x.sign = IF Above(x, 0) = 0 THEN ZPOS ELSE h[b].sign
        BY <3>1, GapIs
      <3>3. k = [h EXCEPT ![c] = x]
        <4>1. ~ s_mp_cmp(h[a], h[b]) > 0 /\ s_mp_cmp(h[a], h[b]) # 0
          BY <1>1, <3>1 DEF Sgn
        <4> QED BY <2>4, <3>2, <4>1
      <3>4. /\ Above(x, 0) = Magn(n) /\ x.sign \in {0, 1}
            /\ (n < 0 => x.sign = 1) /\ (n > 0 => x.sign = 0)
        BY <1>1, <2>4, <3>2 DEF Magn, ZPOS
      <3> QED BY <3>2, <3>3, <3>4
    <2>5. Magn(v[a]) > Magn(v[b]) \/ Magn(v[a]) = Magn(v[b]) \/ Magn(v[a]) < Magn(v[b])
      BY <1>1 DEF Magn
    <2> QED BY <2>1, <2>2, <2>3, <2>4, <2>5
  <1>3. mp_add(h, a, b, c) = r
    BY DEF mp_add
  <1>4. n \in Int
    BY <1>1
  <1> HIDE DEF k, r, n
  <1>5. Holds(r, [v EXCEPT ![c] = n])
    BY <1>2, <1>4, SettledIs DEF r
  <1> QED BY <1>3, <1>5 DEF n

\* mp_sub likewise.
LEMMA SubRight ==
  ASSUME NEW h, NEW v, Holds(h, v), NEW a \in Regs, NEW b \in Regs, NEW c \in Regs
  PROVE  Holds(mp_sub(h, a, b, c), [v EXCEPT ![c] = v[a] - v[b]])
  <1> DEFINE t == IF c = a THEN Total(h, a, b, c) ELSE Total(h, b, a, c)
             d == Difference(h, b, a, c)
             k == IF h[a].sign # h[b].sign
                  THEN [t EXCEPT ![c] = [t[c] EXCEPT !.sign = h[a].sign]]
                  ELSE IF s_mp_cmp(h[a], h[b]) > 0 THEN Difference(h, a, b, c)
                  ELSE IF s_mp_cmp(h[a], h[b]) = 0 THEN mp_zero(h, c)
                  ELSE [d EXCEPT ![c] = [d[c] EXCEPT !.sign = 1 - h[b].sign]]
             r == Update(k, c, ZeroPositive)
             n == v[a] - v[b]
  <1>1. /\ v[a] \in Int /\ v[b] \in Int /\ Above(h[a], 0) \in Nat /\ Above(h[b], 0) \in Nat
        /\ Above(h[a], 0) = Magn(v[a]) /\ Above(h[b], 0) = Magn(v[b])
        /\ h[a].sign = (IF v[a] < 0 THEN 1 ELSE 0) /\ h[b].sign = (IF v[b] < 0 THEN 1 ELSE 0)
        /\ s_mp_cmp(h[a], h[b]) = Sgn(Magn(v[a]) - Magn(v[b]))
    BY TwoOperands
  <1>2. h = [s \in Regs |-> h[s]]
    BY DEF Holds
  <1>3. \E x : /\ k = [h EXCEPT ![c] = x] /\ Tidy(x) /\ Top(x)
               /\ Above(x, 0) = Magn(n) /\ x.sign \in {0, 1}
               /\ (n < 0 => x.sign = 1) /\ (n > 0 => x.sign = 0)
    <2>1. CASE h[a].sign # h[b].sign
      <3>1. PICK y : /\ t = [h EXCEPT ![c] = y]
                     /\ Tidy(y) /\ Top(y)
                     /\ Above(y, 0) = Above(h[a], 0) + Above(h[b], 0)
        <4>1. CASE c = a
          BY <4>1, TotalIs
        <4>2. CASE c # a
          <5>1. PICK y : /\ Total(h, b, a, c) = [h EXCEPT ![c] = y]
                         /\ Tidy(y) /\ Top(y)
                         /\ Above(y, 0) = Above(h[b], 0) + Above(h[a], 0)
            BY TotalIs
          <5>2. t = [h EXCEPT ![c] = y]
            BY <4>2, <5>1
          <5>3. Above(y, 0) = Above(h[a], 0) + Above(h[b], 0)
            BY <1>1, <5>1
          <5> HIDE DEF t
          <5> QED BY <5>1, <5>2, <5>3
        <4> QED BY <4>1, <4>2
      <3> DEFINE s == h[a].sign
                 x == [y EXCEPT !.sign = s]
      <3>2. k = [t EXCEPT ![c] = [t[c] EXCEPT !.sign = s]]
        BY <2>1
      <3> HIDE DEF t
      <3>3. t[c] = y /\ \A z : [t EXCEPT ![c] = z] = [h EXCEPT ![c] = z]
        BY <1>2, <3>1, TwiceOver
      <3>4. k = [h EXCEPT ![c] = x]
        BY <3>2, <3>3
      <3>5. s \in {ZPOS, NEG}
        BY <1>1 DEF ZPOS, NEG
      <3>6. Tidy(x) /\ Top(x) /\ Above(x, 0) = Above(y, 0) /\ x.sign = s
        BY <3>1, <3>5, WithSignIs
      <3> HIDE DEF x, k
      <3>7. /\ Above(x, 0) = Magn(n) /\ x.sign \in {0, 1}
            /\ (n < 0 => x.sign = 1) /\ (n > 0 => x.sign = 0)
        BY <1>1, <2>1, <3>1, <3>6 DEF Magn
      <3> QED BY <3>4, <3>6, <3>7
    <2>2. CASE h[a].sign = h[b].sign /\ Magn(v[a]) > Magn(v[b])
      <3>1. s_mp_cmp(h[a], h[b]) > 0 /\ Above(h[b], 0) <= Above(h[a], 0)
        BY <1>1, <2>2 DEF Sgn, Magn
      <3>2. PICK x : /\ Difference(h, a, b, c) = [h EXCEPT ![c] = x]
                     /\ Tidy(x) /\ Top(x)
                     /\ Above(x, 0) = Above(h[a], 0) - Above(h[b], 0)
                     /\ x.sign = IF Above(x, 0) = 0 THEN ZPOS ELSE h[a].sign
        BY <3>1, GapIs
      <3>3. k = [h EXCEPT ![c] = x]
        BY <2>2, <3>1, <3>2
      <3>4. /\ Above(x, 0) = Magn(n) /\ x.sign \in {0, 1}
            /\ (n < 0 => x.sign = 1) /\ (n > 0 => x.sign = 0)
        BY <1>1, <2>2, <3>2 DEF Magn, ZPOS
      <3> QED BY <3>2, <3>3, <3>4
    <2>3. CASE h[a].sign = h[b].sign /\ Magn(v[a]) = Magn(v[b])
      <3>1. s_mp_cmp(h[a], h[b]) = 0
        BY <1>1, <2>3 DEF Sgn, Magn
      <3> DEFINE x == Zeroed(h[c])
      <3>2. k = [h EXCEPT ![c] = x]
        BY <2>3, <3>1 DEF mp_zero, Put
      <3>3. Tidy(h[c])
        BY DEF Holds, Good
      <3>4. Good(x, 0)
        BY <3>3, ZeroedIs, RadixIs
      <3> HIDE DEF x
      <3>5. /\ Tidy(x) /\ Top(x) /\ Above(x, 0) = Magn(n) /\ x.sign \in {0, 1}
            /\ (n < 0 => x.sign = 1) /\ (n > 0 => x.sign = 0)
        BY <1>1, <2>3, <3>4 DEF Magn, Good, ZPOS
      <3> QED BY <3>2, <3>5
    <2>4. CASE h[a].sign = h[b].sign /\ Magn(v[a]) < Magn(v[b])
      <3>1. s_mp_cmp(h[a], h[b]) < 0 /\ Above(h[a], 0) <= Above(h[b], 0)
        BY <1>1, <2>4 DEF Sgn, Magn
      <3>2. PICK y : /\ Difference(h, b, a, c) = [h EXCEPT ![c] = y]
                     /\ Tidy(y) /\ Top(y)
                     /\ Above(y, 0) = Above(h[b], 0) - Above(h[a], 0)
        BY <3>1, GapIs
      <3> DEFINE s == 1 - h[b].sign
                 x == [y EXCEPT !.sign = s]
      <3>3. k = [d EXCEPT ![c] = [d[c] EXCEPT !.sign = s]]
        <4>1. ~ s_mp_cmp(h[a], h[b]) > 0 /\ s_mp_cmp(h[a], h[b]) # 0
          BY <1>1, <3>1 DEF Sgn
        <4> QED BY <2>4, <4>1
      <3>4. d = [h EXCEPT ![c] = y]
        BY <3>2
      <3> HIDE DEF d
      <3>5. d[c] = y /\ \A z : [d EXCEPT ![c] = z] = [h EXCEPT ![c] = z]
        BY <1>2, <3>4, TwiceOver
      <3>6. k = [h EXCEPT ![c] = x]
        BY <3>3, <3>5
      <3>7. s \in {ZPOS, NEG}
        BY <1>1 DEF ZPOS, NEG
      <3>8. Tidy(x) /\ Top(x) /\ Above(x, 0) = Above(y, 0) /\ x.sign = s
        BY <3>2, <3>7, WithSignIs
      <3> HIDE DEF x, k
      <3>9. /\ Above(x, 0) = Magn(n) /\ x.sign \in {0, 1}
            /\ (n < 0 => x.sign = 1) /\ (n > 0 => x.sign = 0)
        BY <1>1, <2>4, <3>2, <3>8 DEF Magn
      <3> QED BY <3>6, <3>8, <3>9
    <2>5. Magn(v[a]) > Magn(v[b]) \/ Magn(v[a]) = Magn(v[b]) \/ Magn(v[a]) < Magn(v[b])
      BY <1>1 DEF Magn
    <2> QED BY <2>1, <2>2, <2>3, <2>4, <2>5
  <1>4. mp_sub(h, a, b, c) = r
    BY DEF mp_sub, Update
  <1>5. n \in Int
    BY <1>1
  <1> HIDE DEF k, r, n
  <1>6. Holds(r, [v EXCEPT ![c] = n])
    BY <1>3, <1>5, SettledIs DEF r
  <1> QED BY <1>4, <1>6 DEF n

\* Magnitudes multiply, and signs.
LEMMA ProductMagn ==
  ASSUME NEW m \in Int, NEW n \in Int
  PROVE  /\ m * n \in Int /\ Magn(m * n) = Magn(m) * Magn(n)
         /\ (m * n < 0 => (m < 0 <=> n >= 0)) /\ (m * n > 0 => (m < 0 <=> n < 0))
  <1> DEFINE p == Magn(m)
             q == Magn(n)
             pq == p * q
  <1>1. p \in Nat /\ q \in Nat /\ pq \in Nat
    BY DEF Magn
  <1>2. \A x, y \in Nat : /\ (-x) * y = -(x * y) /\ x * (-y) = -(x * y) /\ (-x) * (-y) = x * y
    OBVIOUS
  <1>3. CASE m < 0 /\ n < 0
    <2>1. m = -p /\ n = -q
      BY <1>3 DEF Magn
    <2>2. m * n = pq
      <3> HIDE DEF p, q
      <3> QED BY <1>1, <1>2, <2>1
    <2> HIDE DEF pq
    <2> QED BY <1>1, <1>3, <2>2 DEF Magn, pq
  <1>4. CASE m < 0 /\ n >= 0
    <2>1. m = -p /\ n = q
      BY <1>4 DEF Magn
    <2>2. m * n = -pq
      <3> HIDE DEF p, q
      <3> QED BY <1>1, <1>2, <2>1
    <2> HIDE DEF pq
    <2> QED BY <1>1, <1>4, <2>2 DEF Magn, pq
  <1>5. CASE m >= 0 /\ n < 0
    <2>1. m = p /\ n = -q
      BY <1>5 DEF Magn
    <2>2. m * n = -pq
      <3> HIDE DEF p, q
      <3> QED BY <1>1, <1>2, <2>1
    <2> HIDE DEF pq
    <2> QED BY <1>1, <1>5, <2>2 DEF Magn, pq
  <1>6. CASE m >= 0 /\ n >= 0
    <2>1. m = p /\ n = q
      BY <1>6 DEF Magn
    <2>2. m * n = pq
      BY <2>1
    <2> HIDE DEF pq
    <2> QED BY <1>1, <1>6, <2>2 DEF Magn, pq
  <1> QED BY <1>3, <1>4, <1>5, <1>6

\* mp_mul likewise.
LEMMA MulRight ==
  ASSUME NEW h, NEW v, Holds(h, v), NEW a \in Regs, NEW b \in Regs, NEW c \in Regs
  PROVE  Holds(mp_mul(h, a, b, c), [v EXCEPT ![c] = v[a] * v[b]])
  <1> DEFINE k == mp_copy(h, a, c)
             m == k[c]
             x == IF c = b THEN s_mp_mul(h[b], h[a]) ELSE s_mp_mul(m, h[b])
             s == IF h[a].sign = h[b].sign THEN ZPOS ELSE NEG
             n == v[a] * v[b]
  <1>1. /\ v[a] \in Int /\ v[b] \in Int /\ Above(h[a], 0) \in Nat /\ Above(h[b], 0) \in Nat
        /\ Above(h[a], 0) = Magn(v[a]) /\ Above(h[b], 0) = Magn(v[b])
        /\ h[a].sign = (IF v[a] < 0 THEN 1 ELSE 0) /\ h[b].sign = (IF v[b] < 0 THEN 1 ELSE 0)
    BY TwoOperands
  <1>2. Tidy(h[a]) /\ Tidy(h[b])
    BY DEF Holds, Good
  <1>3. Good(m, v[a]) /\ Above(m, 0) = Above(h[a], 0)
    BY CopyThen
  <1>4. Tidy(m)
    BY <1>3 DEF Good
  <1> HIDE DEF k, m
  <1>5. Tidy(x) /\ Top(x) /\ Above(x, 0) = Above(h[a], 0) * Above(h[b], 0)
    <2>1. CASE c = b
      <3>1. x = s_mp_mul(h[b], h[a])
        BY <2>1
      <3> HIDE DEF x
      <3>2. Tidy(x) /\ Top(x) /\ Above(x, 0) = Above(h[b], 0) * Above(h[a], 0)
        BY <1>2, <3>1, MulIs, TidyAbove
      <3>3. \A p, q \in Nat : p * q = q * p
        OBVIOUS
      <3> QED BY <1>1, <3>2, <3>3
    <2>2. CASE c # b
      <3>1. x = s_mp_mul(m, h[b])
        BY <2>2
      <3> HIDE DEF x
      <3> QED BY <1>2, <1>3, <1>4, <3>1, MulIs, TidyAbove
    <2> QED BY <2>1, <2>2
  <1>6. n \in Int /\ Above(x, 0) = Magn(n)
    <2>1. n \in Int /\ Magn(n) = Magn(v[a]) * Magn(v[b])
      BY <1>1, ProductMagn
    <2> HIDE DEF n, x
    <2> QED BY <1>1, <1>5, <2>1
  <1>7. s \in {ZPOS, NEG} /\ (n < 0 => s = NEG) /\ (n > 0 => s = ZPOS)
    <2>1. (n < 0 => (v[a] < 0 <=> v[b] >= 0)) /\ (n > 0 => (v[a] < 0 <=> v[b] < 0))
      BY <1>1, ProductMagn
    <2> HIDE DEF n
    <2> QED BY <1>1, <2>1 DEF ZPOS, NEG
  <1>8. mp_mul(h, a, b, c) = [h EXCEPT ![c] = Signed(x, s)]
    BY DEF mp_mul, Put, k, m
  <1> HIDE DEF x, s, n
  <1> DEFINE y == Signed(x, s)
  <1>9. Good(y, n)
    BY <1>5, <1>6, <1>7, SignedIs
  <1>10. mp_mul(h, a, b, c) = [h EXCEPT ![c] = y]
    BY <1>8
  <1> HIDE DEF y
  <1> QED BY <1>9, <1>10, PutIs DEF n

\* m is the number n, perhaps written beyond its storage.
Right(m, n) ==
    /\ Held(m) /\ Top(m)
    /\ n \in Int /\ Above(m, 0) = Magn(n) /\ m.sign = IF n < 0 THEN NEG ELSE ZPOS

\* mp_mul_d, which may write beyond the storage.
LEMMA MulDigitRight ==
  ASSUME NEW h, NEW v, Holds(h, v), NEW a \in Regs, NEW c \in Regs, NEW d \in Digit
  PROVE  \E x : /\ mp_mul_d(h, a, d, c) = [h EXCEPT ![c] = x]
                /\ Right(x, v[a] * d)
  <1>1. Good(h[a], v[a]) /\ Tidy(h[c]) /\ d \in Nat
    BY RadixIs DEF Holds, Good
  <1>2. v[a] \in Int
    BY <1>1 DEF Good
  <1>3. CASE d = 0
    <2> DEFINE x == Zeroed(h[c])
    <2>1. mp_mul_d(h, a, d, c) = [h EXCEPT ![c] = x]
      BY <1>3 DEF mp_mul_d, mp_zero, Put
    <2>2. Good(x, 0)
      BY <1>1, ZeroedIs
    <2>3. v[a] * d = 0
      <3>1. \A p \in Int : p * 0 = 0
        OBVIOUS
      <3> QED BY <1>2, <1>3, <3>1
    <2> HIDE DEF x
    <2>4. Held(x)
      BY <2>2, TidyAbove DEF Good, Held
    <2>5. Right(x, v[a] * d)
      BY <2>2, <2>3, <2>4 DEF Good, Right
    <2> QED BY <2>1, <2>5
  <1>4. CASE d # 0
    <2> DEFINE k == mp_copy(h, a, c)
               m == k[c]
               x == s_mp_mul_d(m, d)
               n == v[a] * d
    <2>1. Good(m, v[a]) /\ \A y : [k EXCEPT ![c] = y] = [h EXCEPT ![c] = y]
      BY CopyThen
    <2>2. mp_mul_d(h, a, d, c) = [k EXCEPT ![c] = x]
      BY <1>4 DEF mp_mul_d, Update
    <2>3. mp_mul_d(h, a, d, c) = [h EXCEPT ![c] = x]
      BY <2>1, <2>2
    <2> HIDE DEF k, m
    <2>4. /\ Tidy(m) /\ Top(m) /\ Above(m, 0) = Magn(v[a]) /\ Above(m, 0) \in Nat
          /\ m.sign = IF v[a] < 0 THEN NEG ELSE ZPOS
      BY <2>1, GoodIs DEF Good
    <2>5. /\ Held(x) /\ Top(x) /\ Above(x, 0) = d * Above(m, 0)
          /\ x.sign = IF Above(x, 0) = 0 THEN ZPOS ELSE m.sign
      BY <2>4, TimesDigitIs
    <2>6. /\ n \in Int /\ Magn(n) = Magn(v[a]) * Magn(d)
          /\ (n < 0 => v[a] < 0) /\ (n > 0 => ~ v[a] < 0)
      <3>1. d \in Int /\ d >= 0
        BY <1>1
      <3>2. /\ n \in Int /\ Magn(n) = Magn(v[a]) * Magn(d)
            /\ (n < 0 => (v[a] < 0 <=> d >= 0)) /\ (n > 0 => (v[a] < 0 <=> d < 0))
        BY <1>2, <3>1, ProductMagn
      <3> HIDE DEF n
      <3> QED BY <1>1, <1>2, <3>2
    <2>7. Above(x, 0) = Magn(n)
      <3>1. Magn(d) = d
        BY <1>1 DEF Magn
      <3>2. \A p, q \in Nat : p * q = q * p
        OBVIOUS
      <3> HIDE DEF n, x
      <3> QED BY <1>1, <2>4, <2>5, <2>6, <3>1, <3>2
    <2> HIDE DEF n, x
    <2>8. x.sign = IF n < 0 THEN NEG ELSE ZPOS
      BY <1>2, <2>4, <2>5, <2>6, <2>7 DEF Magn
    <2>9. Right(x, n)
      BY <2>5, <2>6, <2>7, <2>8 DEF Right
    <2> QED BY <2>3, <2>9 DEF n
  <1> QED BY <1>3, <1>4

\* mp_mul_2d and mp_div_2, in place or not.
LEMMA ShiftsAre ==
  ASSUME NEW h, NEW v, Holds(h, v), NEW a \in Regs, NEW c \in Regs, NEW d \in Nat
  PROVE  /\ Holds(mp_mul_2d(h, a, d, c), [v EXCEPT ![c] = v[a] * 2 ^ d])
         /\ Holds(mp_div_2(h, a, c), [v EXCEPT ![c] = Quotient(v[a], 2)])
  <1> DEFINE k == mp_copy(h, a, c)
             m == k[c]
             n == v[a]
  <1>1. /\ Good(m, n) /\ \A x : [k EXCEPT ![c] = x] = [h EXCEPT ![c] = x]
    BY CopyThen
  <1>2. /\ mp_mul_2d(h, a, d, c) = [k EXCEPT ![c] = IF d = 0 THEN m ELSE s_mp_mul_2d(m, d)]
        /\ mp_div_2(h, a, c) = [k EXCEPT ![c] = s_mp_div_2(m)]
    BY DEF mp_mul_2d, mp_div_2, Update
  <1>3. n \in Int
    BY <1>1, GoodFacts
  <1> HIDE DEF k, m, n
  <1>4. Holds(mp_mul_2d(h, a, d, c), [v EXCEPT ![c] = n * 2 ^ d])
    <2> DEFINE x == IF d = 0 THEN m ELSE s_mp_mul_2d(m, d)
    <2>1. mp_mul_2d(h, a, d, c) = [h EXCEPT ![c] = x]
      BY <1>1, <1>2
    <2>2. Good(x, n * 2 ^ d)
      <3>1. CASE d = 0
        <4>1. n * 1 = n /\ 2 ^ 0 = 1
          BY <1>3
        <4>2. n * 2 ^ d = n
          BY <3>1, <4>1
        <4> QED BY <1>1, <3>1, <4>2
      <3>2. CASE d # 0
        BY <1>1, <3>2, GoodShifted
      <3> QED BY <3>1, <3>2
    <2> HIDE DEF x
    <2> QED BY <2>1, <2>2, PutIs
  <1>5. Holds(mp_div_2(h, a, c), [v EXCEPT ![c] = Quotient(n, 2)])
    <2> DEFINE x == s_mp_div_2(m)
    <2>1. mp_div_2(h, a, c) = [h EXCEPT ![c] = x]
      BY <1>1, <1>2
    <2>2. Good(x, Quotient(n, 2))
      <3>1. 2 ^ 1 = 2
        OBVIOUS
      <3>2. Good(s_mp_div_2d(m, 1), Quotient(n, 2 ^ 1))
        BY <1>1, GoodShifted
      <3> QED BY <3>1, <3>2 DEF s_mp_div_2
    <2> HIDE DEF x
    <2> QED BY <2>1, <2>2, PutIs
  <1> QED BY <1>4, <1>5 DEF n

\* mp_div_2d, with one result or both, or none.
LEMMA BothPartsAre ==
  ASSUME NEW h, NEW v, Holds(h, v), NEW a \in Regs, NEW q \in OrNull, NEW r \in OrNull,
         NEW d \in Nat, q # r \/ q = Null, q # a \/ r = Null
  PROVE  Holds(mp_div_2d(h, a, d, q, r),
               [s \in Regs |-> IF s = r THEN Remainder(v[a], 2 ^ d)
                               ELSE IF s = q THEN Quotient(v[a], 2 ^ d) ELSE v[s]])
  <1> DEFINE n == v[a]
             x == Quotient(n, 2 ^ d)
             y == Remainder(n, 2 ^ d)
             f == mp_copy(h, a, q)
             g == IF q = Null THEN h ELSE [f EXCEPT ![q] = s_mp_div_2d(f[q], d)]
             w == [s \in Regs |-> IF s = q THEN x ELSE v[s]]
             e == mp_copy(g, a, r)
             k == IF r = Null THEN g ELSE [e EXCEPT ![r] = s_mp_mod_2d(e[r], d)]
             both == [s \in Regs |-> IF s = r THEN y ELSE IF s = q THEN x ELSE v[s]]
  <1>1. mp_div_2d(h, a, d, q, r) = k
    BY DEF mp_div_2d, Update
  <1>2. v \in [Regs -> Int] /\ Null \notin Regs
    BY MpiCallsAssumption DEF Holds
  <1> HIDE DEF n, x, y
  <1>3. Holds(g, w)
    <2>1. CASE q = Null
      <3>1. w = v
        BY <1>2, <2>1
      <3> HIDE DEF w
      <3> QED BY <2>1, <3>1
    <2>2. CASE q # Null
      <3>1. q \in Regs
        BY <2>2 DEF OrNull
      <3>2. Good(f[q], n) /\ \A z : [f EXCEPT ![q] = z] = [h EXCEPT ![q] = z]
        BY <3>1, CopyThen DEF n
      <3> DEFINE m == s_mp_div_2d(f[q], d)
      <3>3. Good(m, x)
        BY <3>2, GoodShifted DEF x
      <3>4. g = [h EXCEPT ![q] = m]
        BY <2>2, <3>2
      <3>5. w = [v EXCEPT ![q] = x]
        BY <1>2, <3>1
      <3> HIDE DEF m, g, w, f
      <3> QED BY <3>1, <3>3, <3>4, <3>5, PutIs
    <2> QED BY <2>1, <2>2
  <1> HIDE DEF g
  <1>4. Holds(k, both)
    <2>1. CASE r = Null
      <3>1. both = w
        BY <1>2, <2>1
      <3> HIDE DEF both, w
      <3> QED BY <1>3, <2>1, <3>1
    <2>2. CASE r # Null
      <3>1. r \in Regs
        BY <2>2 DEF OrNull
      <3>2. w[a] = n
        BY <2>2 DEF n
      <3>3. both = [w EXCEPT ![r] = y]
        BY <1>2, <3>1
      <3> HIDE DEF w, both
      <3>4. Good(e[r], n) /\ \A z : [e EXCEPT ![r] = z] = [g EXCEPT ![r] = z]
        BY <1>3, <3>1, <3>2, CopyThen
      <3> DEFINE m == s_mp_mod_2d(e[r], d)
      <3>5. Good(m, y)
        BY <3>4, GoodShifted DEF y
      <3>6. k = [g EXCEPT ![r] = m]
        BY <2>2, <3>4
      <3> HIDE DEF m, k, e
      <3> QED BY <1>3, <3>1, <3>3, <3>5, <3>6, PutIs
    <2> QED BY <2>1, <2>2
  <1> HIDE DEF k
  <1> QED BY <1>1, <1>4 DEF both, x, y, n

\* mp_div_d, of numbers that are not negative or by powers of two.
LEMMA DigitQuotientIs ==
  ASSUME NEW h, NEW v, Holds(h, v), NEW a \in Regs, NEW c \in Regs, NEW d \in Digit, d # 0,
         v[a] >= 0 \/ s_mp_ispow2d(d) >= 0
  PROVE  Holds(mp_div_d(h, a, d, c).h, [v EXCEPT ![c] = Quotient(v[a], d)])
  <1> DEFINE pow == s_mp_ispow2d(d)
             n == v[a]
             f == mp_copy(h, a, c)
             k == mp_div_d(h, a, d, c).h
  <1>1. d \in Nat /\ d > 0
    BY RadixIs
  <1>2. Good(h[a], n)
    BY DEF Holds
  <1>3. CASE pow >= 0
    <2>1. pow \in Nat /\ d = 2 ^ pow
      <3>1. \E i \in 0 .. DigitBit - 1 : d = 2 ^ i
        BY <1>3 DEF s_mp_ispow2d
      <3>2. pow = CHOOSE i \in 0 .. DigitBit - 1 : d = 2 ^ i
        BY <3>1 DEF s_mp_ispow2d
      <3> HIDE DEF pow
      <3>3. pow \in 0 .. DigitBit - 1 /\ d = 2 ^ pow
        BY <3>1, <3>2
      <3>4. DigitBit \in Nat
        BY MpiAssumption
      <3> QED BY <3>3, <3>4
    <2> HIDE DEF pow
    <2>2. k = [f EXCEPT ![c] = s_mp_div_2d(f[c], pow)]
      BY <1>3 DEF mp_div_d, Update, pow
    <2>3. Good(f[c], n) /\ \A z : [f EXCEPT ![c] = z] = [h EXCEPT ![c] = z]
      BY CopyThen
    <2> DEFINE m == s_mp_div_2d(f[c], pow)
    <2> HIDE DEF k, f, n
    <2>4. Good(m, Quotient(n, d))
      BY <2>1, <2>3, GoodShifted
    <2>5. k = [h EXCEPT ![c] = m]
      BY <2>2, <2>3
    <2> HIDE DEF m
    <2> QED BY <2>4, <2>5, PutIs DEF k, n
  <1>4. CASE ~ pow >= 0
    <2> DEFINE m == s_mp_div_d(h[a], d).q
               b == Magn(n) \div d
    <2>1. k = [h EXCEPT ![c] = m]
      BY <1>4 DEF mp_div_d, Put
    <2>2. /\ Tidy(h[a]) /\ n \in Int /\ Above(h[a], 0) = Magn(n)
      BY <1>2, GoodFacts
    <2>3. n >= 0
      BY <1>4
    <2> HIDE DEF n, k
    <2>4. Tidy(m) /\ Top(m) /\ Above(m, 0) = b /\ m.sign = ZPOS
      BY <1>1, <2>2, DividedByDigitIs
    <2>5. b \in Nat /\ Quotient(n, d) = Sgn(n) * b /\ (n = 0 => b = 0)
      BY <1>1, <2>2, ByPositive
    <2> HIDE DEF m, b
    <2>6. Good(m, Quotient(n, d))
      <3>1. ~ n < 0
        BY <2>2, <2>3
      <3>2. Good(m, Sgn(n) * b)
        BY <2>2, <2>4, <2>5, <3>1, WithSignOf
      <3> QED BY <2>5, <3>2
    <2> QED BY <2>1, <2>6, PutIs DEF k, n
  <1> QED BY <1>3, <1>4
=============================================================================
