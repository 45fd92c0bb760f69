------------------------- MODULE MpiDivisionProofs -------------------------
(***************************************************************************)
(* Long division, squaring, and arithmetic modulo a number.                *)
(***************************************************************************)
EXTENDS MpiProofs

\* A loop of N turns that begins with s and goes from state to state: turn n leads from
\* S[n - 1] to S[n].
Turning(N, U, S, s, step) ==
    /\ N \in Nat /\ s \in S[0]
    /\ \A n \in 0 .. N : S[n] \subseteq U
    /\ \A n \in 1 .. N : \A x \in S[n - 1] : step[n][x] \in S[n]

Turned(f, N, U, S, s, step) ==
    /\ f \in [0 .. N -> U] /\ f[0] = s
    /\ \A n \in 1 .. N : f[n] = step[n][f[n - 1]] /\ f[n - 1] \in S[n - 1]

LEMMA LoopRuns ==
  ASSUME NEW N, NEW U, NEW S, NEW s, NEW step, Turning(N, U, S, s, step)
  PROVE  \E f : Turned(f, N, U, S, s, step)
  <1> DEFINE Runs(f, k) == /\ f[0] = s
                           /\ \A i \in 1 .. k : f[i] = step[i][f[i - 1]]
                           /\ \A i \in 0 .. k : f[i] \in S[i]
             P == {k \in 0 .. N : \E f : Runs(f, k)}
  <1>0. /\ N \in Nat /\ s \in S[0]
        /\ \A n \in 0 .. N : S[n] \subseteq U
        /\ \A n \in 1 .. N : \A x \in S[n - 1] : step[n][x] \in S[n]
    BY DEF Turning
  <1>1. 0 \in P
    <2> DEFINE f == [i \in 0 .. 0 |-> s]
    <2>1. Runs(f, 0) /\ 0 \in 0 .. N
      BY <1>0
    <2> HIDE DEF f
    <2> QED BY <2>1
  <1>2. \A k \in 1 .. N : k - 1 \in P => k \in P
    <2> SUFFICES ASSUME NEW k \in 1 .. N, NEW f, Runs(f, k - 1)
                 PROVE  \E g : Runs(g, k)
      OBVIOUS
    <2> DEFINE g == [i \in 0 .. k |-> IF i < k THEN f[i] ELSE step[k][f[k - 1]]]
    <2>0. k \in Nat /\ k > 0
      BY <1>0
    <2>1. g[0] = s
      BY <2>0
    <2>2. ASSUME NEW i \in 1 .. k
          PROVE  g[i] = step[i][g[i - 1]]
      <3>1. i \in 0 .. k /\ i - 1 \in 0 .. k /\ i - 1 < k
        OBVIOUS
      <3>2. g[i - 1] = f[i - 1]
        BY <3>1
      <3>3. CASE i < k
        <4>1. i \in 1 .. k - 1 /\ g[i] = f[i]
          BY <2>0, <3>1, <3>3
        <4> QED BY <3>2, <4>1
      <3>4. CASE i = k
        BY <3>1, <3>2, <3>4
      <3> QED BY <3>3, <3>4
    <2>3. ASSUME NEW i \in 0 .. k
          PROVE  g[i] \in S[i]
      <3>1. CASE i < k
        <4>1. i \in 0 .. k - 1 /\ g[i] = f[i]
          BY <2>0, <3>1
        <4> QED BY <4>1
      <3>2. CASE i = k
        <4>1. k - 1 \in 0 .. k - 1 /\ g[i] = step[k][f[k - 1]]
          BY <2>0, <3>2
        <4>2. f[k - 1] \in S[k - 1]
          BY <4>1
        <4> QED BY <1>0, <3>2, <4>1, <4>2
      <3> QED BY <2>0, <3>1, <3>2
    <2> HIDE DEF g
    <2> QED BY <2>1, <2>2, <2>3
  <1> HIDE DEF P
  <1>3. N \in P
    BY <1>0, <1>1, <1>2, Upwards
  <1>4. PICK f : Runs(f, N)
    BY <1>3 DEF P
  <1> DEFINE g == [i \in 0 .. N |-> f[i]]
  <1>5. g \in [0 .. N -> U]
    BY <1>0, <1>4
  <1>6. g[0] = s /\ \A n \in 1 .. N : g[n] = step[n][g[n - 1]] /\ g[n - 1] \in S[n - 1]
    <2> SUFFICES ASSUME NEW n \in 1 .. N
                 PROVE  f[n] = step[n][g[n - 1]] /\ g[n - 1] \in S[n - 1]
      BY <1>0, <1>4
    <2>1. n - 1 \in 0 .. N
      BY <1>0
    <2> QED BY <1>4, <2>1
  <1> HIDE DEF g
  <1>7. Turned(g, N, U, S, s, step)
    BY <1>5, <1>6 DEF Turned
  <1> QED BY <1>7

\* It stays in them.
LEMMA LoopStays ==
  ASSUME NEW N \in Nat, NEW S, NEW f, f[0] \in S[0],
         \A n \in 1 .. N : f[n - 1] \in S[n - 1] => f[n] \in S[n]
  PROVE  f[N] \in S[N]
  <1> DEFINE P == {n \in 0 .. N : f[n] \in S[n]}
  <1>1. 0 \in P
    OBVIOUS
  <1>2. \A n \in 1 .. N : n - 1 \in P => n \in P
    OBVIOUS
  <1> HIDE DEF P
  <1>3. \A n \in 0 .. N : n \in P
    BY <1>1, <1>2, Upwards
  <1> QED BY <1>3 DEF P

-----------------------------------------------------------------------------
(* Digits and the powers of the radix.                                     *)

\* RADIX^p.
Pow(p) == 2 ^ (DigitBit * p)

LEMMA PowIs ==
  /\ Pow(0) = 1
  /\ \A p \in Nat : Pow(p) \in Nat /\ Pow(p) > 0 /\ Pow(p + 1) = RADIX * Pow(p)
  /\ \A p, q \in Nat : Pow(p + q) = Pow(p) * Pow(q)
  <1>1. DigitBit \in Nat
    BY MpiAssumption
  <1>2. \A x, p, q \in Nat : x * p \in Nat /\ x * (p + q) = x * p + x * q /\ x * 1 = x /\ x * 0 = 0
    OBVIOUS
  <1>3. Pow(0) = 1
    <2>1. DigitBit * 0 = 0 /\ 2 ^ 0 = 1
      BY <1>1
    <2> QED BY <2>1 DEF Pow
  <1>4. \A p, q \in Nat : Pow(p + q) = Pow(p) * Pow(q)
    <2> SUFFICES ASSUME NEW p \in Nat, NEW q \in Nat PROVE Pow(p + q) = Pow(p) * Pow(q)
      OBVIOUS
    <2>1. DigitBit * (p + q) = DigitBit * p + DigitBit * q
      BY <1>1, <1>2
    <2>2. DigitBit * p \in Nat /\ DigitBit * q \in Nat
      BY <1>1, <1>2
    <2>3. 2 ^ (DigitBit * p + DigitBit * q) = 2 ^ (DigitBit * p) * 2 ^ (DigitBit * q)
      BY <2>2, TwoSums
    <2> QED BY <2>1, <2>3 DEF Pow
  <1>5. ASSUME NEW p \in Nat
        PROVE  Pow(p) \in Nat /\ Pow(p) > 0
    <2>1. DigitBit * p \in Nat
      BY <1>1, <1>2
    <2> QED BY <2>1, TwoTo DEF Pow
  <1>6. Pow(1) = RADIX
    <2>1. DigitBit * 1 = DigitBit
      BY <1>1
    <2> QED BY <2>1 DEF Pow, RADIX
  <1>7. \A p \in Nat : Pow(p + 1) = RADIX * Pow(p)
    <2> SUFFICES ASSUME NEW p \in Nat PROVE Pow(p + 1) = RADIX * Pow(p)
      OBVIOUS
    <2>1. Pow(p + 1) = Pow(p) * RADIX
      BY <1>4, <1>6
    <2>2. \A x, y \in Nat : x * y = y * x
      OBVIOUS
    <2> QED BY <1>5, <2>1, <2>2, RadixIs
  <1> QED BY <1>3, <1>4, <1>5, <1>7

\* They grow.
LEMMA PowGrows ==
  ASSUME NEW p \in Nat, NEW q \in Nat, p <= q
  PROVE  Pow(p) <= Pow(q)
  <1>1. q - p \in Nat /\ p + (q - p) = q
    OBVIOUS
  <1>2. Pow(q) = Pow(p) * Pow(q - p)
    BY <1>1, PowIs
  <1>3. \A x, y \in Nat : y > 0 => x <= x * y
    OBVIOUS
  <1> QED BY <1>1, <1>2, <1>3, PowIs

\* A number is what its digits from p up are worth, and something less than RADIX^p.
LEMMA CutAt ==
  ASSUME NEW k \in Nat, NEW m \in Mp(k), NEW p \in Nat
  PROVE  \E low \in Nat : low < Pow(p) /\ Above(m, 0) = low + Pow(p) * Above(m, p)
  <1>1. \A i \in Nat : i < p => DigitOf(m, i) = DigitOf(m, i)
    OBVIOUS
  <1> QED BY <1>1, LowAlike DEF Pow

\* Numbers with the same digits below p are cut alike.
AlikeBelow(m, r, p) == \A i \in Nat : i < p => DigitOf(r, i) = DigitOf(m, i)

LEMMA CutBoth ==
  ASSUME NEW k \in Nat, NEW m \in Mp(k), NEW l \in Nat, NEW r \in Mp(l), NEW p \in Nat,
         AlikeBelow(m, r, p)
  PROVE  \E low \in Nat : /\ Above(m, 0) = low + Pow(p) * Above(m, p)
                          /\ Above(r, 0) = low + Pow(p) * Above(r, p)
  <1>1. \A i \in Nat : i < p => DigitOf(r, i) = DigitOf(m, i)
    BY DEF AlikeBelow
  <1> QED BY <1>1, LowAlike DEF Pow

\* The digits from p up, by division.
LEMMA AboveIs ==
  ASSUME NEW k \in Nat, NEW m \in Mp(k), NEW p \in Nat
  PROVE  Above(m, p) = Above(m, 0) \div Pow(p)
  <1>1. PICK low \in Nat : low < Pow(p) /\ Above(m, 0) = low + Pow(p) * Above(m, p)
    BY CutAt
  <1>2. Above(m, p) \in Nat /\ Pow(p) \in Nat /\ Pow(p) > 0
    BY AboveFacts, PowIs
  <1> DEFINE P == Pow(p)
             x == Above(m, p)
  <1>3. Above(m, 0) = P * x + low
    <2>1. \A y, z \in Nat : y * z \in Nat
      OBVIOUS
    <2>2. P * x \in Nat
      BY <1>2, <2>1
    <2> QED BY <1>1, <2>2
  <1> HIDE DEF P, x
  <1> QED BY <1>1, <1>2, <1>3, Divides DEF P, x

\* The leading digit is all there is from its place up.
LEMMA LeadingIs ==
  ASSUME NEW k \in Nat, NEW m \in Mp(k)
  PROVE  /\ m.used - 1 \in Nat /\ m.dp[m.used - 1] \in Nat /\ m.dp[m.used - 1] < RADIX
         /\ Above(m, m.used - 1) = m.dp[m.used - 1] /\ Above(m, 0) < Pow(m.used)
         /\ Top(m) /\ Above(m, 0) > 0 => m.dp[m.used - 1] > 0
  <1> DEFINE u == m.used
  <1>1. u \in Nat /\ u > 0 /\ u \in 1 .. k /\ m.dp \in [0 .. k - 1 -> Digit]
    BY MpFacts, AboveFacts
  <1>2. u - 1 \in Nat /\ (u - 1) + 1 = u /\ u - 1 \in 0 .. k - 1 /\ u - 1 < u
    BY <1>1
  <1>3. m.dp[u - 1] \in Nat /\ m.dp[u - 1] < RADIX
    <2>1. m.dp[u - 1] \in Digit
      BY <1>1, <1>2
    <2> HIDE DEF u
    <2> QED BY <2>1, RadixIs DEF Digit
  <1>4. Above(m, u) = 0
    <2>1. \A i \in Nat : i >= m.used => Above(m, i) = 0
      BY AboveFacts
    <2> QED BY <1>1, <2>1
  <1>5. Above(m, u - 1) = m.dp[u - 1]
    <2>1. Above(m, u - 1) = DigitOf(m, u - 1) + RADIX * Above(m, (u - 1) + 1)
      BY <1>2, AboveUnfolds
    <2>2. DigitOf(m, u - 1) = m.dp[u - 1]
      BY <1>2 DEF DigitOf
    <2> HIDE DEF u
    <2> QED BY <1>2, <1>3, <1>4, <2>1, <2>2, RadixIs
  <1>6. Above(m, 0) < Pow(u)
    <2> HIDE DEF u
    <2>1. PICK low \in Nat : low < Pow(u) /\ Above(m, 0) = low + Pow(u) * Above(m, u)
      BY <1>1, CutAt
    <2>2. Pow(u) \in Nat /\ Pow(u) * 0 = 0
      <3>1. \A x \in Nat : x * 0 = 0
        OBVIOUS
      <3> QED BY <1>1, <3>1, PowIs
    <2> QED BY <1>4, <2>1, <2>2
  <1>7. ASSUME Top(m), Above(m, 0) > 0
        PROVE  m.dp[u - 1] > 0
    <2>1. CASE u > 1
      BY <1>3, <1>7, <2>1 DEF Top
    <2>2. CASE u = 1
      BY <1>5, <1>7, <2>2
    <2> QED BY <1>1, <2>1, <2>2
  <1> QED BY <1>2, <1>3, <1>5, <1>6, <1>7

\* A number of u + 1 digits at least is as much as RADIX^u.
LEMMA LongIs ==
  ASSUME NEW k \in Nat, NEW m \in Mp(k), Top(m), Above(m, 0) > 0, NEW u \in Nat, m.used > u
  PROVE  Above(m, 0) >= Pow(u)
  <1> DEFINE v == m.used - 1
             lead == m.dp[v]
  <1>1. /\ v \in Nat /\ lead \in Nat /\ lead > 0 /\ Above(m, v) = lead
    BY LeadingIs
  <1>2. u <= v
    <2>1. m.used \in Nat
      BY AboveFacts
    <2> QED BY <2>1
  <1> HIDE DEF v, lead
  <1>3. PICK low \in Nat : low < Pow(v) /\ Above(m, 0) = low + Pow(v) * lead
    BY <1>1, CutAt
  <1>4. Pow(u) <= Pow(v) /\ Pow(u) \in Nat /\ Pow(v) \in Nat
    BY <1>1, <1>2, PowGrows, PowIs
  <1>5. \A x, y \in Nat : y > 0 => x <= x * y /\ x * y \in Nat
    OBVIOUS
  <1>6. Pow(v) <= Pow(v) * lead /\ Pow(v) * lead \in Nat
    BY <1>1, <1>4, <1>5
  <1> QED BY <1>3, <1>4, <1>6

-----------------------------------------------------------------------------
(* Long division.                                                          *)

\* The leading digit is at least half the radix.
Normal(b) == b.dp[b.used - 1] + b.dp[b.used - 1] >= RADIX

LEMMA HalfOfRadix ==
  LET H == 2 ^ (DigitBit - 1) IN H \in Nat /\ H > 0 /\ RADIX = H + H /\ RADIX \div 2 = H
  <1> DEFINE H == 2 ^ (DigitBit - 1)
  <1>1. H \in Nat /\ H > 0 /\ RADIX = H + H
    BY HalfIs
  <1> HIDE DEF H
  <1>2. RADIX \div 2 = H
    BY <1>1
  <1> QED BY <1>1, <1>2 DEF H

\* The shift that s_mp_norm finds is there.
LEMMA NormIs ==
  ASSUME NEW b, NEW lead \in Nat, lead = b.dp[b.used - 1], lead > 0, lead < RADIX,
         NEW d, d = s_mp_norm(b)
  PROVE  /\ d \in 0 .. DigitBit - 1 /\ d \in Nat /\ 2 ^ d \in Nat /\ 2 ^ d > 0
         /\ lead * 2 ^ d + lead * 2 ^ d >= RADIX /\ lead * 2 ^ d < RADIX
  <1> DEFINE H == 2 ^ (DigitBit - 1)
             T == {e \in 0 .. DigitBit - 1 : lead * 2 ^ e >= RADIX \div 2}
  <1>1. H \in Nat /\ H > 0 /\ RADIX = H + H /\ RADIX \div 2 = H
    BY HalfOfRadix
  <1>2. DigitBit \in Nat /\ DigitBit > 0
    BY MpiAssumption
  <1>3. DigitBit - 1 \in T
    <2>1. lead * H >= H
      <3> HIDE DEF H
      <3>1. \A x, y \in Nat : x > 0 => x * y >= y
        OBVIOUS
      <3> QED BY <1>1, <3>1
    <2> HIDE DEF H
    <2>2. lead * H >= RADIX \div 2
      BY <1>1, <2>1
    <2>3. DigitBit - 1 \in 0 .. DigitBit - 1
      BY <1>2
    <2>4. lead * 2 ^ (DigitBit - 1) >= RADIX \div 2
      BY <2>2 DEF H
    <2> QED BY <2>3, <2>4
  <1>4. d = Min(T)
    BY DEF s_mp_norm
  <1>5. PICK x \in T : \A y \in T : x <= y
    <2>1. \A e \in 0 .. DigitBit - 1 : e \in Nat
      BY <1>2
    <2>2. T \in SUBSET Nat
      BY <2>1
    <2> HIDE DEF T
    <2> QED BY <1>3, <2>2, Least
  <1>6. d \in T /\ \A y \in T : d <= y
    <2> HIDE DEF T
    <2> QED BY <1>4, <1>5 DEF Min
  <1>7. d \in 0 .. DigitBit - 1 /\ d \in Nat /\ lead * 2 ^ d >= H
    <2> HIDE DEF H
    <2> QED BY <1>1, <1>2, <1>6
  <1>8. 2 ^ d \in Nat /\ 2 ^ d > 0
    BY <1>7, TwoTo
  <1>9. lead * 2 ^ d < RADIX
    <2>1. CASE d = 0
      <3>1. 2 ^ d = 1 /\ lead * 1 = lead
        BY <2>1
      <3> QED BY <3>1
    <2>2. CASE d # 0
      <3> DEFINE e == d - 1
      <3>1. e \in Nat /\ e + 1 = d /\ e \in 0 .. DigitBit - 1 /\ ~ d <= e
        BY <1>2, <1>7, <2>2
      <3>2. e \notin T
        BY <1>6, <3>1
      <3>3. 2 ^ e \in Nat /\ 2 ^ d = 2 ^ e + 2 ^ e
        BY <3>1, TwoTo
      <3> HIDE DEF e
      <3>4. ~ lead * 2 ^ e >= H
        BY <1>1, <3>1, <3>2
      <3>5. lead * 2 ^ d = lead * 2 ^ e + lead * 2 ^ e /\ lead * 2 ^ e \in Nat
        <4>1. \A u, w \in Nat : u * (w + w) = u * w + u * w /\ u * w \in Nat
          OBVIOUS
        <4> QED BY <3>3, <4>1
      <3> HIDE DEF H
      <3> QED BY <1>1, <3>4, <3>5
    <2> QED BY <2>1, <2>2
  <1>10. lead * 2 ^ d \in Nat
    <2>1. \A u, w \in Nat : u * w \in Nat
      OBVIOUS
    <2> QED BY <1>8, <2>1
  <1> HIDE DEF H
  <1> QED BY <1>1, <1>7, <1>8, <1>9, <1>10

\* A number between x and RADIX times RADIX^p has p + 1 digits, the first at least x.
LEMMA SizeIs ==
  ASSUME NEW k \in Nat, NEW m \in Mp(k), Top(m), NEW p \in Nat, NEW x \in Nat, x > 0,
         x * Pow(p) <= Above(m, 0), Above(m, 0) < RADIX * Pow(p)
  PROVE  m.used = p + 1 /\ m.dp[m.used - 1] >= x
  <1>1. /\ m.used \in Nat /\ m.used > 0 /\ Above(m, 0) \in Nat /\ Above(m, p) \in Nat
        /\ \A i \in Nat : i >= m.used => Above(m, i) = 0
    BY AboveFacts
  <1>2. Pow(p) \in Nat /\ Pow(p) > 0 /\ Pow(p + 1) = RADIX * Pow(p) /\ p + 1 \in Nat
    BY PowIs
  <1>3. PICK low \in Nat : low < Pow(p) /\ Above(m, 0) = low + Pow(p) * Above(m, p)
    BY CutAt
  <1>4. Above(m, p) >= x
    <2>1. \A P, l, y, z \in Nat : l < P /\ z * P <= l + P * y => y >= z
      <3> SUFFICES ASSUME NEW P \in Nat, NEW l \in Nat, NEW y \in Nat, NEW z \in Nat,
                          l < P, z * P <= l + P * y, ~ y >= z
                   PROVE  FALSE
        OBVIOUS
      <3>1. z = y + 1 + (z - y - 1) /\ z - y - 1 \in Nat
        OBVIOUS
      <3>2. \A u \in Nat : (y + 1 + u) * P = P * y + P + u * P /\ u * P \in Nat
        OBVIOUS
      <3>3. P * y \in Nat
        OBVIOUS
      <3>4. z * P >= P * y + P
        BY <3>1, <3>2, <3>3
      <3> QED BY <3>3, <3>4
    <2> QED BY <1>1, <1>2, <1>3, <2>1
  <1>5. m.used > p
    <2> SUFFICES ASSUME ~ m.used > p PROVE FALSE
      OBVIOUS
    <2>1. Above(m, p) = 0
      BY <1>1
    <2> QED BY <1>4, <2>1
  <1>6. Above(m, 0) > 0
    <2>1. \A y, z \in Nat : y > 0 /\ z > 0 => y * z > 0 /\ y * z \in Nat
      OBVIOUS
    <2> QED BY <1>1, <1>2, <2>1
  <1>7. ~ m.used > p + 1
    <2> SUFFICES ASSUME m.used > p + 1 PROVE FALSE
      OBVIOUS
    <2>1. Above(m, 0) >= Pow(p + 1)
      BY <1>2, <1>6, LongIs
    <2> DEFINE R == RADIX * Pow(p)
    <2>2. R \in Nat /\ Above(m, 0) < R /\ Above(m, 0) >= R
      BY <1>2, <2>1, RadixIs
    <2> HIDE DEF R
    <2> QED BY <1>1, <2>2
  <1>8. m.used = p + 1 /\ m.used - 1 = p
    BY <1>1, <1>5, <1>7
  <1>9. Above(m, p) = m.dp[m.used - 1]
    BY <1>8, LeadingIs
  <1> QED BY <1>4, <1>8, <1>9

\* A divisor in normal form: of the same length, the leading digit at least half the radix.
LEMMA NormalizedIs ==
  ASSUME NEW b, Tidy(b), Top(b), Above(b, 0) > 0, NEW d, d = s_mp_norm(b),
         NEW r, r = IF d = 0 THEN b ELSE s_mp_mul_2d(b, d)
  PROVE  /\ Tidy(r) /\ Top(r) /\ Normal(r) /\ Above(r, 0) = Above(b, 0) * 2 ^ d
         /\ d \in Nat /\ 2 ^ d \in Nat /\ 2 ^ d > 0
  <1> DEFINE u == b.used - 1
             lead == b.dp[u]
             B == Above(b, 0)
  <1>1. b.alloc \in Nat /\ b \in Mp(b.alloc) /\ B \in Nat
    BY TidyAbove
  <1>2. u \in Nat /\ lead \in Nat /\ lead < RADIX /\ lead > 0 /\ Above(b, u) = lead
    BY <1>1, LeadingIs
  <1>3. /\ d \in 0 .. DigitBit - 1 /\ d \in Nat /\ 2 ^ d \in Nat /\ 2 ^ d > 0
        /\ lead * 2 ^ d + lead * 2 ^ d >= RADIX /\ lead * 2 ^ d < RADIX
    <2>1. lead = b.dp[b.used - 1]
      OBVIOUS
    <2> HIDE DEF lead
    <2> QED BY <1>2, <2>1, NormIs
  <1>4. CASE d = 0
    <2>1. r = b /\ 2 ^ d = 1
      BY <1>4
    <2>2. B = B * 2 ^ d /\ lead * 2 ^ d = lead
      <3>1. \A x \in Nat : x * 1 = x
        OBVIOUS
      <3> HIDE DEF B, lead
      <3> QED BY <1>1, <1>2, <2>1, <3>1
    <2>3. Normal(r)
      BY <1>3, <2>1, <2>2 DEF Normal
    <2> QED BY <1>3, <2>1, <2>2, <2>3
  <1>5. CASE d # 0
    <2>1. r = s_mp_mul_2d(b, d)
      BY <1>5
    <2>2. Tidy(r) /\ Top(r) /\ Above(r, 0) = B * 2 ^ d
      BY <1>3, <2>1, ShiftedUpIs
    <2>3. PICK low \in Nat : low < Pow(u) /\ B = low + Pow(u) * lead
      BY <1>1, <1>2, CutAt
    <2>4. Pow(u) \in Nat /\ Pow(u) > 0
      BY <1>2, PowIs
    <2> DEFINE P == Pow(u)
               D == 2 ^ d
               C == 2 ^ (DigitBit - d)
               x == lead * D
    <2>5. C \in Nat /\ D * C = RADIX
      <3>1. d \in 0 .. DigitBit
        BY <1>3, MpiAssumption
      <3> QED BY <3>1, Parts
    <2>6. P \in Nat /\ D \in Nat /\ D > 0 /\ P > 0 /\ low < P /\ B = low + P * lead
      BY <1>3, <2>3, <2>4
    <2>7. x < RADIX /\ x + x >= RADIX
      BY <1>3
    <2> HIDE DEF B, lead, P, D, C
    <2>8. x \in Nat /\ x > 0
      <3>1. \A y, z \in Nat : y > 0 /\ z > 0 => y * z > 0 /\ y * z \in Nat
        OBVIOUS
      <3> QED BY <1>2, <2>6, <3>1
    <2>9. x * P <= B * D
      <3>1. \A y, z, w, v \in Nat : (v + y * z) * w = v * w + (z * w) * y /\ v * w \in Nat
        OBVIOUS
      <3>2. B * D = low * D + x * P /\ low * D \in Nat
        BY <1>2, <2>6, <3>1
      <3>3. x * P \in Nat
        <4>1. \A y, z \in Nat : y * z \in Nat
          OBVIOUS
        <4> HIDE DEF x
        <4> QED BY <2>6, <2>8, <4>1
      <3> HIDE DEF x
      <3> QED BY <3>2, <3>3
    <2>10. B * D < RADIX * P
      <3>1. lead + 1 <= C
        <4>1. \A y, z, w \in Nat : z > 0 /\ y * z < z * w => y + 1 <= w
          <5> SUFFICES ASSUME NEW y \in Nat, NEW z \in Nat, NEW w \in Nat, z > 0,
                              y * z < z * w, ~ y + 1 <= w
                       PROVE  FALSE
            OBVIOUS
          <5>1. y = w + (y - w) /\ y - w \in Nat
            OBVIOUS
          <5>2. \A v \in Nat : (w + v) * z = z * w + v * z /\ v * z \in Nat
            OBVIOUS
          <5> QED BY <5>1, <5>2
        <4> QED BY <1>2, <2>5, <2>6, <2>7, <4>1
      <3>2. B + 1 <= P * C
        <4>1. C = lead + 1 + (C - lead - 1) /\ C - lead - 1 \in Nat
          BY <1>2, <2>5, <3>1
        <4>2. \A y, v, z \in Nat : z * (y + 1 + v) = z * y + z + z * v /\ z * v \in Nat /\ z * y \in Nat
          OBVIOUS
        <4>3. P * C >= P * lead + P
          BY <1>2, <2>6, <4>1, <4>2
        <4>4. P * lead \in Nat /\ P * C \in Nat
          BY <1>2, <2>5, <2>6, <4>2
        <4> QED BY <2>6, <4>3, <4>4
      <3>3. \A y, z, w \in Nat : w > 0 /\ y + 1 <= z => y * w < z * w
        <4> SUFFICES ASSUME NEW y \in Nat, NEW z \in Nat, NEW w \in Nat, w > 0, y + 1 <= z
                     PROVE  y * w < z * w
          OBVIOUS
        <4>1. z = y + 1 + (z - y - 1) /\ z - y - 1 \in Nat
          OBVIOUS
        <4>2. \A v \in Nat : (y + 1 + v) * w = y * w + w + v * w /\ v * w \in Nat /\ y * w \in Nat
          OBVIOUS
        <4> QED BY <4>1, <4>2
      <3>4. P * C \in Nat /\ (P * C) * D = (D * C) * P
        <4>1. \A y, z, w \in Nat : y * z \in Nat /\ (y * z) * w = (w * z) * y
          OBVIOUS
        <4> QED BY <2>5, <2>6, <4>1
      <3>5. B * D < (P * C) * D
        BY <1>1, <2>6, <3>2, <3>3, <3>4 DEF B
      <3> QED BY <2>5, <3>4, <3>5
    <2>11. r.alloc \in Nat /\ r \in Mp(r.alloc)
      BY <2>2, TidyAbove
    <2>12. r.dp[r.used - 1] >= x
      <3>1. Above(r, 0) = B * D
        BY <2>2 DEF D, B
      <3> HIDE DEF x
      <3> QED BY <1>2, <2>2, <2>8, <2>9, <2>10, <2>11, <3>1, SizeIs DEF P
    <2>13. r.dp[r.used - 1] \in Nat
      BY <2>11, LeadingIs
    <2>14. Normal(r)
      <3> HIDE DEF x
      <3> QED BY <2>7, <2>8, <2>12, <2>13, RadixIs DEF Normal
    <2> QED BY <1>3, <2>2, <2>14 DEF B
  <1> QED BY <1>4, <1>5

\* Products keep an order.
LEMMA ProductsOrdered ==
  ASSUME NEW x \in Nat, NEW y \in Nat, x <= y, NEW z \in Nat
  PROVE  x * z <= y * z /\ x * z \in Nat /\ y * z \in Nat
  <1>1. y = x + (y - x) /\ y - x \in Nat
    OBVIOUS
  <1>2. \A v \in Nat : (x + v) * z = x * z + v * z /\ v * z \in Nat /\ x * z \in Nat
    OBVIOUS
  <1> QED BY <1>1, <1>2

\* A quotient of leading digits covers the quotient: T are the leading digits of R, and
\* lead those of B.
LEMMA Covers ==
  ASSUME NEW R \in Nat, NEW B \in Nat, NEW P \in Nat, NEW T \in Nat, NEW lead \in Nat,
         lead > 0, R < P * (T + 1), P * lead <= B, NEW q, q = T \div lead
  PROVE  q \in Nat /\ R < (q + 1) * B
  <1>1. q \in Nat /\ T + 1 <= (q + 1) * lead
    <2> DEFINE v == T % lead
    <2>1. q \in Nat /\ v \in Nat /\ v < lead /\ T = lead * q + v
      OBVIOUS
    <2> HIDE DEF v
    <2>2. (q + 1) * lead = lead * q + lead /\ lead * q \in Nat
      BY <2>1
    <2> QED BY <2>1, <2>2
  <1>2. (q + 1) * lead \in Nat /\ q + 1 \in Nat /\ T + 1 \in Nat
    BY <1>1
  <1>3. (T + 1) * P <= ((q + 1) * lead) * P
    BY <1>1, <1>2, ProductsOrdered
  <1>4. (P * lead) * (q + 1) <= B * (q + 1)
    <2>1. P * lead \in Nat
      OBVIOUS
    <2> QED BY <1>2, <2>1, ProductsOrdered
  <1>5. /\ (T + 1) * P = P * (T + 1)
        /\ ((q + 1) * lead) * P = (P * lead) * (q + 1) /\ B * (q + 1) = (q + 1) * B
    <2>1. \A x, y, z \in Nat : x * y = y * x /\ (x * y) * z = (z * y) * x
      OBVIOUS
    <2> QED BY <1>2, <2>1
  <1>6. P * (T + 1) \in Nat /\ (P * lead) * (q + 1) \in Nat /\ (q + 1) * B \in Nat
    <2>1. \A x, y \in Nat : x * y \in Nat
      OBVIOUS
    <2> QED BY <1>2, <2>1
  <1>7. P * (T + 1) <= (P * lead) * (q + 1) /\ (P * lead) * (q + 1) <= (q + 1) * B
    BY <1>3, <1>4, <1>5
  <1> QED BY <1>1, <1>6, <1>7

\* The guess is never less than the digit of the quotient.
LEMMA GuessIs ==
  ASSUME NEW k \in Nat, NEW rem \in Mp(k), Top(rem), NEW l \in Nat, NEW b \in Mp(l), Top(b),
         Above(b, 0) > 0, Above(b, 0) <= Above(rem, 0), Above(rem, 0) < RADIX * Above(b, 0),
         NEW q, q = Guess(rem, b)
  PROVE  q \in Digit /\ q \in Nat /\ Above(rem, 0) < (q + 1) * Above(b, 0)
  <1> DEFINE R == Above(rem, 0)
             B == Above(b, 0)
             w == rem.used
             u == b.used
             top == rem.dp[w - 1]
             next == rem.dp[w - 2]
             lead == b.dp[u - 1]
             two == top * RADIX + next
             g == IF top <= lead /\ w > 1 THEN two \div lead ELSE top \div lead
  <1>1. R \in Nat /\ B \in Nat /\ R > 0 /\ w \in Nat /\ u \in Nat /\ w > 0 /\ u > 0
    BY AboveFacts
  <1>2. top \in Nat /\ top < RADIX /\ Above(rem, w - 1) = top /\ top > 0 /\ w - 1 \in Nat
    BY <1>1, LeadingIs
  <1>3. lead \in Nat /\ lead < RADIX /\ Above(b, u - 1) = lead /\ lead > 0 /\ u - 1 \in Nat
        /\ B < Pow(u)
    BY LeadingIs
  <1>4. q = Min({g, RADIX - 1})
    BY DEF Guess
  <1>5. PICK lob \in Nat : lob < Pow(u - 1) /\ B = lob + Pow(u - 1) * lead
    BY <1>3, CutAt
  <1>6. PICK lor \in Nat : lor < Pow(w - 1) /\ R = lor + Pow(w - 1) * top
    BY <1>2, CutAt
  <1>7. \A i \in Nat : Pow(i) \in Nat /\ Pow(i) > 0 /\ Pow(i + 1) = RADIX * Pow(i)
    BY PowIs
  <1>8. \A x, y \in Nat : x * y \in Nat /\ x * (y + 1) = x * y + x
    OBVIOUS
  <1> HIDE DEF R, B, top, lead
  <1>9. Pow(u - 1) * lead \in Nat /\ Pow(u - 1) * lead <= B
    BY <1>3, <1>5, <1>7, <1>8
  <1>10. w <= u + 1
    <2> SUFFICES ASSUME w > u + 1 PROVE FALSE
      BY <1>1
    <2>1. R >= Pow(u + 1)
      BY <1>1, LongIs DEF R
    <2>2. Pow(u + 1) = RADIX * Pow(u) /\ Pow(u) \in Nat
      BY <1>1, <1>7
    <2>3. B * RADIX <= Pow(u) * RADIX
      BY <1>1, <1>3, <2>2, ProductsOrdered, RadixIs
    <2>4. B * RADIX = RADIX * B /\ Pow(u) * RADIX = RADIX * Pow(u)
      <3>1. \A x, y \in Nat : x * y = y * x
        OBVIOUS
      <3> QED BY <1>1, <2>2, <3>1, RadixIs
    <2>5. RADIX * B \in Nat /\ Pow(u + 1) \in Nat
      BY <1>1, <1>7, <1>8, RadixIs
    <2>6. R < RADIX * B
      BY DEF R, B
    <2> QED BY <1>1, <2>1, <2>2, <2>3, <2>4, <2>5, <2>6
  <1>11. g \in Nat /\ R < (g + 1) * B
    <2>1. CASE top <= lead /\ w > 1
      <3>1. w - 2 \in Nat /\ (w - 2) + 1 = w - 1 /\ w - 2 < w /\ w - 2 <= u - 1
        BY <1>1, <1>10, <2>1
      <3>2. next \in Nat /\ Above(rem, w - 2) = two /\ two \in Nat
        <4>1. /\ DigitOf(rem, w - 2) \in Digit
              /\ Above(rem, w - 2) = DigitOf(rem, w - 2) + RADIX * Above(rem, w - 1)
          BY <3>1, AboveUnfolds
        <4>2. DigitOf(rem, w - 2) = next
          BY <3>1 DEF DigitOf
        <4>3. RADIX * top = top * RADIX /\ RADIX * top \in Nat
          <5>1. \A x, y \in Nat : x * y = y * x
            OBVIOUS
          <5> QED BY <1>2, <1>8, <5>1, RadixIs
        <4> HIDE DEF w, next
        <4>4. next \in Nat
          BY <4>1, <4>2, RadixIs
        <4> QED BY <1>2, <4>1, <4>2, <4>3, <4>4
      <3>3. PICK low \in Nat : low < Pow(w - 2) /\ R = low + Pow(w - 2) * two
        BY <3>1, <3>2, CutAt DEF R
      <3> HIDE DEF two, w, u
      <3>4. R < Pow(w - 2) * (two + 1)
        BY <1>7, <1>8, <3>1, <3>2, <3>3
      <3>5. Pow(w - 2) * lead <= B
        <4>1. Pow(w - 2) <= Pow(u - 1)
          BY <1>3, <3>1, PowGrows
        <4>2. Pow(w - 2) * lead <= Pow(u - 1) * lead /\ Pow(w - 2) * lead \in Nat
          BY <1>3, <1>7, <3>1, <4>1, ProductsOrdered
        <4> QED BY <1>1, <1>9, <4>2
      <3>6. g = two \div lead
        BY <2>1
      <3> HIDE DEF g
      <3> DEFINE P == Pow(w - 2)
      <3>7. P \in Nat /\ R < P * (two + 1) /\ P * lead <= B
        BY <1>7, <3>1, <3>4, <3>5
      <3> HIDE DEF P
      <3> QED BY <1>1, <1>3, <3>2, <3>6, <3>7, Covers
    <2>2. CASE ~ (top <= lead /\ w > 1)
      <3>1. w <= u
        <4>1. CASE w = 1
          BY <1>1, <4>1
        <4>2. CASE top > lead
          <5> SUFFICES ASSUME w = u + 1 PROVE FALSE
            BY <1>1, <1>10
          <5>1. w - 1 = u /\ (u - 1) + 1 = u
            BY <1>1
          <5> HIDE DEF w, u
          <5> DEFINE P == Pow(u - 1)
          <5>2. P \in Nat /\ Pow(u) = RADIX * P
            BY <1>3, <1>7, <5>1
          <5>3. R = lor + (RADIX * P) * top
            BY <1>6, <5>1, <5>2
          <5>4. lob < P /\ B = lob + P * lead
            BY <1>5
          <5> HIDE DEF P
          <5>5. B <= P * (lead + 1) /\ P * (lead + 1) \in Nat
            BY <1>3, <1>8, <5>2, <5>4
          <5>6. P * (lead + 1) <= P * top /\ P * top \in Nat
            <6>1. (lead + 1) * P <= top * P /\ lead + 1 \in Nat
              BY <1>2, <1>3, <4>2, <5>2, ProductsOrdered
            <6>2. \A x, y \in Nat : x * y = y * x
              OBVIOUS
            <6> QED BY <1>2, <1>8, <5>2, <6>1, <6>2
          <5>7. B * RADIX <= (P * top) * RADIX
            BY <1>1, <5>5, <5>6, ProductsOrdered, RadixIs
          <5>8. B * RADIX = RADIX * B /\ (P * top) * RADIX = (RADIX * P) * top
            <6>1. \A x, y, z \in Nat : x * y = y * x /\ (x * y) * z = (z * x) * y
              OBVIOUS
            <6> QED BY <1>1, <1>2, <5>2, <6>1, RadixIs
          <5>9. RADIX * B \in Nat /\ (RADIX * P) * top \in Nat
            BY <1>1, <1>2, <1>8, <5>2, RadixIs
          <5>10. R < RADIX * B
            BY DEF R, B
          <5> QED BY <5>3, <5>7, <5>8, <5>9, <5>10
        <4> QED BY <1>1, <1>2, <1>3, <2>2, <4>1, <4>2
      <3>2. g = top \div lead
        BY <2>2
      <3> HIDE DEF g, w, u
      <3>3. R < Pow(w - 1) * (top + 1)
        BY <1>2, <1>6, <1>7, <1>8
      <3>4. Pow(w - 1) * lead <= B
        <4>1. w - 1 <= u - 1
          BY <1>1, <3>1
        <4>2. Pow(w - 1) <= Pow(u - 1)
          BY <1>2, <1>3, <4>1, PowGrows
        <4>3. Pow(w - 1) * lead <= Pow(u - 1) * lead /\ Pow(w - 1) * lead \in Nat
          BY <1>2, <1>3, <1>7, <4>2, ProductsOrdered
        <4> QED BY <1>1, <1>9, <4>3
      <3> DEFINE P == Pow(w - 1)
      <3>5. P \in Nat /\ R < P * (top + 1) /\ P * lead <= B
        BY <1>2, <1>7, <3>3, <3>4
      <3> HIDE DEF P
      <3> QED BY <1>1, <1>2, <1>3, <3>2, <3>5, Covers
    <2> QED BY <2>1, <2>2
  <1> HIDE DEF g
  <1>12. q \in {g, RADIX - 1} /\ q <= g /\ q <= RADIX - 1
    <2>1. \E x \in {g, RADIX - 1} : \A y \in {g, RADIX - 1} : x <= y
      BY <1>11, RadixIs
    <2> QED BY <1>4, <2>1 DEF Min
  <1>13. q \in Nat /\ q \in Digit
    BY <1>11, <1>12, RadixIs DEF Digit
  <1>14. R < (q + 1) * B
    <2>1. CASE q = g
      BY <1>11, <2>1
    <2>2. CASE q = RADIX - 1
      <3>1. q + 1 = RADIX
        BY <2>2, RadixIs
      <3> QED BY <3>1 DEF R, B
    <2> QED BY <1>12, <2>1, <2>2
  <1> QED BY <1>13, <1>14 DEF R, B

\* mp_copy gives the digits of the number in whatever storage there is.
LEMMA CopyIntoSame ==
  ASSUME NEW m, Tidy(m), Top(m), NEW to, Tidy(to), NEW r, r = CopyInto(m, to)
  PROVE  /\ Tidy(r) /\ Top(r) /\ Same(r, m) /\ r.used = m.used /\ r.sign = m.sign
         /\ Above(r, 0) = Above(m, 0)
  <1>1. m.used \in Nat /\ m.sign \in {ZPOS, NEG} /\ to.alloc \in Nat
    BY TidyIs
  <1>2. PICK n \in Nat : n >= m.used /\ r = [sign |-> m.sign, used |-> m.used, alloc |-> n,
                                             dp |-> Stored(m, n)]
    <2>1. CASE to.alloc < m.used
      BY <1>1, <2>1 DEF CopyInto, Copied
    <2>2. CASE ~ to.alloc < m.used
      <3>1. r = [sign |-> m.sign, used |-> m.used, alloc |-> to.alloc,
                 dp |-> Stored(m, to.alloc)]
        BY <2>2 DEF CopyInto, Tidy, Mp
      <3>2. to.alloc >= m.used
        BY <1>1, <2>2
      <3> QED BY <1>1, <3>1, <3>2
    <2> QED BY <2>1, <2>2
  <1>3. Tidy(r) /\ Same(r, m)
    BY <1>1, <1>2, MovedIs
  <1>4. r.used = m.used /\ r.sign = m.sign
    BY <1>2
  <1> QED BY <1>3, <1>4, AlikeIs

\* The product of a divisor in normal form with a digit is never written beyond its
\* storage: the leading digit alone makes a carry, or there is none.
LEMMA TrialIs ==
  ASSUME NEW b, Tidy(b), Top(b), Normal(b), Above(b, 0) > 0, NEW to, Tidy(to),
         NEW q \in Digit, NEW t, t = s_mp_mul_d(CopyInto(b, to), q)
  PROVE  Tidy(t) /\ Top(t) /\ Above(t, 0) = q * Above(b, 0)
  <1> DEFINE c == CopyInto(b, to)
             u == b.used
             lead == b.dp[u - 1]
             B == Above(b, 0)
  <1>1. Tidy(c) /\ Top(c) /\ Same(c, b) /\ c.used = u /\ Above(c, 0) = B
    BY CopyIntoSame
  <1>2. t = s_mp_mul_d(c, q)
    OBVIOUS
  <1> HIDE DEF c
  <1>3. /\ Held(t) /\ Top(t) /\ Above(t, 0) = q * B
        /\ DigitOf(t, u) = 0 \/ CARRYOUT(c.dp[u - 1] * q) # 0 => Tidy(t)
    BY <1>1, <1>2, TimesDigitIs
  <1>4. b.alloc \in Nat /\ b \in Mp(b.alloc) /\ B \in Nat
    BY TidyAbove
  <1>5. /\ u - 1 \in Nat /\ lead \in Nat /\ lead < RADIX /\ lead > 0 /\ B < Pow(u)
    BY <1>4, LeadingIs
  <1>6. c.dp[u - 1] = lead
    <2>1. u - 1 < u
      BY TidyIs
    <2>2. DigitOf(c, u - 1) = DigitOf(b, u - 1)
      BY <1>1, <1>5 DEF Same
    <2> HIDE DEF u
    <2> QED BY <1>1, <2>1, <2>2 DEF DigitOf, u
  <1>7. q \in Nat /\ u \in Nat
    <2>1. u \in Nat
      BY TidyIs
    <2> QED BY <2>1, RadixIs
  <1>8. CASE q <= 1
    <2>1. PICK k \in Nat : t \in Mp(k)
      BY <1>3 DEF Held
    <2>2. Above(t, 0) < Pow(u)
      <3>1. q = 0 \/ q = 1
        BY <1>7, <1>8
      <3>2. \A x \in Nat : 0 * x = 0 /\ 1 * x = x
        OBVIOUS
      <3>3. Pow(u) \in Nat /\ Pow(u) > 0
        BY <1>7, PowIs
      <3> HIDE DEF B, u
      <3> QED BY <1>3, <1>4, <1>5, <3>1, <3>2, <3>3
    <2> HIDE DEF u
    <2>3. PICK low \in Nat : low < Pow(u) /\ Above(t, 0) = low + Pow(u) * Above(t, u)
      BY <1>7, <2>1, CutAt
    <2>4. Pow(u) \in Nat /\ Above(t, u) \in Nat /\ Above(t, u + 1) \in Nat
      <3>1. u + 1 \in Nat
        BY <1>7
      <3> QED BY <1>7, <2>1, <3>1, PowIs, AboveFacts
    <2>5. Above(t, u) = 0
      <3>1. \A P, l, x \in Nat : l + P * x < P => x = 0
        <4>1. \A P, x \in Nat : x > 0 => P * x >= P
          OBVIOUS
        <4>2. \A P, x \in Nat : P * x \in Nat
          OBVIOUS
        <4> QED BY <4>1, <4>2
      <3> QED BY <2>2, <2>3, <2>4, <3>1
    <2>6. DigitOf(t, u) = 0
      <3>1. /\ DigitOf(t, u) \in Digit
            /\ Above(t, u) = DigitOf(t, u) + RADIX * Above(t, u + 1)
        BY <1>7, <2>1, AboveUnfolds
      <3>2. RADIX * Above(t, u + 1) \in Nat
        <4>1. \A x, y \in Nat : x * y \in Nat
          OBVIOUS
        <4> QED BY <2>4, <4>1, RadixIs
      <3>3. DigitOf(t, u) \in Nat
        BY <3>1, RadixIs
      <3> QED BY <2>5, <3>1, <3>2, <3>3
    <2> QED BY <1>3, <2>6
  <1>9. CASE q > 1
    <2>1. lead * q >= lead + lead /\ lead * q \in Nat
      <3>1. \A x, y \in Nat : y > 1 => x * y >= x + x /\ x * y \in Nat
        <4> SUFFICES ASSUME NEW x \in Nat, NEW y \in Nat, y > 1
                     PROVE  x * y >= x + x /\ x * y \in Nat
          OBVIOUS
        <4>1. y = 2 + (y - 2) /\ y - 2 \in Nat
          OBVIOUS
        <4>2. \A z \in Nat : x * (2 + z) = x + x + x * z /\ x * z \in Nat
          OBVIOUS
        <4> QED BY <4>1, <4>2
      <3> HIDE DEF lead
      <3> QED BY <1>5, <1>7, <1>9, <3>1
    <2>2. lead + lead >= RADIX
      BY DEF Normal
    <2> DEFINE x == lead * q
    <2>3. x \in Nat /\ x >= RADIX
      BY <1>5, <2>1, <2>2, RadixIs
    <2> HIDE DEF x
    <2>4. CARRYOUT(x) # 0
      <3>1. /\ ACCUM(x) \in Digit /\ CARRYOUT(x) \in Nat
            /\ x = ACCUM(x) + RADIX * CARRYOUT(x)
        BY <2>3, Splits
      <3>2. ACCUM(x) \in Nat /\ ACCUM(x) < RADIX /\ RADIX * 0 = 0
        BY <3>1, RadixIs DEF Digit
      <3> QED BY <2>3, <3>1, <3>2, RadixIs
    <2> QED BY <1>3, <1>6, <2>4 DEF x
  <1> QED BY <1>3, <1>7, <1>8, <1>9

Numbers == UNION {Mp(k) : k \in Nat}

LEMMA TidyNumber ==
  ASSUME NEW m, Tidy(m)
  PROVE  m \in Numbers
  BY TidyAbove DEF Numbers

\* The first number is not more than the second.
LEMMA NotMore ==
  ASSUME NEW a, Tidy(a), Top(a), NEW b, Tidy(b), Top(b)
  PROVE  /\ s_mp_cmp(a, b) <= 0 <=> Above(a, 0) <= Above(b, 0)
         /\ s_mp_cmp(a, b) >= 0 <=> Above(a, 0) >= Above(b, 0)
         /\ s_mp_cmp(a, b) < 0 <=> Above(a, 0) < Above(b, 0)
         /\ s_mp_cmp(a, b) = 0 <=> Above(a, 0) = Above(b, 0)
  <1>1. s_mp_cmp(a, b) = Sgn(Above(a, 0) - Above(b, 0))
    BY TidyAbove, CmpIs
  <1>2. Above(a, 0) \in Nat /\ Above(b, 0) \in Nat
    BY TidyAbove
  <1> QED BY <1>1, <1>2 DEF Sgn

\* The guess goes down until it is the digit of the quotient.
LEMMA BackOffIs ==
  ASSUME NEW rem, Tidy(rem), Top(rem), NEW b, Tidy(b), Top(b),
         NEW q \in Nat, NEW t, Tidy(t), Top(t), Above(t, 0) = q * Above(b, 0),
         Above(rem, 0) < (q + 1) * Above(b, 0), NEW r, r = BackOff(q, t, rem, b)
  PROVE  /\ r.q \in Nat /\ r.q <= q /\ Tidy(r.t) /\ Top(r.t)
         /\ Above(r.t, 0) = r.q * Above(b, 0)
         /\ Above(r.t, 0) <= Above(rem, 0) /\ Above(rem, 0) < (r.q + 1) * Above(b, 0)
  <1> DEFINE B == Above(b, 0)
             R == Above(rem, 0)
             U == [q : Nat, t : Numbers]
             Onward(s) == IF s_mp_cmp(s.t, rem) <= 0 THEN s
                          ELSE [q |-> s.q - 1, t |-> s_mp_sub(s.t, b)]
             Inv(n, x) == /\ x.q <= q /\ Tidy(x.t) /\ Top(x.t) /\ Above(x.t, 0) = x.q * B
                          /\ R < (x.q + 1) * B /\ (x.q * B <= R \/ x.q = q - n)
             S == [n \in 0 .. q |-> {x \in U : Inv(n, x)}]
             step == [n \in 1 .. q |-> [x \in U |-> Onward(x)]]
             s == [q |-> q, t |-> t]
             Is(h) == h = [n \in 0 .. q |-> IF n = 0 THEN [q |-> q, t |-> t] ELSE Onward(h[n - 1])]
             T == CHOOSE h : Is(h)
  <1>1. B \in Nat /\ R \in Nat
    BY TidyAbove
  <1>2. s \in S[0]
    <2>1. s \in U
      BY TidyNumber
    <2>2. Inv(0, s)
      OBVIOUS
    <2> HIDE DEF s, U, Inv
    <2> QED BY <2>1, <2>2
  <1>3. ASSUME NEW n \in 1 .. q, NEW x \in U, Inv(n - 1, x)
        PROVE  Onward(x) \in U /\ Inv(n, Onward(x))
    <2>1. x.q \in Nat
      OBVIOUS
    <2>2. s_mp_cmp(x.t, rem) <= 0 <=> x.q * B <= R
      BY <1>3, NotMore
    <2>3. CASE x.q * B <= R
      BY <1>3, <2>2, <2>3
    <2>4. CASE ~ x.q * B <= R
      <3> DEFINE y == s_mp_sub(x.t, b)
                 z == [q |-> x.q - 1, t |-> y]
      <3>1. Onward(x) = z
        BY <2>2, <2>4
      <3>2. x.q # 0 /\ x.q - 1 \in Nat
        <4>1. \A w \in Nat : 0 * w = 0
          OBVIOUS
        <4>2. x.q # 0
          BY <1>1, <2>4, <4>1
        <4> QED BY <2>1, <4>2
      <3>3. x.q * B = (x.q - 1) * B + B /\ (x.q - 1) * B \in Nat
        <4>1. \A v, w \in Nat : v # 0 => v * w = (v - 1) * w + w
          OBVIOUS
        <4>2. \A v, w \in Nat : v * w \in Nat
          OBVIOUS
        <4> HIDE DEF B
        <4> QED BY <1>1, <2>1, <3>2, <4>1, <4>2
      <3>4. Tidy(x.t) /\ Above(x.t, 0) = x.q * B
        BY <1>3
      <3>5. B <= Above(x.t, 0)
        BY <1>1, <3>3, <3>4
      <3>6. Tidy(y) /\ Top(y) /\ Above(y, 0) = Above(x.t, 0) - B
        BY <3>4, <3>5, DifferenceIs
      <3>7. Above(y, 0) = (x.q - 1) * B
        BY <1>1, <3>3, <3>4, <3>6
      <3>8. z \in U /\ z.q = x.q - 1 /\ z.t = y
        BY <3>2, <3>6, TidyNumber
      <3>9. x.q <= q /\ x.q = q - (n - 1)
        BY <1>3, <2>4
      <3>10. R < ((x.q - 1) + 1) * B
        <4>1. (x.q - 1) + 1 = x.q /\ x.q * B \in Nat
          BY <1>1, <2>1, <3>3
        <4> QED BY <1>1, <2>4, <4>1
      <3>11. x.q - 1 <= q /\ x.q - 1 = q - n
        BY <2>1, <3>9
      <3> HIDE DEF y, z, Onward, U, B, R
      <3> QED BY <3>1, <3>6, <3>7, <3>8, <3>10, <3>11
    <2> QED BY <2>3, <2>4
  <1>4. \A n \in 1 .. q : \A x \in S[n - 1] : Onward(x) \in S[n]
    <2> HIDE DEF U, Inv, Onward
    <2> QED BY <1>3
  <1> HIDE DEF Onward, s, Inv
  <1>5. \A n \in 1 .. q : \A x \in S[n - 1] : x \in U /\ step[n][x] = Onward(x)
    <2> HIDE DEF U
    <2> QED OBVIOUS
  <1> HIDE DEF U, S, step
  <1>6. \A n \in 1 .. q : \A x \in S[n - 1] : step[n][x] \in S[n]
    BY <1>4, <1>5
  <1>7. PICK f : Turned(f, q, U, S, s, step)
    <2>1. \A n \in 0 .. q : S[n] \subseteq U
      BY DEF S
    <2>2. Turning(q, U, S, s, step)
      BY <1>2, <1>6, <2>1 DEF Turning
    <2> QED BY <2>2, LoopRuns
  <1>8. Is(f)
    <2>1. \A n \in 0 .. q : n # 0 => n \in 1 .. q
      OBVIOUS
    <2>2. /\ f \in [0 .. q -> U] /\ f[0] = s
          /\ \A n \in 1 .. q : f[n] = step[n][f[n - 1]] /\ f[n - 1] \in S[n - 1]
      BY <1>7 DEF Turned
    <2>3. \A n \in 0 .. q : n # 0 => f[n] = Onward(f[n - 1])
      BY <1>5, <2>1, <2>2
    <2> QED BY <2>2, <2>3 DEF s
  <1>9. Is(T)
    BY <1>8
  <1>10. r = T[q]
    BY DEF BackOff, Onward
  <1> HIDE DEF T
  <1>11. T[0] \in S[0]
    BY <1>2, <1>9 DEF s
  <1>12. \A n \in 1 .. q : T[n - 1] \in S[n - 1] => T[n] \in S[n]
    <2>1. \A n \in 1 .. q : T[n] = Onward(T[n - 1])
      BY <1>9
    <2> QED BY <1>4, <2>1
  <1>13. T[q] \in S[q]
    BY <1>11, <1>12, LoopStays
  <1>14. r \in U /\ Inv(q, r)
    BY <1>10, <1>13 DEF S
  <1>15. r.q \in Nat
    BY <1>14 DEF U
  <1>16. r.q * B <= R
    <2>1. r.q * B <= R \/ r.q = 0
      BY <1>14 DEF Inv
    <2>2. 0 * B = 0
      BY <1>1
    <2> HIDE DEF B, R
    <2> QED BY <1>1, <2>1, <2>2
  <1> QED BY <1>14, <1>15, <1>16 DEF Inv

\* Digit 0 set, where there is a zero.
LEMMA LowDigitSet ==
  ASSUME NEW m, Tidy(m), DigitOf(m, 0) = 0, NEW d \in Digit, NEW r, r = [m EXCEPT !.dp[0] = d]
  PROVE  Tidy(r) /\ Above(r, 0) = Above(m, 0) + d
  <1>1. /\ m.alloc \in Nat /\ m.alloc > 0 /\ m.used \in 1 .. m.alloc /\ m.used \in Nat
        /\ m.dp \in [0 .. m.alloc - 1 -> Digit] /\ m \in Mp(m.alloc) /\ Clean(m)
    BY TidyIs, TidyAbove
  <1> DEFINE dp == [m.dp EXCEPT ![0] = d]
  <1>2. dp \in [0 .. m.alloc - 1 -> Digit] /\ dp[0] = d
        /\ \A i \in 0 .. m.alloc - 1 : i # 0 => dp[i] = m.dp[i]
    BY <1>1
  <1>3. r = [sign |-> m.sign, used |-> m.used, alloc |-> m.alloc, dp |-> dp]
    BY DEF Tidy, Mp
  <1> HIDE DEF dp
  <1>4. r \in Mp(m.alloc) /\ r.alloc = m.alloc /\ r.used = m.used /\ r.dp = dp
    <2>1. m.sign \in {ZPOS, NEG} /\ m.alloc \in 1 .. m.alloc
      BY <1>1, TidyIs
    <2>2. [sign |-> m.sign, used |-> m.used, alloc |-> m.alloc, dp |-> dp]
              \in [sign : {ZPOS, NEG}, used : 1 .. m.alloc, alloc : 1 .. m.alloc,
                   dp : [0 .. m.alloc - 1 -> Digit]]
      BY <1>1, <1>2, <2>1
    <2>3. r.alloc = m.alloc /\ r.used = m.used /\ r.dp = dp
      BY <1>3
    <2> QED BY <1>3, <2>2, <2>3 DEF Mp
  <1>5. Clean(r)
    BY <1>1, <1>2, <1>4 DEF Clean
  <1>6. Tidy(r)
    BY <1>4, <1>5 DEF Tidy
  <1>7. \A i \in Nat : i >= 1 => DigitOf(r, i) = DigitOf(m, i)
    BY <1>1, <1>2, <1>4 DEF DigitOf
  <1>8. Above(r, 1) = Above(m, 1)
    <2>1. 1 \in Nat
      OBVIOUS
    <2>2. m.alloc \in Nat /\ m \in Mp(m.alloc) /\ r \in Mp(m.alloc)
      BY <1>1, <1>4
    <2> QED BY ONLY <1>7, <2>1, <2>2, SameAbove
  <1>9. DigitOf(r, 0) = d
    BY <1>1, <1>2, <1>4 DEF DigitOf
  <1>10. /\ Above(m, 0) = DigitOf(m, 0) + RADIX * Above(m, 0 + 1)
         /\ Above(r, 0) = DigitOf(r, 0) + RADIX * Above(r, 0 + 1)
         /\ Above(m, 0 + 1) \in Nat
    BY <1>1, <1>4, AboveUnfolds, AboveFacts
  <1>11. RADIX * Above(m, 1) \in Nat /\ d \in Nat
    <2>1. \A x, y \in Nat : x * y \in Nat
      OBVIOUS
    <2> QED BY <1>10, <2>1, RadixIs
  <1> QED BY <1>6, <1>8, <1>9, <1>10, <1>11

\* Up by one digit.
LEMMA UpOneIs ==
  ASSUME NEW m, Tidy(m), NEW r, r = s_mp_lshd(m, 1)
  PROVE  Tidy(r) /\ DigitOf(r, 0) = 0 /\ Above(r, 0) = RADIX * Above(m, 0)
  <1>1. Tidy(r) /\ Above(r, 0) = 2 ^ (DigitBit * 1) * Above(m, 0)
    BY UpIs
  <1>2. 2 ^ (DigitBit * 1) = RADIX
    BY MpiAssumption DEF RADIX
  <1>3. /\ Above(r, 0) = DigitOf(r, 0) + RADIX * Above(r, 1) /\ Above(r, 1) \in Nat
        /\ DigitOf(r, 0) \in Nat /\ DigitOf(r, 0) < RADIX /\ Above(m, 0) \in Nat
    <2>1. Above(r, 0) = DigitOf(r, 0) + RADIX * Above(r, 0 + 1)
      BY <1>1, TidyAbove, AboveUnfolds
    <2> QED BY <1>1, <2>1, TidyAbove, AboveFacts
  <1>4. DigitOf(r, 0) = 0
    <2> DEFINE x == Above(r, 0)
               y == Above(r, 1)
               z == Above(m, 0)
               c == DigitOf(r, 0)
    <2>1. x = RADIX * y + c /\ x = RADIX * z + 0
      <3>1. \A v, w \in Nat : v * w \in Nat
        OBVIOUS
      <3>2. RADIX * y \in Nat /\ RADIX * z \in Nat
        BY <1>3, <3>1, RadixIs
      <3> QED BY <1>1, <1>2, <1>3, <3>2
    <2>2. c \in Nat /\ c < RADIX /\ y \in Nat /\ z \in Nat
      BY <1>3
    <2> HIDE DEF x, y, z, c
    <2>3. RADIX \in Nat /\ RADIX > 0 /\ 0 \in Nat /\ 0 < RADIX
      BY RadixIs
    <2>4. x % RADIX = c
      BY <2>1, <2>2, <2>3, Divides
    <2>5. x % RADIX = 0
      BY <2>1, <2>2, <2>3, Divides
    <2> QED BY <2>4, <2>5 DEF c
  <1> QED BY <1>1, <1>2, <1>4

States == [rem : Numbers, quot : Numbers, t : Numbers, ix : Int]

\* quot and rem are the quotient and a remainder of the digits taken so far.
Balanced(s, a, b) ==
    /\ s \in States
    /\ Tidy(s.rem) /\ Top(s.rem) /\ Tidy(s.quot) /\ Tidy(s.t)
    /\ s.ix \in -1 .. a.used - 1
    /\ Above(a, s.ix + 1) = Above(s.quot, 0) * Above(b, 0) + Above(s.rem, 0)

\* One more digit is taken.
LEMMA BringDownIs ==
  ASSUME NEW k \in Nat, NEW a \in Mp(k), NEW b, Tidy(b), NEW s, Balanced(s, a, b),
         s.ix >= 0, Above(s.rem, 0) < Above(b, 0), NEW r, r = BringDown(s, a)
  PROVE  /\ Balanced(r, a, b) /\ r.ix = s.ix - 1 /\ DigitOf(r.quot, 0) = 0
         /\ Above(r.rem, 0) < RADIX * Above(b, 0)
  <1> DEFINE B == Above(b, 0)
             R == Above(s.rem, 0)
             Q == Above(s.quot, 0)
             d == a.dp[s.ix]
             up == s_mp_lshd(s.rem, 1)
             low == [up EXCEPT !.dp[0] = d]
             rem == s_mp_clamp(low)
             quot == s_mp_lshd(s.quot, 1)
  <1>1. /\ s \in States /\ Tidy(s.rem) /\ Top(s.rem) /\ Tidy(s.quot) /\ Tidy(s.t)
        /\ s.ix \in Nat /\ s.ix < a.used /\ s.ix \in -1 .. a.used - 1 /\ a.used \in Nat
        /\ Above(a, s.ix + 1) = Q * B + R
    <2>1. a.used \in Nat
      BY AboveFacts
    <2> QED BY <2>1 DEF Balanced
  <1>2. B \in Nat /\ R \in Nat /\ Q \in Nat
    BY <1>1, TidyAbove
  <1>3. d \in Digit /\ d \in Nat /\ d < RADIX /\ Above(a, s.ix) = d + RADIX * (Q * B + R)
    <2>1. /\ DigitOf(a, s.ix) \in Digit
          /\ Above(a, s.ix) = DigitOf(a, s.ix) + RADIX * Above(a, s.ix + 1)
      BY <1>1, AboveUnfolds
    <2>2. DigitOf(a, s.ix) = d
      BY <1>1 DEF DigitOf
    <2>3. d \in Digit /\ Above(a, s.ix) = d + RADIX * (Q * B + R)
      BY <1>1, <2>1, <2>2
    <2> HIDE DEF d
    <2> QED BY <2>3, RadixIs DEF Digit
  <1> HIDE DEF d
  <1>4. Tidy(up) /\ DigitOf(up, 0) = 0 /\ Above(up, 0) = RADIX * R
    BY <1>1, UpOneIs
  <1>5. Tidy(quot) /\ DigitOf(quot, 0) = 0 /\ Above(quot, 0) = RADIX * Q
    BY <1>1, UpOneIs
  <1> HIDE DEF up
  <1>6. Tidy(low) /\ Above(low, 0) = RADIX * R + d
    BY <1>3, <1>4, LowDigitSet
  <1> HIDE DEF low
  <1>7. Tidy(rem) /\ Top(rem) /\ Above(rem, 0) = RADIX * R + d
    BY <1>6, ClampedIs
  <1>8. r = [rem |-> rem, quot |-> quot, t |-> s.t, ix |-> s.ix - 1]
    <2>1. r = [s EXCEPT !.rem = rem, !.quot = quot, !.ix = s.ix - 1]
      BY DEF BringDown, low, up, d
    <2> HIDE DEF rem, quot
    <2> QED BY <1>1, <2>1 DEF States
  <1> HIDE DEF rem, quot
  <1>9. r.rem = rem /\ r.quot = quot /\ r.t = s.t /\ r.ix = s.ix - 1
    BY <1>8
  <1>10. r \in States
    <2>1. rem \in Numbers /\ quot \in Numbers /\ s.t \in Numbers
      BY <1>1, <1>5, <1>7, TidyNumber
    <2>2. s.ix - 1 \in Int
      BY <1>1
    <2> QED BY <1>8, <2>1, <2>2 DEF States
  <1>11. r.ix + 1 = s.ix /\ r.ix \in -1 .. a.used - 1
    BY <1>1, <1>9
  <1> HIDE DEF B, R, Q
  <1>12. d + RADIX * (Q * B + R) = (RADIX * Q) * B + (RADIX * R + d)
    <2>1. \A x, y, z, w \in Nat : w * (x * y + z) = (w * x) * y + w * z
                                   /\ w * z \in Nat /\ (w * x) * y \in Nat
      OBVIOUS
    <2>2. /\ RADIX * (Q * B + R) = (RADIX * Q) * B + RADIX * R
          /\ (RADIX * Q) * B \in Nat /\ RADIX * R \in Nat
      BY <1>2, <2>1, RadixIs
    <2> QED BY <1>3, <2>2
  <1>13. RADIX * R + d < RADIX * B
    <2>1. R + 1 <= B /\ R + 1 \in Nat
      BY <1>2 DEF B, R
    <2>2. (R + 1) * RADIX <= B * RADIX
      BY <1>2, <2>1, ProductsOrdered, RadixIs
    <2>3. (R + 1) * RADIX = RADIX * R + RADIX /\ B * RADIX = RADIX * B
          /\ RADIX * R \in Nat /\ RADIX * B \in Nat
      <3>1. \A x, y \in Nat : (x + 1) * y = y * x + y /\ x * y = y * x /\ x * y \in Nat
        OBVIOUS
      <3> QED BY <1>2, <3>1, RadixIs
    <2> QED BY <1>3, <2>2, <2>3, RadixIs
  <1>14. Above(a, r.ix + 1) = Above(r.quot, 0) * B + Above(r.rem, 0)
    BY <1>3, <1>5, <1>7, <1>9, <1>11, <1>12
  <1>15. Balanced(r, a, b)
    BY <1>1, <1>5, <1>7, <1>9, <1>10, <1>11, <1>14 DEF Balanced, B
  <1> QED BY <1>5, <1>7, <1>9, <1>13, <1>15 DEF B

\* Digits move down until the remainder holds the divisor, or there are none left.
LEMMA SubstringIs ==
  ASSUME NEW k \in Nat, NEW a \in Mp(k), NEW b, Tidy(b), Top(b), NEW s, Balanced(s, a, b),
         s.ix >= 0, Above(s.rem, 0) < Above(b, 0), NEW r, r = Substring(s, a, b)
  PROVE  /\ Balanced(r, a, b) /\ r.ix <= s.ix - 1 /\ Above(r.rem, 0) < RADIX * Above(b, 0)
         /\ Above(r.rem, 0) >= Above(b, 0) => DigitOf(r.quot, 0) = 0
         /\ Above(r.rem, 0) >= Above(b, 0) \/ r.ix = -1
  <1> DEFINE B == Above(b, 0)
             N == s.ix + 1
             U == States
             Onward(t) == IF s_mp_cmp(t.rem, b) >= 0 THEN t ELSE BringDown(t, a)
             Inv(n, x) == /\ Balanced(x, a, b) /\ Above(x.rem, 0) < RADIX * B
                          /\ Above(x.rem, 0) >= B => n >= 1 /\ DigitOf(x.quot, 0) = 0
                          /\ n >= 1 => x.ix <= s.ix - 1
                          /\ Above(x.rem, 0) >= B \/ x.ix = s.ix - n
             S == [n \in 0 .. N |-> {x \in U : Inv(n, x)}]
             step == [n \in 1 .. N |-> [x \in U |-> Onward(x)]]
             Is(h) == h = [n \in 0 .. s.ix + 1 |-> IF n = 0 THEN s ELSE Onward(h[n - 1])]
             T == CHOOSE h : Is(h)
  <1>1. /\ B \in Nat /\ s \in States /\ s.ix \in Nat /\ N \in Nat /\ N >= 1
        /\ Above(s.rem, 0) \in Nat
    <2>1. s.ix \in Int /\ Above(s.rem, 0) \in Nat
      BY TidyAbove DEF Balanced, States
    <2> QED BY <2>1, TidyAbove DEF Balanced
  <1>2. s \in S[0]
    <2>1. Above(s.rem, 0) < RADIX * B
      <3>1. \A x, y \in Nat : y > 1 => x <= y * x /\ y * x \in Nat
        OBVIOUS
      <3> HIDE DEF B
      <3>2. B <= RADIX * B /\ RADIX * B \in Nat
        BY <1>1, <3>1, RadixIs
      <3> QED BY <1>1, <3>2 DEF B
    <2>2. Inv(0, s)
      BY <1>1, <2>1
    <2> HIDE DEF Inv
    <2> QED BY <1>1, <2>2
  <1>3. ASSUME NEW n \in 1 .. N, NEW x \in U, Inv(n - 1, x)
        PROVE  Onward(x) \in U /\ Inv(n, Onward(x))
    <2>1. Tidy(x.rem) /\ Top(x.rem) /\ x.ix \in Int
      BY <1>3 DEF Balanced, States
    <2>2. Above(x.rem, 0) \in Nat
      BY <2>1, TidyAbove
    <2>3. s_mp_cmp(x.rem, b) >= 0 <=> Above(x.rem, 0) >= B
      BY <2>1, NotMore
    <2>4. n \in Nat /\ n >= 1 /\ n <= s.ix + 1
      BY <1>1
    <2>5. CASE Above(x.rem, 0) >= B
      <3>1. Onward(x) = x /\ n - 1 >= 1
        BY <1>3, <2>3, <2>5
      <3> HIDE DEF Onward, B, U
      <3> QED BY <1>3, <2>4, <2>5, <3>1
    <2>6. CASE ~ Above(x.rem, 0) >= B
      <3> DEFINE y == BringDown(x, a)
      <3>1. Onward(x) = y
        BY <2>3, <2>6
      <3>2. x.ix = s.ix - (n - 1)
        BY <1>3, <2>6
      <3>3. x.ix >= 0 /\ Above(x.rem, 0) < B
        BY <1>1, <2>2, <2>4, <2>6, <3>2
      <3>4. /\ Balanced(y, a, b) /\ y.ix = x.ix - 1 /\ DigitOf(y.quot, 0) = 0
            /\ Above(y.rem, 0) < RADIX * B
        BY <1>3, <3>3, BringDownIs
      <3>5. y \in States
        BY <3>4 DEF Balanced
      <3>6. y.ix = s.ix - n /\ y.ix <= s.ix - 1
        BY <1>1, <2>4, <3>2, <3>4
      <3> HIDE DEF Onward, B, y
      <3> QED BY <2>4, <3>1, <3>4, <3>5, <3>6
    <2> QED BY <2>5, <2>6
  <1>4. \A n \in 1 .. N : \A x \in S[n - 1] : Onward(x) \in S[n]
    <2>1. \A n \in 1 .. N : n - 1 \in 0 .. N /\ n \in 0 .. N
      BY <1>1
    <2> HIDE DEF U, Inv, Onward, N
    <2> QED BY <1>3, <2>1
  <1> HIDE DEF Onward, Inv
  <1>5. \A n \in 1 .. N : \A x \in S[n - 1] : x \in U /\ step[n][x] = Onward(x)
    <2>1. \A n \in 1 .. N : n - 1 \in 0 .. N
      BY <1>1
    <2> HIDE DEF U, N
    <2> QED BY <2>1
  <1>6. PICK f : Turned(f, N, U, S, s, step)
    <2>1. \A n \in 0 .. N : S[n] \subseteq U
      BY DEF S
    <2>2. Turning(N, U, S, s, step)
      <3> HIDE DEF N, U, S, step
      <3> QED BY <1>1, <1>2, <1>4, <1>5, <2>1 DEF Turning
    <2> HIDE DEF N, U, S, step
    <2> QED BY <2>2, LoopRuns
  <1> HIDE DEF U, S, step
  <1>7. Is(f)
    <2>1. \A n \in 0 .. N : n # 0 => n \in 1 .. N
      BY <1>1
    <2>2. /\ f \in [0 .. N -> U] /\ f[0] = s
          /\ \A n \in 1 .. N : f[n] = step[n][f[n - 1]] /\ f[n - 1] \in S[n - 1]
      BY <1>6 DEF Turned
    <2>3. \A n \in 0 .. N : n # 0 => f[n] = Onward(f[n - 1])
      BY <1>5, <2>1, <2>2
    <2> QED BY <2>2, <2>3
  <1>8. Is(T)
    BY <1>7
  <1>9. r = T[N]
    BY DEF Substring, Onward
  <1> HIDE DEF T
  <1>10. T[0] \in S[0] /\ \A n \in 1 .. N : T[n] = Onward(T[n - 1])
    BY <1>1, <1>2, <1>8
  <1> HIDE DEF N
  <1>11. T[N] \in S[N]
    <2>1. \A n \in 1 .. N : T[n - 1] \in S[n - 1] => T[n] \in S[n]
      BY <1>4, <1>10
    <2> QED BY <1>1, <1>10, <2>1, LoopStays
  <1>12. Inv(N, r)
    BY <1>1, <1>9, <1>11 DEF S
  <1> QED BY <1>1, <1>12 DEF Inv, N

\* One digit of the quotient.
LEMMA DivideDownIs ==
  ASSUME NEW k \in Nat, NEW a \in Mp(k),
         NEW b, Tidy(b), Top(b), Normal(b), Above(b, 0) > 0, NEW s, Balanced(s, a, b),
         Above(s.rem, 0) < RADIX * Above(b, 0),
         Above(s.rem, 0) >= Above(b, 0) => DigitOf(s.quot, 0) = 0, NEW r, r = DivideDown(s, b)
  PROVE  Balanced(r, a, b) /\ r.ix = s.ix /\ Above(r.rem, 0) < Above(b, 0)
  <1> DEFINE B == Above(b, 0)
             R == Above(s.rem, 0)
             Q == Above(s.quot, 0)
             g == Guess(s.rem, b)
             t == s_mp_mul_d(CopyInto(b, s.t), g)
             digit == BackOff(g, t, s.rem, b)
             rem == s_mp_sub(s.rem, digit.t)
             quot == [s.quot EXCEPT !.dp[0] = digit.q]
  <1>1. /\ s \in States /\ Tidy(s.rem) /\ Top(s.rem) /\ Tidy(s.quot) /\ Tidy(s.t)
        /\ s.ix \in -1 .. a.used - 1 /\ Above(a, s.ix + 1) = Q * B + R
    BY DEF Balanced
  <1>2. B \in Nat /\ R \in Nat /\ Q \in Nat
    BY <1>1, TidyAbove
  <1>3. s_mp_cmp(s.rem, b) < 0 <=> R < B
    BY <1>1, NotMore
  <1>4. CASE R < B
    BY <1>3, <1>4 DEF DivideDown
  <1>5. CASE ~ R < B
    <2>1. B <= R /\ DigitOf(s.quot, 0) = 0
      BY <1>2, <1>5
    <2>2. g \in Digit /\ g \in Nat /\ R < (g + 1) * B
      BY <1>1, <2>1, TidyAbove, GuessIs
    <2>3. Tidy(t) /\ Top(t) /\ Above(t, 0) = g * B
      <3> HIDE DEF g
      <3> QED BY <1>1, <2>2, TrialIs
    <2> HIDE DEF g, t
    <2>4. /\ digit.q \in Nat /\ digit.q <= g /\ Tidy(digit.t) /\ Top(digit.t)
          /\ Above(digit.t, 0) = digit.q * B
          /\ Above(digit.t, 0) <= R /\ R < (digit.q + 1) * B
      BY <1>1, <2>2, <2>3, BackOffIs
    <2>5. r = WithDigit(s, digit)
      BY <1>3, <1>5 DEF DivideDown, g, t
    <2> HIDE DEF digit
    <2>6. Tidy(rem) /\ Top(rem) /\ Above(rem, 0) = R - digit.q * B
      BY <1>1, <2>4, DifferenceIs
    <2>7. Tidy(quot) /\ Above(quot, 0) = Q + digit.q
      <3>1. digit.q \in Digit
        BY <2>2, <2>4, RadixIs DEF Digit
      <3> QED BY <1>1, <2>1, <3>1, LowDigitSet
    <2> HIDE DEF rem
    <2>8. r = [rem |-> rem, quot |-> quot, t |-> digit.t, ix |-> s.ix]
      <3>1. r = [s EXCEPT !.rem = rem, !.quot.dp[0] = digit.q, !.t = digit.t]
        BY <2>5 DEF WithDigit, rem
      <3> QED BY <1>1, <3>1 DEF States
    <2> HIDE DEF quot
    <2>9. r.rem = rem /\ r.quot = quot /\ r.t = digit.t /\ r.ix = s.ix
      BY <2>8
    <2>10. r \in States
      <3>1. rem \in Numbers /\ quot \in Numbers /\ digit.t \in Numbers
        BY <2>4, <2>6, <2>7, TidyNumber
      <3>2. s.ix \in Int
        BY <1>1 DEF States
      <3> QED BY <2>8, <3>1, <3>2 DEF States
    <2> DEFINE q == digit.q
    <2>11. q \in Nat /\ q * B <= R /\ R < (q + 1) * B
      BY <2>4
    <2> HIDE DEF B, R, Q, q
    <2>12. q * B \in Nat /\ (q + 1) * B = q * B + B
           /\ (Q + q) * B = Q * B + q * B /\ Q * B \in Nat
      <3>1. \A x, y, z \in Nat : x * y \in Nat /\ (x + 1) * y = x * y + y
                                  /\ (z + x) * y = z * y + x * y
        OBVIOUS
      <3> QED BY <1>2, <2>11, <3>1
    <2>13. Q * B + R = (Q + q) * B + (R - q * B) /\ R - q * B < B
      BY <1>2, <2>11, <2>12
    <2>14. Above(a, r.ix + 1) = Above(r.quot, 0) * B + Above(r.rem, 0)
      BY <1>1, <2>6, <2>7, <2>9, <2>13 DEF q
    <2>15. Balanced(r, a, b)
      BY <1>1, <2>4, <2>6, <2>7, <2>9, <2>10, <2>14 DEF Balanced, B
    <2> QED BY <2>6, <2>9, <2>13, <2>15 DEF B, q
  <1> QED BY <1>4, <1>5

\* All digits of the dividend are taken.
LEMMA DivideIs ==
  ASSUME NEW k \in Nat, NEW a \in Mp(k), NEW b, Tidy(b), Top(b), Normal(b), Above(b, 0) > 0,
         NEW s, Balanced(s, a, b), s.ix = a.used - 1, Above(s.rem, 0) < Above(b, 0),
         NEW r, r = Divide(s, a, b)
  PROVE  Balanced(r, a, b) /\ r.ix = -1 /\ Above(r.rem, 0) < Above(b, 0)
  <1> DEFINE B == Above(b, 0)
             N == a.used
             U == States
             Onward(t) == IF t.ix < 0 THEN t ELSE DivideDown(Substring(t, a, b), b)
             Inv(n, x) == /\ Balanced(x, a, b) /\ Above(x.rem, 0) < B
                          /\ x.ix < 0 \/ x.ix <= N - 1 - n
             S == [n \in 0 .. N |-> {x \in U : Inv(n, x)}]
             step == [n \in 1 .. N |-> [x \in U |-> Onward(x)]]
             Is(h) == h = [n \in 0 .. a.used |-> IF n = 0 THEN s ELSE Onward(h[n - 1])]
             T == CHOOSE h : Is(h)
  <1>1. B \in Nat /\ s \in States /\ N \in Nat /\ N >= 1
    BY TidyAbove, AboveFacts DEF Balanced
  <1>2. s \in S[0]
    <2>1. Inv(0, s)
      BY <1>1
    <2> HIDE DEF Inv
    <2> QED BY <1>1, <2>1
  <1>3. ASSUME NEW n \in 1 .. N, NEW x \in U, Inv(n - 1, x)
        PROVE  Onward(x) \in U /\ Inv(n, Onward(x))
    <2>1. x.ix \in Int
      BY DEF States
    <2>2. CASE x.ix < 0
      <3>1. Onward(x) = x
        BY <2>2
      <3> HIDE DEF Onward, B, U
      <3> QED BY <1>3, <2>2, <3>1
    <2>3. CASE ~ x.ix < 0
      <3> DEFINE y == Substring(x, a, b)
                 z == DivideDown(y, b)
      <3>1. Onward(x) = z
        BY <2>3
      <3>2. x.ix >= 0 /\ x.ix <= N - 1 - (n - 1)
        BY <1>3, <2>1, <2>3
      <3>3. /\ Balanced(y, a, b) /\ y.ix <= x.ix - 1 /\ Above(y.rem, 0) < RADIX * B
            /\ Above(y.rem, 0) >= B => DigitOf(y.quot, 0) = 0
        BY <1>3, <3>2, SubstringIs
      <3> HIDE DEF y
      <3>4. Balanced(z, a, b) /\ z.ix = y.ix /\ Above(z.rem, 0) < B
        BY <3>3, DivideDownIs
      <3>5. z \in States
        BY <3>4 DEF Balanced
      <3>6. z.ix <= N - 1 - n
        <4>1. z.ix \in Int
          BY <3>5 DEF States
        <4> HIDE DEF z, N
        <4> QED BY <1>1, <2>1, <3>2, <3>3, <3>4, <4>1
      <3> HIDE DEF Onward, B, z
      <3> QED BY <3>1, <3>4, <3>5, <3>6
    <2> QED BY <2>2, <2>3
  <1>4. \A n \in 1 .. N : \A x \in S[n - 1] : Onward(x) \in S[n]
    <2>1. \A n \in 1 .. N : n - 1 \in 0 .. N /\ n \in 0 .. N
      BY <1>1
    <2> HIDE DEF U, Inv, Onward, N
    <2> QED BY <1>3, <2>1
  <1> HIDE DEF Onward, Inv
  <1>5. \A n \in 1 .. N : \A x \in S[n - 1] : x \in U /\ step[n][x] = Onward(x)
    <2>1. \A n \in 1 .. N : n - 1 \in 0 .. N
      BY <1>1
    <2> HIDE DEF U, N
    <2> QED BY <2>1
  <1>6. PICK f : Turned(f, N, U, S, s, step)
    <2>1. \A n \in 0 .. N : S[n] \subseteq U
      BY DEF S
    <2>2. Turning(N, U, S, s, step)
      <3> HIDE DEF N, U, S, step
      <3> QED BY <1>1, <1>2, <1>4, <1>5, <2>1 DEF Turning
    <2> HIDE DEF N, U, S, step
    <2> QED BY <2>2, LoopRuns
  <1> HIDE DEF U, S, step
  <1>7. Is(f)
    <2>1. \A n \in 0 .. N : n # 0 => n \in 1 .. N
      BY <1>1
    <2>2. /\ f \in [0 .. N -> U] /\ f[0] = s
          /\ \A n \in 1 .. N : f[n] = step[n][f[n - 1]] /\ f[n - 1] \in S[n - 1]
      BY <1>6 DEF Turned
    <2>3. \A n \in 0 .. N : n # 0 => f[n] = Onward(f[n - 1])
      BY <1>5, <2>1, <2>2
    <2> QED BY <2>2, <2>3
  <1>8. Is(T)
    BY <1>7
  <1>9. r = T[N]
    BY DEF Divide, Onward
  <1> HIDE DEF T
  <1>10. T[0] \in S[0] /\ \A n \in 1 .. N : T[n] = Onward(T[n - 1])
    BY <1>1, <1>2, <1>8
  <1> HIDE DEF N
  <1>11. T[N] \in S[N]
    <2>1. \A n \in 1 .. N : T[n - 1] \in S[n - 1] => T[n] \in S[n]
      BY <1>4, <1>10
    <2> QED BY <1>1, <1>10, <2>1, LoopStays
  <1>12. Inv(N, r)
    BY <1>1, <1>9, <1>11 DEF S
  <1>13. r.ix \in -1 .. N - 1
    BY <1>12 DEF Inv, Balanced, N
  <1> QED BY <1>1, <1>12, <1>13 DEF Inv

\* Division by a divisor in normal form; the remainder is shifted back.
LEMMA NormalizedDivIs ==
  ASSUME NEW a, Tidy(a), NEW b, Tidy(b), Top(b), Normal(b), Above(b, 0) > 0, NEW d \in Nat,
         NEW room \in Nat \ {0}, NEW r, r = NormalizedDiv(a, b, d, room)
  PROVE  /\ Tidy(r.q) /\ Top(r.q) /\ Above(r.q, 0) = Above(a, 0) \div Above(b, 0)
         /\ Tidy(r.r) /\ Top(r.r)
         /\ Above(r.r, 0) = (Above(a, 0) % Above(b, 0)) \div 2 ^ d
  <1> DEFINE A == Above(a, 0)
             B == Above(b, 0)
             s == [rem |-> Fresh(room), quot |-> Fresh(room), t |-> Fresh(room),
                   ix |-> a.used - 1]
             done == Divide(s, a, b)
  <1>1. a.alloc \in Nat /\ a \in Mp(a.alloc) /\ A \in Nat /\ B \in Nat /\ a.used \in Nat /\ a.used > 0
    BY TidyAbove, AboveFacts
  <1>2. Tidy(Fresh(room)) /\ Top(Fresh(room)) /\ Above(Fresh(room), 0) = 0
    BY FreshIs DEF Good, Magn
  <1>3. s \in States /\ s.ix = a.used - 1 /\ s.ix \in -1 .. a.used - 1 /\ s.ix + 1 = a.used
    BY <1>1, <1>2, TidyNumber DEF States
  <1>4. Above(a, a.used) = 0
    <2>1. \A i \in Nat : i >= a.used => Above(a, i) = 0
      BY <1>1, AboveFacts
    <2> QED BY <1>1, <2>1
  <1>5. s.rem = Fresh(room) /\ s.quot = Fresh(room) /\ s.t = Fresh(room)
    OBVIOUS
  <1> HIDE DEF s
  <1>6. Balanced(s, a, b)
    <2>1. Above(s.quot, 0) * B + Above(s.rem, 0) = 0
      <3>1. 0 * B + 0 = 0
        BY <1>1
      <3> QED BY <1>2, <1>5, <3>1
    <2> QED BY <1>2, <1>3, <1>4, <1>5, <2>1 DEF Balanced
  <1>7. Balanced(done, a, b) /\ done.ix = -1 /\ Above(done.rem, 0) < B
    BY <1>1, <1>2, <1>3, <1>5, <1>6, DivideIs
  <1>8. r = Results(done, d)
    BY DEF NormalizedDiv, s
  <1> HIDE DEF done
  <1>9. /\ Tidy(done.quot) /\ Tidy(done.rem) /\ Top(done.rem)
        /\ A = Above(done.quot, 0) * B + Above(done.rem, 0)
    <2>1. -1 + 1 = 0
      OBVIOUS
    <2> QED BY <1>7, <2>1 DEF Balanced
  <1> DEFINE Q == Above(done.quot, 0)
             R == Above(done.rem, 0)
  <1>10. Q \in Nat /\ R \in Nat /\ R < B
    BY <1>7, <1>9, TidyAbove
  <1>11. A \div B = Q /\ A % B = R
    <2>1. A = B * Q + R /\ B > 0
      <3>1. \A x, y \in Nat : x * y = y * x
        OBVIOUS
      <3>2. Q * B = B * Q
        BY <1>1, <1>10, <3>1
      <3> QED BY <1>9, <3>2
    <2> HIDE DEF A, B, Q, R
    <2> QED BY <1>1, <1>10, <2>1, Divides
  <1>12. Tidy(r.q) /\ Top(r.q) /\ Above(r.q, 0) = Q
    <2>1. r.q = s_mp_clamp(done.quot)
      BY <1>8 DEF Results
    <2> QED BY <1>9, <2>1, ClampedIs
  <1>13. Tidy(r.r) /\ Top(r.r) /\ Above(r.r, 0) = R \div 2 ^ d
    <2>1. r.r = s_mp_clamp(IF d = 0 THEN done.rem ELSE s_mp_div_2d(done.rem, d))
      BY <1>8 DEF Results
    <2>2. CASE d = 0
      <3>1. R \div 2 ^ d = R
        <4>1. 2 ^ d = 1
          BY <2>2
        <4>2. \A x \in Nat : x \div 1 = x
          OBVIOUS
        <4> QED BY <1>10, <4>1, <4>2
      <3>2. r.r = s_mp_clamp(done.rem)
        BY <2>1, <2>2
      <3> QED BY <1>9, <3>1, <3>2, ClampedIs
    <2>3. CASE d # 0
      <3> DEFINE x == s_mp_div_2d(done.rem, d)
      <3>1. Tidy(x) /\ Above(x, 0) = R \div 2 ^ d
        BY <1>9, ShiftedDownIs
      <3>2. r.r = s_mp_clamp(x)
        BY <2>1, <2>3
      <3> HIDE DEF x
      <3> QED BY <3>1, <3>2, ClampedIs
    <2> QED BY <2>2, <2>3
  <1> QED BY <1>11, <1>12, <1>13

\* A number whose digits are all zero but the first is that digit, so many places up.
LEMMA RoundIs ==
  ASSUME NEW k \in Nat, NEW m \in Mp(k), NEW p \in Nat, \A i \in Nat : i < p => DigitOf(m, i) = 0
  PROVE  Above(m, 0) = Pow(p) * Above(m, p)
  <1> DEFINE z == Fresh(1)
  <1>1. Tidy(z) /\ Above(z, 0) = 0
    BY FreshIs DEF Good, Magn
  <1>2. z \in Mp(1) /\ \A i \in Nat : DigitOf(z, i) = 0
    BY <1>1 DEF Tidy, Fresh, DigitOf
  <1> HIDE DEF z
  <1>3. PICK low \in Nat : Above(m, 0) = low + Pow(p) * Above(m, p)
                           /\ 0 = low + Pow(p) * Above(z, p)
    <2>1. 1 \in Nat /\ \A i \in Nat : i < p => DigitOf(z, i) = DigitOf(m, i)
      BY <1>2
    <2> QED BY <1>1, <1>2, <2>1, LowAlike DEF Pow
  <1>4. Pow(p) * Above(z, p) \in Nat /\ Pow(p) * Above(m, p) \in Nat
    <2>1. \A x, y \in Nat : x * y \in Nat
      OBVIOUS
    <2>2. Pow(p) \in Nat /\ Above(z, p) \in Nat /\ Above(m, p) \in Nat
      <3>1. 1 \in Nat
        OBVIOUS
      <3> QED BY <1>2, <3>1, AboveFacts, PowIs
    <2> QED BY <2>1, <2>2
  <1> QED BY <1>3, <1>4

\* What s_mp_ispow2 finds is the power.
LEMMA PowerFound ==
  ASSUME NEW b, Tidy(b), NEW n, n = s_mp_ispow2(b), n >= 0
  PROVE  n \in Nat /\ Above(b, 0) = 2 ^ n
  <1> DEFINE u == b.used - 1
             lead == b.dp[u]
             extra == s_mp_ispow2d(lead)
  <1>1. b.alloc \in Nat /\ b \in Mp(b.alloc)
    BY TidyAbove
  <1>2. u \in Nat /\ Above(b, u) = lead
    BY <1>1, LeadingIs
  <1>3. n = u * DigitBit + extra /\ extra >= 0 /\ \A i \in 0 .. b.used - 2 : b.dp[i] = 0
    BY DEF s_mp_ispow2
  <1>4. extra \in 0 .. DigitBit - 1 /\ lead = 2 ^ extra
    <2>1. \E k \in 0 .. DigitBit - 1 : lead = 2 ^ k
      BY <1>3 DEF s_mp_ispow2d
    <2> HIDE DEF lead
    <2> QED BY <2>1 DEF s_mp_ispow2d
  <1> HIDE DEF extra
  <1>5. DigitBit \in Nat /\ extra \in Nat
    BY <1>4, MpiAssumption
  <1>6. Above(b, 0) = Pow(u) * lead
    <2>1. \A i \in Nat : i < u => DigitOf(b, i) = 0
      <3>1. b.used \in Nat
        BY TidyIs
      <3>2. \A i \in Nat : i < b.used - 1 => i \in 0 .. b.used - 2 /\ i < b.used
        BY <3>1
      <3> QED BY <1>3, <3>2 DEF DigitOf
    <2> HIDE DEF u
    <2> QED BY <1>1, <1>2, <2>1, RoundIs
  <1>7. 2 ^ n = Pow(u) * 2 ^ extra /\ n \in Nat
    <2>1. u * DigitBit = DigitBit * u /\ DigitBit * u \in Nat
      <3>1. \A x, y \in Nat : x * y = y * x /\ x * y \in Nat
        OBVIOUS
      <3> HIDE DEF u
      <3> QED BY <1>2, <1>5, <3>1
    <2>2. n = DigitBit * u + extra
      BY <1>3, <2>1
    <2> HIDE DEF u
    <2>3. 2 ^ (DigitBit * u + extra) = 2 ^ (DigitBit * u) * 2 ^ extra
      BY <1>5, <2>1, TwoSums
    <2> QED BY <1>5, <2>1, <2>2, <2>3 DEF Pow
  <1> QED BY <1>4, <1>6, <1>7

\* Quotient and remainder of magnitudes.
LEMMA DivIs ==
  ASSUME NEW a, Tidy(a), Top(a), Above(a, 0) = 0 => a.sign = ZPOS,
         NEW b, Tidy(b), Top(b), Above(b, 0) > 0, NEW r, r = s_mp_div(a, b)
  PROVE  /\ Tidy(r.q) /\ Top(r.q) /\ Above(r.q, 0) = Above(a, 0) \div Above(b, 0)
         /\ Tidy(r.r) /\ Top(r.r) /\ Above(r.r, 0) = Above(a, 0) % Above(b, 0)
  <1> DEFINE A == Above(a, 0)
             B == Above(b, 0)
             n == s_mp_ispow2(b)
             d == s_mp_norm(b)
             x == IF d = 0 THEN a ELSE s_mp_mul_2d(a, d)
             y == IF d = 0 THEN b ELSE s_mp_mul_2d(b, d)
  <1>1. A \in Nat /\ B \in Nat
    BY TidyAbove
  <1>2. CASE n >= 0
    <2>1. n \in Nat /\ B = 2 ^ n
      BY <1>2, PowerFound
    <2>2. r.q = s_mp_div_2d(a, n) /\ r.r = s_mp_mod_2d(CopyInto(a, b), n)
      BY <1>2 DEF s_mp_div
    <2> HIDE DEF n
    <2> DEFINE c == CopyInto(a, b)
    <2>3. Tidy(c) /\ Top(c) /\ c.sign = a.sign /\ Above(c, 0) = A
      BY CopyIntoSame
    <2>4. Tidy(r.q) /\ Top(r.q) /\ Above(r.q, 0) = A \div 2 ^ n
      BY <2>1, <2>2, ShiftedDownIs
    <2>5. r.r = s_mp_mod_2d(c, n)
      BY <2>2
    <2> HIDE DEF c
    <2>6. Tidy(r.r) /\ Top(r.r) /\ Above(r.r, 0) = A % 2 ^ n
      <3>1. Above(c, 0) = 0 => c.sign = ZPOS
        BY <2>3
      <3> QED BY <2>1, <2>3, <2>5, <3>1, BitsBelowIs
    <2> QED BY <2>1, <2>4, <2>6
  <1>3. CASE ~ n >= 0
    <2>1. r = NormalizedDiv(x, y, d, a.used)
      BY <1>3 DEF s_mp_div
    <2>2. /\ Tidy(y) /\ Top(y) /\ Normal(y) /\ Above(y, 0) = B * 2 ^ d
          /\ d \in Nat /\ 2 ^ d \in Nat /\ 2 ^ d > 0
      BY NormalizedIs
    <2> HIDE DEF d
    <2>3. Tidy(x) /\ Above(x, 0) = A * 2 ^ d
      <3>1. CASE d = 0
        <4>1. 2 ^ d = 1 /\ x = a
          BY <3>1
        <4>2. \A z \in Nat : z * 1 = z
          OBVIOUS
        <4> QED BY <1>1, <4>1, <4>2
      <3>2. CASE d # 0
        <4>1. x = s_mp_mul_2d(a, d)
          BY <3>2
        <4> QED BY <2>2, <4>1, ShiftedUpIs
      <3> QED BY <3>1, <3>2
    <2> DEFINE D == 2 ^ d
               AD == A * D
               BD == B * D
               q == A \div B
               v == A % B
    <2>4. BD \in Nat /\ BD > 0 /\ AD \in Nat
      <3>1. \A z, w \in Nat : z * w \in Nat /\ (z > 0 /\ w > 0 => z * w > 0)
        OBVIOUS
      <3> HIDE DEF A, B, D
      <3> QED BY <1>1, <2>2, <3>1 DEF B, D
    <2>5. a.used \in Nat \ {0}
      BY TidyIs
    <2> HIDE DEF x, y
    <2>6. /\ Tidy(r.q) /\ Top(r.q) /\ Above(r.q, 0) = AD \div BD
          /\ Tidy(r.r) /\ Top(r.r) /\ Above(r.r, 0) = (AD % BD) \div D
      <3>1. Above(y, 0) > 0 /\ Above(y, 0) = BD /\ Above(x, 0) = AD
        BY <2>2, <2>3, <2>4
      <3> HIDE DEF AD, BD
      <3>2. /\ Tidy(r.q) /\ Top(r.q) /\ Above(r.q, 0) = Above(x, 0) \div Above(y, 0)
            /\ Tidy(r.r) /\ Top(r.r)
            /\ Above(r.r, 0) = (Above(x, 0) % Above(y, 0)) \div 2 ^ d
        BY ONLY <2>1, <2>2, <2>3, <2>5, <3>1, NormalizedDivIs
      <3> QED BY <3>1, <3>2 DEF D
    <2>7. q \in Nat /\ v \in Nat /\ v < B /\ A = B * q + v
      <3> HIDE DEF A
      <3> QED BY <1>1
    <2>8. D \in Nat /\ D > 0 /\ B > 0
      BY <2>2
    <2> HIDE DEF A, B, D, q, v
    <2>9. AD = BD * q + v * D /\ v * D < BD /\ v * D \in Nat
      <3>1. \A z, w, t, o \in Nat : (z * w + t) * o = (z * o) * w + t * o /\ t * o \in Nat
        OBVIOUS
      <3>2. AD = BD * q + v * D /\ v * D \in Nat
        BY <1>1, <2>7, <2>8, <3>1
      <3>3. v * D < BD
        <4>1. v + 1 <= B /\ v + 1 \in Nat
          BY <1>1, <2>7
        <4>2. (v + 1) * D <= B * D
          BY <1>1, <2>8, <4>1, ProductsOrdered
        <4>3. (v + 1) * D = v * D + D
          <5>1. \A z, w \in Nat : (z + 1) * w = z * w + w
            OBVIOUS
          <5> QED BY <2>7, <2>8, <5>1
        <4> HIDE DEF BD
        <4> QED BY <2>4, <2>8, <3>2, <4>2, <4>3 DEF BD
      <3> QED BY <3>2, <3>3
    <2> HIDE DEF AD, BD
    <2>10. AD \div BD = q /\ AD % BD = v * D
      <3> DEFINE w == v * D
      <3>1. AD = BD * q + w /\ w < BD /\ w \in Nat
        BY <2>9
      <3> HIDE DEF w
      <3>2. AD \div BD = q /\ AD % BD = w
        BY <2>4, <2>7, <3>1, Divides
      <3> QED BY <3>2 DEF w
    <2>11. (v * D) \div D = v
      <3>1. v * D = D * v + 0 /\ 0 < D /\ 0 \in Nat
        <4>1. \A z, w \in Nat : z * w = w * z + 0
          OBVIOUS
        <4> QED BY <2>7, <2>8, <4>1
      <3> DEFINE w == v * D
      <3>2. w = D * v + 0
        BY <3>1
      <3> HIDE DEF w
      <3>3. w \div D = v
        BY <2>7, <2>8, <3>1, <3>2, Divides
      <3> QED BY <3>3 DEF w
    <2> QED BY <2>6, <2>10, <2>11 DEF q, v, A, B
  <1> QED BY <1>2, <1>3

-----------------------------------------------------------------------------
(* Quotients and remainders of numbers in memory.                          *)

\* Quotients and remainders of integers, by their magnitudes and signs.
LEMMA QuotientFacts ==
  ASSUME NEW m \in Int, NEW n \in Int, n # 0,
         NEW x, x = Magn(m) \div Magn(n), NEW y, y = Magn(m) % Magn(n)
  PROVE  /\ x \in Nat /\ y \in Nat /\ y < Magn(n) /\ Magn(m) = Magn(n) * x + y
         /\ Magn(m) \in Nat /\ Magn(n) \in Nat /\ Magn(n) > 0
         /\ Quotient(m, n) \in Int /\ Magn(Quotient(m, n)) = x
         /\ Quotient(m, n) < 0 => (m < 0 <=> n >= 0)
         /\ Quotient(m, n) > 0 => (m < 0 <=> n < 0)
         /\ Remainder(m, n) \in Int /\ Magn(Remainder(m, n)) = y
         /\ (Remainder(m, n) < 0 => m < 0) /\ (Remainder(m, n) > 0 => m > 0)
  <1>1. Magn(m) \in Nat /\ Magn(n) \in Nat /\ Magn(n) > 0
    BY DEF Magn
  <1> DEFINE M == Magn(m)
             N == Magn(n)
             s == Sgn(m) * Sgn(n)
  <1>2. x \in Nat /\ y \in Nat /\ y < N /\ M = N * x + y
    <2> HIDE DEF M, N
    <2> QED BY <1>1 DEF M, N
  <1>3. Quotient(m, n) = s * x /\ Remainder(m, n) = Sgn(m) * y
    BY DEF Quotient, Remainder
  <1>4. /\ s = 1 \/ s = -1 \/ (s = 0 /\ m = 0)
        /\ s = 1 => (m < 0 <=> n < 0)
        /\ s = -1 => (m < 0 <=> n >= 0)
    BY DEF Sgn
  <1>5. m = 0 => x = 0 /\ y = 0
    <2> SUFFICES ASSUME m = 0 PROVE x = 0 /\ y = 0
      OBVIOUS
    <2>1. M = N * 0 + 0 /\ 0 < N /\ 0 \in Nat
      BY <1>1 DEF Magn
    <2> HIDE DEF M, N
    <2>2. M \div N = 0 /\ M % N = 0
      BY <1>1, <2>1, Divides DEF N
    <2> QED BY <2>2 DEF M, N
  <1> HIDE DEF s
  <1>6. \A z \in Nat : 1 * z = z /\ -1 * z = -z /\ 0 * z = 0
    OBVIOUS
  <1>7. Sgn(m) = IF m < 0 THEN -1 ELSE IF m = 0 THEN 0 ELSE 1
    BY DEF Sgn
  <1>8. /\ Quotient(m, n) \in Int /\ Magn(Quotient(m, n)) = x
        /\ Quotient(m, n) < 0 => (m < 0 <=> n >= 0)
        /\ Quotient(m, n) > 0 => (m < 0 <=> n < 0)
    <2>0. x \in Nat /\ m \in Int /\ n \in Int /\ \A z \in Nat : Magn(z) = z /\ Magn(-z) = z
      BY <1>2 DEF Magn
    <2> DEFINE o == Quotient(m, n)
    <2>4. o = s * x
      BY <1>3
    <2> HIDE DEF o
    <2>1. CASE s = 1
      <3>1. o = x
        BY ONLY <1>6, <2>0, <2>1, <2>4
      <3>2. m < 0 <=> n < 0
        BY <1>4, <2>1
      <3>3. o \in Int /\ Magn(o) = x /\ o >= 0
        BY ONLY <2>0, <3>1
      <3> QED BY ONLY <3>2, <3>3 DEF o
    <2>2. CASE s = -1
      <3>1. o = -x
        BY ONLY <1>6, <2>0, <2>2, <2>4
      <3>2. m < 0 <=> n >= 0
        BY <1>4, <2>2
      <3>3. o \in Int /\ Magn(o) = x /\ o <= 0
        BY ONLY <2>0, <3>1
      <3> QED BY ONLY <3>2, <3>3 DEF o
    <2>3. CASE s = 0 /\ m = 0
      BY <1>2, <1>3, <1>5, <1>6, <2>3 DEF Magn, o
    <2> QED BY <1>4, <2>1, <2>2, <2>3
  <1>9. /\ Remainder(m, n) \in Int /\ Magn(Remainder(m, n)) = y
        /\ (Remainder(m, n) < 0 => m < 0) /\ (Remainder(m, n) > 0 => m > 0)
    <2>1. CASE m < 0
      BY <1>2, <1>3, <1>6, <1>7, <2>1 DEF Magn
    <2>2. CASE m = 0
      BY <1>2, <1>3, <1>5, <1>6, <1>7, <2>2 DEF Magn
    <2>3. CASE m > 0
      BY <1>2, <1>3, <1>6, <1>7, <2>3 DEF Magn
    <2> QED BY <2>1, <2>2, <2>3
  <1> QED BY <1>1, <1>2, <1>8, <1>9

\* A result goes to its place, if it has one.
LEMMA StoreIs ==
  ASSUME NEW h, NEW v, Holds(h, v), NEW c \in OrNull, NEW m, NEW n, Good(m, n),
         NEW k, k = Store(h, c, m)
  PROVE  Holds(k, [s \in Regs |-> IF s = c THEN n ELSE v[s]])
  <1> DEFINE w == [s \in Regs |-> IF s = c THEN n ELSE v[s]]
  <1>1. v \in [Regs -> Int] /\ Null \notin Regs
    BY MpiCallsAssumption DEF Holds
  <1>2. CASE c = Null
    <2>1. w = v
      BY <1>1, <1>2
    <2>2. k = h
      BY <1>2 DEF Store
    <2> HIDE DEF w
    <2>3. Holds(k, w)
      BY <2>1, <2>2
    <2> QED BY <2>3 DEF w
  <1>3. CASE c # Null
    <2>1. c \in Regs
      BY <1>3 DEF OrNull
    <2>2. k = [h EXCEPT ![c] = m]
      BY <1>3 DEF Store, Put
    <2>3. w = [v EXCEPT ![c] = n]
      BY <1>1, <2>1
    <2> HIDE DEF w
    <2>4. Holds(k, w)
      BY <2>1, <2>2, <2>3, PutIs
    <2> QED BY <2>4 DEF w
  <1> QED BY <1>2, <1>3

\* Two results, one after the other.
LEMMA StoreTwoIs ==
  ASSUME NEW h, NEW v, Holds(h, v), NEW q \in OrNull, NEW x, NEW m, Good(x, m),
         NEW r \in OrNull, NEW y, NEW n, Good(y, n), NEW k, k = Store(Store(h, q, x), r, y)
  PROVE  Holds(k, [s \in Regs |-> IF s = r THEN n ELSE IF s = q THEN m ELSE v[s]])
  <1> DEFINE g == Store(h, q, x)
             u == [s \in Regs |-> IF s = q THEN m ELSE v[s]]
             w == [s \in Regs |-> IF s = r THEN n ELSE IF s = q THEN m ELSE v[s]]
  <1>1. Holds(g, u)
    BY StoreIs
  <1>2. k = Store(g, r, y)
    OBVIOUS
  <1>3. w = [s \in Regs |-> IF s = r THEN n ELSE u[s]]
    OBVIOUS
  <1> HIDE DEF g, u
  <1>4. Holds(k, [s \in Regs |-> IF s = r THEN n ELSE u[s]])
    BY <1>1, <1>2, StoreIs
  <1> HIDE DEF w
  <1>5. Holds(k, w)
    BY <1>3, <1>4
  <1> QED BY <1>5 DEF w

\* mp_div: with one result or two, wherever they go; by zero nothing is done.
LEMMA DivRight ==
  ASSUME NEW h, NEW v, Holds(h, v), NEW a \in Regs, NEW b \in Regs, NEW q \in OrNull,
         NEW r \in OrNull, q # r
  PROVE  IF v[b] = 0 THEN mp_div(h, a, b, q, r) = h
         ELSE Holds(mp_div(h, a, b, q, r),
                    [s \in Regs |-> IF s = r THEN Remainder(v[a], v[b])
                                    ELSE IF s = q THEN Quotient(v[a], v[b]) ELSE v[s]])
  <1> DEFINE m == v[a]
             n == v[b]
             cmp == s_mp_cmp(h[a], h[b])
             sgn == IF h[a].sign = h[b].sign THEN ZPOS ELSE NEG
             Q == Quotient(m, n)
             R == Remainder(m, n)
             k == mp_div(h, a, b, q, r)
             w == [s \in Regs |-> IF s = r THEN R ELSE IF s = q THEN Q ELSE v[s]]
  <1>1. /\ m \in Int /\ n \in Int /\ Above(h[a], 0) \in Nat /\ Above(h[b], 0) \in Nat
        /\ Above(h[a], 0) = Magn(m) /\ Above(h[b], 0) = Magn(n)
        /\ h[a].sign = (IF m < 0 THEN 1 ELSE 0) /\ h[b].sign = (IF n < 0 THEN 1 ELSE 0)
        /\ cmp = Sgn(Magn(m) - Magn(n))
    BY TwoOperands
  <1>2. Good(h[a], m) /\ Good(h[b], n)
    BY DEF Holds
  <1>3. mp_cmp_z(h[b]) = 0 <=> n = 0
    <2>1. Above(h[b], 0) = 0 <=> h[b].used = 1 /\ h[b].dp[0] = 0
      BY <1>2, TidyAbove, ZeroIs DEF Good
    <2>2. Above(h[b], 0) = 0 <=> n = 0
      BY <1>1 DEF Magn
    <2>3. h[b].sign = NEG => n # 0
      BY <1>1 DEF NEG
    <2> QED BY <2>1, <2>2, <2>3 DEF mp_cmp_z
  <1>4. CASE n = 0
    <2>1. k = h
      BY <1>3, <1>4 DEF mp_div
    <2> QED BY <1>4, <2>1
  <1>5. CASE n # 0
    <2> DEFINE x == Magn(m) \div Magn(n)
               y == Magn(m) % Magn(n)
    <2>1. /\ x \in Nat /\ y \in Nat /\ y < Magn(n) /\ Magn(m) = Magn(n) * x + y
          /\ Magn(m) \in Nat /\ Magn(n) \in Nat /\ Magn(n) > 0
          /\ Q \in Int /\ Magn(Q) = x
          /\ Q < 0 => (m < 0 <=> n >= 0)
          /\ Q > 0 => (m < 0 <=> n < 0)
          /\ R \in Int /\ Magn(R) = y
          /\ (R < 0 => m < 0) /\ (R > 0 => m > 0)
      <3>1. x = Magn(m) \div Magn(n) /\ y = Magn(m) % Magn(n)
        OBVIOUS
      <3> HIDE DEF x, y, m, n
      <3> QED BY <1>1, <1>5, <3>1, QuotientFacts
    <2> HIDE DEF x, y, Q, R
    <2>2. /\ sgn \in {ZPOS, NEG} /\ (Q < 0 => sgn = NEG) /\ (Q > 0 => sgn = ZPOS)
          /\ h[a].sign \in {ZPOS, NEG}
          /\ (R < 0 => h[a].sign = NEG) /\ (R > 0 => h[a].sign = ZPOS)
      <3> HIDE DEF m, n
      <3> QED BY <1>1, <2>1 DEF ZPOS, NEG
    <2>3. /\ cmp < 0 <=> Magn(m) < Magn(n)
          /\ cmp = 0 <=> Magn(m) = Magn(n)
      <3> DEFINE M == Magn(m)
                 N == Magn(n)
      <3>1. cmp = Sgn(M - N) /\ M \in Nat /\ N \in Nat
        BY <1>1, <2>1
      <3> HIDE DEF M, N, cmp
      <3>2. (cmp < 0 <=> M < N) /\ (cmp = 0 <=> M = N)
        BY <3>1 DEF Sgn
      <3> QED BY <3>2 DEF M, N
    <2>4. mp_cmp_z(h[b]) # 0
      BY <1>3, <1>5
    <2>5. v \in [Regs -> Int] /\ Null \notin Regs
      BY MpiCallsAssumption DEF Holds
    <2> HIDE DEF w
    <2>6. CASE cmp < 0
      <3> DEFINE g == IF r = Null THEN h ELSE mp_copy(h, a, r)
                 u == [s \in Regs |-> IF s = r THEN m ELSE v[s]]
      <3>1. Q = 0 /\ R = m
        <4>1. x = 0 /\ y = Magn(m)
          <5> DEFINE M == Magn(m)
                     N == Magn(n)
          <5>1. M \in Nat /\ N \in Nat /\ N > 0 /\ M < N
            BY <2>1, <2>3, <2>6
          <5>2. M = N * 0 + M
            <6>1. \A z \in Nat : z * 0 = 0
              OBVIOUS
            <6> HIDE DEF M, N
            <6> QED BY <5>1, <6>1
          <5> HIDE DEF M, N
          <5>3. M \div N = 0 /\ M % N = M
            BY <5>1, <5>2, Divides
          <5> QED BY <5>3 DEF x, y, M, N
        <4>2. Magn(Q) = 0 /\ Magn(R) = Magn(m)
          BY <2>1, <4>1
        <4> QED BY <1>1, <2>1, <4>2 DEF Magn
      <3>2. Holds(g, u)
        <4>1. CASE r = Null
          <5>1. u = v
            BY <2>5, <4>1
          <5> HIDE DEF u
          <5> QED BY <4>1, <5>1
        <4>2. CASE r # Null
          <5>1. r \in Regs
            BY <4>2 DEF OrNull
          <5>2. u = [v EXCEPT ![r] = m]
            BY <2>5, <5>1
          <5> HIDE DEF u
          <5> QED BY <4>2, <5>1, <5>2, UnaryIs
        <4> QED BY <4>1, <4>2
      <3>3. k = IF q = Null THEN g ELSE mp_zero(g, q)
        BY <2>4, <2>6 DEF mp_div
      <3>4. w = IF q = Null THEN u ELSE [u EXCEPT ![q] = 0]
        <4>1. CASE q = Null
          BY <2>5, <3>1, <4>1 DEF w
        <4>2. CASE q # Null
          <5>1. q \in Regs
            BY <4>2 DEF OrNull
          <5> QED BY <3>1, <4>2, <5>1 DEF w
        <4> QED BY <4>1, <4>2
      <3> HIDE DEF g, u, k
      <3>5. Holds(k, w)
        <4>1. CASE q = Null
          BY <3>2, <3>3, <3>4, <4>1
        <4>2. CASE q # Null
          <5>1. q \in Regs
            BY <4>2 DEF OrNull
          <5>2. 0 \in Digit
            BY RadixIs
          <5>3. Holds(mp_zero(g, q), [u EXCEPT ![q] = 0])
            BY <3>2, <5>1, <5>2, WithDigitAre
          <5> QED BY <3>3, <3>4, <4>2, <5>3
        <4> QED BY <4>1, <4>2
      <3> QED BY <1>5, <3>5 DEF k, w, Q, R
    <2>7. CASE cmp = 0
      <3> DEFINE o(g) == [SetDigit(g[q], 1) EXCEPT !.sign = sgn]
                 g == IF q = Null THEN h ELSE [h EXCEPT ![q] = o(h)]
                 u == [s \in Regs |-> IF s = q THEN Q ELSE v[s]]
      <3>1. x = 1 /\ y = 0
        <4> DEFINE M == Magn(m)
                   N == Magn(n)
        <4>1. M \in Nat /\ N \in Nat /\ N > 0 /\ M = N
          BY <2>1, <2>3, <2>7
        <4>2. M = N * 1 + 0
          <5>1. \A z \in Nat : z * 1 = z
            OBVIOUS
          <5> HIDE DEF M, N
          <5> QED BY <4>1, <5>1
        <4> HIDE DEF M, N
        <4>3. M \div N = 1 /\ M % N = 0
          BY <4>1, <4>2, Divides
        <4> QED BY <4>3 DEF x, y, M, N
      <3>2. R = 0 /\ Magn(Q) = 1
        <4>1. Magn(Q) = 1 /\ Magn(R) = 0
          BY <2>1, <3>1
        <4> QED BY <2>1, <4>1 DEF Magn
      <3>3. Holds(g, u)
        <4>1. CASE q = Null
          <5>1. u = v
            BY <2>5, <4>1
          <5> HIDE DEF u
          <5> QED BY <4>1, <5>1
        <4>2. CASE q # Null
          <5>1. q \in Regs
            BY <4>2 DEF OrNull
          <5>2. u = [v EXCEPT ![q] = Q]
            BY <2>5, <5>1
          <5>3. 1 \in Digit
            BY RadixIs DEF Digit
          <5> DEFINE e == SetDigit(h[q], 1)
          <5>4. Good(e, 1)
            BY <5>1, <5>3, ZeroedIs DEF Holds, Good
          <5>5. o(h) = [e EXCEPT !.sign = sgn]
            OBVIOUS
          <5> HIDE DEF e, o
          <5>6. Tidy(o(h)) /\ Top(o(h)) /\ Above(o(h), 0) = 1 /\ o(h).sign = sgn
            <6>1. Tidy(e) /\ Top(e) /\ Above(e, 0) = 1
              BY <5>4 DEF Good, Magn
            <6> HIDE DEF sgn
            <6> QED BY <2>2, <5>5, <6>1, WithSignIs
          <5>7. Good(o(h), Q)
            <6>1. Q # 0 /\ (sgn = IF Q < 0 THEN NEG ELSE ZPOS)
              BY <2>1, <2>2, <3>2 DEF Magn
            <6> QED BY <2>1, <3>2, <5>6, <6>1 DEF Good
          <5> HIDE DEF u
          <5>8. g = [h EXCEPT ![q] = o(h)]
            BY <4>2
          <5> HIDE DEF g
          <5> QED BY <5>1, <5>2, <5>7, <5>8, PutIs
        <4> QED BY <4>1, <4>2
      <3>4. k = IF r = Null THEN g ELSE mp_zero(g, r)
        BY <2>4, <2>7 DEF mp_div, Put
      <3>5. w = IF r = Null THEN u ELSE [u EXCEPT ![r] = 0]
        <4>1. CASE r = Null
          BY <2>5, <4>1 DEF w
        <4>2. CASE r # Null
          <5>1. r \in Regs
            BY <4>2 DEF OrNull
          <5> QED BY <3>2, <4>2, <5>1 DEF w
        <4> QED BY <4>1, <4>2
      <3> HIDE DEF g, u, k
      <3>6. Holds(k, w)
        <4>1. CASE r = Null
          BY <3>3, <3>4, <3>5, <4>1
        <4>2. CASE r # Null
          <5>1. r \in Regs
            BY <4>2 DEF OrNull
          <5>2. 0 \in Digit
            BY RadixIs
          <5>3. Holds(mp_zero(g, r), [u EXCEPT ![r] = 0])
            BY <3>3, <5>1, <5>2, WithDigitAre
          <5> QED BY <3>4, <3>5, <4>2, <5>3
        <4> QED BY <4>1, <4>2
      <3> QED BY <1>5, <3>6 DEF k, w, Q, R
    <2>8. CASE ~ cmp < 0 /\ cmp # 0
      <3> DEFINE c == Copied(h[a])
                 e == Copied(h[b])
                 divided == s_mp_div(c, e)
                 f == Signed(divided.q, sgn)
                 g == Signed(divided.r, h[a].sign)
      <3>1. Good(c, m) /\ Good(e, n)
        BY <1>2, CopiedIs
      <3> HIDE DEF c, e
      <3>2. /\ Tidy(c) /\ Top(c) /\ Above(c, 0) = Magn(m)
            /\ Above(c, 0) = 0 => c.sign = ZPOS
            /\ Tidy(e) /\ Top(e) /\ Above(e, 0) = Magn(n) /\ Above(e, 0) > 0
        BY <2>1, <3>1, GoodFacts
      <3>3. /\ Tidy(divided.q) /\ Top(divided.q) /\ Above(divided.q, 0) = Magn(Q)
            /\ Tidy(divided.r) /\ Top(divided.r) /\ Above(divided.r, 0) = Magn(R)
        <4>1. Magn(Q) = x /\ Magn(R) = y
          BY <2>1
        <4>2. /\ Tidy(divided.q) /\ Top(divided.q)
              /\ Above(divided.q, 0) = Above(c, 0) \div Above(e, 0)
              /\ Tidy(divided.r) /\ Top(divided.r)
              /\ Above(divided.r, 0) = Above(c, 0) % Above(e, 0)
          BY <3>2, DivIs
        <4> QED BY <3>2, <4>1, <4>2 DEF x, y
      <3>4. k = Store(Store(h, q, f), r, g)
        BY <2>4, <2>8 DEF mp_div, StoreBoth, c, e
      <3> HIDE DEF divided
      <3>5. Good(f, Q)
        <4> HIDE DEF sgn
        <4> QED BY <2>1, <2>2, <3>3, SignedIs
      <3>6. Good(g, R)
        <4> DEFINE t == h[a].sign
        <4>1. t \in {ZPOS, NEG} /\ (R < 0 => t = NEG) /\ (R > 0 => t = ZPOS)
          BY <2>2
        <4>2. g = Signed(divided.r, t)
          OBVIOUS
        <4> HIDE DEF t, g
        <4> QED BY <2>1, <3>3, <4>1, <4>2, SignedIs
      <3> HIDE DEF f, g, k
      <3>7. Holds(k, [s \in Regs |-> IF s = r THEN R ELSE IF s = q THEN Q ELSE v[s]])
        BY <3>4, <3>5, <3>6, StoreTwoIs
      <3> QED BY <1>5, <3>7 DEF k, Q, R
    <2> QED BY <2>6, <2>7, <2>8
  <1> QED BY <1>4, <1>5

\* The residue of a number, from a quotient and what is left.
LEMMA ModIs ==
  ASSUME NEW m \in Nat, m > 0, NEW q \in Int, NEW r \in Nat, r < m, NEW n, n = m * q + r
  PROVE  n % m = r
  <1> DEFINE u == n \div m
             v == n % m
  <1>1. m * q \in Int
    OBVIOUS
  <1>2. n \in Int
    BY <1>1
  <1>3. u \in Int /\ v \in Nat /\ v < m /\ n = m * u + v
    BY <1>2
  <1> HIDE DEF u, v
  <1>4. m * u \in Int
    BY <1>3
  <1>5. \A s, t \in Int : s < t => m * s + m <= m * t
    <2> SUFFICES ASSUME NEW s \in Int, NEW t \in Int, s < t PROVE m * s + m <= m * t
      OBVIOUS
    <2>1. t - s - 1 \in Nat /\ t = s + 1 + (t - s - 1)
      OBVIOUS
    <2> DEFINE e == t - s - 1
    <2> HIDE DEF e
    <2>2. e \in Nat /\ t = s + 1 + e
      BY <2>1 DEF e
    <2>3. m * e \in Nat /\ m * (s + 1 + e) = m * s + m + m * e /\ m * s \in Int
      BY <2>2
    <2> QED BY <2>2, <2>3
  <1>6. ~ u > q
    BY <1>1, <1>3, <1>4, <1>5
  <1>7. ~ q > u
    BY <1>1, <1>3, <1>4, <1>5
  <1>8. u = q
    BY <1>3, <1>6, <1>7
  <1>9. v = r
    BY <1>1, <1>3, <1>8
  <1> QED BY <1>9 DEF v

\* The remainder of a division is the residue, or lacks the modulus.
LEMMA ResidueIs ==
  ASSUME NEW n \in Int, NEW m \in Nat, m > 0, NEW R, R = Remainder(n, m)
  PROVE  /\ R \in Int
         /\ R >= 0 => n % m = R
         /\ R < 0 => n < 0 /\ n % m = R + m
         /\ Magn(n) < m => n % m = IF n < 0 THEN n + m ELSE n
         /\ Magn(n) = m => n % m = 0
  <1> DEFINE x == Magn(n) \div Magn(m)
             y == Magn(n) % Magn(m)
             N == Magn(n)
  <1>1. Magn(m) = m
    BY DEF Magn
  <1>2. /\ x \in Nat /\ y \in Nat /\ y < m /\ N = m * x + y /\ N \in Nat
        /\ R \in Int /\ Magn(R) = y /\ (R < 0 => n < 0) /\ (R > 0 => n > 0)
    <2>1. x = Magn(n) \div Magn(m) /\ y = Magn(n) % Magn(m) /\ m \in Int /\ m # 0
      OBVIOUS
    <2> HIDE DEF x, y
    <2>2. /\ x \in Nat /\ y \in Nat /\ y < Magn(m) /\ Magn(n) = Magn(m) * x + y
          /\ Magn(n) \in Nat /\ Remainder(n, m) \in Int /\ Magn(Remainder(n, m)) = y
          /\ (Remainder(n, m) < 0 => n < 0) /\ (Remainder(n, m) > 0 => n > 0)
      BY ONLY <2>1, n \in Int, QuotientFacts
    <2> QED BY <1>1, <2>2
  <1>3. N = IF n < 0 THEN -n ELSE n
    BY DEF Magn
  <1>4. y = IF R < 0 THEN -R ELSE R
    BY <1>2 DEF Magn
  <1> HIDE DEF x, y, N
  <1>0. \A q \in Int, r \in Nat : r < m /\ n = m * q + r => n % m = r
    BY ModIs
  <1>5. m * x \in Nat /\ m * (-x) = -(m * x) /\ m * (-x - 1) = -(m * x) - m
        /\ -x \in Int /\ -x - 1 \in Int /\ m * 0 = 0 /\ m * 1 = m /\ m * (-1) = -m
    BY <1>2
  <1>6. ASSUME R >= 0 PROVE n % m = R
    <2>1. CASE n >= 0
      <3>1. n = m * x + R /\ R \in Nat /\ R < m
        BY <1>2, <1>3, <1>4, <1>6, <2>1
      <3>2. x \in Int
        BY <1>2
      <3> QED BY ONLY <3>1, <3>2, <1>0
    <2>2. CASE n < 0
      <3>1. n = m * (-x) + 0 /\ R = 0
        BY <1>2, <1>3, <1>4, <1>5, <1>6, <2>2
      <3>2. n % m = 0
        BY <1>5, <3>1, <1>0
      <3> QED BY <3>1, <3>2
    <2> QED BY <2>1, <2>2
  <1>7. ASSUME R < 0 PROVE n < 0 /\ n % m = R + m
    <2>1. n = m * (-x - 1) + (R + m) /\ R + m \in Nat /\ R + m < m /\ n < 0
      BY <1>2, <1>3, <1>4, <1>5, <1>7
    <2> QED BY <1>5, <2>1, <1>0
  <1>8. ASSUME N < m PROVE n % m = IF n < 0 THEN n + m ELSE n
    <2>1. CASE n < 0
      <3>1. n = m * (-1) + (n + m) /\ n + m \in Nat /\ n + m < m /\ -1 \in Int
        BY <1>3, <1>5, <1>8, <2>1
      <3> QED BY <2>1, <3>1, <1>0
    <2>2. CASE n >= 0
      <3>1. n = m * 0 + n /\ n \in Nat /\ n < m
        BY <1>3, <1>5, <1>8, <2>2
      <3> QED BY <2>2, <3>1, <1>0
    <2> QED BY <2>1, <2>2
  <1>9. ASSUME N = m PROVE n % m = 0
    <2>1. (n = m * 1 + 0) \/ (n = m * (-1) + 0)
      BY <1>3, <1>5, <1>9
    <2> QED BY <2>1, <1>0
  <1> QED BY <1>2, <1>6, <1>7, <1>8, <1>9 DEF N

\* mp_mod: a residue, unless the modulus is negative.  A modulus in the result's place is
\* lost before a negative residue needs it.
LEMMA ModRight ==
  ASSUME NEW h, NEW v, Holds(h, v), NEW a \in Regs, NEW m \in Regs, NEW c \in Regs,
         v[m] # 0, c = m => v[a] >= 0 \/ v[m] < 0
  PROVE  Holds(mp_mod(h, a, m, c), [v EXCEPT ![c] = IF v[m] < 0 THEN v[c] ELSE v[a] % v[m]])
  <1> DEFINE x == v[a]
             y == v[m]
             mag == s_mp_cmp(h[a], h[m])
             k == mp_mod(h, a, m, c)
             w(n) == [v EXCEPT ![c] = n]
             n == IF y < 0 THEN v[c] ELSE x % y
  <1>1. /\ x \in Int /\ y \in Int /\ y # 0
        /\ h[m].sign = (IF y < 0 THEN 1 ELSE 0) /\ mag = Sgn(Magn(x) - Magn(y))
    BY TwoOperands
  <1>2. /\ v \in [Regs -> Int] /\ h = [r \in Regs |-> h[r]] /\ Null \notin Regs
        /\ \A r \in Regs : Good(h[r], v[r])
    BY MpiCallsAssumption DEF Holds
  <1>3. \A t \in Int : /\ w(t) \in [Regs -> Int] /\ w(t)[c] = t
                       /\ \A s \in Regs : s # c => w(t)[s] = v[s]
    BY <1>2
  <1>4. \A t \in Int : \A z : [w(t) EXCEPT ![c] = z] = w(z)
    <2> TAKE t \in Int
    <2> TAKE z
    <2> QED BY <1>2
  <1>5. CASE y < 0
    <2>1. k = h
      BY <1>1, <1>5 DEF mp_mod, NEG
    <2>2. w(n) = v
      BY <1>2, <1>5
    <2> HIDE DEF k, w
    <2>3. Holds(k, w(n))
      BY <2>1, <2>2
    <2> QED BY <2>3 DEF k, w
  <1>6. CASE y > 0
    <2>1. y \in Nat /\ y > 0 /\ n = x % y /\ Magn(y) = y /\ ~ h[m].sign = NEG /\ ~ IsZero(h[m])
      <3>1. Tidy(h[m]) /\ Top(h[m]) /\ Above(h[m], 0) = Magn(y)
        BY <1>2 DEF Good
      <3>2. IsZero(h[m]) <=> Magn(y) = 0
        BY <3>1, TidyAbove, ZeroIs
      <3> QED BY <1>1, <1>6, <3>2 DEF Magn, NEG
    <2>2. c = m => x >= 0
      BY <1>1, <1>6
    <2>3. k = IF mag > 0 THEN LET g == mp_div(h, a, m, Null, c)
                              IN  Residue(g, m, c, g[c].sign = NEG)
              ELSE IF mag < 0 THEN LET g == mp_copy(h, a, c)
                                   IN  Residue(g, m, c, mp_cmp_z(g[a]) < 0)
              ELSE mp_zero(h, c)
      BY <2>1 DEF mp_mod
    <2> HIDE DEF k, n, mag
    <2> DEFINE R == Remainder(x, y)
    <2>4. /\ R \in Int /\ (R >= 0 => n = R) /\ (R < 0 => x < 0 /\ n = R + y)
          /\ (Magn(x) < y => n = IF x < 0 THEN x + y ELSE x)
          /\ (Magn(x) = y => n = 0)
      <3> HIDE DEF x, y
      <3>1. R = Remainder(x, y)
        OBVIOUS
      <3> HIDE DEF R
      <3> QED BY <1>1, <2>1, <3>1, ResidueIs
    <2>5. Magn(x) \in Nat
      BY <1>1 DEF Magn
    <2> HIDE DEF R, w
    <2>6. ASSUME NEW g, NEW t \in Int, Holds(g, w(t)), t < 0 => x < 0 /\ n = t + y
          PROVE  t < 0 => Holds(mp_add(g, c, m, c), w(n))
      <3> SUFFICES ASSUME t < 0 PROVE Holds(mp_add(g, c, m, c), w(n))
        OBVIOUS
      <3>1. c # m
        BY <1>1, <2>2, <2>6
      <3>2. w(t)[c] = t /\ w(t)[m] = y
        BY <1>3, <3>1
      <3>3. Holds(mp_add(g, c, m, c), [w(t) EXCEPT ![c] = w(t)[c] + w(t)[m]])
        BY <2>6, AddRight
      <3>4. n = w(t)[c] + w(t)[m]
        BY <2>6, <3>2
      <3> HIDE DEF y, x
      <3> QED BY <1>4, <3>3, <3>4
    <2>7. CASE mag > 0
      <3> DEFINE g == mp_div(h, a, m, Null, c)
      <3>1. Holds(g, w(R))
        <4>1. Null \in OrNull /\ c \in OrNull /\ Null # c
          BY <1>2 DEF OrNull
        <4>2. IF v[m] = 0 THEN g = h
              ELSE Holds(g, [s \in Regs |-> IF s = c THEN Remainder(v[a], v[m])
                                            ELSE IF s = Null THEN Quotient(v[a], v[m])
                                            ELSE v[s]])
          BY <4>1, DivRight
        <4>3. w(R) = [s \in Regs |-> IF s = c THEN Remainder(v[a], v[m])
                                     ELSE IF s = Null THEN Quotient(v[a], v[m]) ELSE v[s]]
          BY <1>2 DEF w, R
        <4> HIDE DEF g
        <4> QED BY <1>1, <4>2, <4>3
      <3> HIDE DEF g
      <3>2. g[c].sign = NEG <=> R < 0
        <4>1. Good(g[c], R)
          BY <1>3, <2>4, <3>1 DEF Holds
        <4> QED BY <2>4, <4>1 DEF Good, NEG, ZPOS
      <3>3. k = IF R < 0 THEN mp_add(g, c, m, c) ELSE g
        BY <2>3, <2>7, <3>2 DEF Residue, g
      <3>4. Holds(k, w(n))
        BY <2>4, <2>6, <3>1, <3>3
      <3> QED BY <3>4 DEF k, w, n
    <2>8. CASE mag < 0
      <3> DEFINE g == mp_copy(h, a, c)
      <3>1. Holds(g, w(x))
        BY UnaryIs DEF w
      <3> HIDE DEF g
      <3>2. w(x)[a] = x
        BY <1>1, <1>3
      <3>3. mp_cmp_z(g[a]) < 0 <=> x < 0
        <4>1. Good(g[a], w(x)[a])
          BY <3>1 DEF Holds
        <4>2. Good(g[a], x)
          BY <3>2, <4>1
        <4>3. g[a].sign = NEG <=> x < 0
          BY <1>1, <4>2 DEF Good, NEG, ZPOS
        <4> QED BY <4>3 DEF mp_cmp_z
      <3>4. k = IF x < 0 THEN mp_add(g, c, m, c) ELSE g
        <4>1. mag \in Int
          <5> DEFINE X == Magn(x) - Magn(y)
          <5>1. mag = Sgn(X)
            BY <1>1
          <5> HIDE DEF X
          <5> QED BY <5>1 DEF Sgn
        <4>2. ~ mag > 0
          BY <2>8, <4>1
        <4> QED BY <2>3, <2>8, <3>3, <4>2 DEF Residue, g
      <3>5. Magn(x) < y
        <4> DEFINE X == Magn(x)
        <4> HIDE DEF X
        <4>1. X \in Nat /\ mag = Sgn(X - y)
          BY <1>1, <2>1, <2>5 DEF X
        <4>2. X < y
          BY <2>1, <2>8, <4>1 DEF Sgn
        <4> QED BY <4>2 DEF X
      <3>6. n = IF x < 0 THEN x + y ELSE x
        BY <2>4, <3>5
      <3>7. Holds(k, w(n))
        BY <1>1, <2>6, <3>1, <3>4, <3>6
      <3> QED BY <3>7 DEF k, w, n
    <2>9. CASE ~ mag > 0 /\ ~ mag < 0
      <3>1. Magn(x) = y
        <4> DEFINE X == Magn(x)
        <4> HIDE DEF X
        <4>1. X \in Nat /\ mag = Sgn(X - y)
          BY <1>1, <2>1, <2>5 DEF X
        <4>2. X = y
          BY <2>1, <2>9, <4>1 DEF Sgn
        <4> QED BY <4>2 DEF X
      <3>2. n = 0
        BY <2>4, <3>1
      <3>3. k = mp_zero(h, c)
        BY <2>3, <2>9
      <3>4. 0 \in Digit
        BY RadixIs
      <3>5. Holds(k, w(0))
        BY <3>3, <3>4, WithDigitAre DEF w
      <3>6. Holds(k, w(n))
        BY <3>2, <3>5
      <3> QED BY <3>6 DEF k, w, n
    <2> QED BY <2>7, <2>8, <2>9
  <1> QED BY <1>1, <1>5, <1>6

\* A sum, a difference, a product or a square is made in the result's place and reduced.
LEMMA ReducedIs ==
  ASSUME NEW v \in [Regs -> Int], NEW m \in Regs, NEW c \in Regs, c # m, v[m] > 0,
         NEW n \in Int, NEW k, Holds(k, [v EXCEPT ![c] = n])
  PROVE  Holds(mp_mod(k, c, m, c), [v EXCEPT ![c] = n % v[m]])
  <1> DEFINE w == [v EXCEPT ![c] = n]
  <1>1. w[c] = n /\ w[m] = v[m] /\ \A z : [w EXCEPT ![c] = z] = [v EXCEPT ![c] = z]
    OBVIOUS
  <1>2. v[m] \in Int
    OBVIOUS
  <1> HIDE DEF w
  <1>3. w[m] # 0 /\ c # m /\ ~ w[m] < 0
    BY <1>1, <1>2
  <1>4. Holds(mp_mod(k, c, m, c), [w EXCEPT ![c] = IF w[m] < 0 THEN w[c] ELSE w[c] % w[m]])
    <2>1. Holds(k, w)
      BY DEF w
    <2> QED BY <1>3, <2>1, ModRight
  <1> QED BY <1>1, <1>3, <1>4

LEMMA ModularRight ==
  ASSUME NEW h, NEW v, Holds(h, v), NEW a \in Regs, NEW b \in Regs, NEW m \in Regs,
         NEW c \in Regs, v[m] > 0, c # m
  PROVE  /\ Holds(mp_addmod(h, a, b, m, c), [v EXCEPT ![c] = (v[a] + v[b]) % v[m]])
         /\ Holds(mp_submod(h, a, b, m, c), [v EXCEPT ![c] = (v[a] - v[b]) % v[m]])
         /\ Holds(mp_mulmod(h, a, b, m, c), [v EXCEPT ![c] = (v[a] * v[b]) % v[m]])
  <1>1. v \in [Regs -> Int] /\ v[a] \in Int /\ v[b] \in Int
    BY DEF Holds
  <1>2. v[a] + v[b] \in Int /\ v[a] - v[b] \in Int /\ v[a] * v[b] \in Int
    BY <1>1
  <1>3. /\ Holds(mp_add(h, a, b, c), [v EXCEPT ![c] = v[a] + v[b]])
        /\ Holds(mp_sub(h, a, b, c), [v EXCEPT ![c] = v[a] - v[b]])
        /\ Holds(mp_mul(h, a, b, c), [v EXCEPT ![c] = v[a] * v[b]])
    BY AddRight, SubRight, MulRight
  <1> DEFINE s == v[a] + v[b]
             d == v[a] - v[b]
             p == v[a] * v[b]
  <1> HIDE DEF s, d, p
  <1>4. /\ Holds(mp_mod(mp_add(h, a, b, c), c, m, c), [v EXCEPT ![c] = s % v[m]])
        /\ Holds(mp_mod(mp_sub(h, a, b, c), c, m, c), [v EXCEPT ![c] = d % v[m]])
        /\ Holds(mp_mod(mp_mul(h, a, b, c), c, m, c), [v EXCEPT ![c] = p % v[m]])
    BY <1>1, <1>2, <1>3, ReducedIs DEF s, d, p
  <1> QED BY <1>4 DEF mp_addmod, mp_submod, mp_mulmod, s, d, p

-----------------------------------------------------------------------------
(* Squaring.                                                               *)

\* The doubled product of two digits, and v, may take a bit more than a word has: of the two
\* ways to lose it only one is met, and the carry has it.
LEMMA DoubleIs ==
  ASSUME NEW p \in Nat, p <= (RADIX - 1) * (RADIX - 1), NEW v \in Nat, v <= 3 * (RADIX - 1)
  PROVE  /\ ACCUM(DoubleSum(p, v)) \in Digit /\ DoubleCarry(p, v) \in 0 .. 2 * RADIX - 2
         /\ 2 * p + v = ACCUM(DoubleSum(p, v)) + RADIX * DoubleCarry(p, v)
  <1> DEFINE H == 2 ^ (DigitBit - 1)
             R == RADIX
             V == H * RADIX
             W == WORD
             s == (2 * p) % WORD
             D == DoubleSum(p, v)
             u == IF p >= WORD \div 2 \/ WORD - 1 - v < s THEN 1 ELSE 0
             e == CARRYOUT(D)
             d == ACCUM(D)
             C == DoubleCarry(p, v)
  <1>1. H \in Nat /\ H > 0 /\ R = H + H /\ R \in Nat /\ R > 1
    BY HalfIs, RadixIs
  <1>2. W = R * R /\ C = e + u * R /\ D = (s + v) % W /\ s = (2 * p) % W
    BY DEF WORD, DoubleCarry, DoubleSum
  <1>0. u = IF p >= W \div 2 \/ W - 1 - v < s THEN 1 ELSE 0
    OBVIOUS
  <1> HIDE DEF H, R, u
  <1>3. V \in Nat /\ V > 0 /\ W = V + V /\ V = H * R
    <2>1. \A x, y \in Nat : (x > 0 /\ y > 0 => x * y > 0) /\ (x + x) * y = x * y + x * y /\ x * y \in Nat
      OBVIOUS
    <2> QED BY <1>1, <1>2, <2>1 DEF R
  <1>4. W \div 2 = V
    <2> HIDE DEF V, W
    <2> QED BY <1>3
  <1>5. 2 * p + v < W + W /\ 2 * p + v < R * (2 * R - 1) /\ p < W /\ v < W
    <2>1. (R - 1) * (R - 1) = R * R - R - R + 1 /\ R * R \in Nat
      BY <1>1
    <2>2. R * (2 * R - 1) = R * R + R * R - R
      BY <1>1
    <2>3. p <= R * R - R - R + 1 /\ v <= R + R + R - 3
      BY <1>1, <2>1 DEF R
    <2> DEFINE Q == R * R
    <2>4. Q \in Nat /\ W = Q /\ p <= Q - R - R + 1 /\ R * (2 * R - 1) = Q + Q - R
      BY <1>2, <2>1, <2>2, <2>3
    <2>5. R + R + R - 3 < Q
      <3>1. (R - 1) * (R - 2) = Q - R - R - R + 2
        BY <1>1
      <3>2. (R - 1) * (R - 2) >= 0
        <4>1. \A x, y \in Nat : x * y >= 0
          OBVIOUS
        <4> QED BY <1>1, <4>1
      <3> HIDE DEF Q
      <3> QED BY <1>1, <2>4, <3>1, <3>2
    <2> HIDE DEF Q, W
    <2> QED BY <1>1, <2>3, <2>4, <2>5
  <1> HIDE DEF V, W
  <1>6. s = IF p >= V THEN 2 * p - W ELSE 2 * p
    <2>1. W * 0 = 0 /\ W * 1 = W /\ W \in Nat /\ W > 0
      BY <1>3
    <2>2. CASE p >= V
      <3>1. 2 * p = W * 1 + (2 * p - W) /\ 2 * p - W \in Nat /\ 2 * p - W < W
        BY <1>3, <1>5, <2>1, <2>2
      <3> QED BY <1>2, <2>1, <2>2, <3>1, Divides
    <2>3. CASE ~ p >= V
      <3> DEFINE q == 2 * p
      <3>1. s = q % W /\ q = 2 * p
        BY <1>2
      <3> HIDE DEF q
      <3>2. q = W * 0 + q /\ q \in Nat /\ q < W
        BY <1>3, <2>1, <2>3, <3>1
      <3>3. q \div W = 0 /\ q % W = q
        BY ONLY <2>1, <3>2, Divides
      <3> QED BY <2>3, <3>1, <3>3
    <2> QED BY <2>2, <2>3
  <1> HIDE DEF s
  <1>7. s \in Nat /\ s < W
    BY <1>3, <1>5, <1>6
  <1>8. D = IF s + v >= W THEN s + v - W ELSE s + v
    <2>1. W * 0 = 0 /\ W * 1 = W /\ W \in Nat /\ W > 0
      BY <1>3
    <2>2. CASE s + v >= W
      <3>1. s + v = W * 1 + (s + v - W) /\ s + v - W \in Nat /\ s + v - W < W
        BY <1>3, <1>5, <1>7, <2>1, <2>2
      <3> QED BY <1>2, <2>1, <2>2, <3>1, Divides
    <2>3. CASE ~ s + v >= W
      <3>1. s + v = W * 0 + (s + v) /\ s + v \in Nat /\ s + v < W
        BY <1>3, <1>7, <2>1, <2>3
      <3> QED BY <1>2, <2>1, <2>3, <3>1, Divides
    <2> QED BY <2>2, <2>3
  <1> HIDE DEF D
  <1>9. u = (IF p >= V \/ s + v >= W THEN 1 ELSE 0) /\ u \in {0, 1}
    <2>1. W - 1 - v < s <=> s + v >= W
      BY <1>3, <1>7
    <2> QED BY <1>0, <1>4, <2>1
  <1>10. D \in Nat /\ 2 * p + v = D + (IF u = 1 THEN W ELSE 0)
    BY <1>3, <1>5, <1>6, <1>7, <1>8, <1>9
  <1>11. d \in Digit /\ d \in Nat /\ e \in Nat /\ D = d + R * e
    BY <1>10, Splits, RadixIs DEF R
  <1> HIDE DEF d, e
  <1>12. C \in Nat /\ R * C = R * e + (IF u = 1 THEN W ELSE 0) /\ R * e \in Nat
    <2>1. CASE u = 0
      <3>1. C = e
        BY <1>1, <1>2, <1>11, <2>1
      <3> QED BY <1>1, <1>11, <2>1, <3>1
    <2>2. CASE u = 1
      <3>1. C = e + R
        BY <1>1, <1>2, <1>11, <2>2
      <3>2. \A x, y \in Nat : x * (y + x) = x * y + x * x
        OBVIOUS
      <3> HIDE DEF C
      <3> QED BY <1>1, <1>2, <1>11, <2>2, <3>1, <3>2
    <2> QED BY <1>9, <2>1, <2>2
  <1> HIDE DEF C
  <1>13. 2 * p + v = d + R * C
    BY <1>1, <1>3, <1>10, <1>11, <1>12
  <1>14. C < 2 * R - 1
    <2> SUFFICES ASSUME C >= 2 * R - 1 PROVE FALSE
      BY <1>1, <1>12
    <2>1. R * (2 * R - 1) <= R * C
      <3>1. \A x, y, z \in Nat : y <= z => x * y <= x * z
        OBVIOUS
      <3>2. 2 * R - 1 \in Nat
        BY <1>1
      <3> QED BY <1>1, <1>12, <3>1, <3>2
    <2>2. R * C \in Nat /\ R * (2 * R - 1) \in Nat
      <3>1. \A x, y \in Nat : x * y \in Nat
        OBVIOUS
      <3>2. 2 * R - 1 \in Nat
        BY <1>1
      <3> QED BY <1>1, <1>12, <3>1, <3>2
    <2> DEFINE X == R * C
               Y == R * (2 * R - 1)
    <2> HIDE DEF X, Y
    <2>3. X \in Nat /\ Y \in Nat /\ Y <= X /\ 2 * p + v = d + X /\ 2 * p + v < Y
      BY <1>5, <1>13, <2>1, <2>2 DEF X, Y
    <2> QED BY <1>11, <2>3
  <1>15. C \in 0 .. 2 * R - 2
    BY <1>1, <1>12, <1>14
  <1> QED BY <1>11, <1>13, <1>15 DEF C, d, D, R

\* A carry goes up, by one from the second digit on.
LEMMA CascadeIs ==
  ASSUME NEW N \in Nat, NEW t \in Mp(N), t.used = N, NEW p \in Nat, p <= N,
         Above(t, p) + 1 < Pow(N - p), NEW r, r = Cascade(t, p)
  PROVE  /\ r \in Mp(N) /\ r.sign = t.sign /\ r.used = N /\ r.alloc = t.alloc
         /\ \A j \in Nat : j < p => DigitOf(r, j) = DigitOf(t, j)
         /\ Above(r, p) = Above(t, p) + 1
  <1> DEFINE S == {j \in DOMAIN t.dp : j >= p /\ CARRYOUT(t.dp[j] + 1) = 0}
             top == Min(S)
             digits == [j \in p .. top |-> ACCUM(t.dp[j] + 1)]
  <1>1. /\ t.dp \in [0 .. N - 1 -> Digit] /\ DOMAIN t.dp = 0 .. N - 1
        /\ \A j \in 0 .. N - 1 : t.dp[j] \in Digit /\ t.dp[j] = DigitOf(t, j)
    <2>1. t.dp \in [0 .. N - 1 -> Digit]
      BY MpFacts
    <2> QED BY <2>1 DEF DigitOf
  <1>2. \A j \in Nat : Above(t, j) \in Nat /\ (j >= N => Above(t, j) = 0)
    BY AboveFacts
  <1>3. \A x \in Digit : /\ x \in Nat
                         /\ CARRYOUT(x + 1) = 0 => ACCUM(x + 1) = x + 1 /\ x + 1 \in Digit
                         /\ CARRYOUT(x + 1) # 0 => ACCUM(x + 1) = 0 /\ x = RADIX - 1
    <2> TAKE x \in Digit
    <2>1. x \in Nat /\ x < RADIX /\ RADIX \in Nat /\ RADIX > 1
      BY RadixIs DEF Digit
    <2>2. CASE x + 1 < RADIX
      <3>1. x + 1 \in Nat
        BY <2>1
      <3>2. ACCUM(x + 1) = x + 1 /\ CARRYOUT(x + 1) = 0
        BY <2>2, <3>1, SplitsAs
      <3>3. x + 1 \in Digit
        BY <2>1, <2>2 DEF Digit
      <3> QED BY <2>1, <3>2, <3>3
    <2>3. CASE ~ x + 1 < RADIX
      <3>1. x = RADIX - 1 /\ x + 1 = RADIX + 0 /\ 0 < RADIX
        BY <2>1, <2>3
      <3>2. ACCUM(RADIX + 0) = 0 /\ CARRYOUT(RADIX + 0) = 1
        BY <3>1, SplitsAs
      <3> QED BY <2>1, <3>1, <3>2
    <2> QED BY <2>2, <2>3
  <1>4. S # {}
    <2> SUFFICES ASSUME S = {} PROVE FALSE
      OBVIOUS
    <2> DEFINE P == {j \in 0 .. N : j >= p => Above(t, j) + 1 = Pow(N - j)}
    <2>1. N \in P
      BY <1>2, PowIs
    <2>2. \A j \in 0 .. N - 1 : j + 1 \in P => j \in P
      <3> SUFFICES ASSUME NEW j \in 0 .. N - 1, j + 1 \in P, j >= p
                   PROVE  Above(t, j) + 1 = Pow(N - j)
        OBVIOUS
      <3> DEFINE x == Above(t, j + 1)
                 q == Pow(N - (j + 1))
      <3>1. j \in Nat /\ j + 1 \in Nat /\ N - (j + 1) \in Nat /\ (N - (j + 1)) + 1 = N - j
            /\ j + 1 >= p
        OBVIOUS
      <3>2. x + 1 = q /\ x \in Nat
        BY <1>2, <3>1
      <3>3. t.dp[j] = RADIX - 1
        BY <1>1, <1>3
      <3>4. Above(t, j) = RADIX - 1 + RADIX * x
        <4>1. Above(t, j) = DigitOf(t, j) + RADIX * Above(t, j + 1)
          BY <3>1, AboveUnfolds
        <4> QED BY <1>1, <3>3, <4>1
      <3>5. Pow(N - j) = RADIX * q
        BY <3>1, PowIs
      <3> HIDE DEF x, q
      <3>6. RADIX * (x + 1) = RADIX * x + RADIX /\ RADIX * x \in Nat
        BY <3>2, RadixIs
      <3> QED BY <3>2, <3>4, <3>5, <3>6, RadixIs
    <2> HIDE DEF P
    <2>3. \A j \in 0 .. N : j \in P
      BY <2>1, <2>2, Downwards
    <2>4. p \in 0 .. N
      OBVIOUS
    <2>5. Above(t, p) + 1 = Pow(N - p)
      BY <2>3, <2>4 DEF P
    <2>6. Pow(N - p) \in Nat
      BY PowIs
    <2> QED BY <2>5, <2>6
  <1>5. top \in S /\ \A j \in S : top <= j
    <2>1. S \in SUBSET Nat
      BY <1>1
    <2>2. PICK x \in S : \A y \in S : x <= y
      <3> HIDE DEF S
      <3> QED BY <1>4, <2>1, Least
    <2>3. \E least \in S : \A y \in S : least <= y
      BY <2>2
    <2> HIDE DEF S
    <2> QED BY <2>3 DEF Min
  <1> HIDE DEF top
  <1>6. /\ top \in Nat /\ top \in 0 .. N - 1 /\ top >= p /\ CARRYOUT(t.dp[top] + 1) = 0
        /\ p .. top \subseteq 0 .. N - 1
        /\ \A j \in p .. top : j < top => CARRYOUT(t.dp[j] + 1) # 0
    <2>1. /\ top \in Nat /\ top \in 0 .. N - 1 /\ top >= p /\ CARRYOUT(t.dp[top] + 1) = 0
      BY <1>1, <1>5
    <2>2. p .. top \subseteq 0 .. N - 1
      BY <2>1
    <2>3. ASSUME NEW j \in p .. top, j < top, CARRYOUT(t.dp[j] + 1) = 0 PROVE FALSE
      <3>1. j \in S
        BY <1>1, <2>2, <2>3
      <3>2. top <= j
        BY <1>5, <3>1
      <3> QED BY <2>1, <2>3, <3>2
    <2> QED BY <2>1, <2>2, <2>3
  <1> HIDE DEF S
  <1>7. r = WithDigits(t, digits)
    BY DEF Cascade, top, S
  <1>8. /\ DOMAIN digits = p .. top /\ DOMAIN digits \subseteq InUse(t)
        /\ \A j \in DOMAIN digits : digits[j] \in Digit
    <2>1. \A j \in p .. top : digits[j] \in Digit
      BY <1>1, <1>3, <1>6, RadixIs
    <2> QED BY <1>6, <2>1 DEF InUse
  <1>9. \A j \in p .. top : digits[j] = ACCUM(t.dp[j] + 1)
    OBVIOUS
  <1> HIDE DEF digits
  <1>10. Clean(t)
    BY <1>1 DEF Clean
  <1>11. /\ r \in Mp(N) /\ r.sign = t.sign /\ r.used = N /\ r.alloc = t.alloc
         /\ \A j \in Nat : DigitOf(r, j) = IF j \in p .. top THEN ACCUM(t.dp[j] + 1)
                                           ELSE DigitOf(t, j)
    <2>1. /\ r \in Mp(N) /\ Clean(r)
          /\ r.sign = t.sign /\ r.used = t.used /\ r.alloc = t.alloc
          /\ \A j \in Nat : DigitOf(r, j) = IF j \in DOMAIN digits THEN digits[j]
                                            ELSE DigitOf(t, j)
      <3>1. DOMAIN digits \subseteq InUse(t) /\ \A j \in DOMAIN digits : digits[j] \in Digit
        BY <1>8
      <3> QED BY <1>7, <1>10, <3>1, WithSomeIs
    <2> QED BY <1>8, <1>9, <2>1
  <1> DEFINE n == (top - p) + 1
             G == [j \in 0 .. n |-> Above(t, p + j) + IF j < n THEN 1 ELSE 0]
  <1>12. /\ n \in Nat /\ n > 0 /\ p + n = top + 1
         /\ \A j \in 0 .. n : p + j \in Nat
         /\ \A j \in 0 .. n - 1 : p + j \in p .. top /\ (p + j) + 1 = p + (j + 1)
                                  /\ j \in 0 .. n /\ j + 1 \in 0 .. n /\ p + j \in 0 .. N - 1
    BY <1>6
  <1> HIDE DEF n
  <1>13. G \in [0 .. n -> Int]
    BY <1>2, <1>12
  <1>14. ASSUME NEW j \in 0 .. n - 1
         PROVE  G[j] = DigitOf(r, p + j) + RADIX * G[j + 1]
    <2> DEFINE x == Above(t, p + (j + 1))
               y == t.dp[p + j]
    <2>1. p + j \in Nat /\ p + (j + 1) \in Nat /\ p + j \in p .. top /\ p + j \in 0 .. N - 1
      BY <1>12
    <2>2. Above(t, p + j) = y + RADIX * x /\ x \in Nat /\ y \in Nat
      <3>1. Above(t, p + j) = DigitOf(t, p + j) + RADIX * Above(t, (p + j) + 1)
        BY <2>1, AboveUnfolds
      <3>2. DigitOf(t, p + j) = y /\ y \in Nat
        BY <1>1, <1>3, <2>1
      <3> QED BY <1>2, <1>12, <2>1, <3>1, <3>2
    <2>3. G[j] = Above(t, p + j) + 1
      BY <1>12
    <2>4. G[j + 1] = x + IF j + 1 < n THEN 1 ELSE 0
      BY <1>12
    <2>5. DigitOf(r, p + j) = ACCUM(y + 1)
      BY <1>11, <2>1
    <2>6. y \in Digit
      BY <1>1, <2>1
    <2>7. p + j < top <=> j + 1 < n
      BY <1>6, <1>12
    <2>8. p + j < top => CARRYOUT(y + 1) # 0
      BY <1>6, <2>1
    <2>9. ~ p + j < top => CARRYOUT(y + 1) = 0
      <3>1. ~ p + j < top => p + j = top
        BY <1>6, <2>1
      <3> QED BY <1>6, <3>1
    <2> HIDE DEF x, y, G
    <2>10. RADIX * (x + 1) = RADIX * x + RADIX /\ RADIX * x \in Nat /\ x + 0 = x
      BY <2>2, RadixIs
    <2>11. CASE j + 1 < n
      <3>1. ACCUM(y + 1) = 0 /\ y = RADIX - 1
        BY <1>3, <2>6, <2>7, <2>8, <2>11
      <3> QED BY <2>2, <2>3, <2>4, <2>5, <2>10, <2>11, <3>1, RadixIs
    <2>12. CASE ~ j + 1 < n
      <3>1. ACCUM(y + 1) = y + 1
        BY <1>3, <2>6, <2>7, <2>9, <2>12
      <3> QED BY <2>2, <2>3, <2>4, <2>5, <2>10, <2>12, <3>1, RadixIs
    <2> QED BY <2>11, <2>12
  <1>15. G[n] = Above(r, p + n)
    <2>1. G[n] = Above(t, p + n)
      BY <1>2, <1>12
    <2>2. Above(r, p + n) = Above(t, p + n)
      <3>1. \A j \in Nat : j >= p + n => DigitOf(r, j) = DigitOf(t, j)
        BY <1>6, <1>11, <1>12
      <3>2. p + n \in Nat
        BY <1>12
      <3> QED BY <1>11, <3>1, <3>2, SameAbove
    <2> QED BY <2>1, <2>2
  <1>16. G[0] = Above(t, p) + 1
    BY <1>12
  <1> HIDE DEF G
  <1>17. Follows(G, r, p, n)
    BY <1>13, <1>14 DEF Follows
  <1>18. G[0] = Above(r, p)
    BY <1>11, <1>12, <1>15, <1>17, Horner
  <1>19. \A j \in Nat : j < p => DigitOf(r, j) = DigitOf(t, j)
    BY <1>6, <1>11
  <1> QED BY <1>11, <1>16, <1>18, <1>19

LEMMA CarryUpIs ==
  ASSUME NEW N \in Nat, NEW t \in Mp(N), t.used = N, NEW i \in Nat, i < N, NEW c \in Nat,
         t.dp[i] + c < RADIX + RADIX, Above(t, i) + c < Pow(N - i), NEW r, r = CarryUp(t, c, i)
  PROVE  /\ r \in Mp(N) /\ r.sign = t.sign /\ r.used = N /\ r.alloc = t.alloc
         /\ \A j \in Nat : j < i => DigitOf(r, j) = DigitOf(t, j)
         /\ Above(r, i) = Above(t, i) + c
  <1> DEFINE last == t.dp[i] + c
             d == ACCUM(last)
             dp == [t.dp EXCEPT ![i] = d]
             done == [t EXCEPT !.dp[i] = d]
             x == Above(t, i + 1)
  <1>1. /\ t.sign \in {ZPOS, NEG} /\ t.alloc \in 1 .. N /\ t.dp \in [0 .. N - 1 -> Digit]
        /\ t = [sign |-> t.sign, used |-> t.used, alloc |-> t.alloc, dp |-> t.dp]
        /\ N \in 1 .. N /\ i \in 0 .. N - 1
    <2>1. t.sign \in {ZPOS, NEG} /\ t.alloc \in 1 .. N /\ t.dp \in [0 .. N - 1 -> Digit]
      BY MpFacts
    <2> QED BY <2>1 DEF Mp
  <1>2. t.dp[i] \in Digit /\ t.dp[i] \in Nat /\ t.dp[i] = DigitOf(t, i) /\ last \in Nat
    <2>1. t.dp[i] \in Digit
      BY <1>1
    <2>2. t.dp[i] \in Nat
      BY <2>1, RadixIs
    <2>3. t.dp[i] = DigitOf(t, i)
      BY DEF DigitOf
    <2> QED BY <2>1, <2>2, <2>3
  <1>3. ACCUM(last) \in Digit /\ CARRYOUT(last) \in Nat /\ last = ACCUM(last) + RADIX * CARRYOUT(last)
    BY <1>2, Splits
  <1>4. CARRYOUT(last) < 2
    <2>1. RADIX * 2 = RADIX + RADIX
      BY RadixIs
    <2> HIDE DEF last
    <2>2. last < RADIX * 2
      BY <2>1 DEF last
    <2> QED BY <1>2, <2>2, CarryBound
  <1>5. done = [sign |-> t.sign, used |-> t.used, alloc |-> t.alloc, dp |-> dp]
    <2>1. done = [t EXCEPT !.dp = dp]
      OBVIOUS
    <2> HIDE DEF done, dp
    <2> QED BY <2>1 DEF Mp
  <1>6. r = IF CARRYOUT(last) = 0 THEN done ELSE Cascade(done, i + 1)
    BY DEF CarryUp
  <1> HIDE DEF done, d, last
  <1>7. dp \in [0 .. N - 1 -> Digit] /\ dp[i] = d /\ \A j \in 0 .. N - 1 : j # i => dp[j] = t.dp[j]
    BY <1>1, <1>3 DEF d
  <1> HIDE DEF dp
  <1>8. done \in Mp(N)
    BY <1>1, <1>5, <1>7 DEF Mp
  <1>9. /\ done.sign = t.sign /\ done.used = N /\ done.alloc = t.alloc
        /\ \A j \in Nat : DigitOf(done, j) = IF j = i THEN d ELSE DigitOf(t, j)
    BY <1>1, <1>5, <1>7 DEF DigitOf
  <1>10. x \in Nat /\ Above(done, i + 1) = x
    <2>1. i + 1 \in Nat /\ \A j \in Nat : j >= i + 1 => DigitOf(done, j) = DigitOf(t, j)
      BY <1>9
    <2>2. Above(done, i + 1) = Above(t, i + 1)
      BY <1>8, <2>1, SameAbove
    <2> QED BY <2>1, <2>2, AboveFacts
  <1>11. Above(t, i) = t.dp[i] + RADIX * x
    <2>1. Above(t, i) = DigitOf(t, i) + RADIX * Above(t, i + 1)
      BY AboveUnfolds
    <2> QED BY <1>2, <2>1
  <1> HIDE DEF x
  <1>12. RADIX * x \in Nat /\ d \in Nat
    <2>1. d \in Digit
      BY <1>3 DEF d
    <2> QED BY <1>10, <2>1, RadixIs
  <1>13. CASE CARRYOUT(last) = 0
    <2>1. r = done /\ last = d
      <3>1. RADIX * 0 = 0
        BY RadixIs
      <3>2. last = d + 0
        BY <1>3, <1>13, <3>1 DEF d
      <3> QED BY <1>6, <1>12, <1>13, <3>2
    <2>2. Above(r, i) = d + RADIX * x
      <3>1. Above(r, i) = DigitOf(r, i) + RADIX * Above(r, i + 1)
        BY <1>8, <2>1, AboveUnfolds
      <3> QED BY <1>9, <1>10, <2>1, <3>1
    <2>3. t.dp[i] + c = d
      BY <2>1 DEF last
    <2>4. Above(r, i) = Above(t, i) + c
      BY <1>2, <1>11, <1>12, <2>2, <2>3
    <2> QED BY <1>8, <1>9, <2>1, <2>4
  <1>14. CASE CARRYOUT(last) # 0
    <2>1. r = Cascade(done, i + 1) /\ last = d + RADIX
      <3>1. CARRYOUT(last) = 1
        BY <1>3, <1>4, <1>14
      <3>2. RADIX * 1 = RADIX
        BY RadixIs
      <3> QED BY <1>3, <1>6, <3>1, <3>2 DEF d
    <2>2. x + 1 < Pow(N - (i + 1))
      <3> DEFINE q == Pow(N - (i + 1))
      <3>1. N - (i + 1) \in Nat /\ (N - (i + 1)) + 1 = N - i
        OBVIOUS
      <3>2. q \in Nat /\ Pow(N - i) = RADIX * q
        BY <3>1, PowIs
      <3> HIDE DEF q
      <3>3. t.dp[i] + c = d + RADIX
        BY <2>1 DEF last
      <3>4. RADIX + RADIX * x < RADIX * q
        BY <1>2, <1>11, <1>12, <3>2, <3>3, RadixIs
      <3>5. RADIX * (x + 1) = RADIX + RADIX * x
        BY <1>10, RadixIs
      <3>6. \A u \in Nat : u >= q => RADIX * u >= RADIX * q
        <4>1. \A R, u, w \in Nat : u >= w => R * u >= R * w
          OBVIOUS
        <4> QED BY <3>2, <4>1, RadixIs
      <3>7. x + 1 \in Nat /\ RADIX * (x + 1) \in Nat /\ RADIX * q \in Nat
        BY <1>10, <3>2, RadixIs
      <3>8. ~ x + 1 >= q
        BY <3>4, <3>5, <3>6, <3>7
      <3> QED BY <3>2, <3>7, <3>8 DEF q
    <2>3. /\ r \in Mp(N) /\ r.sign = done.sign /\ r.used = N /\ r.alloc = done.alloc
          /\ \A j \in Nat : j < i + 1 => DigitOf(r, j) = DigitOf(done, j)
          /\ Above(r, i + 1) = x + 1
      <3>1. i + 1 \in Nat /\ i + 1 <= N
        OBVIOUS
      <3> DEFINE p == i + 1
      <3>2. p \in Nat /\ p <= N /\ Above(done, p) + 1 < Pow(N - p) /\ r = Cascade(done, p)
        BY <1>10, <2>1, <2>2, <3>1
      <3> HIDE DEF p
      <3>3. /\ r \in Mp(N) /\ r.sign = done.sign /\ r.used = N /\ r.alloc = done.alloc
            /\ \A j \in Nat : j < p => DigitOf(r, j) = DigitOf(done, j)
            /\ Above(r, p) = Above(done, p) + 1
        BY <1>8, <1>9, <3>2, CascadeIs
      <3> QED BY <1>10, <3>3 DEF p
    <2>4. Above(r, i) = d + RADIX * (x + 1)
      <3>1. Above(r, i) = DigitOf(r, i) + RADIX * Above(r, i + 1)
        BY <2>3, AboveUnfolds
      <3>2. DigitOf(r, i) = d
        BY <1>9, <2>3
      <3> QED BY <2>3, <3>1, <3>2
    <2>5. RADIX * (x + 1) = RADIX + RADIX * x
      BY <1>10, RadixIs
    <2>6. Above(r, i) = Above(t, i) + c
      BY <1>2, <1>11, <1>12, <2>1, <2>4, <2>5, RadixIs DEF last
    <2>7. \A j \in Nat : j < i => DigitOf(r, j) = DigitOf(t, j)
      BY <1>9, <2>3
    <2> QED BY <1>9, <2>3, <2>6, <2>7
  <1> QED BY <1>13, <1>14

\* One turn of the outer loop: the square of digit ix and twice its products with the digits
\* above, at digit 2 * ix.
LEMMA SquareRowIs ==
  ASSUME NEW l \in Nat, NEW a \in Mp(l), NEW ix \in 0 .. a.used - 1, NEW N \in Nat,
         N = a.used + a.used, NEW t \in Mp(N), t.used = N, DigitOf(t, ix + a.used) <= 1,
         NEW q, q = a.dp[ix], NEW E, E = q * q + 2 * (q * (RADIX * Above(a, ix + 1))),
         NEW z, z = 2 * ix, Above(t, z) + E < Pow(N - z), NEW r, r = SquareRow(t, a, ix)
  PROVE  /\ r \in Mp(N) /\ r.sign = t.sign /\ r.used = N /\ r.alloc = t.alloc
         /\ \A i \in Nat : i < z => DigitOf(r, i) = DigitOf(t, i)
         /\ Above(r, z) = Above(t, z) + E
  <1> DEFINE u == a.used
             n == a.used - ix
             square == a.dp[ix] * a.dp[ix]
             product(j) == a.dp[ix] * a.dp[ix + j]
             Word(j, c) == IF j = 0 THEN CARRYOUT(t.dp[2 * ix] + square)
                           ELSE DoubleCarry(product(j), t.dp[2 * ix + j] + c)
             out == [j \in 0 .. n - 1 |-> [c \in Nat |-> Word(j, c)]]
             carry == Carries(n, out)
             digit(j) == IF j = 0 THEN ACCUM(t.dp[2 * ix] + square)
                         ELSE ACCUM(DoubleSum(product(j), t.dp[2 * ix + j] + carry[j]))
             digits == [i \in 2 * ix .. ix + a.used - 1 |-> digit(i - 2 * ix)]
             row == WithDigits(t, digits)
             C == 0 .. 2 * RADIX - 2
             Sum(j, c) == IF j = 0 THEN square + t.dp[z] ELSE 2 * product(j) + (t.dp[z + j] + c)
  <1>0. r = CarryUp(row, carry[n], ix + a.used)
    BY DEF SquareRow
  <1>1. /\ u \in Nat /\ u > 0 /\ N = u + u /\ a.dp \in [0 .. l - 1 -> Digit] /\ u <= l
        /\ t.dp \in [0 .. N - 1 -> Digit]
        /\ ix \in Nat /\ ix < u /\ n \in Nat /\ n > 0 /\ n = u - ix
        /\ z \in Nat /\ z = ix + ix /\ z + n = ix + u /\ ix + u < N /\ ix + u \in Nat
        /\ N - (ix + u) = n /\ N - z = n + n
    <2>1. u \in 1 .. l /\ a.dp \in [0 .. l - 1 -> Digit] /\ t.dp \in [0 .. N - 1 -> Digit]
      BY MpFacts
    <2> HIDE DEF u
    <2>2. n = u - ix /\ N = u + u /\ ix \in 0 .. u - 1
      BY DEF u
    <2> HIDE DEF n
    <2> QED BY ONLY <2>1, <2>2, z = 2 * ix
  <1>31. /\ u \in Nat /\ ix \in Nat /\ n \in Nat /\ z \in Nat /\ l \in Nat /\ n > 0 /\ ix < u /\ u <= l
         /\ n = u - ix /\ z = ix + ix /\ N = u + u
    <2> HIDE DEF u, n
    <2> QED BY ONLY <1>1, l \in Nat
  <1>2. \A j \in 0 .. n - 1 : /\ j \in Nat /\ ix + j \in Nat /\ z + j \in Nat
                              /\ j \in 0 .. n /\ j + 1 \in 0 .. n /\ j + 1 \in Nat
                              /\ ix + (j + 1) = (ix + j) + 1 /\ z + (j + 1) = (z + j) + 1
                              /\ a.dp[ix + j] \in Digit /\ a.dp[ix + j] = DigitOf(a, ix + j)
                              /\ t.dp[z + j] \in Digit /\ t.dp[z + j] = DigitOf(t, z + j)
                              /\ z + j \in z .. ix + u - 1 /\ z + j \in 0 .. N - 1
    <2> SUFFICES ASSUME NEW j \in 0 .. n - 1
                 PROVE  /\ j \in Nat /\ ix + j \in Nat /\ z + j \in Nat
                        /\ j \in 0 .. n /\ j + 1 \in 0 .. n /\ j + 1 \in Nat
                        /\ ix + (j + 1) = (ix + j) + 1 /\ z + (j + 1) = (z + j) + 1
                        /\ a.dp[ix + j] \in Digit /\ a.dp[ix + j] = DigitOf(a, ix + j)
                        /\ t.dp[z + j] \in Digit /\ t.dp[z + j] = DigitOf(t, z + j)
                        /\ z + j \in z .. ix + u - 1 /\ z + j \in 0 .. N - 1
      OBVIOUS
    <2> HIDE DEF u, n
    <2>1. /\ j \in Nat /\ ix + j \in Nat /\ z + j \in Nat
          /\ j \in 0 .. n /\ j + 1 \in 0 .. n /\ j + 1 \in Nat
          /\ ix + (j + 1) = (ix + j) + 1 /\ z + (j + 1) = (z + j) + 1
          /\ ix + j \in 0 .. l - 1 /\ ix + j < u /\ z + j \in 0 .. N - 1 /\ z + j < N
          /\ z + j \in z .. ix + u - 1
      BY ONLY <1>31, j \in 0 .. n - 1
    <2>2. a.dp[ix + j] \in Digit /\ t.dp[z + j] \in Digit
      BY <1>1, <2>1
    <2>3. a.dp[ix + j] = DigitOf(a, ix + j) /\ t.dp[z + j] = DigitOf(t, z + j)
      BY <2>1 DEF DigitOf, u
    <2> QED BY <2>1, <2>2, <2>3
  <1>3. \A x \in Digit : x \in Nat /\ x <= RADIX - 1
    BY RadixIs DEF Digit
  <1>4. RADIX \in Nat /\ RADIX > 1
    BY RadixIs
  <1>5. \A x, y \in Digit : x * y \in Nat /\ x * y <= (RADIX - 1) * (RADIX - 1)
    <2> TAKE x \in Digit, y \in Digit
    <2>1. x \in Nat /\ y \in Nat /\ x <= RADIX - 1 /\ y <= RADIX - 1 /\ RADIX - 1 \in Nat
      BY <1>3, <1>4
    <2> DEFINE M == RADIX - 1
    <2>2. x \in Nat /\ y \in Nat /\ x <= M /\ y <= M /\ M \in Nat
      BY <2>1
    <2> HIDE DEF M
    <2>3. x * y \in Nat /\ x * y <= M * y /\ M * y <= M * M
      <3>1. \A b, c, d \in Nat : b <= c => b * d <= c * d /\ d * b <= d * c
        OBVIOUS
      <3>2. \A b, c \in Nat : b * c \in Nat
        OBVIOUS
      <3> QED BY <2>2, <3>1, <3>2
    <2>4. x * y <= M * M
      <3>1. \A b, c \in Nat : b * c \in Nat
        OBVIOUS
      <3>2. M * y \in Nat /\ M * M \in Nat
        BY <2>2, <3>1
      <3> QED BY <2>3, <3>2
    <2> QED BY <2>3, <2>4 DEF M
  <1>6. q \in Digit /\ q \in Nat /\ square = q * q /\ \A j : product(j) = q * a.dp[ix + j]
    <2>1. 0 \in 0 .. n - 1 /\ ix + 0 = ix
      <3> HIDE DEF n
      <3> QED BY ONLY <1>1
    <2>2. q \in Digit
      BY <1>2, <2>1
    <2> QED BY <1>3, <2>2
  <1> HIDE DEF u, n
  <1>7. ASSUME NEW j \in 0 .. n - 1, NEW c \in C
        PROVE  /\ Word(j, c) \in C /\ Sum(j, c) \in Nat
               /\ LET d == IF j = 0 THEN ACCUM(t.dp[2 * ix] + square)
                           ELSE ACCUM(DoubleSum(product(j), t.dp[2 * ix + j] + c))
                  IN  d \in Digit /\ d \in Nat /\ Sum(j, c) = d + RADIX * Word(j, c)
    <2>1. c \in Nat /\ c <= 2 * RADIX - 2
      BY <1>4
    <2>2. CASE j = 0
      <3> DEFINE w == t.dp[z] + square
      <3>1. 0 \in 0 .. n - 1 /\ z + 0 = z
        BY ONLY <1>31
      <3>2. t.dp[z] \in Digit
        BY <1>2, <3>1
      <3>3. /\ t.dp[z] \in Nat /\ t.dp[z] <= RADIX - 1
            /\ square \in Nat /\ square <= (RADIX - 1) * (RADIX - 1)
        BY <1>3, <1>5, <1>6, <3>2
      <3>4. w \in Nat /\ w < RADIX * RADIX
        <4>1. (RADIX - 1) * (RADIX - 1) = RADIX * RADIX - RADIX - RADIX + 1
          BY <1>4
        <4> DEFINE Q == RADIX * RADIX
                   s == square
                   d == t.dp[z]
        <4>2. Q \in Nat /\ s <= Q - RADIX - RADIX + 1 /\ s \in Nat /\ d \in Nat /\ d <= RADIX - 1
          BY <1>4, <3>3, <4>1
        <4> HIDE DEF Q, s, d
        <4>3. d + s \in Nat /\ d + s < Q
          BY <1>4, <4>2
        <4> QED BY <4>3 DEF Q, s, d
      <3>5. Sum(j, c) = w /\ Word(j, c) = CARRYOUT(w)
        <4> HIDE DEF square
        <4> QED BY <2>2, <3>3
      <3> HIDE DEF w, Sum, Word
      <3>6. CARRYOUT(w) \in Nat /\ CARRYOUT(w) < RADIX
        BY <1>4, <3>4, Splits, CarryBound
      <3>7. CARRYOUT(w) \in C
        BY <1>4, <3>6
      <3>8. ACCUM(w) \in Digit /\ w = ACCUM(w) + RADIX * CARRYOUT(w)
        BY <3>4, Splits
      <3> QED BY <1>3, <2>2, <3>4, <3>5, <3>7, <3>8 DEF w
    <2>3. CASE j # 0
      <3> DEFINE p == product(j)
                 v == t.dp[z + j] + c
      <3>1. p \in Nat /\ p <= (RADIX - 1) * (RADIX - 1)
        BY <1>2, <1>5, <1>6
      <3>2. v \in Nat /\ v <= 3 * (RADIX - 1)
        <4>1. t.dp[z + j] \in Nat /\ t.dp[z + j] <= RADIX - 1
          BY <1>2, <1>3
        <4> QED BY <1>4, <2>1, <4>1
      <3>3. Sum(j, c) = 2 * p + v /\ Word(j, c) = DoubleCarry(p, v)
        BY <2>3
      <3>4. product(j) = p /\ t.dp[2 * ix + j] + c = v
        OBVIOUS
      <3> HIDE DEF p, v, Sum, Word, product
      <3>5. /\ ACCUM(DoubleSum(p, v)) \in Digit /\ DoubleCarry(p, v) \in C
            /\ 2 * p + v = ACCUM(DoubleSum(p, v)) + RADIX * DoubleCarry(p, v)
        BY <3>1, <3>2, DoubleIs
      <3>6. 2 * p + v \in Nat
        BY <3>1, <3>2
      <3> QED BY <1>3, <2>3, <3>3, <3>4, <3>5, <3>6
    <2> QED BY <2>2, <2>3
  <1>8. Within(C, n, out)
    <2>1. 0 \in C
      BY <1>4
    <2>2. ASSUME NEW j \in 0 .. n - 1, NEW c \in C PROVE out[j][c] \in C
      <3>1. c \in Nat
        BY <1>4
      <3>2. out[j][c] = Word(j, c)
        BY <3>1
      <3>3. Word(j, c) \in C
        BY <1>7
      <3> HIDE DEF out, Word, C
      <3> QED BY <3>2, <3>3
    <2> HIDE DEF C, out
    <2> QED BY <2>1, <2>2 DEF Within
  <1>9. /\ carry \in [0 .. n -> C] /\ carry[0] = 0
        /\ \A j \in 0 .. n - 1 : carry[j + 1] = out[j][carry[j]]
    <2>1. carry = Carries(n, out)
      OBVIOUS
    <2>2. n \in Nat
      BY ONLY <1>31
    <2> HIDE DEF out, C, n, carry
    <2>3. /\ Carries(n, out) \in [0 .. n -> C] /\ Carries(n, out)[0] = 0
          /\ \A j \in 0 .. n - 1 : Carries(n, out)[j + 1] = out[j][Carries(n, out)[j]]
      BY ONLY <2>2, <1>8, CarriesRun
    <2> QED BY ONLY <2>1, <2>3
  <1> HIDE DEF carry
  <1>10. \A j \in 0 .. n : carry[j] \in C /\ carry[j] \in Nat
    BY ONLY <1>4, <1>9 DEF C
  <1>11. \A j \in 0 .. n - 1 : carry[j + 1] = Word(j, carry[j])
    <2> TAKE j \in 0 .. n - 1
    <2>1. carry[j] \in Nat
      BY <1>2, <1>10
    <2>2. out[j][carry[j]] = Word(j, carry[j])
      BY <2>1
    <2> HIDE DEF out, Word
    <2> QED BY <1>9, <2>2
  <1> HIDE DEF out
  <1>12. ASSUME NEW j \in 0 .. n - 1
         PROVE  /\ digit(j) \in Digit /\ digit(j) \in Nat /\ Sum(j, carry[j]) \in Nat
                /\ Sum(j, carry[j]) = digit(j) + RADIX * carry[j + 1]
    <2> DEFINE c == carry[j]
    <2>1. c \in C
      BY <1>2, <1>10
    <2>2. carry[j + 1] = Word(j, c)
      BY <1>11
    <2>3. digit(j) = IF j = 0 THEN ACCUM(t.dp[2 * ix] + square)
                     ELSE ACCUM(DoubleSum(product(j), t.dp[2 * ix + j] + c))
      OBVIOUS
    <2> HIDE DEF c, digit, C, Word, Sum
    <2>4. digit(j) \in Digit /\ digit(j) \in Nat /\ Sum(j, c) \in Nat
          /\ Sum(j, c) = digit(j) + RADIX * Word(j, c)
      BY <1>7, <2>1, <2>3
    <2> QED BY <2>2, <2>4 DEF c
  <1> HIDE DEF digit, Word, C
  <1>13. /\ digits = [i \in z .. ix + u - 1 |-> digit(i - z)]
         /\ \A i \in z .. ix + u - 1 : i - z \in 0 .. n - 1 /\ i \in 0 .. N - 1
    <2>1. ASSUME NEW i \in z .. ix + u - 1 PROVE i - z \in 0 .. n - 1 /\ i \in 0 .. N - 1
      BY ONLY <1>1, i \in z .. ix + u - 1
    <2>2. digits = [i \in z .. ix + u - 1 |-> digit(i - z)]
      BY DEF u
    <2> QED BY <2>1, <2>2
  <1>14. /\ DOMAIN digits = z .. ix + u - 1 /\ DOMAIN digits \subseteq InUse(t)
         /\ \A i \in DOMAIN digits : digits[i] \in Digit
    BY <1>12, <1>13 DEF InUse
  <1>15. \A j \in 0 .. n - 1 : digits[z + j] = digit(j)
    <2> TAKE j \in 0 .. n - 1
    <2>1. z + j \in z .. ix + u - 1 /\ (z + j) - z = j
      BY ONLY <1>1, j \in 0 .. n - 1
    <2> HIDE DEF digits
    <2> QED BY <1>13, <2>1
  <1> HIDE DEF digits
  <1>16. Clean(t)
    <2>1. DOMAIN t.dp = 0 .. N - 1
      BY <1>1
    <2> QED BY ONLY <2>1, N \in Nat, t.used = N DEF Clean
  <1>17. /\ row \in Mp(N) /\ row.sign = t.sign /\ row.used = N /\ row.alloc = t.alloc
         /\ \A i \in Nat : DigitOf(row, i) = IF i \in z .. ix + u - 1 THEN digits[i]
                                             ELSE DigitOf(t, i)
    <2>1. /\ row \in Mp(N) /\ Clean(row)
          /\ row.sign = t.sign /\ row.used = t.used /\ row.alloc = t.alloc
          /\ \A i \in Nat : DigitOf(row, i) = IF i \in DOMAIN digits THEN digits[i]
                                              ELSE DigitOf(t, i)
      <3>1. DOMAIN digits \subseteq InUse(t) /\ \A i \in DOMAIN digits : digits[i] \in Digit
        BY <1>14
      <3>2. row = WithDigits(t, digits)
        OBVIOUS
      <3> HIDE DEF row
      <3> QED BY <1>16, <3>1, <3>2, WithSomeIs
    <2> QED BY <1>14, <2>1
  <1> HIDE DEF row
  <1> DEFINE F(j) == IF j = 0 THEN E ELSE 2 * (q * Above(a, ix + j))
             G == [j \in 0 .. n |-> F(j) + Above(t, z + j) + carry[j]]
  <1>18. \A j \in 0 .. n : /\ F(j) \in Nat /\ Above(t, z + j) \in Nat /\ carry[j] \in Nat
                           /\ G[j] = F(j) + Above(t, z + j) + carry[j] /\ G[j] \in Nat
    <2> TAKE j \in 0 .. n
    <2>1. j \in Nat /\ ix + j \in Nat /\ z + j \in Nat /\ ix + 1 \in Nat
      BY ONLY <1>1, j \in 0 .. n
    <2>2. \A i \in Nat : Above(a, i) \in Nat /\ Above(t, i) \in Nat
      BY AboveFacts
    <2>3. \A x, y \in Nat : x * y \in Nat /\ 2 * x \in Nat /\ x + y \in Nat
      OBVIOUS
    <2>4. F(j) \in Nat
      BY <1>4, <1>6, <2>1, <2>2, <2>3
    <2> HIDE DEF F
    <2> QED BY <1>10, <2>1, <2>2, <2>4
  <1>19. ASSUME NEW j \in 0 .. n - 1
         PROVE  G[j] = digit(j) + RADIX * G[j + 1]
    <2> DEFINE x == Above(a, ix + (j + 1))
               y == Above(t, z + (j + 1))
               c == carry[j + 1]
               f == 2 * (q * x)
               e == IF j = 0 THEN q * q ELSE 2 * (q * a.dp[ix + j])
               v == t.dp[z + j]
               w == digit(j)
               cc == IF j = 0 THEN 0 ELSE carry[j]
    <2>1. j \in 0 .. n /\ j + 1 \in 0 .. n /\ j + 1 # 0
      BY <1>2
    <2>2. x \in Nat /\ y \in Nat /\ c \in Nat /\ f \in Nat
      <3>1. ix + (j + 1) \in Nat /\ z + (j + 1) \in Nat
        BY ONLY <1>31, j \in 0 .. n - 1
      <3>2. x \in Nat /\ y \in Nat
        BY <3>1, AboveFacts
      <3>3. \A b, d \in Nat : 2 * (b * d) \in Nat
        OBVIOUS
      <3> QED BY <1>6, <1>18, <2>1, <3>2, <3>3
    <2>3. G[j + 1] = f + y + c
      <3> HIDE DEF G
      <3> QED BY <1>18, <2>1
    <2>4. G[j] = F(j) + Above(t, z + j) + cc
      <3>1. carry[j] = cc
        BY <1>9
      <3> HIDE DEF G, F, cc
      <3> QED BY <1>18, <2>1, <3>1
    <2>5. Above(t, z + j) = v + RADIX * y /\ v \in Nat
      <3>1. Above(t, z + j) = DigitOf(t, z + j) + RADIX * Above(t, (z + j) + 1)
        BY <1>2, AboveUnfolds
      <3> QED BY <1>2, <1>3, <3>1
    <2>6. e \in Nat /\ F(j) = e + RADIX * f
      <3>1. \A s, b, d \in Nat : /\ 2 * (s * (b * d)) = b * (2 * (s * d))
                                 /\ 2 * (s * b) \in Nat /\ s * b \in Nat
        OBVIOUS
      <3>2. CASE j = 0
        <4>1. ix + (j + 1) = ix + 1
          BY <1>1, <3>2
        <4>2. E = q * q + 2 * (q * (RADIX * x))
          BY <4>1
        <4> HIDE DEF x
        <4> QED BY <1>4, <1>6, <2>2, <3>1, <3>2, <4>2
      <3>3. CASE j # 0
        <4> DEFINE d == a.dp[ix + j]
        <4>1. Above(a, ix + j) = d + RADIX * x
          <5>1. Above(a, ix + j) = DigitOf(a, ix + j) + RADIX * Above(a, (ix + j) + 1)
            BY <1>2, AboveUnfolds
          <5> QED BY <1>2, <5>1
        <4>2. d \in Nat
          BY <1>2, <1>3
        <4>3. F(j) = 2 * (q * (d + RADIX * x)) /\ e = 2 * (q * d)
          BY <3>3, <4>1
        <4> HIDE DEF x, d, e, F
        <4>4. \A s, b, m, k \in Nat : 2 * (s * (b + m * k)) = 2 * (s * b) + m * (2 * (s * k))
          OBVIOUS
        <4>5. F(j) = 2 * (q * d) + RADIX * (2 * (q * x))
          BY <1>4, <1>6, <2>2, <4>2, <4>3, <4>4
        <4> QED BY <1>6, <3>1, <4>2, <4>3, <4>5
      <3> QED BY <3>2, <3>3
    <2>7. e + v + cc = w + RADIX * c
      <3>1. Sum(j, carry[j]) = w + RADIX * c
        BY <1>12
      <3>2. CASE j = 0
        <4>1. Sum(j, carry[j]) = square + t.dp[z]
          BY <3>2
        <4>2. z + j = z
          BY <1>1, <3>2
        <4>3. e = square /\ cc = 0
          BY <1>6, <3>2
        <4> HIDE DEF Sum, e, w, c, square, cc
        <4> QED BY <2>5, <2>6, <3>1, <4>1, <4>2, <4>3
      <3>3. CASE j # 0
        <4>1. Sum(j, carry[j]) = e + (v + cc)
          BY <1>6, <3>3
        <4>2. cc \in Nat
          BY <1>18, <2>1, <3>3
        <4> HIDE DEF Sum, e, v, w, c, cc
        <4> QED BY <2>5, <2>6, <3>1, <4>1, <4>2
      <3> QED BY <3>2, <3>3
    <2>8. w \in Nat /\ cc \in Nat
      BY <1>12, <1>18, <2>1
    <2> HIDE DEF x, y, c, f, e, v, w, cc, F, G
    <2> DEFINE rf == RADIX * f
               ry == RADIX * y
               rc == RADIX * c
    <2>9. rf \in Nat /\ ry \in Nat /\ rc \in Nat /\ RADIX * (f + y + c) = rf + ry + rc
      <3>1. \A b, d, s, m \in Nat : b * (d + s + m) = b * d + b * s + b * m /\ b * d \in Nat
        OBVIOUS
      <3> QED BY <1>4, <2>2, <3>1
    <2>10. /\ G[j] = (e + rf) + (v + ry) + cc /\ e + v + cc = w + rc
           /\ RADIX * G[j + 1] = rf + ry + rc
      BY <2>3, <2>4, <2>5, <2>6, <2>7, <2>9
    <2> HIDE DEF rf, ry, rc
    <2>11. G[j] = w + (rf + ry + rc)
      BY <2>5, <2>6, <2>8, <2>9, <2>10
    <2> QED BY <2>10, <2>11 DEF w
  <1>20. n \in 0 .. n /\ 0 \in 0 .. n /\ n # 0 /\ z + n = ix + u /\ z + 0 = z
    BY <1>1
  <1>21. G[0] = Above(t, z) + E /\ E \in Nat /\ Above(t, z) \in Nat
    <2>1. F(0) = E
      OBVIOUS
    <2> HIDE DEF F, G
    <2>2. E \in Nat /\ Above(t, z) \in Nat /\ G[0] = E + Above(t, z) + 0
      BY <1>9, <1>18, <1>20, <2>1
    <2> QED BY <2>2
  <1>22. G[n] = Above(t, ix + u) + carry[n] /\ Above(t, ix + u) \in Nat /\ carry[n] \in Nat
    <2>1. F(n) = 0
      <3>1. \A i \in Nat : i >= a.used => Above(a, i) = 0
        BY AboveFacts
      <3>2. ix + n = u /\ u \in Nat /\ u = a.used
        <4>1. ix + n = u /\ u \in Nat
          BY ONLY <1>1
        <4> QED BY <4>1 DEF u
      <3>3. Above(a, ix + n) = 0
        BY <3>1, <3>2
      <3>4. q * 0 = 0
        BY <1>6
      <3> QED BY <1>20, <3>3, <3>4
    <2> HIDE DEF F, G
    <2>2. G[n] = 0 + Above(t, ix + u) + carry[n] /\ Above(t, ix + u) \in Nat /\ carry[n] \in Nat
      BY <1>18, <1>20, <2>1
    <2> QED BY <2>2
  <1> HIDE DEF F, G
  <1>23. Pow(n) * G[n] <= G[0]
    <2> DEFINE P == {j \in 0 .. n : Pow(n - j) * G[n] <= G[j]}
               g == G[n]
    <2>1. g \in Nat
      BY <1>18, <1>20
    <2>2. n \in P
      <3>1. n - n = 0 /\ Pow(0) = 1
        BY <1>1, PowIs
      <3>2. 1 * g = g
        BY <2>1
      <3> QED BY <1>20, <2>1, <3>1, <3>2
    <2>3. \A j \in 0 .. n - 1 : j + 1 \in P => j \in P
      <3> SUFFICES ASSUME NEW j \in 0 .. n - 1, j + 1 \in P
                   PROVE  j \in 0 .. n /\ Pow(n - j) * G[n] <= G[j]
        OBVIOUS
      <3> DEFINE m == n - (j + 1)
                 b == Pow(m)
                 h == G[j + 1]
      <3>1. m \in Nat /\ n - j = m + 1 /\ j \in 0 .. n /\ j + 1 \in 0 .. n
        BY <1>1, <1>2
      <3>2. Pow(n - j) = RADIX * b /\ b \in Nat /\ b * g <= h /\ h \in Nat
        BY <1>18, <3>1, PowIs
      <3>3. G[j] = digit(j) + RADIX * h /\ digit(j) \in Nat
        BY <1>12, <1>19
      <3> HIDE DEF b, h, g, m, digit
      <3>4. b * g \in Nat /\ RADIX * (b * g) <= RADIX * h /\ (RADIX * b) * g = RADIX * (b * g)
        <4>1. \A c, d, s \in Nat : /\ c <= d => s * c <= s * d
                                   /\ c * d \in Nat /\ (c * d) * s = c * (d * s)
          OBVIOUS
        <4>2. b * g \in Nat /\ (RADIX * b) * g = RADIX * (b * g)
          BY <1>4, <2>1, <3>2, <4>1
        <4> DEFINE x == b * g
        <4> HIDE DEF x
        <4>3. RADIX * x <= RADIX * h
          BY <1>4, <3>2, <4>1, <4>2 DEF x
        <4> QED BY <4>2, <4>3 DEF x
      <3>5. RADIX * h \in Nat /\ RADIX * (b * g) \in Nat
        BY <1>4, <3>2, <3>4
      <3>6. (RADIX * b) * g <= G[j]
        BY <3>3, <3>4, <3>5
      <3> QED BY <3>1, <3>2, <3>6 DEF g
    <2> HIDE DEF P
    <2>4. \A j \in 0 .. n : j \in P
      BY <1>1, <2>2, <2>3, Downwards
    <2>5. n - 0 = n
      BY <1>1
    <2> QED BY <1>20, <2>4, <2>5 DEF P
  <1>24. G[n] < Pow(n)
    <2> DEFINE g == G[n]
               b == Pow(n)
    <2>1. b \in Nat /\ b > 0 /\ Pow(N - z) = b * b /\ g \in Nat
      <3>1. Pow(n + n) = b * b
        BY <1>1, PowIs
      <3> QED BY <1>1, <1>18, <1>20, <3>1, PowIs
    <2>2. b * g < b * b
      <3>1. G[0] < b * b /\ G[0] \in Nat
        BY <1>18, <1>20, <1>21, <2>1
      <3>2. b * g \in Nat /\ b * b \in Nat
        BY <2>1
      <3> QED BY <1>23, <3>1, <3>2
    <2> HIDE DEF g, b
    <2>3. g >= b => b * g >= b * b
      BY <2>1
    <2>4. b * g \in Nat /\ b * b \in Nat
      BY <2>1
    <2>5. g < b
      BY <2>1, <2>2, <2>3, <2>4
    <2> QED BY <2>5 DEF g, b
  <1> DEFINE i == ix + u
             c == carry[n]
  <1>25. Above(row, i) = Above(t, i)
    <2>1. \A j \in Nat : j >= i => DigitOf(row, j) = DigitOf(t, j)
      BY <1>1, <1>17
    <2>2. i \in Nat
      BY <1>1
    <2> HIDE DEF i
    <2> QED BY <1>17, <2>1, <2>2, SameAbove
  <1>26. /\ r \in Mp(N) /\ r.sign = row.sign /\ r.used = N /\ r.alloc = row.alloc
         /\ \A j \in Nat : j < i => DigitOf(r, j) = DigitOf(row, j)
         /\ Above(r, i) = Above(row, i) + c
    <2>1. r = CarryUp(row, c, i) /\ i \in Nat /\ i < N /\ c \in Nat
      BY <1>0, <1>1, <1>22 DEF u
    <2>2. Above(row, i) + c < Pow(N - i)
      BY <1>1, <1>22, <1>24, <1>25
    <2>3. row.dp[i] + c < RADIX + RADIX
      <3>1. DigitOf(row, i) = DigitOf(t, i)
        BY <1>1, <1>17
      <3>2. row.dp[i] = DigitOf(row, i)
        BY <1>17, <2>1 DEF DigitOf
      <3>3. DigitOf(t, i) \in Nat /\ DigitOf(t, i) <= 1
        BY <2>1, AboveFacts DEF u
      <3>4. c \in Nat /\ c <= 2 * RADIX - 2
        BY <1>4, <1>10, <1>20 DEF C
      <3> HIDE DEF i, c
      <3> QED BY <1>4, <3>1, <3>2, <3>3, <3>4
    <2> HIDE DEF i, c
    <2> QED BY <1>17, <2>1, <2>2, <2>3, CarryUpIs
  <1>27. Follows(G, r, z, n)
    <2>1. ASSUME NEW j \in 0 .. n - 1 PROVE G[j] = DigitOf(r, z + j) + RADIX * G[j + 1]
      <3>1. z + j \in Nat /\ z + j < i /\ z + j \in z .. ix + u - 1
        BY <1>1, <1>2
      <3>2. DigitOf(r, z + j) = digit(j)
        BY <1>15, <1>17, <1>26, <3>1
      <3> QED BY <1>19, <3>2
    <2>2. G \in [0 .. n -> Int]
      <3>1. \A j \in 0 .. n : F(j) + Above(t, z + j) + carry[j] \in Int
        BY <1>18
      <3> QED BY <3>1 DEF G
    <2> QED BY <2>1, <2>2 DEF Follows
  <1>28. G[n] = Above(r, z + n)
    BY <1>20, <1>22, <1>25, <1>26
  <1>29. G[0] = Above(r, z)
    <2>1. N \in Nat /\ z \in Nat /\ n \in Nat
      BY <1>1
    <2>2. r \in Mp(N)
      BY <1>26
    <2> HIDE DEF G, n
    <2> QED BY ONLY <1>27, <1>28, <2>1, <2>2, Horner
  <1>30. \A j \in Nat : j < z => DigitOf(r, j) = DigitOf(t, j)
    <2> TAKE j \in Nat
    <2>1. j < z => j < i /\ j \notin z .. ix + u - 1
      BY <1>1
    <2> QED BY <1>17, <1>26, <2>1
  <1> QED BY <1>17, <1>21, <1>26, <1>29, <1>30

\* The temporary of s_mp_sqr when turn ix begins: what is left to add is the square of the digits
\* from ix up.
Squared(t, a, ix) ==
    /\ t \in Mp(a.used + a.used) /\ t.used = a.used + a.used /\ t.alloc = a.used + a.used
    /\ t.sign = ZPOS
    /\ Above(t, 0) + Pow(2 * ix) * (Above(a, ix) * Above(a, ix)) = Above(a, 0) * Above(a, 0)

LEMMA SquareTurnIs ==
  ASSUME NEW l \in Nat, NEW a \in Mp(l), NEW ix \in 0 .. a.used - 1,
         NEW t, Squared(t, a, ix),
         NEW r, r = IF a.dp[ix] = 0 THEN t ELSE SquareRow(t, a, ix)
  PROVE  Squared(r, a, ix + 1)
  <1> DEFINE u == a.used
             N == a.used + a.used
             z == 2 * ix
             q == a.dp[ix]
             A == Above(a, 0)
             B == Above(a, ix)
             x == Above(a, ix + 1)
             T == Above(t, 0)
             E == q * q + 2 * (q * (RADIX * Above(a, ix + 1)))
             P == Pow(ix)
             Z == Pow(z)
             R == RADIX
  <1>1. /\ u \in Nat /\ u > 0 /\ ix \in Nat /\ ix < u /\ ix + 1 \in Nat /\ z \in Nat /\ z = ix + ix
        /\ N \in Nat /\ N = u + u /\ ix + u < N /\ ix + u \in Nat /\ z < N /\ N - z \in Nat
        /\ z + (N - z) = N /\ 2 * (ix + 1) = (z + 1) + 1
    <2>1. u \in 1 .. l
      BY MpFacts
    <2>2. ix \in 0 .. u - 1 /\ N = u + u /\ z = 2 * ix
      OBVIOUS
    <2> HIDE DEF u, N, z
    <2> QED BY ONLY <2>1, <2>2, l \in Nat
  <1>2. /\ t \in Mp(N) /\ t.used = N /\ t.alloc = N /\ t.sign = ZPOS
        /\ T + Z * (B * B) = A * A
    BY DEF Squared
  <1>3. /\ A \in Nat /\ B \in Nat /\ x \in Nat /\ q \in Nat /\ B = q + R * x /\ R \in Nat /\ R > 1
        /\ A < Pow(u)
    <2>1. B = DigitOf(a, ix) + RADIX * Above(a, ix + 1)
      BY <1>1, AboveUnfolds
    <2>2. DigitOf(a, ix) = q
      BY <1>1 DEF DigitOf
    <2>3. \A i \in Nat : Above(a, i) \in Nat /\ DigitOf(a, i) \in Nat
      BY AboveFacts
    <2> HIDE DEF q, A, B, x, u
    <2>4. A \in Nat /\ B \in Nat /\ x \in Nat /\ q \in Nat
      BY <1>1, <2>2, <2>3 DEF A, B, x
    <2>5. A < Pow(u)
      BY LeadingIs DEF A, u
    <2> QED BY <2>1, <2>2, <2>4, <2>5, RadixIs DEF x
  <1>4. /\ P \in Nat /\ P > 0 /\ Z = P * P /\ Z \in Nat /\ Z > 0
        /\ Pow(u) \in Nat /\ Pow(u) > 0 /\ Pow(N) = Pow(u) * Pow(u)
        /\ Pow(ix + u) = P * Pow(u)
        /\ Pow(2 * (ix + 1)) = R * (R * Z) /\ Pow(N) = Z * Pow(N - z) /\ Pow(N - z) \in Nat
    <2> HIDE DEF u, N, z
    <2>1. /\ P \in Nat /\ P > 0 /\ Pow(z) = P * P /\ Pow(z) \in Nat /\ Pow(z) > 0
          /\ Pow(u) \in Nat /\ Pow(u) > 0 /\ Pow(u + u) = Pow(u) * Pow(u)
          /\ Pow(ix + u) = P * Pow(u) /\ Pow(N - z) \in Nat
      BY <1>1, PowIs
    <2>2. Pow(z + 1) = RADIX * Pow(z) /\ Pow((z + 1) + 1) = RADIX * Pow(z + 1)
      <3>1. z + 1 \in Nat
        BY <1>1
      <3> QED BY <1>1, <3>1, PowIs
    <2>3. Pow(z + (N - z)) = Pow(z) * Pow(N - z)
      BY <1>1, PowIs
    <2> QED BY <1>1, <2>1, <2>2, <2>3
  <1>5. T \in Nat /\ \A i \in Nat : Above(t, i) \in Nat /\ DigitOf(t, i) \in Nat
    BY <1>1, <1>2, AboveFacts
  <1>6. E \in Nat /\ B * B = E + R * (R * (x * x))
    <2>1. \A b, s, y \in Nat : /\ b * b + 2 * (b * (s * y)) \in Nat
                               /\ (b + s * y) * (b + s * y)
                                      = b * b + 2 * (b * (s * y)) + s * (s * (y * y))
      OBVIOUS
    <2> HIDE DEF q, x, R, B
    <2> QED BY <1>3, <2>1 DEF x, R
  <1> HIDE DEF u, N, z, q, A, B, x, T, E, P, Z, R
  <1>7. \A b, c \in Nat : b * c \in Nat
    OBVIOUS
  <1>8. /\ B * B \in Nat /\ Z * E \in Nat /\ x * x \in Nat
        /\ Z * (B * B) = Z * E + (R * (R * Z)) * (x * x)
        /\ (R * (R * Z)) * (x * x) \in Nat /\ A * A \in Nat
    <2> DEFINE y == x * x
    <2>1. y \in Nat
      BY <1>3, <1>7
    <2> HIDE DEF y
    <2>2. \A b, c, d, e \in Nat : b * (c + d * (d * e)) = b * c + (d * (d * b)) * e
      OBVIOUS
    <2>3. Z * (E + R * (R * y)) = Z * E + (R * (R * Z)) * y
      BY <1>3, <1>4, <1>6, <2>1, <2>2
    <2>4. (R * (R * Z)) * y \in Nat
      BY <1>3, <1>4, <1>7, <2>1
    <2> QED BY <1>3, <1>4, <1>6, <1>7, <2>1, <2>3, <2>4 DEF y
  <1>9. T + Z * E <= A * A /\ T + Z * E + (R * (R * Z)) * (x * x) = A * A
    <2> DEFINE b == Z * (B * B)
               c == Z * E
               d == (R * (R * Z)) * (x * x)
               e == A * A
    <2>1. T + b = e /\ b = c + d /\ c \in Nat /\ d \in Nat
      BY <1>2, <1>8
    <2> HIDE DEF b, c, d, e
    <2>2. T + c <= e /\ T + c + d = e
      BY <1>5, <2>1
    <2> QED BY <2>2 DEF c, d, e
  <1>10. A * A < Pow(N)
    <2> DEFINE w == Pow(u)
    <2> HIDE DEF w
    <2>1. A \in Nat /\ w \in Nat /\ A < w /\ Pow(N) = w * w
      BY <1>3, <1>4 DEF w
    <2>2. A * A <= A * w /\ A * w < w * w
      <3>1. \A b, c, d \in Nat : (b <= c => d * b <= d * c) /\ (b < c /\ d > 0 => b * d < c * d)
        OBVIOUS
      <3> QED BY <2>1, <3>1
    <2>3. A * A \in Nat /\ A * w \in Nat /\ w * w \in Nat
      BY <1>7, <2>1
    <2> QED BY <2>1, <2>2, <2>3
  <1>11. CASE q = 0
    <2>1. r = t
      BY <1>11 DEF q
    <2>2. E = 0
      <3>1. \A b \in Nat : 0 * 0 = 0 /\ 2 * (0 * b) = 0
        OBVIOUS
      <3>2. RADIX * Above(a, ix + 1) \in Nat
        BY <1>3, <1>7 DEF R, x
      <3> QED BY <1>11, <3>1, <3>2 DEF E
    <2>3. Z * E = 0
      BY <1>4, <2>2
    <2>4. T + (R * (R * Z)) * (x * x) = A * A
      BY <1>5, <1>8, <1>9, <2>3
    <2> QED BY <1>2, <1>4, <2>1, <2>4 DEF Squared, N, T, x, A
  <1>12. CASE q # 0
    <2> DEFINE e == Above(t, z)
               g == Above(t, ix + u)
    <2>1. DigitOf(t, ix + u) <= 1
      <3>1. PICK low \in Nat : low < P /\ A = low + P * B
        BY <1>1, CutAt DEF P, A, B
      <3>2. PICK some \in Nat : some < Pow(ix + u) /\ T = some + Pow(ix + u) * g
        BY <1>1, <1>2, CutAt DEF T
      <3>3. g \in Nat
        BY <1>1, <1>5
      <3>4. g = DigitOf(t, ix + u) + R * Above(t, (ix + u) + 1)
        BY <1>1, <1>2, AboveUnfolds DEF R
      <3> HIDE DEF g
      <3>5. T = low * low + 2 * (low * (P * B))
        <4>1. \A b, c, d \in Nat : /\ (b + c * d) * (b + c * d)
                                          = b * b + 2 * (b * (c * d)) + (c * c) * (d * d)
                                   /\ b * b + 2 * (b * (c * d)) \in Nat /\ (c * c) * (d * d) \in Nat
          OBVIOUS
        <4> DEFINE v == low * low + 2 * (low * (P * B))
                   w == Z * (B * B)
        <4>2. A * A = v + w /\ v \in Nat /\ w \in Nat
          BY <1>3, <1>4, <3>1, <4>1
        <4>3. T + w = A * A
          BY <1>2
        <4> HIDE DEF v, w
        <4>4. T = v
          BY <1>5, <4>2, <4>3
        <4> QED BY <4>4 DEF v
      <3>6. T <= 2 * (low * A)
        <4>1. low * A = low * low + low * (P * B)
          <5>1. \A b, c \in Nat : b * (b + c) = b * b + b * c
            OBVIOUS
          <5>2. P * B \in Nat
            BY <1>3, <1>4, <1>7
          <5> QED BY <3>1, <5>1, <5>2
        <4>2. low * low \in Nat /\ low * (P * B) \in Nat
          BY <1>3, <1>4, <1>7, <3>1
        <4> DEFINE v == low * low
                   w == low * (P * B)
        <4> HIDE DEF v, w
        <4>3. T = v + 2 * w /\ low * A = v + w /\ v \in Nat /\ w \in Nat
          BY <3>5, <4>1, <4>2 DEF v, w
        <4> QED BY <4>3
      <3>7. low * A < P * Pow(u)
        <4> DEFINE w == Pow(u)
        <4>1. \A b, c, d \in Nat : (b <= c => d * b <= d * c) /\ (b < c /\ d > 0 => b * d < c * d)
          OBVIOUS
        <4>2. w \in Nat /\ w > 0 /\ A < w
          BY <1>3, <1>4
        <4> HIDE DEF w
        <4>3. low * A <= low * w /\ low * w < P * w
          BY <1>3, <1>4, <3>1, <4>1, <4>2
        <4>4. low * A \in Nat /\ low * w \in Nat /\ P * w \in Nat
          BY <1>3, <1>4, <1>7, <3>1, <4>2
        <4>5. low * A < P * w
          BY <4>3, <4>4
        <4> QED BY <4>5 DEF w
      <3>8. g < 2
        <4> DEFINE w == P * Pow(u)
                   v == low * A
        <4>1. w \in Nat /\ v \in Nat /\ v < w /\ T <= 2 * v /\ T = some + w * g
          BY <1>3, <1>4, <1>7, <3>1, <3>2, <3>6, <3>7
        <4> HIDE DEF w, v
        <4>2. g >= 2 => w * 2 <= w * g
          <5>1. \A b, c, d \in Nat : b <= c => d * b <= d * c
            OBVIOUS
          <5> QED BY <3>3, <4>1, <5>1
        <4>3. w * 2 = w + w /\ w * g \in Nat
          BY <1>7, <3>3, <4>1
        <4> QED BY <1>5, <3>3, <4>1, <4>2, <4>3
      <3>9. DigitOf(t, ix + u) \in Nat /\ Above(t, (ix + u) + 1) \in Nat
        BY <1>1, <1>5
      <3>10. R * Above(t, (ix + u) + 1) \in Nat
        BY <1>3, <1>7, <3>9
      <3> QED BY <3>3, <3>4, <3>8, <3>9, <3>10
    <2>2. PICK some \in Nat : some < Z /\ T = some + Z * e
      BY <1>1, <1>2, CutAt DEF T, Z
    <2>3. e \in Nat
      BY <1>1, <1>5
    <2> HIDE DEF e
    <2>4. Z * (e + E) = Z * e + Z * E /\ Z * e \in Nat
      BY <1>4, <1>6, <2>3
    <2>5. e + E < Pow(N - z)
      <3> DEFINE w == Pow(N - z)
      <3>1. w \in Nat /\ Pow(N) = Z * w
        BY <1>4
      <3> HIDE DEF w
      <3> DEFINE b == Z * e
                 c == Z * E
                 d == A * A
                 f == Z * w
      <3>2. b \in Nat /\ c \in Nat /\ d \in Nat /\ f \in Nat
            /\ T = some + b /\ T + c <= d /\ d < f
        BY <1>4, <1>7, <1>8, <1>9, <1>10, <2>2, <2>4, <3>1
      <3> HIDE DEF b, c, d, f
      <3>3. b + c < f
        BY <3>2
      <3>4. Z * (e + E) < Z * w
        BY <2>4, <3>3 DEF b, c, f
      <3>5. e + E >= w => Z * (e + E) >= Z * w
        <4>1. \A s, y, v \in Nat : s >= y => v * s >= v * y
          OBVIOUS
        <4>2. e + E \in Nat
          BY <1>6, <2>3
        <4> QED BY <1>4, <3>1, <4>1, <4>2
      <3>6. Z * (e + E) \in Nat /\ Z * w \in Nat /\ e + E \in Nat
        BY <1>4, <1>6, <1>7, <2>3, <3>1
      <3>7. e + E < w
        BY <3>1, <3>4, <3>5, <3>6
      <3> QED BY <3>7 DEF w
    <2>6. /\ r \in Mp(N) /\ r.sign = t.sign /\ r.used = N /\ r.alloc = t.alloc
          /\ \A i \in Nat : i < z => DigitOf(r, i) = DigitOf(t, i)
          /\ Above(r, z) = e + E
      <3>1. r = SquareRow(t, a, ix)
        BY <1>12 DEF q
      <3>2. N = a.used + a.used /\ z = 2 * ix /\ q = a.dp[ix]
            /\ E = q * q + 2 * (q * (RADIX * Above(a, ix + 1)))
        BY DEF N, z, q, E
      <3>3. DigitOf(t, ix + a.used) <= 1 /\ Above(t, z) + E < Pow(N - z)
        BY <2>1, <2>5 DEF u, e
      <3>4. /\ r \in Mp(N) /\ r.sign = t.sign /\ r.used = N /\ r.alloc = t.alloc
            /\ \A i \in Nat : i < z => DigitOf(r, i) = DigitOf(t, i)
            /\ Above(r, z) = Above(t, z) + E
        <4>1. t \in Mp(N) /\ t.used = N /\ N \in Nat
          BY <1>1, <1>2
        <4>2. a.used + a.used = N /\ t.used = a.used + a.used /\ 2 * ix = z
          BY <3>2, <4>1
        <4> QED BY ONLY <3>1, <3>2, <3>3, <4>1, <4>2, l \in Nat, a \in Mp(l),
                        ix \in 0 .. a.used - 1, SquareRowIs
      <3> QED BY <3>4 DEF e
    <2>7. Above(r, 0) = T + Z * E
      <3>1. PICK low \in Nat : /\ T = low + Z * Above(t, z)
                               /\ Above(r, 0) = low + Z * Above(r, z)
        <4>1. AlikeBelow(t, r, z)
          BY <2>6 DEF AlikeBelow
        <4>2. t \in Mp(N) /\ r \in Mp(N) /\ N \in Nat /\ z \in Nat
          BY <1>1, <1>2, <2>6
        <4>3. \E low \in Nat : /\ Above(t, 0) = low + Pow(z) * Above(t, z)
                               /\ Above(r, 0) = low + Pow(z) * Above(r, z)
          BY ONLY <4>1, <4>2, CutBoth
        <4> QED BY <4>3 DEF T, Z
      <3>2. T = low + Z * e /\ Above(r, 0) = low + (Z * e + Z * E)
        BY <2>4, <2>6, <3>1 DEF e
      <3> DEFINE b == Z * e
                 c == Z * E
      <3>3. b \in Nat /\ c \in Nat /\ T = low + b /\ Above(r, 0) = low + (b + c)
        BY <1>8, <2>4, <3>2
      <3> HIDE DEF b, c
      <3>4. Above(r, 0) = T + c
        BY <3>3
      <3> QED BY <3>4 DEF c
    <2>8. Above(r, 0) + (R * (R * Z)) * (x * x) = A * A
      BY <1>9, <2>7
    <2> QED BY <1>2, <1>4, <2>6, <2>8 DEF Squared, N, x, A
  <1> QED BY <1>11, <1>12

\* s_mp_sqr.
LEMMA SquareIs ==
  ASSUME NEW l \in Nat, NEW a \in Mp(l), NEW r, r = s_mp_sqr(a)
  PROVE  Tidy(r) /\ Top(r) /\ r.sign = ZPOS /\ Above(r, 0) = Above(a, 0) * Above(a, 0)
  <1> DEFINE N == a.used
             M == a.used + a.used
             U == Mp(M)
             s == Zeroes(2 * a.used)
             Onward(n, x) == IF a.dp[n - 1] = 0 THEN x ELSE SquareRow(x, a, n - 1)
             Inv(n, x) == Squared(x, a, n)
             S == [n \in 0 .. N |-> {x \in U : Inv(n, x)}]
             step == [n \in 1 .. N |-> [x \in U |-> Onward(n, x)]]
             Is(h) == h = [n \in 0 .. a.used |-> IF n = 0 THEN Zeroes(2 * a.used)
                                                ELSE IF a.dp[n - 1] = 0 THEN h[n - 1]
                                                ELSE SquareRow(h[n - 1], a, n - 1)]
             T == CHOOSE h : Is(h)
  <1>1. N \in Nat /\ N > 0 /\ N >= 1 /\ M \in Nat /\ M > 0 /\ 2 * a.used = M
    BY AboveFacts
  <1>2. s \in S[0]
    <2>1. /\ s \in Mp(M) /\ Clean(s) /\ s.sign = ZPOS /\ s.used = M /\ s.alloc = M
          /\ \A i \in Nat : DigitOf(s, i) = 0
      <3>1. s = Zeroes(M)
        BY <1>1
      <3> HIDE DEF s, M
      <3> QED BY <1>1, <3>1, ZeroesIs
    <2> HIDE DEF s
    <2>2. Above(s, 0) = 0
      <3> HIDE DEF M
      <3> QED BY <1>1, <2>1, NoneAbove
    <2>3. Above(s, 0) + Pow(2 * 0) * (Above(a, 0) * Above(a, 0)) = Above(a, 0) * Above(a, 0)
      <3>1. Above(a, 0) \in Nat
        BY AboveFacts
      <3>2. \A x \in Nat : 0 + 1 * (x * x) = x * x
        OBVIOUS
      <3>3. Pow(2 * 0) = 1
        BY PowIs
      <3> QED BY <2>2, <3>1, <3>2, <3>3
    <2>4. Inv(0, s)
      BY <2>1, <2>3 DEF Squared
    <2>5. 0 \in 0 .. N
      BY <1>1
    <2> HIDE DEF Inv
    <2> QED BY <2>1, <2>4, <2>5
  <1>3. ASSUME NEW n \in 1 .. N, NEW x \in U, Inv(n - 1, x)
        PROVE  Onward(n, x) \in U /\ Inv(n, Onward(n, x))
    <2> DEFINE ix == n - 1
               y == IF a.dp[ix] = 0 THEN x ELSE SquareRow(x, a, ix)
    <2>1. ix \in 0 .. a.used - 1 /\ ix + 1 = n
      BY <1>1
    <2>2. Squared(x, a, ix)
      BY <1>3
    <2>3. Onward(n, x) = y
      OBVIOUS
    <2> HIDE DEF ix, y, Onward
    <2>4. Squared(y, a, ix + 1)
      BY <2>1, <2>2, SquareTurnIs DEF y
    <2>5. y \in U
      BY <2>4 DEF Squared
    <2> QED BY <2>1, <2>3, <2>4, <2>5
  <1>4. \A n \in 1 .. N : \A x \in S[n - 1] : Onward(n, x) \in S[n]
    <2>1. \A n \in 1 .. N : n - 1 \in 0 .. N /\ n \in 0 .. N
      BY <1>1
    <2> HIDE DEF U, Inv, Onward, N
    <2> QED BY <1>3, <2>1
  <1> HIDE DEF Onward, Inv
  <1>5. \A n \in 1 .. N : \A x \in S[n - 1] : x \in U /\ step[n][x] = Onward(n, x)
    <2>1. \A n \in 1 .. N : n - 1 \in 0 .. N
      BY <1>1
    <2> HIDE DEF U, N
    <2> QED BY <2>1
  <1>6. PICK f : Turned(f, N, U, S, s, step)
    <2>1. \A n \in 0 .. N : S[n] \subseteq U
      BY DEF S
    <2>2. Turning(N, U, S, s, step)
      <3> HIDE DEF N, U, S, s, step
      <3> QED BY <1>1, <1>2, <1>4, <1>5, <2>1 DEF Turning
    <2> HIDE DEF N, U, S, s, step
    <2> QED BY <2>2, LoopRuns
  <1> HIDE DEF U, S, step
  <1>7. Is(f)
    <2>1. \A n \in 0 .. N : n # 0 => n \in 1 .. N
      BY <1>1
    <2>2. /\ f \in [0 .. N -> U] /\ f[0] = s
          /\ \A n \in 1 .. N : f[n] = step[n][f[n - 1]] /\ f[n - 1] \in S[n - 1]
      BY <1>6 DEF Turned
    <2>3. \A n \in 0 .. N : n # 0 => f[n] = Onward(n, f[n - 1])
      BY <1>5, <2>1, <2>2
    <2> QED BY <2>2, <2>3 DEF Onward
  <1>8. Is(T)
    BY <1>7
  <1>9. r = s_mp_clamp(T[N])
    BY DEF s_mp_sqr
  <1> HIDE DEF T
  <1>10. T[0] \in S[0] /\ \A n \in 1 .. N : T[n] = Onward(n, T[n - 1])
    BY <1>1, <1>2, <1>8 DEF Onward
  <1> HIDE DEF N, s
  <1>11. T[N] \in S[N]
    <2>1. \A n \in 1 .. N : T[n - 1] \in S[n - 1] => T[n] \in S[n]
      BY <1>4, <1>10
    <2> QED BY <1>1, <1>10, <2>1, LoopStays
  <1>12. Inv(N, T[N])
    BY <1>1, <1>11 DEF S
  <1> DEFINE t == T[N]
  <1> HIDE DEF t, M
  <1>13. /\ t \in Mp(M) /\ t.used = M /\ t.alloc = M /\ t.sign = ZPOS
         /\ Above(t, 0) + Pow(2 * N) * (Above(a, N) * Above(a, N)) = Above(a, 0) * Above(a, 0)
    BY <1>12 DEF Inv, Squared, t, M
  <1>14. Above(t, 0) = Above(a, 0) * Above(a, 0)
    <2>1. \A i \in Nat : i >= a.used => Above(a, i) = 0
      BY AboveFacts
    <2>2. Above(a, N) = 0
      BY <1>1, <2>1 DEF N
    <2>3. Pow(2 * N) * (0 * 0) = 0
      <3>1. 2 * N \in Nat
        BY <1>1
      <3>2. Pow(2 * N) \in Nat
        BY <3>1, PowIs
      <3> QED BY <3>2
    <2>4. Above(t, 0) \in Nat
      BY <1>1, <1>13, AboveFacts
    <2> QED BY <1>13, <2>2, <2>3, <2>4
  <1>15. Tidy(t)
    <2>1. Clean(t)
      <3>1. t.dp \in [0 .. M - 1 -> Digit]
        BY <1>1, <1>13, MpFacts
      <3> QED BY <1>1, <1>13, <3>1 DEF Clean
    <2> QED BY <1>13, <2>1 DEF Tidy
  <1>16. r = s_mp_clamp(t)
    BY <1>9 DEF t
  <1> QED BY <1>13, <1>14, <1>15, <1>16, ClampedIs

\* mp_sqr, and mp_sqrmod.
LEMMA SqrRight ==
  ASSUME NEW h, NEW v, Holds(h, v), NEW a \in Regs, NEW c \in Regs
  PROVE  Holds(mp_sqr(h, a, c), [v EXCEPT ![c] = v[a] * v[a]])
  <1> DEFINE k == mp_copy(h, a, c)
             m == k[c]
             x == s_mp_sqr(m)
             y == [x EXCEPT !.sign = ZPOS]
             n == v[a] * v[a]
  <1>1. Good(m, v[a]) /\ \A z : [k EXCEPT ![c] = z] = [h EXCEPT ![c] = z]
    BY CopyThen
  <1>2. mp_sqr(h, a, c) = [k EXCEPT ![c] = y]
    BY DEF mp_sqr, Update
  <1>3. mp_sqr(h, a, c) = [h EXCEPT ![c] = y]
    BY <1>1, <1>2
  <1> HIDE DEF k, m
  <1>4. Tidy(m) /\ v[a] \in Int /\ Above(m, 0) = Magn(v[a])
    BY <1>1, GoodFacts
  <1>5. /\ Tidy(x) /\ Top(x) /\ x.sign = ZPOS /\ Above(x, 0) = Above(m, 0) * Above(m, 0)
    BY <1>4, SquareIs, TidyAbove
  <1> HIDE DEF x
  <1>6. Tidy(y) /\ Top(y) /\ Above(y, 0) = Above(x, 0) /\ y.sign = ZPOS
    <2>1. ZPOS \in {ZPOS, NEG}
      OBVIOUS
    <2> HIDE DEF y
    <2> QED BY <1>5, <2>1, WithSignIs DEF y
  <1> HIDE DEF y
  <1>7. n \in Int /\ n >= 0 /\ Magn(n) = Magn(v[a]) * Magn(v[a])
    <2>1. /\ n \in Int /\ Magn(n) = Magn(v[a]) * Magn(v[a])
          /\ (n < 0 => (v[a] < 0 <=> v[a] >= 0))
      BY <1>4, ProductMagn
    <2> HIDE DEF n
    <2> QED BY <1>4, <2>1
  <1>8. Good(y, n)
    <2> HIDE DEF n
    <2> QED BY <1>4, <1>5, <1>6, <1>7 DEF Good
  <1> HIDE DEF n
  <1>9. Holds(mp_sqr(h, a, c), [v EXCEPT ![c] = n])
    BY <1>3, <1>8, PutIs
  <1> QED BY <1>9 DEF n

LEMMA SqrModRight ==
  ASSUME NEW h, NEW v, Holds(h, v), NEW a \in Regs, NEW m \in Regs, NEW c \in Regs,
         v[m] > 0, c # m
  PROVE  Holds(mp_sqrmod(h, a, m, c), [v EXCEPT ![c] = (v[a] * v[a]) % v[m]])
  <1> DEFINE n == v[a] * v[a]
             k == mp_sqr(h, a, c)
  <1>1. v \in [Regs -> Int] /\ v[a] \in Int
    BY DEF Holds
  <1>2. n \in Int /\ Holds(k, [v EXCEPT ![c] = n])
    <2>1. n \in Int
      BY <1>1, ProductMagn
    <2>2. Holds(k, [v EXCEPT ![c] = n])
      BY SqrRight
    <2> QED BY <2>1, <2>2
  <1> HIDE DEF n, k
  <1>3. Holds(mp_mod(k, c, m, c), [v EXCEPT ![c] = n % v[m]])
    BY <1>1, <1>2, ReducedIs
  <1> QED BY <1>3 DEF mp_sqrmod, n, k

\* mp_2expt: one bit in a digit, and zeroes below.
LEMMA TwoExptIs ==
  ASSUME NEW m, Tidy(m), NEW k \in Nat, NEW r, r = s_mp_2expt(m, k)
  PROVE  Good(r, 2 ^ k)
  <1> DEFINE p == k \div DigitBit
             b == k % DigitBit
             g == 2 ^ b
             z == Zeroed(m)
             w == s_mp_pad(z, p + 1)
             dp == [w.dp EXCEPT ![p] = g]
  <1>1. /\ p \in Nat /\ b \in 0 .. DigitBit - 1 /\ g \in Nat /\ g > 0 /\ 2 ^ k = Pow(p) * g
    BY PowersOf DEF Pow
  <1>2. g < RADIX
    <2>1. DigitBit \in Nat /\ b \in 0 .. DigitBit
      BY <1>1, MpiAssumption
    <2>2. 2 ^ (DigitBit - b) \in Nat /\ g * 2 ^ (DigitBit - b) = RADIX
      <3> HIDE DEF b
      <3> QED BY <2>1, Parts
    <2>3. 2 ^ (DigitBit - b) > 1
      <3>1. DigitBit - b - 1 \in Nat /\ (DigitBit - b - 1) + 1 = DigitBit - b
        BY <1>1, <2>1
      <3> DEFINE i == DigitBit - b - 1
      <3> HIDE DEF i, b
      <3>2. 2 ^ (i + 1) = 2 ^ i + 2 ^ i /\ 2 ^ i \in Nat /\ 2 ^ i > 0
        BY <3>1, TwoTo DEF i
      <3>3. i + 1 = DigitBit - b
        BY <3>1 DEF i
      <3> QED BY <3>2, <3>3
    <2> DEFINE c == 2 ^ (DigitBit - b)
    <2> HIDE DEF g, b, c
    <2>4. \A x, y \in Nat : x > 0 /\ y > 1 => x < x * y
      OBVIOUS
    <2>5. c \in Nat /\ c > 1 /\ g * c = RADIX
      BY <2>2, <2>3 DEF c
    <2> QED BY <1>1, <2>4, <2>5
  <1>3. g \in Digit
    BY <1>1, <1>2, RadixIs DEF Digit
  <1> HIDE DEF p, b, g
  <1>4. Good(z, 0) /\ 0 \in Digit
    BY RadixIs, ZeroedIs
  <1>5. Tidy(z) /\ z.sign = ZPOS /\ z.used = 1 /\ \A i \in Nat : DigitOf(z, i) = 0
    <2>1. z.sign = ZPOS /\ z.used = 1 /\ z.dp = [i \in DOMAIN m.dp |-> 0]
      BY TidyIs DEF Zeroed, Tidy, Mp
    <2>2. Tidy(z)
      BY <1>4 DEF Good
    <2> HIDE DEF z
    <2>3. 0 \in DOMAIN z.dp
      BY <2>2, TidyIs
    <2>4. z.dp[0] = 0
      BY <2>1, <2>3
    <2>5. ASSUME NEW i \in Nat PROVE DigitOf(z, i) = 0
      <3>1. i < 1 => i = 0
        OBVIOUS
      <3> QED BY <2>1, <2>4, <3>1 DEF DigitOf
    <2> QED BY <2>1, <2>2, <2>5
  <1> HIDE DEF z
  <1>6. /\ Tidy(w) /\ w.sign = ZPOS /\ w.used = p + 1 /\ \A i \in Nat : DigitOf(w, i) = 0
    <2>1. p + 1 \in Nat /\ (p + 1 <= 1 => p + 1 = 1)
      BY <1>1
    <2> DEFINE q == p + 1
    <2>2. w = s_mp_pad(z, q) /\ q \in Nat
      BY <2>1
    <2> HIDE DEF w, q
    <2>3. /\ Tidy(w) /\ Same(w, z) /\ w.sign = z.sign
          /\ w.used = IF q <= z.used THEN z.used ELSE q
      BY <1>5, <2>2, PadIs
    <2>4. q = p + 1
      BY DEF q
    <2> QED BY <2>3, <2>4, <1>5, <2>1, <2>2 DEF Same
  <1>7. r = [w EXCEPT !.dp[p] = g]
    BY DEF s_mp_2expt, p, b, g, z
  <1> HIDE DEF w
  <1>8. /\ w.alloc \in Nat /\ w.used \in 1 .. w.alloc /\ w.dp \in [0 .. w.alloc - 1 -> Digit]
        /\ w.alloc \in 1 .. w.alloc
        /\ w = [sign |-> ZPOS, used |-> p + 1, alloc |-> w.alloc, dp |-> w.dp]
    BY <1>6, TidyIs DEF Tidy, Mp
  <1>9. p \in 0 .. w.alloc - 1
    BY <1>1, <1>6, <1>8
  <1>10. r = [sign |-> ZPOS, used |-> p + 1, alloc |-> w.alloc, dp |-> dp]
    <2>1. r = [w EXCEPT !.dp = dp]
      BY <1>7
    <2> HIDE DEF dp
    <2> QED BY <1>8, <2>1
  <1>11. /\ dp \in [0 .. w.alloc - 1 -> Digit] /\ dp[p] = g
         /\ \A i \in 0 .. w.alloc - 1 : i # p => dp[i] = w.dp[i]
    BY <1>3, <1>8, <1>9
  <1> HIDE DEF dp
  <1>12. Tidy(r) /\ r.alloc = w.alloc /\ r.used = p + 1 /\ r.dp = dp /\ r.sign = ZPOS
    <2>1. r \in Mp(w.alloc)
      <3>1. p + 1 \in 1 .. w.alloc /\ ZPOS \in {ZPOS, NEG}
        BY <1>6, <1>8
      <3> QED BY <1>8, <1>10, <1>11, <3>1 DEF Mp
    <2>2. r.alloc = w.alloc /\ r.used = p + 1 /\ r.dp = dp /\ r.sign = ZPOS
      BY <1>10
    <2>3. Clean(r)
      <3> SUFFICES ASSUME NEW i \in 0 .. w.alloc - 1, i >= p + 1 PROVE dp[i] = 0
        BY <1>11, <2>2 DEF Clean
      <3>1. w.dp[i] = 0
        BY <1>6, <1>8 DEF Tidy, Clean
      <3>2. i # p
        BY <1>1
      <3> QED BY <1>11, <3>1, <3>2
    <2> QED BY <2>1, <2>2, <2>3 DEF Tidy
  <1>13. \A i \in Nat : i < p => DigitOf(r, i) = 0
    <2> SUFFICES ASSUME NEW i \in Nat, i < p PROVE DigitOf(r, i) = 0
      OBVIOUS
    <2>1. i \in 0 .. w.alloc - 1 /\ i < p + 1 /\ i # p
      BY <1>1, <1>8, <1>9
    <2>2. DigitOf(w, i) = 0 /\ DigitOf(w, i) = w.dp[i]
      BY <1>6, <2>1 DEF DigitOf
    <2>3. DigitOf(r, i) = dp[i]
      BY <1>12, <2>1 DEF DigitOf
    <2> QED BY <1>11, <2>1, <2>2, <2>3
  <1>14. r.alloc \in Nat /\ r \in Mp(r.alloc)
    BY <1>12, TidyAbove
  <1>15. Above(r, 0) = Pow(p) * g
    <2>1. Above(r, 0) = Pow(p) * Above(r, p)
      BY <1>1, <1>13, <1>14, RoundIs
    <2>2. Above(r, p) = DigitOf(r, p) + RADIX * Above(r, p + 1)
      BY <1>1, <1>14, AboveUnfolds
    <2>3. \A i \in Nat : i >= r.used => Above(r, i) = 0
      BY <1>14, AboveFacts
    <2>4. Above(r, p + 1) = 0
      <3>1. p + 1 \in Nat /\ p + 1 >= p + 1
        BY <1>1
      <3> QED BY <1>12, <2>3, <3>1
    <2>5. DigitOf(r, p) = g
      BY <1>1, <1>11, <1>12 DEF DigitOf
    <2> QED BY <1>1, <2>1, <2>2, <2>4, <2>5, RadixIs
  <1>16. Top(r)
    <2>1. (p + 1) - 1 = p
      BY <1>1
    <2> QED BY <1>1, <1>11, <1>12, <2>1 DEF Top
  <1> DEFINE n == 2 ^ k
  <1>17. n \in Nat /\ Above(r, 0) = n
    BY <1>1, <1>15, TwoTo
  <1> HIDE DEF n
  <1>18. Good(r, n)
    BY <1>12, <1>16, <1>17 DEF Good, Magn
  <1> QED BY <1>18 DEF n

=============================================================================
