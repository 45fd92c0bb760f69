--------------------------- MODULE MpiCallsProofs ---------------------------
(***************************************************************************)
(* Bytes and text, there and back, and comparisons with integers; then the *)
(* invariant NumbersInv of sequences of calls, and the theorems.           *)
(***************************************************************************)
EXTENDS MpiDivisionProofs

-----------------------------------------------------------------------------
(* Bytes.                                                                  *)

\* The weight of char i.
CharWeight(i) == 2 ^ (CharBit * i)

LEMMA CharsAre ==
  /\ CHAR \in Nat /\ CHAR > 1 /\ DigitChars \in Nat /\ DigitChars > 0
  /\ CharBit \in Nat /\ DigitBit = CharBit * DigitChars /\ CHAR <= RADIX
  /\ CharWeight(0) = 1 /\ CharWeight(DigitChars) = RADIX
  /\ \A i \in Nat : /\ CharWeight(i) \in Nat /\ CharWeight(i) > 0
                    /\ CharWeight(i + 1) = CHAR * CharWeight(i)
  /\ \A i, j \in Nat : CharWeight(i + j) = CharWeight(i) * CharWeight(j)
  <1> DEFINE C == CharBit
             D == DigitChars
             W(i) == CharWeight(i)
  <1>1. C \in Nat /\ C > 0 /\ D \in Nat /\ D > 0 /\ DigitBit = C * D
    <2>1. DigitBit \in Nat /\ DigitBit > 0 /\ C \in Nat /\ C > 0 /\ DigitBit % C = 0
      BY MpiAssumption
    <2> HIDE DEF C
    <2> DEFINE q == DigitBit \div C
    <2>2. q \in Nat /\ DigitBit = C * q + 0
      BY <2>1
    <2> HIDE DEF q
    <2>3. DigitBit = C * q /\ q # 0
      <3>1. C * q \in Nat /\ C * 0 = 0
        BY <2>1, <2>2
      <3> QED BY <2>1, <2>2, <3>1
    <2>4. D = q
      BY DEF DigitChars, q, C
    <2> QED BY <2>1, <2>2, <2>3, <2>4
  <1>2. \A i, j \in Nat : C * i \in Nat /\ C * (i + j) = C * i + C * j
    BY <1>1
  <1>3. \A i \in Nat : W(i) \in Nat /\ W(i) > 0
    <2> SUFFICES ASSUME NEW i \in Nat PROVE W(i) \in Nat /\ W(i) > 0
      OBVIOUS
    <2>1. C * i \in Nat
      BY <1>2
    <2> QED BY <2>1, TwoTo DEF CharWeight
  <1>4. ASSUME NEW i \in Nat, NEW j \in Nat PROVE W(i + j) = W(i) * W(j)
    <2>1. C * i \in Nat /\ C * j \in Nat /\ C * (i + j) = C * i + C * j
      BY <1>2
    <2>2. 2 ^ (C * i + C * j) = 2 ^ (C * i) * 2 ^ (C * j)
      BY <2>1, TwoSums
    <2> QED BY <2>1, <2>2 DEF CharWeight
  <1>5. W(0) = 1 /\ W(1) = CHAR /\ W(D) = RADIX
    <2>1. C * 0 = 0 /\ C * 1 = C /\ 2 ^ 0 = 1
      BY <1>1
    <2> QED BY <1>1, <2>1 DEF CharWeight, CHAR, RADIX
  <1>6. CHAR \in Nat /\ CHAR > 1
    <2> DEFINE i == C - 1
    <2>1. i \in Nat /\ i + 1 = C
      BY <1>1
    <2> HIDE DEF i
    <2>2. 2 ^ i \in Nat /\ 2 ^ i > 0 /\ 2 ^ (i + 1) = 2 ^ i + 2 ^ i
      BY <2>1, TwoTo
    <2>3. CHAR = 2 ^ i + 2 ^ i
      BY <2>1, <2>2 DEF CHAR
    <2> QED BY <2>2, <2>3
  <1>7. ASSUME NEW i \in Nat PROVE W(i + 1) = CHAR * W(i)
    <2>1. W(i + 1) = W(i) * W(1)
      BY <1>4
    <2>2. W(i) \in Nat
      BY <1>3
    <2> HIDE DEF W
    <2> QED BY <1>5, <1>6, <2>1, <2>2
  <1>8. CHAR <= RADIX
    <2> DEFINE j == D - 1
    <2>1. j \in Nat /\ j + 1 = D
      BY <1>1
    <2> HIDE DEF j
    <2>2. W(D) = CHAR * W(j) /\ W(j) \in Nat /\ W(j) > 0
      BY <1>3, <1>7, <2>1
    <2>3. \A x, y \in Nat : y > 0 => x <= x * y
      OBVIOUS
    <2> HIDE DEF W
    <2> QED BY <1>5, <1>6, <2>2, <2>3
  <1> QED BY <1>1, <1>3, <1>4, <1>5, <1>6, <1>7, <1>8

\* A number read from the top: its chars from i + 1 up, and char i.
LEMMA CharIs ==
  ASSUME NEW v \in Nat, NEW i \in Nat
  PROVE  /\ CharOf(v, i) \in Nat /\ CharOf(v, i) < CHAR
         /\ v \div CharWeight(i) \in Nat /\ v \div CharWeight(i + 1) \in Nat
         /\ v \div CharWeight(i) = CHAR * (v \div CharWeight(i + 1)) + CharOf(v, i)
  <1> DEFINE w == CharWeight(i)
             x == v \div w
             y == x \div CHAR
             z == x % CHAR
  <1>1. w \in Nat /\ w > 0 /\ CHAR \in Nat /\ CHAR > 1 /\ CharWeight(i + 1) = CHAR * w
    BY CharsAre
  <1>2. x \in Nat
    <2> HIDE DEF w
    <2> QED BY <1>1
  <1>3. CharOf(v, i) = z
    BY DEF CharOf, CharWeight
  <1>4. v \div CharWeight(i + 1) = y
    <2> HIDE DEF w
    <2>1. w * CHAR = CHAR * w
      BY <1>1
    <2>2. x \div CHAR = v \div (w * CHAR)
      BY <1>1, DividesTwice
    <2> QED BY <1>1, <2>1, <2>2
  <1> HIDE DEF x
  <1>5. y \in Nat /\ z \in Nat /\ z < CHAR /\ x = CHAR * y + z
    BY <1>1, <1>2
  <1> HIDE DEF y, z
  <1> QED BY <1>2, <1>3, <1>4, <1>5 DEF x, w

\* One char more, in either way.
LEMMA ShiftInIs ==
  ASSUME NEW m, NEW n \in Nat, Good(m, n), NEW ch \in Nat, ch < CHAR
  PROVE  /\ Good(ShiftIn(m, ch), CHAR * n + ch)
         /\ Good(PlusDigit(s_mp_mul_2d(m, CharBit), ch), CHAR * n + ch)
  <1> DEFINE x == s_mp_mul_2d(m, CharBit)
             p == CHAR * n
             r == s_mp_add_d(x, ch)
  <1>1. CHAR \in Nat /\ CharBit \in Nat /\ CHAR <= RADIX
    BY CharsAre
  <1>2. ch \in Digit
    BY <1>1, RadixIs DEF Digit
  <1>3. p \in Nat /\ n * CHAR = p
    BY <1>1
  <1>4. Good(x, p)
    <2>1. Good(x, n * 2 ^ CharBit)
      BY <1>1, GoodShifted
    <2> HIDE DEF x, p
    <2> QED BY <1>3, <2>1 DEF CHAR
  <1> HIDE DEF x, p
  <1>5. Tidy(x) /\ Top(x) /\ Above(x, 0) = p /\ x.sign = ZPOS
    BY <1>3, <1>4, GoodFacts DEF Magn
  <1>6. Good(r, p + ch)
    <2>1. Tidy(r) /\ Top(r) /\ r.sign = ZPOS /\ Above(r, 0) = p + ch
      BY <1>2, <1>5, SumWithDigitIs
    <2> HIDE DEF r
    <2> QED BY <1>3, <2>1 DEF Good, Magn
  <1>7. Good(PlusDigit(x, ch), p + ch)
    BY <1>2, <1>4, PlusDigitIs
  <1>8. ShiftIn(m, ch) = r
    <2>1. m.used > 0
      BY TidyIs DEF Good
    <2> QED BY <2>1 DEF ShiftIn, x
  <1> HIDE DEF r
  <1> QED BY <1>6, <1>7, <1>8 DEF x, p

\* The bytes that spell v.
Spelled(str, v) ==
    /\ Len(str) \in Nat /\ v < CharWeight(Len(str))
    /\ \A k \in 1 .. Len(str) : str[k] = CharOf(v, Len(str) - k)

\* mp_read_unsigned_bin.
LEMMA ReadIs ==
  ASSUME NEW m, Tidy(m), NEW v \in Nat, NEW str, Spelled(str, v),
         NEW r, r = mp_read_unsigned_bin(m, str)
  PROVE  Good(r, v)
  <1> DEFINE N == Len(str)
             U == Numbers
             s == Zeroed(m)
             Onward(n, x) == CASE x.used > 0 -> PlusDigit(s_mp_mul_2d(x, CharBit), str[n])
             Inv(n, x) == Good(x, v \div CharWeight(N - n))
             S == [n \in 0 .. N |-> {x \in U : Inv(n, x)}]
             step == [n \in 1 .. N |-> [x \in U |-> Onward(n, x)]]
             Is(h) == h = [n \in 0 .. Len(str) |-> IF n = 0 THEN Zeroed(m)
                        ELSE CASE h[n - 1].used > 0 -> PlusDigit(s_mp_mul_2d(h[n - 1], CharBit), str[n])]
             T == CHOOSE h : Is(h)
  <1>1. N \in Nat /\ N >= 0 /\ v < CharWeight(N)
    BY DEF Spelled
  <1>2. s \in S[0]
    <2>1. v \div CharWeight(N) = 0
      <3> DEFINE w == CharWeight(N)
      <3>1. w \in Nat /\ w > 0
        BY <1>1, CharsAre
      <3> HIDE DEF w
      <3>2. v = w * 0 + v /\ v < w
        BY <1>1, <3>1 DEF w
      <3>3. v \div w = 0
        BY <3>1, <3>2, Divides
      <3> QED BY <3>3 DEF w
    <2>2. N - 0 = N /\ 0 \in 0 .. N
      BY <1>1
    <2>3. 0 \in Digit
      BY RadixIs
    <2>4. Good(s, 0)
      BY <2>3, ZeroedIs
    <2> HIDE DEF s, N
    <2>5. s \in U
      BY <2>4, TidyNumber DEF Good
    <2> QED BY <2>1, <2>2, <2>4, <2>5
  <1>3. ASSUME NEW n \in 1 .. N, NEW x \in U, Inv(n - 1, x)
        PROVE  Onward(n, x) \in U /\ Inv(n, Onward(n, x))
    <2> DEFINE i == N - n
               q == v \div CharWeight(i + 1)
               ch == CharOf(v, i)
               p == CHAR * q + ch
    <2>1. i \in Nat /\ N - (n - 1) = i + 1
      BY <1>1
    <2>2. Good(x, q)
      <3> HIDE DEF N
      <3> QED BY <1>3, <2>1
    <2>3. q \in Nat /\ ch \in Nat /\ ch < CHAR /\ v \div CharWeight(i) = p
      <3> HIDE DEF i
      <3> QED BY <2>1, CharIs
    <2>4. Onward(n, x) = PlusDigit(s_mp_mul_2d(x, CharBit), ch)
      <3>1. str[n] = ch
        BY <1>1 DEF Spelled
      <3>2. x.used > 0
        BY <2>2, TidyIs DEF Good
      <3> QED BY <3>1, <3>2
    <2>5. i = N - n
      OBVIOUS
    <2> HIDE DEF i, q, ch, N, Onward
    <2>6. Good(PlusDigit(s_mp_mul_2d(x, CharBit), ch), CHAR * q + ch)
      BY <2>2, <2>3, ShiftInIs
    <2>7. Good(Onward(n, x), p)
      BY <2>4, <2>6
    <2> HIDE DEF p
    <2>8. Inv(n, Onward(n, x))
      BY <2>3, <2>5, <2>7
    <2>9. Onward(n, x) \in U
      BY <2>7, TidyNumber DEF Good
    <2> QED BY <2>8, <2>9
  <1>4. \A n \in 1 .. N : \A x \in S[n - 1] : Onward(n, x) \in S[n]
    <2>1. \A n \in 1 .. N : n - 1 \in 0 .. N /\ n \in 0 .. N
      BY <1>1
    <2> HIDE DEF U, Inv, Onward, N
    <2> QED BY <1>3, <2>1
  <1> HIDE DEF Onward, Inv
  <1>5. \A n \in 1 .. N : \A x \in S[n - 1] : x \in U /\ step[n][x] = Onward(n, x)
    <2>1. \A n \in 1 .. N : n - 1 \in 0 .. N
      BY <1>1
    <2> HIDE DEF U, N
    <2> QED BY <2>1
  <1>6. PICK f : Turned(f, N, U, S, s, step)
    <2>1. \A n \in 0 .. N : S[n] \subseteq U
      BY DEF S
    <2>2. Turning(N, U, S, s, step)
      <3> HIDE DEF N, U, S, s, step
      <3> QED BY <1>1, <1>2, <1>4, <1>5, <2>1 DEF Turning
    <2> HIDE DEF N, U, S, s, step
    <2> QED BY <2>2, LoopRuns
  <1> HIDE DEF U, S, step
  <1>7. Is(f)
    <2>1. \A n \in 0 .. N : n # 0 => n \in 1 .. N
      BY <1>1
    <2>2. /\ f \in [0 .. N -> U] /\ f[0] = s
          /\ \A n \in 1 .. N : f[n] = step[n][f[n - 1]] /\ f[n - 1] \in S[n - 1]
      BY <1>6 DEF Turned
    <2>3. \A n \in 0 .. N : n # 0 => f[n] = Onward(n, f[n - 1])
      BY <1>5, <2>1, <2>2
    <2> QED BY <2>2, <2>3 DEF Onward
  <1>8. Is(T)
    BY <1>7
  <1>9. r = T[N]
    BY DEF mp_read_unsigned_bin
  <1> HIDE DEF T
  <1>10. T[0] \in S[0] /\ \A n \in 1 .. N : T[n] = Onward(n, T[n - 1])
    <2>1. \A n \in 1 .. N : n \in 0 .. Len(str) /\ n # 0
      BY <1>1
    <2>2. 0 \in 0 .. Len(str) /\ T[0] = Zeroed(m)
      BY <1>1, <1>8
    <2>3. \A n \in 1 .. N : T[n] = CASE T[n - 1].used > 0 ->
                                      PlusDigit(s_mp_mul_2d(T[n - 1], CharBit), str[n])
      BY <1>8, <2>1
    <2> QED BY <1>2, <2>2, <2>3 DEF Onward
  <1> HIDE DEF N, s
  <1>11. T[N] \in S[N]
    <2>1. \A n \in 1 .. N : T[n - 1] \in S[n - 1] => T[n] \in S[n]
      BY <1>4, <1>10
    <2> QED BY <1>1, <1>10, <2>1, LoopStays
  <1>12. Inv(N, T[N])
    BY <1>1, <1>11 DEF S
  <1>13. v \div CharWeight(N - N) = v
    <2>1. N - N = 0 /\ CharWeight(0) = 1
      BY <1>1, CharsAre
    <2>2. v \div 1 = v
      OBVIOUS
    <2> QED BY <2>1, <2>2
  <1> QED BY <1>9, <1>12, <1>13 DEF Inv

\* The loop of mp_set_int.
ReadOut(m, v) ==
    LET read[n \in 0 .. LongChars] ==
            IF n = 0 THEN Zeroed(m) ELSE ShiftIn(read[n - 1], CharOf(v, LongChars - n))
    IN  read[LongChars]

LEMMA ReadOutIs ==
  ASSUME NEW m, Tidy(m), NEW v \in 0 .. IntMax,
         NEW r, r = ReadOut(m, v)
  PROVE  Good(r, v)
  <1> DEFINE N == LongChars
             U == Numbers
             s == Zeroed(m)
             Onward(n, x) == ShiftIn(x, CharOf(v, LongChars - n))
             Inv(n, x) == Good(x, v \div CharWeight(N - n))
             S == [n \in 0 .. N |-> {x \in U : Inv(n, x)}]
             step == [n \in 1 .. N |-> [x \in U |-> Onward(n, x)]]
             Is(h) == h = [n \in 0 .. LongChars |-> IF n = 0 THEN Zeroed(m) ELSE ShiftIn(h[n - 1], CharOf(v, LongChars - n))]
             T == CHOOSE h : Is(h)
  <1>1. N \in Nat /\ N >= 0 /\ v < CharWeight(N)
    <2>1. N \in Nat /\ v <= IntMax /\ IntMax \in 0 .. 2 ^ (CharBit * N) - 1
      BY MpiConversionsAssumption
    <2> DEFINE w == CharWeight(N)
    <2> HIDE DEF N
    <2>2. w \in Nat /\ IntMax \in 0 .. w - 1
      BY <2>1, CharsAre DEF CharWeight
    <2> HIDE DEF w
    <2>3. v < w
      BY <2>1, <2>2
    <2> QED BY <2>1, <2>3 DEF w
  <1>2. s \in S[0]
    <2>1. v \div CharWeight(N) = 0
      <3> DEFINE w == CharWeight(N)
      <3>1. w \in Nat /\ w > 0
        BY <1>1, CharsAre
      <3> HIDE DEF w
      <3>2. v = w * 0 + v /\ v < w
        BY <1>1, <3>1 DEF w
      <3>3. v \div w = 0
        BY <3>1, <3>2, Divides
      <3> QED BY <3>3 DEF w
    <2>2. N - 0 = N /\ 0 \in 0 .. N
      BY <1>1
    <2>3. 0 \in Digit
      BY RadixIs
    <2>4. Good(s, 0)
      BY <2>3, ZeroedIs
    <2> HIDE DEF s, N
    <2>5. s \in U
      BY <2>4, TidyNumber DEF Good
    <2> QED BY <2>1, <2>2, <2>4, <2>5
  <1>3. ASSUME NEW n \in 1 .. N, NEW x \in U, Inv(n - 1, x)
        PROVE  Onward(n, x) \in U /\ Inv(n, Onward(n, x))
    <2> DEFINE i == N - n
               q == v \div CharWeight(i + 1)
               ch == CharOf(v, i)
               p == CHAR * q + ch
    <2>1. i \in Nat /\ N - (n - 1) = i + 1
      BY <1>1
    <2>2. Good(x, q)
      <3> HIDE DEF N
      <3> QED BY <1>3, <2>1
    <2>3. q \in Nat /\ ch \in Nat /\ ch < CHAR /\ v \div CharWeight(i) = p
      <3>1. v \in Nat
        BY MpiConversionsAssumption
      <3> HIDE DEF i
      <3> QED BY <2>1, <3>1, CharIs
    <2>4. Onward(n, x) = ShiftIn(x, ch)
      OBVIOUS
    <2>5. i = N - n
      OBVIOUS
    <2> HIDE DEF i, q, ch, N, Onward
    <2>6. Good(ShiftIn(x, ch), CHAR * q + ch)
      BY <2>2, <2>3, ShiftInIs
    <2>7. Good(Onward(n, x), p)
      BY <2>4, <2>6
    <2> HIDE DEF p
    <2>8. Inv(n, Onward(n, x))
      BY <2>3, <2>5, <2>7
    <2>9. Onward(n, x) \in U
      BY <2>7, TidyNumber DEF Good
    <2> QED BY <2>8, <2>9
  <1>4. \A n \in 1 .. N : \A x \in S[n - 1] : Onward(n, x) \in S[n]
    <2>1. \A n \in 1 .. N : n - 1 \in 0 .. N /\ n \in 0 .. N
      BY <1>1
    <2> HIDE DEF U, Inv, Onward, N
    <2> QED BY <1>3, <2>1
  <1> HIDE DEF Onward, Inv
  <1>5. \A n \in 1 .. N : \A x \in S[n - 1] : x \in U /\ step[n][x] = Onward(n, x)
    <2>1. \A n \in 1 .. N : n - 1 \in 0 .. N
      BY <1>1
    <2> HIDE DEF U, N
    <2> QED BY <2>1
  <1>6. PICK f : Turned(f, N, U, S, s, step)
    <2>1. \A n \in 0 .. N : S[n] \subseteq U
      BY DEF S
    <2>2. Turning(N, U, S, s, step)
      <3> HIDE DEF N, U, S, s, step
      <3> QED BY <1>1, <1>2, <1>4, <1>5, <2>1 DEF Turning
    <2> HIDE DEF N, U, S, s, step
    <2> QED BY <2>2, LoopRuns
  <1> HIDE DEF U, S, step
  <1>7. Is(f)
    <2>1. \A n \in 0 .. N : n # 0 => n \in 1 .. N
      BY <1>1
    <2>2. /\ f \in [0 .. N -> U] /\ f[0] = s
          /\ \A n \in 1 .. N : f[n] = step[n][f[n - 1]] /\ f[n - 1] \in S[n - 1]
      BY <1>6 DEF Turned
    <2>3. \A n \in 0 .. N : n # 0 => f[n] = Onward(n, f[n - 1])
      BY <1>5, <2>1, <2>2
    <2> QED BY <2>2, <2>3 DEF Onward
  <1>8. Is(T)
    BY <1>7
  <1>9. r = T[N]
    BY DEF ReadOut
  <1> HIDE DEF T
  <1>10. T[0] \in S[0] /\ \A n \in 1 .. N : T[n] = Onward(n, T[n - 1])
    BY <1>1, <1>2, <1>8 DEF Onward
  <1> HIDE DEF N, s
  <1>11. T[N] \in S[N]
    <2>1. \A n \in 1 .. N : T[n - 1] \in S[n - 1] => T[n] \in S[n]
      BY <1>4, <1>10
    <2> QED BY <1>1, <1>10, <2>1, LoopStays
  <1>12. Inv(N, T[N])
    BY <1>1, <1>11 DEF S
  <1>13. v \div CharWeight(N - N) = v
    <2>1. N - N = 0 /\ CharWeight(0) = 1
      BY <1>1, CharsAre
    <2>2. v \div 1 = v
      OBVIOUS
    <2> QED BY <2>1, <2>2
  <1> QED BY <1>9, <1>12, <1>13 DEF Inv

\* mp_set_int.
LEMMA SetIntIs ==
  ASSUME NEW m, Tidy(m), NEW z \in Int, Magn(z) <= IntMax, NEW r, r = mp_set_int(m, z)
  PROVE  Good(r, z)
  <1> DEFINE v == IF z < 0 THEN -z ELSE z
             x == ReadOut(m, v)
             s == IF z < 0 THEN NEG ELSE ZPOS
  <1>1. CASE z = 0
    <2>1. 0 \in Digit
      BY RadixIs
    <2> QED BY <1>1, <2>1, ZeroedIs DEF mp_set_int
  <1>2. CASE z # 0
    <2>1. r = [x EXCEPT !.sign = s]
      BY <1>2 DEF mp_set_int, ReadOut
    <2>2. v \in 0 .. IntMax /\ v \in Nat /\ v > 0
      BY <1>2, MpiConversionsAssumption DEF Magn
    <2>3. v = Magn(z)
      BY DEF Magn
    <2> HIDE DEF v
    <2>4. Good(x, v)
      BY <2>2, ReadOutIs
    <2> HIDE DEF x
    <2>5. Tidy(x) /\ Top(x) /\ Above(x, 0) = v
      BY <2>2, <2>4, GoodFacts DEF Magn
    <2>6. s \in {ZPOS, NEG}
      OBVIOUS
    <2>7. s = IF z < 0 THEN NEG ELSE ZPOS
      OBVIOUS
    <2> HIDE DEF s
    <2>8. Tidy(r) /\ Top(r) /\ Above(r, 0) = Magn(z) /\ r.sign = s
      BY <2>1, <2>3, <2>5, <2>6, WithSignIs
    <2> QED BY <2>7, <2>8 DEF Good
  <1> QED BY <1>1, <1>2

\* The weight of a digit is that of its lowest char.
LEMMA PowWeight ==
  ASSUME NEW p \in Nat, NEW b \in Nat
  PROVE  /\ p * DigitChars \in Nat /\ CharWeight(p * DigitChars) = Pow(p)
         /\ CharWeight(p * DigitChars + b) = Pow(p) * CharWeight(b)
  <1> DEFINE D == DigitChars
             i == p * D
  <1>1. D \in Nat /\ CharBit \in Nat /\ DigitBit = CharBit * D
    BY CharsAre
  <1>2. i \in Nat
    BY <1>1
  <1>3. CharBit * i = DigitBit * p
    <2>1. \A x, y \in Nat : x * (p * y) = (x * y) * p
      OBVIOUS
    <2> HIDE DEF D
    <2> QED BY <1>1, <2>1
  <1>4. CharWeight(i) = Pow(p)
    BY <1>3 DEF CharWeight, Pow
  <1> HIDE DEF i
  <1>5. CharWeight(i + b) = CharWeight(i) * CharWeight(b)
    BY <1>2, CharsAre
  <1> QED BY <1>2, <1>4, <1>5 DEF i

\* The chars of a number are those of its digits.
LEMMA CharOfDigit ==
  ASSUME NEW k \in Nat, NEW m \in Mp(k), NEW p \in Nat, p < m.used, NEW b \in 0 .. DigitChars - 1
  PROVE  CharOf(m.dp[p], b) = CharOf(Above(m, 0), p * DigitChars + b)
  <1> DEFINE d == m.dp[p]
             A == Above(m, 0)
             P == Pow(p)
             B == CharWeight(b)
             x == Above(m, p)
             y == Above(m, p + 1)
             K == CharWeight(DigitChars - (b + 1))
             q == d \div B
             e == d % B
             z == K * y
  <1>1. b \in Nat /\ b + 1 \in Nat /\ DigitChars - (b + 1) \in Nat
        /\ (b + 1) + (DigitChars - (b + 1)) = DigitChars
    BY CharsAre
  <1>2. d \in Nat /\ A \in Nat /\ y \in Nat /\ x \in Nat /\ x = d + RADIX * y
    <2>1. DigitOf(m, p) = d
      BY DEF DigitOf
    <2>2. p + 1 \in Nat /\ 0 \in Nat
      OBVIOUS
    <2> QED BY <2>1, <2>2, AboveUnfolds, AboveFacts
  <1>3. x = A \div P
    BY AboveIs
  <1>4. P \in Nat /\ P > 0
    BY PowIs
  <1>5. B \in Nat /\ B > 0 /\ K \in Nat /\ CHAR \in Nat /\ CHAR > 1 /\ RADIX = (CHAR * B) * K
    <2> DEFINE i == DigitChars - (b + 1)
    <2>1. i \in Nat /\ (b + 1) + i = DigitChars
      BY <1>1
    <2> HIDE DEF i
    <2>2. CharWeight((b + 1) + i) = CharWeight(b + 1) * CharWeight(i)
      BY <1>1, <2>1, CharsAre
    <2>3. CharWeight(b + 1) = CHAR * CharWeight(b)
      BY <1>1, CharsAre
    <2>4. CharWeight(i) \in Nat
      BY <2>1, CharsAre
    <2>5. RADIX = (CHAR * CharWeight(b)) * CharWeight(i)
      BY <2>1, <2>2, <2>3, CharsAre
    <2> QED BY <1>1, <2>4, <2>5, CharsAre DEF i
  <1>6. CharWeight(p * DigitChars + b) = P * B
    BY <1>1, PowWeight
  <1> HIDE DEF d, A, P, B, x, y, K
  <1>7. A \div (P * B) = x \div B
    BY <1>2, <1>3, <1>4, <1>5, DividesTwice
  <1>8. q \in Nat /\ e \in Nat /\ e < B /\ d = B * q + e
    BY <1>2, <1>5
  <1>9. z \in Nat /\ RADIX * y = B * (CHAR * z)
    <2>1. \A c, s, t, u \in Nat : ((c * s) * t) * u = s * (c * (t * u)) /\ t * u \in Nat
      OBVIOUS
    <2> QED BY <1>2, <1>5, <2>1
  <1> HIDE DEF q, e, z
  <1> DEFINE g == q \div CHAR
             f == q % CHAR
  <1>10. g \in Nat /\ f \in Nat /\ f < CHAR /\ q = CHAR * g + f
    BY <1>5, <1>8
  <1>11. x = B * (q + CHAR * z) + e /\ q + CHAR * z \in Nat
    <2>1. \A s, t, u \in Nat : s * (t + u) = s * t + s * u /\ s * t \in Nat
      OBVIOUS
    <2>2. CHAR * z \in Nat /\ B * q \in Nat /\ B * (CHAR * z) \in Nat
      BY <1>5, <1>8, <1>9, <2>1
    <2>3. B * (q + CHAR * z) = B * q + B * (CHAR * z)
      BY <1>5, <1>8, <2>1, <2>2
    <2> DEFINE v == B * q
               w == B * (CHAR * z)
    <2> HIDE DEF v, w
    <2>4. v \in Nat /\ w \in Nat /\ d = v + e /\ RADIX * y = w /\ B * (q + CHAR * z) = v + w
      BY <1>8, <1>9, <2>2, <2>3 DEF v, w
    <2>5. x = (v + w) + e
      BY <1>2, <1>8, <2>4
    <2> QED BY <1>8, <2>2, <2>4, <2>5
  <1>12. x \div B = q + CHAR * z
    <2> DEFINE w == q + CHAR * z
    <2> HIDE DEF w
    <2>1. w \in Nat /\ x = B * w + e
      BY <1>11 DEF w
    <2>2. x \div B = w
      BY <1>5, <1>8, <2>1, Divides
    <2> QED BY <2>2 DEF w
  <1>13. (q + CHAR * z) % CHAR = f
    <2> HIDE DEF g, f
    <2> DEFINE w == q + CHAR * z
    <2>1. \A s, t, u \in Nat : s * (t + u) = s * t + s * u /\ s * t \in Nat
      OBVIOUS
    <2>2. CHAR * (g + z) = CHAR * g + CHAR * z /\ CHAR * g \in Nat /\ CHAR * z \in Nat
      BY <1>5, <1>9, <1>10, <2>1
    <2>3. w = CHAR * (g + z) + f /\ g + z \in Nat
      BY <1>9, <1>10, <2>2
    <2> HIDE DEF w
    <2>4. w % CHAR = f
      BY <1>5, <1>10, <2>3, Divides
    <2> QED BY <2>4 DEF w
  <1>14. CharOf(d, b) = f
    BY DEF CharOf, CharWeight, f, q, B
  <1>15. CharOf(A, p * DigitChars + b) = (x \div B) % CHAR
    <2>1. CharOf(A, p * DigitChars + b) = (A \div CharWeight(p * DigitChars + b)) % CHAR
      BY DEF CharOf, CharWeight
    <2> QED BY <1>6, <1>7, <2>1
  <1> HIDE DEF f
  <1>16. CharOf(A, p * DigitChars + b) = f
    BY <1>12, <1>13, <1>15
  <1> QED BY <1>14, <1>16 DEF d, A

\* The chars of a leading digit.
LEMMA CharsUsedIs ==
  ASSUME NEW d \in Nat, d > 0, d < RADIX, NEW c, c = CharsUsed(d)
  PROVE  c \in 1 .. DigitChars /\ c \in Nat /\ d < CharWeight(c)
  <1> DEFINE n == DigitChars - 1
             S == {i \in 0 .. n : d \div 2 ^ (CharBit * i) > 0}
  <1>1. n \in Nat /\ n + 1 = DigitChars /\ DigitChars \in Nat
    BY CharsAre
  <1>2. 0 \in S
    <2>1. d \div CharWeight(0) = d
      <3>1. CharWeight(0) = 1
        BY CharsAre
      <3>2. d \div 1 = d
        OBVIOUS
      <3> QED BY <3>1, <3>2
    <2> QED BY <1>1, <2>1 DEF CharWeight
  <1>3. c = 1 + Max(S)
    BY DEF CharsUsed
  <1>4. S \in SUBSET (0 .. n)
    OBVIOUS
  <1>5. \A i \in 0 .. n : i \notin S => d \div CharWeight(i) <= 0
    <2> SUFFICES ASSUME NEW i \in 0 .. n, i \notin S PROVE d \div CharWeight(i) <= 0
      OBVIOUS
    <2> DEFINE w == CharWeight(i)
    <2>1. w \in Nat /\ w > 0
      <3>1. i \in Nat
        BY <1>1
      <3> QED BY <3>1, CharsAre
    <2>2. ~ d \div w > 0
      BY DEF CharWeight
    <2> HIDE DEF w
    <2>3. d \div w \in Nat
      BY <2>1
    <2>4. d \div w <= 0
      BY <2>2, <2>3
    <2> QED BY <2>4 DEF w
  <1> HIDE DEF S, n
  <1>6. Max(S) \in S /\ \A i \in S : i <= Max(S)
    BY <1>1, <1>2, <1>4, Greatest
  <1> DEFINE t == Max(S)
  <1> HIDE DEF t
  <1>7. t \in 0 .. n /\ c = 1 + t /\ \A i \in S : i <= t
    BY <1>3, <1>4, <1>6 DEF t
  <1>8. c \in 1 .. DigitChars /\ c \in Nat
    BY <1>1, <1>7
  <1>9. d < CharWeight(c)
    <2>1. CASE c = DigitChars
      BY <2>1, CharsAre
    <2>2. CASE c # DigitChars
      <3>1. c \in 0 .. n /\ ~ c <= t
        BY <1>1, <1>7, <1>8, <2>2
      <3>2. d \div CharWeight(c) <= 0
        BY <1>5, <1>7, <3>1
      <3> DEFINE w == CharWeight(c)
                 q == d \div w
                 e == d % w
      <3>3. w \in Nat /\ w > 0
        BY <1>8, CharsAre
      <3>4. q <= 0
        BY <3>2
      <3> HIDE DEF w
      <3>5. q \in Nat /\ e \in Nat /\ e < w /\ d = w * q + e
        BY <3>3
      <3> HIDE DEF q, e
      <3>6. q = 0 /\ w * 0 = 0
        BY <3>3, <3>4, <3>5
      <3>7. d < w
        BY <3>5, <3>6
      <3> QED BY <3>7 DEF w
    <2> QED BY <2>1, <2>2
  <1> QED BY <1>8, <1>9

\* mp_to_unsigned_bin fills the bytes that mp_unsigned_bin_size counts.
LEMMA WrittenIs ==
  ASSUME NEW m, Tidy(m), Top(m), NEW str, str = mp_to_unsigned_bin(m)
  PROVE  /\ Spelled(str, Above(m, 0)) /\ str \in Seq(Nat)
         /\ Len(str) = mp_unsigned_bin_size(m)
  <1> DEFINE A == Above(m, 0)
             D == DigitChars
             u == m.used
             lead == m.dp[m.used - 1]
             c == CharsUsed(lead)
             n == (m.used - 1) * D + c
             written(i) == CharOf(m.dp[i \div D], i % D)
  <1>1. m.alloc \in Nat /\ m \in Mp(m.alloc) /\ A \in Nat
    BY TidyAbove
  <1>2. D \in Nat /\ D > 0
    BY CharsAre
  <1>3. IsZero(m) <=> A = 0
    BY <1>1, ZeroIs
  <1>4. CASE A = 0
    <2>1. str = <<0>>
      BY <1>3, <1>4 DEF mp_to_unsigned_bin
    <2>2. CharOf(0, 0) = 0
      <3>1. CharWeight(0) = 1 /\ CHAR \in Nat /\ CHAR > 1
        BY CharsAre
      <3>2. 0 \div 1 = 0 /\ 0 % CHAR = 0
        BY <3>1
      <3> QED BY <3>1, <3>2 DEF CharOf, CharWeight
    <2>3. CharWeight(1) \in Nat /\ CharWeight(1) > 0
      BY CharsAre
    <2>4. Len(str) = 1 /\ str \in Seq(Nat) /\ str[1] = 0
      BY <2>1
    <2>5. \A j \in 1 .. 1 : j = 1 /\ 1 - j = 0
      OBVIOUS
    <2>6. Spelled(str, 0)
      BY <2>2, <2>3, <2>4, <2>5 DEF Spelled
    <2>7. mp_unsigned_bin_size(m) = 1
      BY <1>3, <1>4 DEF mp_unsigned_bin_size
    <2> QED BY <1>4, <2>4, <2>6, <2>7
  <1>5. CASE A # 0
    <2>1. str = [i \in 1 .. n |-> written(n - i)] /\ mp_unsigned_bin_size(m) = n
      BY <1>3, <1>5 DEF mp_to_unsigned_bin, mp_unsigned_bin_size
    <2>2. /\ u - 1 \in Nat /\ lead \in Nat /\ lead < RADIX /\ lead > 0 /\ u \in Nat
          /\ Above(m, u - 1) = lead
      BY <1>1, <1>5, LeadingIs, AboveFacts
    <2>3. c \in 1 .. D /\ c \in Nat /\ lead < CharWeight(c)
      BY <2>2, CharsUsedIs
    <2> HIDE DEF lead, c, written, D
    <2>4. (u - 1) * D \in Nat /\ CharWeight((u - 1) * D + c) = Pow(u - 1) * CharWeight(c)
      BY <2>2, <2>3, PowWeight DEF D
    <2>5. n \in Nat /\ n >= 1
      BY <2>3, <2>4
    <2>6. A < CharWeight(n)
      <3> DEFINE P == Pow(u - 1)
                 w == CharWeight(c)
      <3>1. P \in Nat /\ P > 0 /\ CharWeight(n) = P * w
        BY <2>2, <2>4, PowIs
      <3>2. PICK low \in Nat : low < P /\ A = low + P * lead
        BY <1>1, <2>2, CutAt
      <3>3. w \in Nat /\ lead + 1 <= w
        BY <2>2, <2>3, CharsAre
      <3> HIDE DEF P, w, n, A
      <3>4. P * (lead + 1) <= P * w /\ P * (lead + 1) = P * lead + P
        <4>1. \A s, t \in Nat : (s <= t => P * s <= P * t) /\ P * (s + 1) = P * s + P
          BY <3>1
        <4> QED BY <2>2, <3>3, <4>1
      <3>5. P * lead \in Nat /\ P * w \in Nat
        BY <2>2, <3>1, <3>3
      <3> QED BY <3>1, <3>2, <3>4, <3>5
    <2>7. ASSUME NEW i \in 0 .. n - 1
          PROVE  written(i) = CharOf(A, i) /\ CharOf(A, i) \in Nat
      <3> DEFINE p == i \div D
                 b == i % D
      <3>1. p \in Nat /\ b \in 0 .. D - 1 /\ b \in Nat /\ i = D * p + b /\ i \in Nat
        BY <1>2
      <3> HIDE DEF p, b
      <3>2. i = p * D + b
        BY <1>2, <3>1
      <3>3. p < u
        <4> SUFFICES ASSUME p >= u PROVE FALSE
          BY <2>2, <3>1
        <4>1. p * D >= u * D /\ u * D = (u - 1) * D + D
          <5>1. \A s, t \in Nat : (s >= t => s * D >= t * D) /\ (s + 1) * D = s * D + D
            BY <1>2
          <5>2. u = (u - 1) + 1
            BY <2>2
          <5> DEFINE j == u - 1
          <5>3. j \in Nat /\ u = j + 1
            BY <2>2
          <5> HIDE DEF j
          <5>4. p * D >= u * D /\ u * D = j * D + D
            BY <2>2, <3>1, <5>1, <5>3
          <5> QED BY <5>4 DEF j
        <4>2. p * D \in Nat /\ u * D \in Nat
          BY <1>2, <2>2, <3>1
        <4>3. i < (u - 1) * D + c
          BY <2>5
        <4> DEFINE x == p * D
                   y == u * D
                   v == (u - 1) * D
        <4>4. x >= y /\ y = v + D /\ x \in Nat /\ y \in Nat /\ v \in Nat /\ i = x + b /\ i < v + c
          BY <2>4, <3>2, <4>1, <4>2, <4>3
        <4> HIDE DEF x, y, v
        <4> QED BY ONLY <1>2, <2>3, <3>1, <4>4
      <3>4. CharOf(m.dp[p], b) = CharOf(A, p * D + b)
        BY <1>1, <3>1, <3>3, CharOfDigit DEF D
      <3>5. written(i) = CharOf(m.dp[p], b)
        BY DEF written, p, b
      <3> QED BY <1>1, <3>1, <3>2, <3>4, <3>5, CharIs
    <2> HIDE DEF n, A
    <2>8. ASSUME NEW j \in 1 .. n PROVE str[j] = CharOf(A, n - j) /\ str[j] \in Nat
      <3>1. n - j \in 0 .. n - 1
        BY <2>5
      <3>2. str[j] = written(n - j)
        BY <2>1
      <3> QED BY <2>7, <3>1, <3>2
    <2>9. str \in Seq(Nat) /\ Len(str) = n
      <3>1. str = [j \in 1 .. n |-> str[j]]
        BY <2>1
      <3>2. str \in [1 .. n -> Nat]
        BY <2>8, <3>1
      <3> QED BY <2>5, <3>2
    <2>10. Spelled(str, A)
      BY <2>5, <2>6, <2>8, <2>9 DEF Spelled
    <2> QED BY <2>1, <2>9, <2>10 DEF A
  <1> QED BY <1>4, <1>5

\* Bytes written and read, with the sign or without it.
LEMMA BytesRight ==
  ASSUME NEW h, NEW v, Holds(h, v), NEW a \in Regs, NEW c \in Regs
  PROVE  /\ Holds(Put(h, c, mp_read_unsigned_bin(h[c], mp_to_unsigned_bin(h[a]))),
                  [v EXCEPT ![c] = Magn(v[a])])
         /\ Holds(Put(h, c, mp_read_signed_bin(h[c], mp_to_signed_bin(h[a]))),
                  [v EXCEPT ![c] = v[a]])
  <1> DEFINE n == v[a]
             A == Above(h[a], 0)
             str == mp_to_unsigned_bin(h[a])
             x == mp_read_unsigned_bin(h[c], str)
             s == h[a].sign
             sgn == IF s # 0 THEN NEG ELSE ZPOS
             y == [x EXCEPT !.sign = sgn]
  <1>1. Good(h[a], n) /\ Tidy(h[c])
    BY DEF Holds, Good
  <1>2. /\ Tidy(h[a]) /\ Top(h[a]) /\ n \in Int /\ A = Magn(n) /\ A \in Nat
        /\ s = IF n < 0 THEN NEG ELSE ZPOS
    BY <1>1, GoodFacts, TidyAbove
  <1>3. Spelled(str, A) /\ str \in Seq(Nat)
    BY <1>2, WrittenIs
  <1> HIDE DEF str
  <1>4. Good(x, A)
    BY <1>1, <1>2, <1>3, ReadIs
  <1>5. mp_read_signed_bin(h[c], mp_to_signed_bin(h[a])) = y
    <2> DEFINE t == <<s>> \o str
    <2>1. mp_to_signed_bin(h[a]) = t
      BY DEF mp_to_signed_bin, str
    <2>2. Head(t) = s /\ Tail(t) = str
      <3>1. s \in Nat
        BY <1>2 DEF NEG, ZPOS
      <3> HIDE DEF s
      <3> QED BY <1>3, <3>1
    <2> HIDE DEF t
    <2> QED BY <2>1, <2>2 DEF mp_read_signed_bin
  <1> HIDE DEF s
  <1>6. Good(y, n)
    <2>1. Tidy(x) /\ Top(x) /\ Above(x, 0) = A
      BY <1>2, <1>4, GoodFacts DEF Magn
    <2>2. sgn \in {ZPOS, NEG} /\ sgn = IF n < 0 THEN NEG ELSE ZPOS
      BY <1>2 DEF ZPOS, NEG
    <2> HIDE DEF x, sgn, n, A
    <2>3. Tidy(y) /\ Top(y) /\ Above(y, 0) = A /\ y.sign = sgn
      <3> DEFINE w == [x EXCEPT !.sign = sgn]
      <3> HIDE DEF w
      <3>1. Tidy(w) /\ Top(w) /\ Above(w, 0) = Above(x, 0) /\ w.sign = sgn
        BY <2>1, <2>2, WithSignIs DEF w
      <3> QED BY <2>1, <3>1 DEF w
    <2> HIDE DEF y
    <2> QED BY <1>2, <2>2, <2>3 DEF Good
  <1> HIDE DEF x, y
  <1> DEFINE g == Put(h, c, x)
             k == Put(h, c, y)
  <1>7. g = [h EXCEPT ![c] = x] /\ k = [h EXCEPT ![c] = y]
    BY DEF Put
  <1> HIDE DEF g, k
  <1>8. Holds(g, [v EXCEPT ![c] = A]) /\ Holds(k, [v EXCEPT ![c] = n])
    BY <1>4, <1>6, <1>7, PutIs
  <1> QED BY <1>2, <1>5, <1>8 DEF g, k, x, str, n

\* mp_set_int and mp_2expt.
LEMMA IntRight ==
  ASSUME NEW h, NEW v, Holds(h, v), NEW c \in Regs, NEW k \in Nat, NEW z \in Int, Magn(z) <= IntMax
  PROVE  /\ Holds(Put(h, c, mp_set_int(h[c], z)), [v EXCEPT ![c] = z])
         /\ Holds(mp_2expt(h, c, k), [v EXCEPT ![c] = 2 ^ k])
  <1> DEFINE x == mp_set_int(h[c], z)
             y == s_mp_2expt(h[c], k)
             n == 2 ^ k
  <1>1. Tidy(h[c])
    BY DEF Holds, Good
  <1>2. Good(x, z) /\ Good(y, n)
    BY <1>1, SetIntIs, TwoExptIs
  <1> HIDE DEF x, y, n
  <1>3. /\ Holds([h EXCEPT ![c] = x], [v EXCEPT ![c] = z])
        /\ Holds([h EXCEPT ![c] = y], [v EXCEPT ![c] = n])
    BY <1>2, PutIs
  <1> QED BY <1>3 DEF Put, mp_2expt, x, y, n

-----------------------------------------------------------------------------
(* Text.                                                                   *)

\* Multiplying 1 by r, n times, makes y.
Reached(r, n, y) ==
    \E f \in [0 .. n -> Nat] :
        f[0] = 1 /\ f[n] = y /\ \A i \in 0 .. n - 1 : f[i + 1] = r * f[i]

\* It makes one number each time.
LEMMA ReachedIs ==
  ASSUME NEW r \in Nat
  PROVE  /\ \A y : Reached(r, 0, y) <=> y = 1
         /\ \A n \in Nat : \A y : Reached(r, n + 1, y) <=> \E x \in Nat : Reached(r, n, x) /\ y = r * x
  <1>1. ASSUME NEW y PROVE Reached(r, 0, y) <=> y = 1
    <2>1. ASSUME y = 1 PROVE Reached(r, 0, y)
      <3> DEFINE f == [i \in 0 .. 0 |-> 1]
      <3>1. f \in [0 .. 0 -> Nat] /\ f[0] = 1 /\ \A i \in 0 .. 0 - 1 : f[i + 1] = r * f[i]
        OBVIOUS
      <3> HIDE DEF f
      <3> QED BY <2>1, <3>1 DEF Reached
    <2> QED BY <2>1 DEF Reached
  <1>2. ASSUME NEW n \in Nat, NEW y, NEW x \in Nat, Reached(r, n, x), y = r * x
        PROVE  Reached(r, n + 1, y)
    <2>1. PICK f \in [0 .. n -> Nat] :
              f[0] = 1 /\ f[n] = x /\ \A i \in 0 .. n - 1 : f[i + 1] = r * f[i]
      BY <1>2 DEF Reached
    <2>2. y \in Nat
      BY <1>2
    <2> DEFINE g == [i \in 0 .. n + 1 |-> IF i = n + 1 THEN y ELSE f[i]]
    <2>3. g \in [0 .. n + 1 -> Nat]
      BY <2>1, <2>2
    <2>4. g[0] = 1 /\ g[n + 1] = y
      BY <2>1
    <2>5. ASSUME NEW i \in 0 .. (n + 1) - 1 PROVE g[i + 1] = r * g[i]
      <3>1. CASE i = n
        <4>1. g[i + 1] = y /\ g[i] = f[n]
          BY <3>1
        <4> QED BY <1>2, <2>1, <4>1
      <3>2. CASE i # n
        <4>1. i \in 0 .. n - 1 /\ g[i + 1] = f[i + 1] /\ g[i] = f[i]
          BY <3>2
        <4> QED BY <2>1, <4>1
      <3> QED BY <3>1, <3>2
    <2> HIDE DEF g
    <2> QED BY <2>3, <2>4, <2>5 DEF Reached
  <1>3. ASSUME NEW n \in Nat, NEW y, Reached(r, n + 1, y)
        PROVE  \E x \in Nat : Reached(r, n, x) /\ y = r * x
    <2>1. PICK f \in [0 .. n + 1 -> Nat] :
              f[0] = 1 /\ f[n + 1] = y /\ \A i \in 0 .. (n + 1) - 1 : f[i + 1] = r * f[i]
      BY <1>3 DEF Reached
    <2> DEFINE g == [i \in 0 .. n |-> f[i]]
    <2>2. g \in [0 .. n -> Nat] /\ g[0] = 1 /\ \A i \in 0 .. n - 1 : g[i + 1] = r * g[i]
      BY <2>1
    <2>3. g[n] = f[n] /\ f[n] \in Nat /\ y = r * f[n]
      BY <2>1
    <2> HIDE DEF g
    <2>4. Reached(r, n, f[n])
      BY <2>2, <2>3 DEF Reached
    <2> QED BY <2>3, <2>4
  <1> QED BY <1>1, <1>2, <1>3

\* The powers of r.
LEMMA PowersAre ==
  ASSUME NEW r \in Nat, r > 0, NEW P, P = Powers(r)
  PROVE  P[0] = 1 /\ \A n \in Nat : P[n] \in Nat /\ P[n] > 0 /\ P[n + 1] = r * P[n]
  <1> DEFINE F == [n \in Nat |-> CHOOSE y : Reached(r, n, y)]
             Is(f) == f = [n \in Nat |-> IF n = 0 THEN 1 ELSE r * f[n - 1]]
             T == {n \in Nat : /\ F[n] \in Nat /\ Reached(r, n, F[n])
                               /\ \A z : Reached(r, n, z) => z = F[n]}
  <1>1. \A n \in Nat : \A y : Reached(r, n, y) => Reached(r, n, F[n])
    BY DEF F
  <1>2. 0 \in T /\ F[0] = 1
    <2>1. Reached(r, 0, 1) /\ \A y : Reached(r, 0, y) => y = 1
      BY ReachedIs
    <2>2. 0 \in Nat /\ 1 \in Nat
      OBVIOUS
    <2> HIDE DEF F
    <2> QED BY <1>1, <2>1, <2>2
  <1> HIDE DEF F
  <1>3. ASSUME NEW n \in T PROVE n + 1 \in T /\ F[n + 1] = r * F[n]
    <2>1. /\ n \in Nat /\ n + 1 \in Nat /\ F[n] \in Nat /\ Reached(r, n, F[n])
          /\ \A z : Reached(r, n, z) => z = F[n]
      OBVIOUS
    <2>2. r * F[n] \in Nat
      BY <2>1
    <2>3. \A y : Reached(r, n + 1, y) <=> \E x \in Nat : Reached(r, n, x) /\ y = r * x
      BY <2>1, ReachedIs
    <2>4. Reached(r, n + 1, r * F[n])
      BY <2>1, <2>3
    <2>5. \A z : Reached(r, n + 1, z) => z = r * F[n]
      BY <2>1, <2>3
    <2>6. F[n + 1] = r * F[n]
      BY <1>1, <2>1, <2>4, <2>5
    <2> QED BY <2>1, <2>2, <2>4, <2>5, <2>6
  <1>4. T = Nat
    <2>1. T \in SUBSET Nat
      OBVIOUS
    <2> HIDE DEF T
    <2> QED BY <1>2, <1>3, <2>1, Induction
  <1> HIDE DEF T
  <1>5. ASSUME NEW n \in Nat PROVE F[n] = IF n = 0 THEN 1 ELSE r * F[n - 1]
    <2>1. CASE n = 0
      BY <1>2, <2>1
    <2>2. CASE n # 0
      <3>1. n - 1 \in Nat /\ (n - 1) + 1 = n
        BY <2>2
      <3> QED BY <1>3, <1>4, <2>2, <3>1
    <2> QED BY <2>1, <2>2
  <1>6. F = [n \in Nat |-> F[n]]
    BY DEF F
  <1>7. Is(F)
    BY <1>5, <1>6
  <1>8. P = CHOOSE f : Is(f)
    BY DEF Powers
  <1>9. Is(P)
    <2> HIDE DEF Is
    <2> QED BY <1>7, <1>8
  <1>10. P[0] = 1 /\ \A n \in Nat : P[n + 1] = r * P[n]
    <2>1. \A n \in Nat : P[n] = IF n = 0 THEN 1 ELSE r * P[n - 1]
      BY <1>9
    <2>2. ASSUME NEW n \in Nat PROVE P[n + 1] = r * P[n]
      <3>1. n + 1 \in Nat /\ (n + 1) - 1 = n /\ n + 1 # 0
        OBVIOUS
      <3> QED BY <2>1, <3>1
    <2> QED BY <2>1, <2>2
  <1> HIDE DEF Is
  <1> DEFINE V == {n \in Nat : P[n] \in Nat /\ P[n] > 0}
  <1>11. ASSUME NEW n \in V PROVE n + 1 \in V
    <2>1. n \in Nat /\ n + 1 \in Nat /\ P[n] \in Nat /\ P[n] > 0 /\ P[n + 1] = r * P[n]
      BY <1>10
    <2>2. \A x, y \in Nat : x > 0 /\ y > 0 => x * y \in Nat /\ x * y > 0
      OBVIOUS
    <2> QED BY <2>1, <2>2
  <1>12. V = Nat
    <2>1. V \in SUBSET Nat /\ 0 \in V
      BY <1>10
    <2> HIDE DEF V
    <2> QED BY <1>11, <2>1, Induction
  <1> QED BY <1>10, <1>12

\* They grow at least as the powers of 2 do.
LEMMA PowersOver ==
  ASSUME NEW r \in Nat, r > 1, NEW n \in Nat
  PROVE  2 ^ n <= Powers(r)[n]
  <1> DEFINE P == Powers(r)
             T == {k \in Nat : 2 ^ k <= P[k]}
  <1>1. P[0] = 1 /\ \A k \in Nat : P[k] \in Nat /\ P[k] > 0 /\ P[k + 1] = r * P[k]
    BY PowersAre
  <1> HIDE DEF P
  <1>2. 0 \in T
    <2>1. 2 ^ 0 = 1
      OBVIOUS
    <2> QED BY <1>1, <2>1
  <1>3. ASSUME NEW k \in T PROVE k + 1 \in T
    <2> DEFINE x == 2 ^ k
               y == P[k]
    <2>1. k \in Nat /\ k + 1 \in Nat /\ x <= y
      OBVIOUS
    <2>2. x \in Nat /\ 2 ^ (k + 1) = x + x
      BY <2>1, TwoTo
    <2>3. y \in Nat /\ P[k + 1] = r * y
      BY <1>1, <2>1
    <2> HIDE DEF x, y
    <2>4. \A s, t \in Nat : t > 1 => s + s <= t * s
      <3> SUFFICES ASSUME NEW s \in Nat, NEW t \in Nat, t > 1 PROVE s + s <= t * s
        OBVIOUS
      <3> DEFINE d == t - 2
      <3>1. d \in Nat /\ t = d + 2
        OBVIOUS
      <3> HIDE DEF d
      <3>2. (d + 2) * s = d * s + (s + s) /\ d * s \in Nat
        BY <3>1
      <3> QED BY <3>1, <3>2
    <2>5. y + y <= P[k + 1]
      BY <2>3, <2>4
    <2>6. P[k + 1] \in Nat
      BY <1>1, <2>1
    <2>7. 2 ^ (k + 1) <= P[k + 1]
      BY <2>1, <2>2, <2>3, <2>5, <2>6
    <2> QED BY <2>1, <2>7
  <1>4. T = Nat
    <2>1. T \in SUBSET Nat
      OBVIOUS
    <2> HIDE DEF T
    <2> QED BY <1>2, <1>3, <2>1, Induction
  <1>5. 2 ^ n <= P[n]
    BY <1>4
  <1> QED BY <1>5 DEF P

\* Dropping the digits of v in radix r one by one.
Dropping(v, r, P) ==
    /\ v \div P[0] = v
    /\ \A i \in Nat : /\ v \div P[i] \in Nat /\ (v \div P[i]) % r \in 0 .. r - 1
                      /\ (v \div P[i]) \div r = v \div P[i + 1]
                      /\ v \div P[i] = r * (v \div P[i + 1]) + ((v \div P[i]) % r)
                      /\ v \div P[i] > 0 <=> P[i] <= v

LEMMA Dropped ==
  ASSUME NEW r \in Nat, r > 0, NEW v \in Nat, NEW P, P = Powers(r)
  PROVE  Dropping(v, r, P)
  <1> SUFFICES ASSUME NEW i \in Nat
               PROVE  /\ v \div P[i] \in Nat /\ (v \div P[i]) % r \in 0 .. r - 1
                      /\ (v \div P[i]) \div r = v \div P[i + 1]
                      /\ v \div P[i] = r * (v \div P[i + 1]) + ((v \div P[i]) % r)
                      /\ v \div P[0] = v
                      /\ v \div P[i] > 0 <=> P[i] <= v
    <2>1. 0 \in Nat
      OBVIOUS
    <2> QED BY <2>1 DEF Dropping
  <1> DEFINE w == P[i]
             q == v \div w
  <1>1. P[0] = 1 /\ w \in Nat /\ w > 0 /\ P[i + 1] = r * w
    BY PowersAre
  <1> HIDE DEF w
  <1>2. q \in Nat
    BY <1>1
  <1>3. q \div r = v \div P[i + 1]
    <2>1. r * w = w * r
      BY <1>1
    <2> QED BY <1>1, <2>1, DividesTwice
  <1>4. v = w * q + (v % w) /\ v % w \in Nat /\ v % w < w
    BY <1>1
  <1> DEFINE rest == v % w
  <1>5. q > 0 <=> w <= v
    <2> HIDE DEF q, rest
    <2>1. v = w * q + rest /\ rest \in Nat /\ rest < w
      BY <1>4 DEF q, rest
    <2>2. w * 0 = 0 /\ (q > 0 => w * q >= w) /\ w * q \in Nat
      <3>1. \A x, y \in Nat : y > 0 => x * y >= x
        OBVIOUS
      <3> QED BY <1>1, <1>2, <3>1
    <2>3. CASE q = 0
      BY <1>1, <2>1, <2>2, <2>3
    <2>4. CASE q # 0
      BY <1>1, <1>2, <2>1, <2>2, <2>4
    <2> QED BY <2>3, <2>4
  <1> HIDE DEF q
  <1>6. q % r \in 0 .. r - 1 /\ q = r * (q \div r) + (q % r)
    BY <1>2
  <1>7. v \div 1 = v
    OBVIOUS
  <1> QED BY <1>1, <1>2, <1>3, <1>5, <1>6, <1>7 DEF q, w

\* mp_cmp_z tells the sign of the value.
LEMMA GoodSign ==
  ASSUME NEW m, NEW n, Right(m, n)
  PROVE  mp_cmp_z(m) = Sgn(n)
  <1>1. PICK k \in Nat : m \in Mp(k)
    BY DEF Right, Held
  <1>2. /\ Top(m) /\ n \in Int /\ Above(m, 0) \in Nat /\ Above(m, 0) = Magn(n)
        /\ m.sign = IF n < 0 THEN NEG ELSE ZPOS
    BY <1>1, AboveFacts DEF Right
  <1>3. Above(m, 0) = 0 <=> m.used = 1 /\ m.dp[0] = 0
    BY <1>1, <1>2, ZeroIs
  <1> QED BY <1>2, <1>3 DEF mp_cmp_z, Sgn, Magn, NEG, ZPOS

\* A number in order is right.
LEMMA GoodHeld ==
  ASSUME NEW m, NEW n, Good(m, n)
  PROVE  Right(m, n)
  BY TidyHeld DEF Good, Right

\* The digits that v has in radix r, the leading one first; there may be more of them.
Numeral(str, v, r) ==
    /\ str \in Seq(Nat)
    /\ \A j \in 1 .. Len(str) : str[j] = (v \div Powers(r)[Len(str) - j]) % r

\* What RadixDigits has when it has shown the last digits of v: the others are to come.
Shows(s, v, r) ==
    /\ Numeral(s.digits, v, r) /\ Good(s.mp, v \div Powers(r)[Len(s.digits)])
    /\ Len(s.digits) > 0 => v \div Powers(r)[Len(s.digits) - 1] > 0

\* One more digit is shown.
Shown(s, r) == [mp |-> s_mp_div_d(s.mp, r).q, digits |-> <<s_mp_div_d(s.mp, r).r>> \o s.digits]

LEMMA ShownIs ==
  ASSUME NEW r \in 2 .. RADIX - 1, NEW v \in Nat, NEW s, Shows(s, v, r),
         v \div Powers(r)[Len(s.digits)] > 0, NEW t, t = Shown(s, r)
  PROVE  Shows(t, v, r) /\ Len(t.digits) = Len(s.digits) + 1
  <1> DEFINE P == Powers(r)
             k == Len(s.digits)
             q == v \div P[k]
             e == q % r
             m == s_mp_div_d(s.mp, r).q
             str == t.digits
  <1>1. r \in Nat /\ r > 0 /\ r > 1 /\ r \in Digit
    BY RadixIs DEF Digit
  <1>2. s.digits \in Seq(Nat) /\ k \in Nat /\ \A j \in 1 .. k : s.digits[j] = (v \div P[k - j]) % r
    BY DEF Shows, Numeral
  <1>3. Good(s.mp, q) /\ q > 0
    BY DEF Shows
  <1>4. q \in Nat /\ e \in 0 .. r - 1 /\ q \div r = v \div P[k + 1]
    <2>1. P = Powers(r) /\ k \in Nat
      BY <1>2 DEF P
    <2> HIDE DEF P, k
    <2>2. Dropping(v, r, P)
      BY <1>1, <2>1, Dropped
    <2>3. v \div P[k] \in Nat /\ (v \div P[k]) \div r = v \div P[k + 1]
      BY ONLY <2>1, <2>2 DEF Dropping
    <2>4. q \in Nat /\ q \div r = v \div P[k + 1]
      BY <2>3
    <2> HIDE DEF q
    <2>5. q % r \in 0 .. r - 1
      BY <1>1, <2>4
    <2> QED BY <2>4, <2>5
  <1> HIDE DEF P, q
  <1>5. Tidy(s.mp) /\ Above(s.mp, 0) = q
    BY <1>3, <1>4 DEF Good, Magn
  <1>6. Tidy(m) /\ Top(m) /\ Above(m, 0) = q \div r /\ m.sign = ZPOS /\ s_mp_div_d(s.mp, r).r = e
    BY <1>1, <1>5, DividedByDigitIs
  <1>7. q \div r \in Nat
    BY <1>1, <1>4
  <1>8. Good(m, v \div P[k + 1])
    <2> DEFINE w == q \div r
    <2> HIDE DEF w, m
    <2>1. Tidy(m) /\ Top(m) /\ Above(m, 0) = w /\ m.sign = ZPOS /\ w \in Nat
      BY <1>6, <1>7 DEF w
    <2>2. Good(m, w)
      BY <2>1 DEF Good, Magn
    <2> QED BY <1>4, <2>2 DEF w
  <1>9. t.mp = m /\ str = <<e>> \o s.digits
    BY <1>6 DEF Shown
  <1> HIDE DEF m, str
  <1>10. e \in Nat
    BY <1>1, <1>4
  <1> HIDE DEF e
  <1>11. /\ str \in Seq(Nat) /\ Len(str) = k + 1 /\ str[1] = e
         /\ \A j \in 2 .. k + 1 : str[j] = s.digits[j - 1]
    BY <1>2, <1>9, <1>10
  <1>12. ASSUME NEW j \in 1 .. k + 1 PROVE str[j] = (v \div P[(k + 1) - j]) % r
    <2>1. CASE j = 1
      <3>1. (k + 1) - j = k
        BY <1>2, <2>1
      <3> QED BY <1>11, <2>1, <3>1 DEF e, q
    <2>2. CASE j # 1
      <3>1. j - 1 \in 1 .. k /\ k - (j - 1) = (k + 1) - j /\ j \in 2 .. k + 1
        BY <1>2, <2>2
      <3> HIDE DEF k
      <3> QED BY <1>2, <1>11, <3>1
    <2> QED BY <2>1, <2>2
  <1>13. Numeral(str, v, r)
    BY <1>11, <1>12 DEF Numeral, P
  <1>14. (k + 1) - 1 = k
    BY <1>2
  <1>15. v \div P[Len(str) - 1] > 0
    BY <1>3, <1>11, <1>14 DEF q
  <1> QED BY <1>8, <1>9, <1>11, <1>13, <1>15 DEF Shows, P, str

\* The digits of v, as many as it has.
LEMMA RadixDigitsAre ==
  ASSUME NEW r \in 2 .. RADIX - 1, NEW v \in Nat, v > 0, NEW m, Good(m, v),
         NEW str, str = RadixDigits(m, r)
  PROVE  /\ Numeral(str, v, r) /\ Len(str) \in Nat /\ Len(str) > 0
         /\ Powers(r)[Len(str) - 1] <= v /\ v < Powers(r)[Len(str)]
  <1> DEFINE N == DigitBit * m.used
             U == [mp : Numbers, digits : Seq(Nat)]
             s == [mp |-> m, digits |-> << >>]
             P == Powers(r)
             Onward(n, x) == IF mp_cmp_z(x.mp) = 0 THEN x ELSE Shown(x, r)
             Inv(n, x) == Shows(x, v, r) /\ (Len(x.digits) = n \/ v \div P[Len(x.digits)] = 0)
             S == [n \in 0 .. N |-> {x \in U : Inv(n, x)}]
             step == [n \in 1 .. N |-> [x \in U |-> Onward(n, x)]]
             Is(h) == h = [n \in 0 .. DigitBit * m.used |->
                              IF n = 0 THEN [mp |-> m, digits |-> << >>]
                              ELSE IF mp_cmp_z(h[n - 1].mp) = 0 THEN h[n - 1]
                                   ELSE [mp |-> s_mp_div_d(h[n - 1].mp, r).q,
                                         digits |-> <<s_mp_div_d(h[n - 1].mp, r).r>> \o h[n - 1].digits]]
             T == CHOOSE h : Is(h)
  <1>a. r \in Nat /\ r > 0 /\ r > 1 /\ P = Powers(r)
    OBVIOUS
  <1>b. P[0] = 1 /\ \A n \in Nat : P[n] \in Nat /\ P[n] > 0 /\ P[n + 1] = r * P[n]
    BY <1>a, PowersAre
  <1>c. ASSUME NEW x \in U, Shows(x, v, r)
        PROVE  /\ Len(x.digits) \in Nat /\ Good(x.mp, v \div P[Len(x.digits)])
               /\ v \div P[Len(x.digits)] \in Nat
               /\ mp_cmp_z(x.mp) = 0 <=> v \div P[Len(x.digits)] = 0
    <2> DEFINE k == Len(x.digits)
               q == v \div P[k]
    <2>1. k \in Nat
      OBVIOUS
    <2>2. Good(x.mp, q)
      BY <1>c DEF Shows
    <2> HIDE DEF P, k
    <2>3. q \in Nat
      BY <1>a, <2>1, Dropped DEF Dropping
    <2> HIDE DEF q
    <2>4. mp_cmp_z(x.mp) = Sgn(q)
      BY <2>2, GoodHeld, GoodSign
    <2> QED BY <2>1, <2>2, <2>3, <2>4 DEF Sgn, q, k
  <1> HIDE DEF P
  <1>1. N \in Nat /\ N >= 0 /\ v < P[N]
    <2>1. m.used \in Nat /\ Above(m, 0) = v /\ Above(m, 0) < Pow(m.used)
      <3>1. Tidy(m) /\ m.alloc \in Nat /\ m \in Mp(m.alloc) /\ m.used \in Nat /\ Above(m, 0) = v
        BY TidyIs, TidyAbove DEF Good, Magn
      <3> QED BY <3>1, LeadingIs
    <2>2. N \in Nat
      BY <2>1, MpiAssumption
    <2>3. Pow(m.used) = 2 ^ N
      BY DEF Pow
    <2> HIDE DEF N
    <2>4. 2 ^ N <= P[N] /\ 2 ^ N \in Nat /\ P[N] \in Nat
      BY <1>a, <1>b, <2>2, PowersOver, TwoTo
    <2> QED BY <2>1, <2>2, <2>3, <2>4
  <1>2. s \in S[0]
    <2>1. s.mp = m /\ s.digits = << >> /\ Len(s.digits) = 0 /\ 0 \in 0 .. N
      BY <1>1
    <2>2. v \div P[0] = v
      BY <1>b
    <2>3. m \in Numbers
      BY TidyNumber DEF Good
    <2>4. s \in U
      BY <2>3
    <2> HIDE DEF s, U
    <2>5. Numeral(s.digits, v, r)
      BY <2>1 DEF Numeral
    <2>6. Shows(s, v, r)
      BY <2>1, <2>2, <2>5 DEF Shows, P
    <2> HIDE DEF N
    <2> QED BY <2>1, <2>4, <2>6
  <1>3. ASSUME NEW n \in 1 .. N, NEW x \in U, Inv(n - 1, x)
        PROVE  Onward(n, x) \in U /\ Inv(n, Onward(n, x))
    <2> DEFINE k == Len(x.digits)
    <2>1. n \in Nat /\ (n - 1) + 1 = n
      BY <1>1
    <2>2. /\ k \in Nat /\ Good(x.mp, v \div P[k]) /\ v \div P[k] \in Nat
          /\ mp_cmp_z(x.mp) = 0 <=> v \div P[k] = 0
      BY <1>3, <1>c
    <2>3. CASE mp_cmp_z(x.mp) = 0
      <3>1. Onward(n, x) = x
        BY <2>3
      <3> HIDE DEF Onward, U, N
      <3> QED BY <1>3, <2>2, <2>3, <3>1
    <2>4. CASE mp_cmp_z(x.mp) # 0
      <3> DEFINE t == Shown(x, r)
      <3>1. Onward(n, x) = t
        BY <2>4
      <3>2. v \div P[k] > 0 /\ k = n - 1
        <4> DEFINE q == v \div P[k]
        <4>1. q \in Nat /\ q # 0
          BY <2>2, <2>4
        <4>2. k = n - 1
          BY <1>3, <2>2, <2>4
        <4> HIDE DEF q
        <4> QED BY <4>1, <4>2 DEF q
      <3>3. Shows(t, v, r) /\ Len(t.digits) = k + 1
        <4> HIDE DEF U, Onward, N, t
        <4>1. Shows(x, v, r) /\ v \div Powers(r)[Len(x.digits)] > 0 /\ t = Shown(x, r)
          BY <1>3, <3>2 DEF P, t
        <4> QED BY <4>1, ShownIs
      <3>4. t \in U
        <4>1. t = [mp |-> t.mp, digits |-> t.digits]
          BY DEF Shown
        <4> HIDE DEF t
        <4>2. t.digits \in Seq(Nat) /\ Tidy(t.mp)
          BY <3>3 DEF Shows, Numeral, Good
        <4>3. t.mp \in Numbers
          BY <4>2, TidyNumber
        <4> QED BY <4>1, <4>2, <4>3
      <3> HIDE DEF Onward, U, N, t
      <3>5. Len(t.digits) = n
        BY <2>1, <3>2, <3>3
      <3> QED BY <3>1, <3>3, <3>4, <3>5
    <2> QED BY <2>3, <2>4
  <1>4. \A n \in 1 .. N : \A x \in S[n - 1] : Onward(n, x) \in S[n]
    <2>1. \A n \in 1 .. N : n - 1 \in 0 .. N /\ n \in 0 .. N
      BY <1>1
    <2> HIDE DEF U, Inv, Onward, N
    <2> QED BY <1>3, <2>1
  <1> HIDE DEF Onward, Inv
  <1>5. \A n \in 1 .. N : \A x \in S[n - 1] : x \in U /\ step[n][x] = Onward(n, x)
    <2>1. \A n \in 1 .. N : n - 1 \in 0 .. N
      BY <1>1
    <2> HIDE DEF U, N
    <2> QED BY <2>1
  <1>6. PICK f : Turned(f, N, U, S, s, step)
    <2>1. \A n \in 0 .. N : S[n] \subseteq U
      BY DEF S
    <2>2. Turning(N, U, S, s, step)
      <3> HIDE DEF N, U, S, s, step
      <3> QED BY <1>1, <1>2, <1>4, <1>5, <2>1 DEF Turning
    <2> HIDE DEF N, U, S, s, step
    <2> QED BY <2>2, LoopRuns
  <1> HIDE DEF U, S, step
  <1>7. Is(f)
    <2>1. \A n \in 0 .. N : n # 0 => n \in 1 .. N
      BY <1>1
    <2>2. /\ f \in [0 .. N -> U] /\ f[0] = s
          /\ \A n \in 1 .. N : f[n] = step[n][f[n - 1]] /\ f[n - 1] \in S[n - 1]
      BY <1>6 DEF Turned
    <2>3. \A n \in 0 .. N : n # 0 => f[n] = Onward(n, f[n - 1])
      BY <1>5, <2>1, <2>2
    <2> QED BY <2>2, <2>3 DEF Onward, Shown
  <1>8. Is(T)
    BY <1>7
  <1>9. str = T[N].digits
    BY DEF RadixDigits
  <1> HIDE DEF T
  <1>10. T[0] \in S[0] /\ \A n \in 1 .. N : T[n] = Onward(n, T[n - 1])
    <2>1. \A n \in 0 .. N : T[n] = IF n = 0 THEN s ELSE Onward(n, T[n - 1])
      BY <1>8 DEF Onward, Shown
    <2>2. 0 \in 0 .. N /\ \A n \in 1 .. N : n \in 0 .. N /\ n # 0
      BY <1>1
    <2> QED BY <1>2, <2>1, <2>2
  <1> HIDE DEF N, s
  <1>11. T[N] \in S[N]
    <2>1. \A n \in 1 .. N : T[n - 1] \in S[n - 1] => T[n] \in S[n]
      BY <1>4, <1>10
    <2> QED BY <1>1, <1>10, <2>1, LoopStays
  <1>12. Inv(N, T[N])
    BY <1>1, <1>11 DEF S
  <1> DEFINE x == T[N]
             k == Len(x.digits)
  <1>13. Shows(x, v, r) /\ x \in U /\ (k = N \/ v \div P[k] = 0)
    <2>1. x \in U
      BY <1>1, <1>11 DEF S
    <2> QED BY <1>12, <2>1 DEF Inv
  <1> HIDE DEF x
  <1>14. k \in Nat /\ Numeral(x.digits, v, r) /\ (k > 0 => v \div P[k - 1] > 0)
    <2>1. Numeral(x.digits, v, r)
      BY <1>13 DEF Shows
    <2> QED BY <1>13, <2>1 DEF Shows, P, Numeral
  <1>15. \A n \in Nat : v \div P[n] > 0 <=> P[n] <= v
    BY <1>a, Dropped DEF Dropping
  <1>16. v < P[k]
    <2> HIDE DEF k
    <2>1. CASE k = N
      BY <1>1, <2>1
    <2>2. CASE v \div P[k] = 0
      <3>1. ~ P[k] <= v
        BY <1>14, <1>15, <2>2
      <3> QED BY <1>b, <1>14, <3>1
    <2> QED BY <1>13, <2>1, <2>2
  <1>17. k > 0
    <2>1. k = 0 => v < 1
      BY <1>b, <1>16
    <2> HIDE DEF k
    <2> QED BY <1>14, <2>1
  <1>18. k - 1 \in Nat /\ P[k - 1] <= v
    <2> HIDE DEF k
    <2> QED BY <1>14, <1>15, <1>17
  <1> QED BY <1>9, <1>14, <1>16, <1>17, <1>18 DEF x, P

\* One more digit is read.
LEMMA DigitReadIs ==
  ASSUME NEW m, NEW q \in Nat, Right(m, q), NEW r \in Digit, NEW d \in Digit
  PROVE  Right(s_mp_add_d(s_mp_mul_d(m, r), d), r * q + d)
  <1> DEFINE x == s_mp_mul_d(m, r)
             y == s_mp_add_d(x, d)
             p == r * q
  <1>1. r \in Nat /\ d \in Nat
    BY RadixIs
  <1>2. p \in Nat
    <2>1. \A a, b \in Nat : a * b \in Nat
      OBVIOUS
    <2> QED BY <1>1, <2>1
  <1>3. Held(m) /\ Above(m, 0) = q /\ m.sign = ZPOS
    BY DEF Right, Magn
  <1>4. Held(x) /\ Top(x) /\ Above(x, 0) = p /\ x.sign = ZPOS
    <2> HIDE DEF p
    <2>1. /\ Held(x) /\ Top(x) /\ Above(x, 0) = r * Above(m, 0)
          /\ x.sign = IF Above(x, 0) = 0 THEN ZPOS ELSE m.sign
      BY <1>3, TimesDigitHeld
    <2> QED BY <1>3, <2>1 DEF p
  <1> HIDE DEF x, p
  <1>5. Held(y) /\ Top(y) /\ Above(y, 0) = p + d /\ y.sign = ZPOS
    BY <1>4, SumWithDigitHeld
  <1> HIDE DEF y
  <1>6. Right(y, p + d)
    BY <1>1, <1>2, <1>5 DEF Right, Magn
  <1> QED BY <1>6 DEF y, x, p

\* The loop of mp_read_radix.
ReadDigits(m, str, r) ==
    LET read[n \in 0 .. Len(str)] ==
            IF n = 0 THEN Zeroed(m) ELSE s_mp_add_d(s_mp_mul_d(read[n - 1], r), str[n])
    IN  read[Len(str)]

LEMMA ReadDigitsIs ==
  ASSUME NEW m, Tidy(m), NEW v \in Nat, NEW r \in 2 .. RADIX - 1, NEW str, Numeral(str, v, r),
         v < Powers(r)[Len(str)], NEW y, y = ReadDigits(m, str, r)
  PROVE  Right(y, v)
  <1> DEFINE N == Len(str)
             P == Powers(r)
             U == Numbers
             s == Zeroed(m)
             Onward(n, x) == s_mp_add_d(s_mp_mul_d(x, r), str[n])
             Inv(n, x) == Right(x, v \div P[N - n])
             S == [n \in 0 .. N |-> {x \in U : Inv(n, x)}]
             step == [n \in 1 .. N |-> [x \in U |-> Onward(n, x)]]
             Is(h) == h = [n \in 0 .. Len(str) |->
                              IF n = 0 THEN Zeroed(m)
                              ELSE s_mp_add_d(s_mp_mul_d(h[n - 1], r), str[n])]
             T == CHOOSE h : Is(h)
  <1>a. r \in Nat /\ r > 0 /\ r \in Digit /\ P = Powers(r)
    BY RadixIs DEF Digit
  <1>1. N \in Nat /\ N >= 0 /\ v < P[N] /\ \A j \in 1 .. N : str[j] = (v \div P[N - j]) % r
    BY DEF Numeral
  <1> HIDE DEF P
  <1>b. Dropping(v, r, P)
    BY <1>a, Dropped
  <1>2. s \in S[0]
    <2>1. v \div P[N] = 0
      <3> HIDE DEF N
      <3>1. v \div P[N] \in Nat /\ (v \div P[N] > 0 <=> P[N] <= v)
        BY <1>1, <1>b DEF Dropping
      <3>2. ~ P[N] <= v
        <4>1. P[N] \in Nat
          BY <1>a, <1>1, PowersAre
        <4> QED BY <1>1, <4>1
      <3> QED BY <3>1, <3>2
    <2>2. N - 0 = N /\ 0 \in 0 .. N
      BY <1>1
    <2>3. 0 \in Digit
      BY RadixIs
    <2>4. Good(s, 0)
      BY <2>3, ZeroedIs
    <2> HIDE DEF s, N
    <2>5. s \in U /\ Right(s, 0)
      BY <2>4, TidyNumber, GoodHeld DEF Good
    <2> QED BY <2>1, <2>2, <2>5
  <1>3. ASSUME NEW n \in 1 .. N, NEW x \in U, Inv(n - 1, x)
        PROVE  Onward(n, x) \in U /\ Inv(n, Onward(n, x))
    <2> DEFINE i == N - n
               q == v \div P[i + 1]
               e == (v \div P[i]) % r
    <2>1. i \in Nat /\ N - (n - 1) = i + 1
      BY <1>1
    <2>2. str[n] = e
      BY <1>1
    <2>3. Right(x, q)
      <3> HIDE DEF N
      <3> QED BY <1>3, <2>1
    <2>4. i = N - n
      OBVIOUS
    <2> HIDE DEF i, N
    <2>5. q \in Nat /\ e \in 0 .. r - 1 /\ v \div P[i] = r * q + e
      <3>1. i + 1 \in Nat
        BY <2>1
      <3>2. v \div P[i + 1] \in Nat
        BY <1>b, <3>1 DEF Dropping
      <3>3. (v \div P[i]) % r \in 0 .. r - 1
        BY <1>b, <2>1 DEF Dropping
      <3>4. v \div P[i] = r * (v \div P[i + 1]) + ((v \div P[i]) % r)
        BY <1>b, <2>1 DEF Dropping
      <3> QED BY <3>2, <3>3, <3>4
    <2> HIDE DEF q, e
    <2>6. e \in Digit
      BY <1>a, <2>5, RadixIs DEF Digit
    <2>7. Right(Onward(n, x), r * q + e)
      BY <1>a, <2>2, <2>3, <2>5, <2>6, DigitReadIs
    <2> HIDE DEF Onward
    <2>8. Right(Onward(n, x), v \div P[N - n])
      BY <2>4, <2>5, <2>7
    <2>9. Onward(n, x) \in U
      BY <2>7 DEF Right, Held, Numbers
    <2> QED BY <2>8, <2>9
  <1>4. \A n \in 1 .. N : \A x \in S[n - 1] : Onward(n, x) \in S[n]
    <2>1. \A n \in 1 .. N : n - 1 \in 0 .. N /\ n \in 0 .. N
      BY <1>1
    <2> HIDE DEF U, Inv, Onward, N
    <2> QED BY <1>3, <2>1
  <1> HIDE DEF Onward, Inv
  <1>5. \A n \in 1 .. N : \A x \in S[n - 1] : x \in U /\ step[n][x] = Onward(n, x)
    <2>1. \A n \in 1 .. N : n - 1 \in 0 .. N
      BY <1>1
    <2> HIDE DEF U, N
    <2> QED BY <2>1
  <1>6. PICK f : Turned(f, N, U, S, s, step)
    <2>1. \A n \in 0 .. N : S[n] \subseteq U
      BY DEF S
    <2>2. Turning(N, U, S, s, step)
      <3> HIDE DEF N, U, S, s, step
      <3> QED BY <1>1, <1>2, <1>4, <1>5, <2>1 DEF Turning
    <2> HIDE DEF N, U, S, s, step
    <2> QED BY <2>2, LoopRuns
  <1> HIDE DEF U, S, step
  <1>7. Is(f)
    <2>1. \A n \in 0 .. N : n # 0 => n \in 1 .. N
      BY <1>1
    <2>2. /\ f \in [0 .. N -> U] /\ f[0] = s
          /\ \A n \in 1 .. N : f[n] = step[n][f[n - 1]] /\ f[n - 1] \in S[n - 1]
      BY <1>6 DEF Turned
    <2>3. \A n \in 0 .. N : n # 0 => f[n] = Onward(n, f[n - 1])
      BY <1>5, <2>1, <2>2
    <2> QED BY <2>2, <2>3 DEF Onward
  <1>8. Is(T)
    BY <1>7
  <1>9. y = T[N]
    BY DEF ReadDigits
  <1> HIDE DEF T
  <1>10. T[0] \in S[0] /\ \A n \in 1 .. N : T[n] = Onward(n, T[n - 1])
    BY <1>1, <1>2, <1>8 DEF Onward
  <1> HIDE DEF N, s
  <1>11. T[N] \in S[N]
    <2>1. \A n \in 1 .. N : T[n - 1] \in S[n - 1] => T[n] \in S[n]
      BY <1>4, <1>10
    <2> QED BY <1>1, <1>10, <2>1, LoopStays
  <1>12. Inv(N, T[N])
    BY <1>1, <1>11 DEF S
  <1>13. v \div P[N - N] = v
    <2>1. N - N = 0
      BY <1>1
    <2> QED BY <1>b, <2>1 DEF Dropping
  <1> QED BY <1>9, <1>12, <1>13 DEF Inv

\* A text that says n: its sign, and the digits of its magnitude.
TextIs(str, n, r) ==
    /\ str.minus <=> n < 0
    /\ Magn(n) \in Nat /\ Numeral(str.digits, Magn(n), r)
    /\ Len(str.digits) \in Nat /\ Len(str.digits) > 0
    /\ Magn(n) < Powers(r)[Len(str.digits)]
    /\ Magn(n) > 0 => Powers(r)[Len(str.digits) - 1] <= Magn(n)
    /\ Magn(n) = 0 => Len(str.digits) = 1

LEMMA ToRadixIs ==
  ASSUME NEW m, NEW n, Good(m, n), NEW r \in 2 .. RADIX - 1
  PROVE  TextIs(mp_toradix(m, r), n, r)
  <1> DEFINE str == mp_toradix(m, r)
             A == Magn(n)
             x == Magnitude(m)
             P == Powers(r)
  <1>1. n \in Int /\ A \in Nat /\ (A = 0 <=> n = 0)
    BY DEF Good, Magn
  <1>2. mp_cmp_z(m) = Sgn(n)
    BY GoodHeld, GoodSign
  <1>3. m.sign = NEG <=> n < 0
    BY <1>1 DEF Good, NEG, ZPOS
  <1>4. r \in Nat /\ r > 0 /\ P = Powers(r)
    OBVIOUS
  <1>5. P[0] = 1 /\ P[1] = r
    <2> HIDE DEF P
    <2>1. P[0] = 1 /\ \A k \in Nat : P[k + 1] = r * P[k]
      BY <1>4, PowersAre
    <2>2. P[0 + 1] = r * 1
      BY <2>1
    <2>3. 0 + 1 = 1 /\ r * 1 = r
      BY <1>4
    <2> QED BY <2>1, <2>2, <2>3
  <1>6. CASE n = 0
    <2>1. str = [minus |-> FALSE, digits |-> <<0>>]
      BY <1>2, <1>6 DEF mp_toradix, Sgn
    <2> HIDE DEF str, P
    <2>2. ~ str.minus /\ str.digits = <<0>> /\ Len(str.digits) = 1 /\ A = 0
      BY <1>1, <1>6, <2>1
    <2>3. str.digits \in Seq(Nat) /\ str.digits[1] = 0
      BY <2>2
    <2>4. (0 \div P[0]) % r = 0
      <3>1. 0 \div 1 = 0 /\ 0 % r = 0
        BY <1>4
      <3> QED BY <1>5, <3>1
    <2> HIDE DEF A
    <2>5. ASSUME NEW j \in 1 .. 1 PROVE str.digits[j] = (A \div P[1 - j]) % r
      <3>1. j = 1 /\ 1 - j = 0
        OBVIOUS
      <3> QED BY <2>2, <2>3, <2>4, <3>1
    <2>6. Numeral(str.digits, A, r)
      BY <2>2, <2>3, <2>5 DEF Numeral, P
    <2>7. A < P[Len(str.digits)] /\ A \in Nat /\ Len(str.digits) \in Nat /\ Len(str.digits) > 0
      BY <1>4, <1>5, <2>2
    <2> QED BY <1>6, <2>2, <2>6, <2>7 DEF TextIs, A, str, P
  <1>7. CASE n # 0
    <2>1. str = [minus |-> m.sign = NEG, digits |-> RadixDigits(x, r)]
      BY <1>1, <1>2, <1>7 DEF mp_toradix, Sgn
    <2>2. Good(x, A)
      BY CopiedIs, GoodSigned DEF Magnitude
    <2> HIDE DEF x
    <2>3. A > 0
      BY <1>1, <1>7
    <2> HIDE DEF A
    <2> DEFINE d == RadixDigits(x, r)
    <2>4. /\ Numeral(d, A, r) /\ Len(d) \in Nat /\ Len(d) > 0
          /\ Powers(r)[Len(d) - 1] <= A /\ A < Powers(r)[Len(d)]
      BY <1>1, <2>2, <2>3, RadixDigitsAre
    <2> HIDE DEF d
    <2>5. str.minus = (m.sign = NEG) /\ str.digits = d
      BY <2>1 DEF d
    <2> HIDE DEF str
    <2>6. str.minus <=> n < 0
      BY <1>3, <2>5
    <2>7. /\ A \in Nat /\ Numeral(str.digits, A, r)
          /\ Len(str.digits) \in Nat /\ Len(str.digits) > 0
          /\ Powers(r)[Len(str.digits) - 1] <= A /\ A < Powers(r)[Len(str.digits)] /\ A # 0
      BY <1>1, <2>3, <2>4, <2>5
    <2> HIDE DEF P
    <2> QED BY <2>6, <2>7 DEF TextIs, A, str
  <1> QED BY <1>6, <1>7

\* mp_toradix writes a text, the sign apart, that mp_read_radix reads.
LEMMA TextRight ==
  ASSUME NEW h, NEW v, Holds(h, v), NEW a \in Regs, NEW c \in Regs, NEW r \in 2 .. RADIX - 1,
         mp_toradix(h[a], r).minus \/ Head(mp_toradix(h[a], r).digits) # Plus
  PROVE  Right(mp_read_radix(h[c], mp_toradix(h[a], r), r), v[a])
  <1> DEFINE m == h[a]
             n == v[a]
             str == mp_toradix(m, r)
             sgn == IF str.minus THEN NEG ELSE ZPOS
             y == ReadDigits(h[c], str.digits, r)
  <1>1. Good(m, n) /\ Good(h[c], v[c])
    BY DEF Holds
  <1> HIDE DEF m, n
  <1>2. TextIs(str, n, r)
    BY <1>1, ToRadixIs
  <1>3. mp_read_radix(h[c], str, r) = Signed(y, sgn)
    BY DEF mp_read_radix, ReadDigits, m
  <1>4. Right(y, Magn(n))
    <2>1. /\ Numeral(str.digits, Magn(n), r) /\ Magn(n) \in Nat
          /\ Magn(n) < Powers(r)[Len(str.digits)]
      BY <1>2 DEF TextIs
    <2> HIDE DEF str
    <2> QED BY <1>1, <2>1, ReadDigitsIs DEF Good
  <1>5. n \in Int /\ (str.minus <=> n < 0)
    BY <1>1, <1>2 DEF TextIs, Good
  <1> HIDE DEF y, str
  <1>6. Right(Signed(y, sgn), n)
    <2>1. PICK k \in Nat : y \in Mp(k)
      BY <1>4 DEF Right, Held
    <2>2. Clean(y) /\ Top(y) /\ Above(y, 0) = Magn(n)
      BY <1>4, <1>5 DEF Right, Held, Magn
    <2>3. IsZero(y) <=> n = 0
      BY <1>5, <2>1, <2>2, ZeroIs DEF Magn
    <2> DEFINE t == IF n < 0 THEN NEG ELSE ZPOS
               z == [y EXCEPT !.sign = t]
    <2>4. Signed(y, sgn) = z
      BY <1>5, <2>3 DEF Signed
    <2>5. z = [sign |-> t, used |-> y.used, alloc |-> y.alloc, dp |-> y.dp]
      BY <2>1 DEF Mp
    <2>6. t \in {ZPOS, NEG}
      OBVIOUS
    <2> HIDE DEF t, z
    <2>7. z \in Mp(k) /\ z.dp = y.dp /\ z.used = y.used /\ z.sign = t
      BY <2>1, <2>5, <2>6 DEF Mp
    <2>8. Above(z, 0) = Above(y, 0)
      BY <2>1, <2>7, SameWorth DEF Same, DigitOf
    <2>9. Clean(z) /\ Top(z)
      BY <2>2, <2>7 DEF Clean, Top
    <2> QED BY <1>5, <2>2, <2>4, <2>7, <2>8, <2>9 DEF Right, Held, t
  <1> QED BY <1>3, <1>6 DEF m, n, str

-----------------------------------------------------------------------------
(* Sequences of calls.                                                     *)

\* The numbers are in order before every call; a product with a digit, or a number read
\* from text, may be written beyond its storage, and is then the last call.
NumbersInv ==
    /\ val \in [Regs -> Int] /\ calls \in Nat /\ reg = [r \in Regs |-> reg[r]]
    /\ overrun \subseteq {"mp_mul_d", "mp_read_radix"}
    /\ \A r \in Regs : Right(reg[r], val[r])
    /\ overrun = {} => Holds(reg, val)

\* A number in order is within its storage,
LEMMA GoodRight ==
  ASSUME NEW m, NEW n, Good(m, n)
  PROVE  Right(m, n) /\ ~ Overruns(m)
  <1>1. Held(m)
    BY TidyAbove DEF Good, Held
  <1>2. DOMAIN m.dp = 0 .. m.alloc - 1
    BY TidyIs DEF Good
  <1> QED BY <1>1, <1>2 DEF Good, Right, Overruns

\* and a right number within its storage is in order.
LEMMA RightGood ==
  ASSUME NEW m, NEW n, Right(m, n), ~ Overruns(m)
  PROVE  Good(m, n)
  <1>1. PICK k \in Nat : m \in Mp(k)
    BY DEF Right, Held
  <1>2. m.alloc \in 1 .. k /\ DOMAIN m.dp = 0 .. k - 1
    BY <1>1 DEF Mp
  <1>3. DOMAIN m.dp = 0 .. m.alloc - 1
    BY DEF Overruns
  <1>4. m.alloc = k
    <2>1. k - 1 \in 0 .. k - 1 /\ m.alloc \in Nat
      BY <1>2
    <2>2. k - 1 \in 0 .. m.alloc - 1
      BY <1>2, <1>3, <2>1
    <2> QED BY <1>2, <2>1, <2>2
  <1> QED BY <1>1, <1>4 DEF Right, Held, Good, Tidy

\* After a call that leaves all numbers in order.
LEMMA CallIs ==
  ASSUME NumbersInv, NEW name, NEW h, NEW v, Holds(h, v), Call(name, h, v)
  PROVE  NumbersInv'
  <1>1. /\ reg' = h /\ val' = v /\ calls' = calls - 1 /\ calls > 0
        /\ overrun' = {name : r \in {s \in Regs : Overruns(h[s])}}
    BY DEF Call
  <1>2. h = [r \in Regs |-> h[r]] /\ v \in [Regs -> Int] /\ \A r \in Regs : Good(h[r], v[r])
    BY DEF Holds
  <1>3. \A r \in Regs : Right(h[r], v[r]) /\ ~ Overruns(h[r])
    BY <1>2, GoodRight
  <1>4. overrun' = {}
    BY <1>1, <1>3
  <1>5. calls' \in Nat
    BY <1>1 DEF NumbersInv
  <1> QED BY <1>1, <1>2, <1>3, <1>4, <1>5 DEF NumbersInv

\* Calls are made on numbers in order only.
LEMMA Usable ==
  ASSUME NumbersInv, NEW name, NEW h, NEW v, Call(name, h, v)
  PROVE  Holds(reg, val)
  BY DEF NumbersInv, Call

\* After a call whose result may be written beyond its storage.
LEMMA LastCall ==
  ASSUME NumbersInv, NEW name \in {"mp_mul_d", "mp_read_radix"}, NEW c \in Regs,
         NEW x, NEW n, Right(x, n), NEW h, h = [reg EXCEPT ![c] = x],
         Call(name, h, [val EXCEPT ![c] = n])
  PROVE  NumbersInv'
  <1> DEFINE v == [val EXCEPT ![c] = n]
  <1>1. /\ reg = [r \in Regs |-> reg[r]] /\ val \in [Regs -> Int] /\ calls \in Nat
        /\ \A r \in Regs : Right(reg[r], val[r])
    BY DEF NumbersInv
  <1>2. Holds(reg, val)
    BY Usable
  <1>3. /\ reg' = h /\ val' = v /\ calls' = calls - 1 /\ calls > 0
        /\ overrun' = {name : r \in {s \in Regs : Overruns(h[s])}}
    BY DEF Call
  <1>4. n \in Int
    BY DEF Right
  <1>5. v \in [Regs -> Int] /\ v[c] = n /\ \A r \in Regs : r # c => v[r] = val[r]
    BY <1>1, <1>4
  <1>6. h = [r \in Regs |-> h[r]] /\ h[c] = x /\ \A r \in Regs : r # c => h[r] = reg[r]
    BY <1>1
  <1>7. \A r \in Regs : Right(h[r], v[r])
    BY <1>1, <1>5, <1>6
  <1>8. ASSUME overrun' = {} PROVE Holds(h, v)
    <2>1. ~ Overruns(x)
      BY <1>3, <1>6, <1>8
    <2>2. Good(x, n)
      BY <2>1, RightGood
    <2> QED BY <1>2, <2>2, PutIs
  <1> HIDE DEF v
  <1>9. overrun' \subseteq {"mp_mul_d", "mp_read_radix"} /\ calls' \in Nat
    BY <1>1, <1>3
  <1> QED BY <1>3, <1>5, <1>6, <1>7, <1>8, <1>9 DEF NumbersInv, v

\* Every call keeps the invariant.
LEMMA ArithmeticCall ==
  ASSUME NumbersInv, Arithmetic
  PROVE  NumbersInv'
  <1>1. CASE Copy
    <2>1. PICK a \in Regs, c \in Regs :
              Call("mp_copy", mp_copy(reg, a, c), [val EXCEPT ![c] = val[a]])
      BY <1>1 DEF Copy, Returns
    <2> QED BY <2>1, Usable, UnaryIs, CallIs
  <1>2. CASE Exch
    <2>1. PICK a \in Regs, c \in Regs :
              Call("mp_exch", mp_exch(reg, a, c),
                   [s \in Regs |-> IF s = c THEN val[a] ELSE IF s = a THEN val[c] ELSE val[s]])
      BY <1>2 DEF Exch, ReturnsTwo
    <2> QED BY <2>1, Usable, ExchIs, CallIs
  <1>3. CASE Zero
    <2>1. PICK c \in Regs : Call("mp_zero", mp_zero(reg, c), [val EXCEPT ![c] = 0])
      BY <1>3 DEF Zero, Returns
    <2>2. 0 \in Digit
      BY RadixIs
    <2> QED BY <2>1, <2>2, Usable, WithDigitAre, CallIs
  <1>4. CASE Set
    <2>1. PICK c \in Regs, d \in Digits :
              Call("mp_set", Put(reg, c, SetDigit(reg[c], d)), [val EXCEPT ![c] = d])
      BY <1>4 DEF Set, Returns
    <2>2. d \in Digit
      BY MpiCallsAssumption DEF Digit
    <2>3. Holds(reg, val)
      BY <2>1, Usable
    <2>4. Holds(Put(reg, c, SetDigit(reg[c], d)), [val EXCEPT ![c] = d])
      BY <2>2, <2>3, WithDigitAre
    <2> QED BY <2>1, <2>4, CallIs
  <1>5. CASE AddD
    <2>1. PICK a \in Regs, c \in Regs, d \in Digits :
              Call("mp_add_d", mp_add_d(reg, a, d, c), [val EXCEPT ![c] = val[a] + d])
      BY <1>5 DEF AddD, Returns
    <2>2. d \in Digit
      BY MpiCallsAssumption DEF Digit
    <2>3. Holds(reg, val)
      BY <2>1, Usable
    <2>4. Holds(mp_add_d(reg, a, d, c), [val EXCEPT ![c] = val[a] + d])
      BY <2>2, <2>3, WithDigitAre
    <2> QED BY <2>1, <2>4, CallIs
  <1>6. CASE SubD
    <2>1. PICK a \in Regs, c \in Regs, d \in Digits :
              Call("mp_sub_d", mp_sub_d(reg, a, d, c), [val EXCEPT ![c] = val[a] - d])
      BY <1>6 DEF SubD, Returns
    <2>2. d \in Digit
      BY MpiCallsAssumption DEF Digit
    <2>3. Holds(reg, val)
      BY <2>1, Usable
    <2>4. Holds(mp_sub_d(reg, a, d, c), [val EXCEPT ![c] = val[a] - d])
      BY <2>2, <2>3, WithDigitAre
    <2> QED BY <2>1, <2>4, CallIs
  <1>7. CASE MulD
    <2>1. PICK a \in Regs, c \in Regs, d \in Digits :
              Call("mp_mul_d", mp_mul_d(reg, a, d, c), [val EXCEPT ![c] = val[a] * d])
      BY <1>7 DEF MulD, Returns
    <2> DEFINE h == mp_mul_d(reg, a, d, c)
               n == val[a] * d
    <2>2. Holds(reg, val)
      BY <2>1, Usable
    <2>3. d \in Digit
      BY MpiCallsAssumption DEF Digit
    <2>4. PICK x : h = [reg EXCEPT ![c] = x] /\ Right(x, n)
      BY <2>2, <2>3, MulDigitRight
    <2> HIDE DEF h, n
    <2>5. Call("mp_mul_d", h, [val EXCEPT ![c] = n])
      BY <2>1 DEF h, n
    <2> QED BY <2>4, <2>5, LastCall
  <1>8. CASE Mul2
    <2>1. PICK a \in Regs, c \in Regs :
              Call("mp_mul_2", mp_mul_2(reg, a, c), [val EXCEPT ![c] = 2 * val[a]])
      BY <1>8 DEF Mul2, Returns
    <2>2. Holds(reg, val)
      BY <2>1, Usable
    <2>3. Holds(mp_mul_2(reg, a, c), [val EXCEPT ![c] = 2 * val[a]])
      BY <2>2, UnaryIs
    <2> QED BY <2>1, <2>3, CallIs
  <1>9. CASE Abs
    <2>1. PICK a \in Regs, c \in Regs :
              Call("mp_abs", mp_abs(reg, a, c), [val EXCEPT ![c] = Magn(val[a])])
      BY <1>9 DEF Abs, Returns
    <2>2. Holds(reg, val)
      BY <2>1, Usable
    <2>3. Holds(mp_abs(reg, a, c), [val EXCEPT ![c] = Magn(val[a])])
      BY <2>2, UnaryIs
    <2> QED BY <2>1, <2>3, CallIs
  <1>10. CASE Neg
    <2>1. PICK a \in Regs, c \in Regs :
              Call("mp_neg", mp_neg(reg, a, c), [val EXCEPT ![c] = -val[a]])
      BY <1>10 DEF Neg, Returns
    <2> QED BY <2>1, Usable, UnaryIs, CallIs
  <1>11. CASE Add
    <2>1. PICK a \in Regs, b \in Regs, c \in Regs :
              Call("mp_add", mp_add(reg, a, b, c), [val EXCEPT ![c] = val[a] + val[b]])
      BY <1>11 DEF Add, Returns
    <2> QED BY <2>1, Usable, AddRight, CallIs
  <1>12. CASE Sub
    <2>1. PICK a \in Regs, b \in Regs, c \in Regs :
              Call("mp_sub", mp_sub(reg, a, b, c), [val EXCEPT ![c] = val[a] - val[b]])
      BY <1>12 DEF Sub, Returns
    <2> QED BY <2>1, Usable, SubRight, CallIs
  <1>13. CASE Mul
    <2>1. PICK a \in Regs, b \in Regs, c \in Regs :
              Call("mp_mul", mp_mul(reg, a, b, c), [val EXCEPT ![c] = val[a] * val[b]])
      BY <1>13 DEF Mul, Returns
    <2> QED BY <2>1, Usable, MulRight, CallIs
  <1>14. CASE DivD
    <2>1. PICK a \in Regs, c \in Regs, d \in Digits \ {0} :
              /\ val[a] >= 0 \/ s_mp_ispow2d(d) >= 0
              /\ Call("mp_div_d", mp_div_d(reg, a, d, c).h,
                      [val EXCEPT ![c] = Quotient(val[a], d)])
      BY <1>14 DEF DivD, Returns
    <2>2. d \in Digit /\ d # 0
      BY MpiCallsAssumption DEF Digit
    <2>3. Holds(reg, val)
      BY <2>1, Usable
    <2>4. Holds(mp_div_d(reg, a, d, c).h, [val EXCEPT ![c] = Quotient(val[a], d)])
      BY <2>1, <2>2, <2>3, DigitQuotientIs
    <2> QED BY <2>1, <2>4, CallIs
  <1>15. CASE Mul2d
    <2>1. PICK a \in Regs, c \in Regs, d \in Shifts :
              Call("mp_mul_2d", mp_mul_2d(reg, a, d, c), [val EXCEPT ![c] = val[a] * 2 ^ d])
      BY <1>15 DEF Mul2d, Returns
    <2>2. d \in Nat
      BY MpiCallsAssumption
    <2>3. Holds(reg, val)
      BY <2>1, Usable
    <2>4. Holds(mp_mul_2d(reg, a, d, c), [val EXCEPT ![c] = val[a] * 2 ^ d])
      BY <2>2, <2>3, ShiftsAre
    <2> QED BY <2>1, <2>4, CallIs
  <1>16. CASE Div2
    <2>1. PICK a \in Regs, c \in Regs :
              Call("mp_div_2", mp_div_2(reg, a, c), [val EXCEPT ![c] = Quotient(val[a], 2)])
      BY <1>16 DEF Div2, Returns
    <2>2. Holds(reg, val) /\ 0 \in Nat
      BY <2>1, Usable
    <2>3. Holds(mp_div_2(reg, a, c), [val EXCEPT ![c] = Quotient(val[a], 2)])
      BY <2>2, ShiftsAre
    <2> QED BY <2>1, <2>3, CallIs
  <1>17. CASE Div2d
    <2>1. PICK a \in OrNull, q \in OrNull, r \in OrNull, d \in Shifts :
              /\ a # Null /\ (q # r \/ q = Null) /\ (q # a \/ r = Null)
              /\ Call("mp_div_2d", mp_div_2d(reg, a, d, q, r),
                      [s \in Regs |-> IF s = r THEN Remainder(val[a], 2 ^ d)
                                      ELSE IF s = q THEN Quotient(val[a], 2 ^ d) ELSE val[s]])
      BY <1>17 DEF Div2d, ReturnsTwo
    <2>2. a \in Regs /\ d \in Nat
      BY <2>1, MpiCallsAssumption DEF OrNull
    <2>3. Holds(reg, val)
      BY <2>1, Usable
    <2>4. Holds(mp_div_2d(reg, a, d, q, r),
                [s \in Regs |-> IF s = r THEN Remainder(val[a], 2 ^ d)
                                ELSE IF s = q THEN Quotient(val[a], 2 ^ d) ELSE val[s]])
      BY <2>1, <2>2, <2>3, BothPartsAre
    <2> QED BY <2>1, <2>4, CallIs
  <1>18. CASE Sqr
    <2>1. PICK a \in Regs, c \in Regs :
              Call("mp_sqr", mp_sqr(reg, a, c), [val EXCEPT ![c] = val[a] * val[a]])
      BY <1>18 DEF Sqr, Returns
    <2> QED BY <2>1, Usable, SqrRight, CallIs
  <1>19. CASE Div
    <2>1. PICK a \in Regs, b \in Regs, q \in OrNull, r \in OrNull :
              /\ q # r
              /\ IF val[b] = 0
                 THEN Call("mp_div", mp_div(reg, a, b, q, r), val)
                 ELSE Call("mp_div", mp_div(reg, a, b, q, r),
                           [s \in Regs |-> IF s = r THEN Remainder(val[a], val[b])
                                           ELSE IF s = q THEN Quotient(val[a], val[b]) ELSE val[s]])
      BY <1>19 DEF Div, ReturnsTwo
    <2>2. Holds(reg, val)
      BY <2>1, Usable
    <2>3. CASE val[b] = 0
      <3>1. mp_div(reg, a, b, q, r) = reg
        BY <2>1, <2>2, <2>3, DivRight
      <3>2. Call("mp_div", reg, val)
        BY <2>1, <2>3, <3>1
      <3> QED BY <2>2, <3>2, CallIs
    <2>4. CASE val[b] # 0
      <3> DEFINE h == mp_div(reg, a, b, q, r)
                 v == [s \in Regs |-> IF s = r THEN Remainder(val[a], val[b])
                                      ELSE IF s = q THEN Quotient(val[a], val[b]) ELSE val[s]]
      <3>1. Holds(h, v)
        BY <2>1, <2>2, <2>4, DivRight
      <3>2. Call("mp_div", h, v)
        BY <2>1, <2>4
      <3> HIDE DEF h, v
      <3> QED BY <3>1, <3>2, CallIs
    <2> QED BY <2>3, <2>4
  <1>20. CASE TwoExpt
    <2>1. PICK c \in Regs, k \in Shifts :
              Call("mp_2expt", mp_2expt(reg, c, k), [val EXCEPT ![c] = 2 ^ k])
      BY <1>20 DEF TwoExpt, Returns
    <2>2. k \in Nat /\ 0 \in Int /\ Magn(0) <= IntMax
      BY MpiCallsAssumption, MpiConversionsAssumption DEF Magn
    <2>3. Holds(reg, val)
      BY <2>1, Usable
    <2>4. Holds(mp_2expt(reg, c, k), [val EXCEPT ![c] = 2 ^ k])
      BY <2>2, <2>3, IntRight
    <2> QED BY <2>1, <2>4, CallIs
  <1>21. CASE Mod
    <2>1. PICK a \in Regs, m \in Regs, c \in Regs :
              /\ val[m] # 0 /\ (c = m => val[a] >= 0 \/ val[m] < 0)
              /\ Call("mp_mod", mp_mod(reg, a, m, c),
                      [val EXCEPT ![c] = IF val[m] < 0 THEN val[c] ELSE val[a] % val[m]])
      BY <1>21 DEF Mod, Returns
    <2>2. Holds(reg, val)
      BY <2>1, Usable
    <2>3. Holds(mp_mod(reg, a, m, c),
                [val EXCEPT ![c] = IF val[m] < 0 THEN val[c] ELSE val[a] % val[m]])
      BY <2>1, <2>2, ModRight
    <2> QED BY <2>1, <2>3, CallIs
  <1>22. CASE AddMod
    <2>1. PICK a \in Regs, b \in Regs, m \in Regs, c \in Regs :
              /\ val[m] > 0 /\ c # m
              /\ Call("mp_addmod", mp_addmod(reg, a, b, m, c),
                      [val EXCEPT ![c] = (val[a] + val[b]) % val[m]])
      BY <1>22 DEF AddMod, Returns
    <2>2. Holds(reg, val)
      BY <2>1, Usable
    <2>3. Holds(mp_addmod(reg, a, b, m, c), [val EXCEPT ![c] = (val[a] + val[b]) % val[m]])
      BY <2>1, <2>2, ModularRight
    <2> QED BY <2>1, <2>3, CallIs
  <1>23. CASE SubMod
    <2>1. PICK a \in Regs, b \in Regs, m \in Regs, c \in Regs :
              /\ val[m] > 0 /\ c # m
              /\ Call("mp_submod", mp_submod(reg, a, b, m, c),
                      [val EXCEPT ![c] = (val[a] - val[b]) % val[m]])
      BY <1>23 DEF SubMod, Returns
    <2>2. Holds(reg, val)
      BY <2>1, Usable
    <2>3. Holds(mp_submod(reg, a, b, m, c), [val EXCEPT ![c] = (val[a] - val[b]) % val[m]])
      BY <2>1, <2>2, ModularRight
    <2> QED BY <2>1, <2>3, CallIs
  <1>24. CASE MulMod
    <2>1. PICK a \in Regs, b \in Regs, m \in Regs, c \in Regs :
              /\ val[m] > 0 /\ c # m
              /\ Call("mp_mulmod", mp_mulmod(reg, a, b, m, c),
                      [val EXCEPT ![c] = (val[a] * val[b]) % val[m]])
      BY <1>24 DEF MulMod, Returns
    <2>2. Holds(reg, val)
      BY <2>1, Usable
    <2>3. Holds(mp_mulmod(reg, a, b, m, c), [val EXCEPT ![c] = (val[a] * val[b]) % val[m]])
      BY <2>1, <2>2, ModularRight
    <2> QED BY <2>1, <2>3, CallIs
  <1>25. CASE SqrMod
    <2>1. PICK a \in Regs, m \in Regs, c \in Regs :
              /\ val[m] > 0 /\ c # m
              /\ Call("mp_sqrmod", mp_sqrmod(reg, a, m, c),
                      [val EXCEPT ![c] = (val[a] * val[a]) % val[m]])
      BY <1>25 DEF SqrMod, Returns
    <2>2. Holds(reg, val)
      BY <2>1, Usable
    <2>3. Holds(mp_sqrmod(reg, a, m, c), [val EXCEPT ![c] = (val[a] * val[a]) % val[m]])
      BY <2>1, <2>2, SqrModRight
    <2> QED BY <2>1, <2>3, CallIs
  <1>26. CASE SetInt
    <2>1. PICK a \in Regs, c \in Regs :
              /\ Magn(val[a]) <= IntMax
              /\ Call("mp_set_int", Put(reg, c, mp_set_int(reg[c], val[a])),
                      [val EXCEPT ![c] = val[a]])
      BY <1>26 DEF SetInt, Returns
    <2>2. Holds(reg, val)
      BY <2>1, Usable
    <2>3. val[a] \in Int /\ 0 \in Nat
      BY <2>2 DEF Holds
    <2>4. Holds(Put(reg, c, mp_set_int(reg[c], val[a])), [val EXCEPT ![c] = val[a]])
      BY <2>1, <2>2, <2>3, IntRight
    <2> QED BY <2>1, <2>4, CallIs
  <1>27. CASE Bytes
    <2>1. PICK a \in Regs, c \in Regs :
              Call("mp_read_unsigned_bin",
                   Put(reg, c, mp_read_unsigned_bin(reg[c], mp_to_unsigned_bin(reg[a]))),
                   [val EXCEPT ![c] = Magn(val[a])])
      BY <1>27 DEF Bytes, Returns
    <2>2. Holds(reg, val)
      BY <2>1, Usable
    <2>3. Holds(Put(reg, c, mp_read_unsigned_bin(reg[c], mp_to_unsigned_bin(reg[a]))), [val EXCEPT ![c] = Magn(val[a])])
      BY <2>2, BytesRight
    <2> QED BY <2>1, <2>3, CallIs
  <1>28. CASE SignedBytes
    <2>1. PICK a \in Regs, c \in Regs :
              Call("mp_read_signed_bin",
                   Put(reg, c, mp_read_signed_bin(reg[c], mp_to_signed_bin(reg[a]))),
                   [val EXCEPT ![c] = val[a]])
      BY <1>28 DEF SignedBytes, Returns
    <2>2. Holds(reg, val)
      BY <2>1, Usable
    <2>3. Holds(Put(reg, c, mp_read_signed_bin(reg[c], mp_to_signed_bin(reg[a]))), [val EXCEPT ![c] = val[a]])
      BY <2>2, BytesRight
    <2> QED BY <2>1, <2>3, CallIs
  <1>29. CASE Text
    <2>1. PICK a \in Regs, c \in Regs, r \in Radixes :
              /\ mp_toradix(reg[a], r).minus \/ Head(mp_toradix(reg[a], r).digits) # Plus
              /\ Call("mp_read_radix",
                      Put(reg, c, mp_read_radix(reg[c], mp_toradix(reg[a], r), r)),
                      [val EXCEPT ![c] = val[a]])
      BY <1>29 DEF Text, Returns
    <2> DEFINE x == mp_read_radix(reg[c], mp_toradix(reg[a], r), r)
               h == Put(reg, c, x)
               n == val[a]
    <2>2. Holds(reg, val)
      BY <2>1, Usable
    <2>3. r \in 2 .. RADIX - 1
      BY MpiCallsAssumption
    <2>4. Right(x, n)
      BY <2>1, <2>2, <2>3, TextRight
    <2>5. h = [reg EXCEPT ![c] = x]
      BY DEF Put
    <2>6. Call("mp_read_radix", h, [val EXCEPT ![c] = n])
      BY <2>1
    <2> HIDE DEF x, h, n
    <2> QED BY <2>4, <2>5, <2>6, LastCall
  <1> QED
    BY <1>1, <1>2, <1>3, <1>4, <1>5, <1>6, <1>7, <1>8, <1>9, <1>10, <1>11, <1>12, <1>13,
       <1>14, <1>15, <1>16, <1>17, <1>18, <1>19, <1>20, <1>21, <1>22, <1>23, <1>24, <1>25,
       <1>26, <1>27, <1>28, <1>29
       DEF Arithmetic

\* It holds at the beginning,
LEMMA NumbersBegin == Begin => NumbersInv
  <1> SUFFICES ASSUME Begin PROVE NumbersInv
    OBVIOUS
  <1>1. /\ reg \in [Regs -> {Fresh(prec) : prec \in Nat \ {0}}]
        /\ val = [r \in Regs |-> 0] /\ overrun = {} /\ calls \in Nat
    BY DEF Begin
  <1>2. ASSUME NEW r \in Regs PROVE Good(reg[r], 0)
    <2>1. PICK prec \in Nat \ {0} : reg[r] = Fresh(prec)
      BY <1>1
    <2> QED BY <2>1, FreshIs
  <1>3. val \in [Regs -> Int] /\ \A r \in Regs : val[r] = 0
    BY <1>1
  <1>4. reg = [r \in Regs |-> reg[r]]
    BY <1>1
  <1>5. \A r \in Regs : Good(reg[r], val[r]) /\ Right(reg[r], val[r])
    BY <1>2, <1>3, GoodRight
  <1> QED BY <1>1, <1>3, <1>4, <1>5 DEF NumbersInv, Holds

\* and so always.
LEMMA NumbersAlways == ArithmeticSpec => []NumbersInv
  <1>1. NumbersInv /\ [Arithmetic]_vars => NumbersInv'
    <2> SUFFICES ASSUME NumbersInv, [Arithmetic]_vars PROVE NumbersInv'
      OBVIOUS
    <2>1. CASE Arithmetic
      BY <2>1, ArithmeticCall
    <2>2. CASE UNCHANGED vars
      BY <2>2 DEF vars, NumbersInv
    <2> QED BY <2>1, <2>2
  <1> QED BY <1>1, NumbersBegin, PTL DEF ArithmeticSpec

\* What is known of a right number.
LEMMA RightIs ==
  ASSUME NEW m, NEW n, Right(m, n)
  PROVE  /\ \E k \in Nat : m \in Mp(k)
         /\ Clean(m) /\ Top(m) /\ n \in Int /\ m.used \in Nat \ {0}
         /\ Above(m, 0) \in Nat /\ Above(m, 0) = Magn(n)
         /\ m.sign = IF n < 0 THEN NEG ELSE ZPOS
  <1>1. PICK k \in Nat : m \in Mp(k)
    BY DEF Right, Held
  <1>2. Above(m, 0) \in Nat /\ m.used \in Nat /\ m.used > 0
    BY <1>1, AboveFacts
  <1> QED BY <1>1, <1>2 DEF Right, Held

-----------------------------------------------------------------------------
(* What calls answer.                                                      *)

\* All but the size of the storage.
Alike(t, m) == t.sign = m.sign /\ t.used = m.used /\ t.dp = m.dp

\* A number written beyond its storage would be in order with more of it,
LEMMA WithStorage ==
  ASSUME NEW m, NEW n, Right(m, n)
  PROVE  \E t : Good(t, n) /\ Alike(t, m)
  <1>1. PICK k \in Nat : m \in Mp(k)
    BY RightIs
  <1> DEFINE t == [m EXCEPT !.alloc = k]
  <1>2. /\ m.sign \in {ZPOS, NEG} /\ m.used \in 1 .. k /\ m.dp \in [0 .. k - 1 -> Digit]
        /\ m = [sign |-> m.sign, used |-> m.used, alloc |-> m.alloc, dp |-> m.dp]
    BY <1>1 DEF Mp
  <1>3. t = [sign |-> m.sign, used |-> m.used, alloc |-> k, dp |-> m.dp]
    BY <1>2
  <1> HIDE DEF t
  <1>4. k \in 1 .. k
    BY <1>2
  <1>5. t \in Mp(t.alloc) /\ t \in Mp(k) /\ t.sign = m.sign /\ t.used = m.used /\ t.dp = m.dp
    BY <1>2, <1>3, <1>4 DEF Mp
  <1>6. Tidy(t) /\ Top(t)
    BY <1>5, RightIs DEF Tidy, Clean, Top
  <1>7. Above(t, 0) = Above(m, 0)
    <2>1. Same(t, m)
      BY <1>5 DEF Same, DigitOf
    <2> QED BY <1>1, <1>5, <2>1, SameWorth
  <1> QED BY <1>5, <1>6, <1>7 DEF Right, Good, Alike

\* and what is told of it does not depend on that.
LEMMA ToldAlike ==
  ASSUME NEW t, NEW m, Alike(t, m)
  PROVE  /\ mp_to_unsigned_bin(t) = mp_to_unsigned_bin(m)
         /\ mp_unsigned_bin_size(t) = mp_unsigned_bin_size(m)
         /\ \A r : mp_toradix(t, r) = mp_toradix(m, r)
         /\ \A r : mp_radix_size(t, r) = mp_radix_size(m, r)
  <1>1. t.sign = m.sign /\ t.used = m.used /\ t.dp = m.dp
    BY DEF Alike
  <1>2. IsZero(t) = IsZero(m) /\ mp_cmp_z(t) = mp_cmp_z(m)
    BY <1>1 DEF IsZero, s_mp_cmp_d, mp_cmp_z
  <1>3. mp_to_unsigned_bin(t) = mp_to_unsigned_bin(m)
    BY <1>1, <1>2 DEF mp_to_unsigned_bin
  <1>4. mp_unsigned_bin_size(t) = mp_unsigned_bin_size(m)
    BY <1>1, <1>2 DEF mp_unsigned_bin_size
  <1>5. Magnitude(t) = Magnitude(m)
    BY <1>1 DEF Magnitude, Copied, Stored
  <1>6. \A r : mp_toradix(t, r) = mp_toradix(m, r)
    BY <1>1, <1>2, <1>5 DEF mp_toradix
  <1>7. mp_count_bits(t) = mp_count_bits(m)
    BY <1>1 DEF mp_count_bits
  <1>8. \A r : mp_radix_size(t, r) = mp_radix_size(m, r)
    BY <1>2, <1>7 DEF mp_radix_size
  <1> QED BY <1>3, <1>4, <1>6, <1>8

\* A digit has as many bits as it takes.
LEMMA BitsOfDigitAre ==
  ASSUME NEW d \in Nat, d < RADIX, NEW c, c = BitsOfDigit(d)
  PROVE  c \in 0 .. DigitBit /\ c \in Nat /\ d < 2 ^ c
  <1> DEFINE n == DigitBit - 1
             S == {i \in 0 .. n : d \div 2 ^ i > 0}
  <1>1. n \in Nat /\ n + 1 = DigitBit /\ DigitBit \in Nat
    BY MpiAssumption
  <1>2. CASE d = 0
    <2>1. c = 0
      BY <1>2 DEF BitsOfDigit
    <2>2. c \in 0 .. DigitBit /\ c \in Nat
      BY <1>1, <2>1
    <2>3. 2 ^ c = 1
      BY <2>1
    <2>4. d < 2 ^ c
      BY <1>2, <2>3
    <2> QED BY <2>2, <2>4
  <1>3. CASE d # 0
    <2>1. 0 \in S
      <3>1. 2 ^ 0 = 1 /\ d \div 1 = d /\ d > 0
        BY <1>3
      <3> QED BY <1>1, <3>1
    <2>2. c = 1 + Max(S)
      BY <1>3 DEF BitsOfDigit
    <2>3. S \in SUBSET (0 .. n)
      OBVIOUS
    <2>4. \A i \in 0 .. n : i \notin S => d \div 2 ^ i <= 0
      <3> SUFFICES ASSUME NEW i \in 0 .. n, i \notin S PROVE d \div 2 ^ i <= 0
        OBVIOUS
      <3> DEFINE w == 2 ^ i
      <3>1. w \in Nat /\ w > 0
        <4>1. i \in Nat
          BY <1>1
        <4> QED BY <4>1, TwoTo
      <3>2. ~ d \div w > 0
        OBVIOUS
      <3> HIDE DEF w
      <3>3. d \div w \in Nat
        BY <3>1
      <3>4. d \div w <= 0
        BY <3>2, <3>3
      <3> QED BY <3>4 DEF w
    <2> HIDE DEF S, n
    <2>5. Max(S) \in S /\ \A i \in S : i <= Max(S)
      BY <1>1, <2>1, <2>3, Greatest
    <2> DEFINE t == Max(S)
    <2> HIDE DEF t
    <2>6. t \in 0 .. n /\ c = 1 + t /\ \A i \in S : i <= t
      BY <2>2, <2>3, <2>5 DEF t
    <2>7. c \in 0 .. DigitBit /\ c \in Nat
      BY <1>1, <2>6
    <2>8. d < 2 ^ c
      <3>1. CASE c = DigitBit
        BY <3>1 DEF RADIX
      <3>2. CASE c # DigitBit
        <4>1. c \in 0 .. n /\ ~ c <= t
          BY <1>1, <2>6, <2>7, <3>2
        <4>2. d \div 2 ^ c <= 0
          BY <2>4, <2>6, <4>1
        <4> DEFINE w == 2 ^ c
                   q == d \div w
                   e == d % w
        <4>3. w \in Nat /\ w > 0
          BY <2>7, TwoTo
        <4>4. q <= 0
          BY <4>2
        <4> HIDE DEF w
        <4>5. q \in Nat /\ e \in Nat /\ e < w /\ d = w * q + e
          BY <4>3
        <4> HIDE DEF q, e
        <4>6. q = 0 /\ w * 0 = 0
          BY <4>3, <4>4, <4>5
        <4>7. d < w
          BY <4>5, <4>6
        <4> QED BY <4>7 DEF w
      <3> QED BY <3>1, <3>2
    <2> QED BY <2>7, <2>8
  <1> QED BY <1>2, <1>3

\* mp_count_bits counts the bits that the magnitude takes.
LEMMA BitsCounted ==
  ASSUME NEW m, NEW n, Right(m, n), NEW bits, bits = mp_count_bits(m)
  PROVE  bits \in Nat /\ Magn(n) < 2 ^ bits
  <1> DEFINE A == Above(m, 0)
             u == m.used
             lead == m.dp[m.used - 1]
             c == BitsOfDigit(lead)
             P == Pow(u - 1)
             w == 2 ^ c
  <1>1. PICK k \in Nat : m \in Mp(k)
    BY RightIs
  <1>2. A = Magn(n) /\ A \in Nat /\ u \in Nat
    BY RightIs
  <1>3. u - 1 \in Nat /\ lead \in Nat /\ lead < RADIX /\ Above(m, u - 1) = lead
    BY <1>1, LeadingIs
  <1>4. P \in Nat /\ P > 0
    BY <1>3, PowIs
  <1>5. PICK low \in Nat : low < P /\ A = low + P * lead
    BY <1>1, <1>3, CutAt
  <1> HIDE DEF lead
  <1>6. c \in Nat /\ lead < w
    BY <1>3, BitsOfDigitAre
  <1>7. w \in Nat
    BY <1>6, TwoTo
  <1>8. bits = DigitBit * (u - 1) + c
    BY DEF mp_count_bits, lead
  <1> DEFINE e == DigitBit * (u - 1)
  <1>9. e \in Nat
    <2>1. DigitBit \in Nat
      BY MpiAssumption
    <2> QED BY <1>3, <2>1
  <1>10. P = 2 ^ e
    BY DEF Pow
  <1> HIDE DEF c, e
  <1>11. 2 ^ (e + c) = 2 ^ e * 2 ^ c
    BY <1>6, <1>9, TwoSums
  <1>12. bits \in Nat /\ 2 ^ bits = P * w
    <2>1. bits = e + c
      BY <1>8 DEF e
    <2> QED BY <1>6, <1>9, <1>10, <1>11, <2>1
  <1> HIDE DEF P, w, A
  <1>13. P * (lead + 1) <= P * w /\ P * (lead + 1) = P * lead + P
    <2>1. \A s, t \in Nat : (s <= t => P * s <= P * t) /\ P * (s + 1) = P * s + P
      BY <1>4
    <2>2. lead + 1 \in Nat /\ lead + 1 <= w
      BY <1>3, <1>6, <1>7
    <2> QED BY <1>3, <1>7, <2>1, <2>2
  <1>14. P * lead \in Nat /\ P * w \in Nat
    BY <1>3, <1>4, <1>7
  <1>15. A < P * w
    BY <1>4, <1>5, <1>13, <1>14
  <1> QED BY <1>2, <1>12, <1>15

\* Powers of sums are products.
LEMMA PowersSum ==
  ASSUME NEW r \in Nat, r > 0, NEW P, P = Powers(r)
  PROVE  \A a, b \in Nat : P[a + b] = P[a] * P[b]
  <1>1. P[0] = 1 /\ \A n \in Nat : P[n] \in Nat /\ P[n] > 0 /\ P[n + 1] = r * P[n]
    BY PowersAre
  <1> SUFFICES ASSUME NEW a \in Nat PROVE \A b \in Nat : P[a + b] = P[a] * P[b]
    OBVIOUS
  <1> DEFINE T == {b \in Nat : P[a + b] = P[a] * P[b]}
  <1>2. 0 \in T
    <2>1. a + 0 = a /\ P[a] * 1 = P[a]
      BY <1>1
    <2> QED BY <1>1, <2>1
  <1>3. ASSUME NEW b \in T PROVE b + 1 \in T
    <2> DEFINE q == a + b
               x == P[a]
               y == P[b]
    <2>1. b \in Nat /\ P[q] = x * y /\ q \in Nat /\ a + (b + 1) = q + 1
      OBVIOUS
    <2>2. P[q + 1] = r * P[q] /\ P[b + 1] = r * y /\ x \in Nat /\ y \in Nat
      BY <1>1, <2>1
    <2> HIDE DEF q, x, y
    <2>3. r * (x * y) = x * (r * y)
      <3>1. \A i, j, k \in Nat : i * (j * k) = j * (i * k)
        OBVIOUS
      <3> QED BY <2>2, <3>1
    <2>4. P[q + 1] = x * P[b + 1]
      <3>1. P[q + 1] = r * (x * y)
        BY <2>1, <2>2
      <3> QED BY <2>2, <2>3, <3>1
    <2>5. P[a + (b + 1)] = x * P[b + 1] /\ b + 1 \in Nat
      BY <2>1, <2>4
    <2> QED BY <2>5 DEF x
  <1>4. T \in SUBSET Nat
    OBVIOUS
  <1> HIDE DEF T
  <1>5. T = Nat
    BY <1>2, <1>3, <1>4, Induction
  <1> QED BY <1>5 DEF T

\* The greater the exponent the greater the power.
LEMMA PowersGrow ==
  ASSUME NEW r \in Nat, r > 0, NEW P, P = Powers(r), NEW a \in Nat, NEW b \in Nat, a <= b
  PROVE  P[a] <= P[b] /\ P[a] \in Nat /\ P[b] \in Nat
  <1> DEFINE c == b - a
  <1>1. c \in Nat /\ b = a + c
    OBVIOUS
  <1> HIDE DEF c
  <1>2. P[b] = P[a] * P[c]
    <2>1. \A x, y \in Nat : P[x + y] = P[x] * P[y]
      BY ONLY PowersSum, r \in Nat, r > 0, P = Powers(r)
    <2> QED BY ONLY <1>1, <2>1, a \in Nat
  <1>3. P[a] \in Nat /\ P[c] \in Nat /\ P[c] > 0
    BY <1>1, PowersAre
  <1>4. \A x, y \in Nat : y > 0 => x <= x * y /\ x * y \in Nat
    OBVIOUS
  <1> QED BY <1>2, <1>3, <1>4

\* s_mp_outlen finds a number of digits: one more is enough for as many bits.
LEMMA OutlenIs ==
  ASSUME NEW r \in Nat, r > 1, NEW bits \in Nat, NEW n, n = s_mp_outlen(bits, r)
  PROVE  n \in Nat /\ 2 ^ bits <= Powers(r)[n + 1]
  <1> DEFINE P == Powers(r)
             w == 2 ^ bits
             top == 2 ^ (2 * bits) * r
             fits(i) == P[2 * i] <= top
             T == {i \in 0 .. bits : fits(i)}
  <1>1. P[0] = 1 /\ \A i \in Nat : P[i] \in Nat /\ P[i] > 0 /\ P[i + 1] = r * P[i]
    BY PowersAre
  <1>2. w \in Nat /\ w > 0 /\ 2 * bits \in Nat
    BY TwoTo
  <1>3. 2 ^ (2 * bits) = w * w
    <2>1. 2 * bits = bits + bits
      OBVIOUS
    <2> QED BY <2>1, TwoSums
  <1>4. top \in Nat /\ top >= w * w /\ w * w \in Nat
    <2>1. \A x \in Nat : x * r \in Nat /\ x * r >= x
      OBVIOUS
    <2>2. w * w \in Nat
      BY <1>2
    <2> QED BY <1>3, <2>1, <2>2
  <1>5. fits(0)
    <2>1. 2 * 0 = 0
      OBVIOUS
    <2>2. w * w >= 1
      <3>1. \A x \in Nat : x > 0 => x * x >= 1
        OBVIOUS
      <3> QED BY <1>2, <3>1
    <2> QED BY <1>1, <1>4, <2>1, <2>2
  <1>6. ~ fits(bits + 1)
    <2> DEFINE e == 2 * bits
               y == P[e]
               z == 2 ^ e
    <2>1. 2 * (bits + 1) = (e + 1) + 1 /\ e \in Nat /\ e + 1 \in Nat
      OBVIOUS
    <2>2. y \in Nat /\ P[e + 1] = r * y /\ P[(e + 1) + 1] = r * P[e + 1]
      BY <1>1, <2>1
    <2>3. z <= y
      BY <2>1, PowersOver
    <2>4. z \in Nat /\ z > 0
      BY <2>1, TwoTo
    <2>5. \A i, j \in Nat : i > 0 /\ i <= j => i * r < r * (r * j) /\ r * (r * j) \in Nat
      OBVIOUS
    <2> HIDE DEF y, z, e
    <2>6. z * r < r * (r * y)
      BY <2>2, <2>3, <2>4, <2>5
    <2>7. top = z * r
      BY DEF z, e
    <2> HIDE DEF top, P
    <2>8. P[2 * (bits + 1)] = r * (r * y)
      BY <2>1, <2>2
    <2>9. r * (r * y) \in Nat /\ z * r \in Nat
      BY <2>2, <2>4
    <2> QED BY <2>6, <2>7, <2>8, <2>9
  <1> HIDE DEF fits
  <1>7. \E i \in 0 .. bits : fits(i) /\ ~ fits(i + 1)
    <2> SUFFICES ASSUME \A i \in 0 .. bits : fits(i) => fits(i + 1) PROVE FALSE
      OBVIOUS
    <2> DEFINE S == {i \in Nat : i <= bits => fits(i)}
    <2>1. 0 \in S
      BY <1>5
    <2>2. ASSUME NEW i \in S PROVE i + 1 \in S
      <3>1. i + 1 <= bits => i \in 0 .. bits /\ i <= bits
        OBVIOUS
      <3> QED BY <3>1
    <2>3. S \in SUBSET Nat
      OBVIOUS
    <2> HIDE DEF S
    <2>4. S = Nat
      BY <2>1, <2>2, <2>3, Induction
    <2>5. fits(bits) /\ bits \in 0 .. bits
      BY <2>4 DEF S
    <2> QED BY <1>6, <2>5
  <1>8. n \in 0 .. bits /\ fits(n) /\ ~ fits(n + 1)
    <2>1. n = CHOOSE i \in 0 .. bits : fits(i) /\ ~ fits(i + 1)
      BY DEF s_mp_outlen, fits
    <2> QED BY <1>7, <2>1
  <1>9. n \in Nat /\ n + 1 \in Nat
    BY <1>8
  <1> DEFINE x == P[n + 1]
  <1>10. P[2 * (n + 1)] = x * x /\ x \in Nat
    <2> DEFINE q == n + 1
    <2>1. 2 * q = q + q /\ q \in Nat
      BY <1>9
    <2> HIDE DEF q
    <2>2. P[q + q] = P[q] * P[q]
      <3>1. \A a, b \in Nat : P[a + b] = P[a] * P[b]
        BY PowersSum
      <3> HIDE DEF P
      <3> QED BY <2>1, <3>1
    <2>3. P[q] \in Nat
      BY <1>1, <2>1
    <2>4. P[2 * q] = P[q] * P[q]
      BY <2>1, <2>2
    <2> QED BY <2>3, <2>4 DEF q
  <1>11. ~ x * x <= top
    BY <1>8, <1>10 DEF fits
  <1> HIDE DEF x, w, top
  <1>12. x * x \in Nat
    BY <1>10
  <1>13. w * w < x * x
    BY <1>4, <1>11, <1>12
  <1>14. \A i, j \in Nat : i * i < j * j => i <= j
    <2> SUFFICES ASSUME NEW i \in Nat, NEW j \in Nat, i > j PROVE ~ i * i < j * j
      OBVIOUS
    <2>1. j * j <= i * j /\ i * j <= i * i /\ j * j \in Nat /\ i * j \in Nat /\ i * i \in Nat
      OBVIOUS
    <2> QED BY <2>1
  <1>15. w <= x
    BY <1>2, <1>10, <1>13, <1>14
  <1> QED BY <1>9, <1>15 DEF w, x

\* The characters of a text are no more than mp_radix_size says, the NUL not counted.
LEMMA TextFits ==
  ASSUME NEW m, NEW n, Right(m, n), NEW r \in 2 .. RADIX - 1,
         NEW str, TextIs(str, n, r)
  PROVE  Len(str.digits) + (IF str.minus THEN 1 ELSE 0) <= mp_radix_size(m, r)
  <1> DEFINE P == Powers(r)
             A == Magn(n)
             k == Len(str.digits)
             bits == mp_count_bits(m)
             len == s_mp_outlen(bits, r)
             sgn == IF n < 0 THEN 1 ELSE 0
  <1>1. r \in Nat /\ r > 1 /\ r > 0
    OBVIOUS
  <1>2. n \in Int /\ A \in Nat /\ bits \in Nat /\ A < 2 ^ bits
    BY RightIs, BitsCounted DEF Magn
  <1>3. /\ str.minus <=> n < 0
        /\ k \in Nat /\ k > 0
        /\ A > 0 => P[k - 1] <= A
        /\ A = 0 => k = 1
    BY DEF TextIs
  <1>4. len \in Nat /\ 2 ^ bits <= P[len + 1]
    <2> HIDE DEF bits, P
    <2>1. len \in Nat /\ 2 ^ bits <= Powers(r)[len + 1]
      BY <1>1, <1>2, OutlenIs
    <2> QED BY <2>1 DEF P
  <1>5. mp_radix_size(m, r) = len + 1 + sgn
    <2>1. mp_cmp_z(m) < 0 <=> n < 0
      BY <1>2, GoodSign DEF Sgn
    <2> QED BY <2>1 DEF mp_radix_size
  <1>6. \A i \in Nat : P[i] \in Nat
    BY <1>1, PowersAre
  <1>7. 2 ^ bits \in Nat
    BY <1>2, TwoTo
  <1>8. k <= len + 1
    <2>1. CASE A = 0
      <3> HIDE DEF A, k, len, P, bits
      <3>1. k = 1 /\ 1 <= len + 1
        BY <1>3, <1>4, <2>1
      <3> QED BY <3>1
    <2>2. CASE A > 0
      <3> SUFFICES ASSUME k > len + 1 PROVE FALSE
        BY <1>3, <1>4
      <3> DEFINE a == len + 1
                 b == k - 1
      <3>1. a \in Nat /\ b \in Nat /\ a <= b
        BY <1>3, <1>4
      <3>2. P[b] <= A
        BY <1>3, <2>2
      <3>3. 2 ^ bits <= P[a]
        BY <1>4
      <3> HIDE DEF a, b, A, k, len, bits
      <3>4. P[a] <= P[b] /\ P[a] \in Nat /\ P[b] \in Nat
        BY <1>1, <3>1, PowersGrow
      <3> HIDE DEF P
      <3> QED BY <1>2, <1>7, <3>2, <3>3, <3>4
    <2> QED BY <1>2, <2>1, <2>2
  <1>9. (IF str.minus THEN 1 ELSE 0) = sgn /\ sgn \in Nat
    BY <1>3
  <1> DEFINE minus == IF str.minus THEN 1 ELSE 0
             size == mp_radix_size(m, r)
  <1> HIDE DEF k, len, sgn, minus, size
  <1>10. k \in Nat /\ len \in Nat /\ k <= len + 1 /\ minus = sgn /\ sgn \in Nat
         /\ size = len + 1 + sgn
    BY <1>3, <1>4, <1>5, <1>8, <1>9 DEF minus, size
  <1>11. k + minus <= size
    BY ONLY <1>10
  <1> QED BY <1>11 DEF k, minus, size

\* mp_cmp orders numbers as their values.
LEMMA ComparedAs ==
  ASSUME NEW a, NEW m, Right(a, m), NEW b, NEW n, Right(b, n)
  PROVE  mp_cmp(a, b) = Sgn(m - n)
  <1>1. PICK k \in Nat : a \in Mp(k)
    BY RightIs
  <1>2. PICK l \in Nat : b \in Mp(l)
    BY RightIs
  <1>3. /\ Top(a) /\ m \in Int /\ Above(a, 0) \in Nat /\ Above(a, 0) = Magn(m)
        /\ a.sign = (IF m < 0 THEN 1 ELSE 0)
        /\ Top(b) /\ n \in Int /\ Above(b, 0) \in Nat /\ Above(b, 0) = Magn(n)
        /\ b.sign = (IF n < 0 THEN 1 ELSE 0)
    BY RightIs DEF ZPOS, NEG
  <1>4. s_mp_cmp(a, b) = Sgn(Magn(m) - Magn(n))
    BY <1>1, <1>2, <1>3, CmpIs
  <1> QED BY <1>3, <1>4 DEF mp_cmp, Sgn, Magn, ZPOS

\* mp_cmp_int compares with the integer.
LEMMA ComparedWithInt ==
  ASSUME NEW m, NEW n, Right(m, n), NEW z \in Int, Magn(z) <= IntMax
  PROVE  mp_cmp_int(m, z) = Sgn(n - z)
  <1> DEFINE x == mp_set_int(mp_init, z)
  <1>1. Tidy(mp_init)
    <2>1. DefPrec \in Nat \ {0}
      BY MpiAssumption
    <2> QED BY <2>1, FreshIs DEF mp_init, Good
  <1>2. Good(x, z)
    BY <1>1, SetIntIs
  <1> HIDE DEF x
  <1>3. Right(x, z)
    BY <1>2, GoodHeld
  <1>4. mp_cmp(m, x) = Sgn(n - z)
    BY <1>3, ComparedAs
  <1> QED BY <1>4 DEF mp_cmp_int, x

\* A number and its lowest digit leave the same remainder by a power of two in a digit.
LEMMA LowDigitRemainder ==
  ASSUME NEW k \in Nat, NEW m \in Mp(k), NEW p \in 0 .. DigitBit - 1
  PROVE  m.dp[0] % 2 ^ p = Above(m, 0) % 2 ^ p
  <1> DEFINE e == 2 ^ p
             f == 2 ^ (DigitBit - p)
             g == Above(m, 1)
             d == m.dp[0]
             q == d \div e
             s == d % e
  <1>1. p \in 0 .. DigitBit
    BY MpiAssumption
  <1>2. e \in Nat /\ e > 0 /\ f \in Nat /\ e * f = RADIX
    BY <1>1, Parts
  <1>3. Above(m, 0) = DigitOf(m, 0) + RADIX * Above(m, 0 + 1) /\ 0 \in Nat
    BY AboveUnfolds
  <1>4. DigitOf(m, 0) = d /\ d \in Nat
    BY MpFacts DEF DigitOf
  <1>5. g \in Nat
    <2>1. 1 \in Nat
      OBVIOUS
    <2> QED BY <2>1, AboveFacts
  <1>6. Above(m, 0) = d + RADIX * g
    BY <1>3, <1>4
  <1> HIDE DEF e, f, g, d
  <1>7. q \in Nat /\ s \in Nat /\ s < e /\ d = e * q + s
    BY <1>2, <1>4
  <1> HIDE DEF q, s
  <1>8. RADIX * g = e * (f * g) /\ e * (q + f * g) = e * q + e * (f * g) /\ q + f * g \in Nat
    <2>1. \A x, y, z, t \in Nat : /\ (x * y) * z = x * (y * z)
                                  /\ x * (t + y * z) = x * t + x * (y * z)
                                  /\ t + y * z \in Nat
      OBVIOUS
    <2>2. (e * f) * g = e * (f * g)
      BY <1>2, <1>5, <2>1
    <2>3. e * (q + f * g) = e * q + e * (f * g) /\ q + f * g \in Nat
      BY <1>2, <1>5, <1>7, <2>1
    <2> QED BY <1>2, <2>2, <2>3
  <1> DEFINE w == q + f * g
             x == Above(m, 0)
  <1>9. x = e * w + s
    <2>1. e * q \in Nat /\ e * (f * g) \in Nat
      BY <1>2, <1>5, <1>7
    <2> QED BY <1>6, <1>7, <1>8, <2>1
  <1>10. w \in Nat
    BY <1>8
  <1> HIDE DEF w, x
  <1>11. x % e = s
    BY <1>2, <1>7, <1>9, <1>10, Divides
  <1>12. d % e = s
    BY <1>2, <1>7, Divides
  <1> QED BY <1>11, <1>12 DEF x, d, e

\* mp_mod_d is the remainder, of a number that is not negative nor the digit itself.
LEMMA RemainderByDigit ==
  ASSUME NEW h, NEW a \in Regs, NEW n, Right(h[a], n), n >= 0,
         NEW d \in Digit, d # 0, d # n
  PROVE  mp_mod_d(h, a, d) = n % d
  <1> DEFINE m == h[a]
             pow == s_mp_ispow2d(d)
  <1>1. d \in Nat /\ d > 0
    BY RadixIs
  <1>2. PICK k \in Nat : m \in Mp(k)
    BY RightIs
  <1>3. Held(m) /\ Top(m) /\ n \in Nat /\ Above(m, 0) = n /\ m.sign = ZPOS
    <2>1. n \in Int /\ Above(m, 0) = Magn(n) /\ m.sign = IF n < 0 THEN NEG ELSE ZPOS
      BY RightIs
    <2>2. n \in Nat /\ Magn(n) = n /\ ~ n < 0
      BY <2>1 DEF Magn
    <2> QED BY <2>1, <2>2 DEF Right
  <1>4. s_mp_cmp_d(m, d) = Sgn(n - d)
    BY <1>2, <1>3, CmpDigitIs
  <1>5. CASE n > d
    <2>1. mp_mod_d(h, a, d) = mp_div_d(h, a, d, a).r
      <3>1. s_mp_cmp_d(m, d) > 0
        BY <1>1, <1>3, <1>4, <1>5 DEF Sgn
      <3> QED BY <3>1 DEF mp_mod_d
    <2>2. CASE pow >= 0
      <3>1. \E i \in 0 .. DigitBit - 1 : d = 2 ^ i
        BY <2>2 DEF s_mp_ispow2d
      <3>2. pow = CHOOSE i \in 0 .. DigitBit - 1 : d = 2 ^ i
        BY <3>1 DEF s_mp_ispow2d
      <3>3. mp_div_d(h, a, d, a).r = m.dp[0] % 2 ^ pow
        BY <1>1, <2>2 DEF mp_div_d
      <3> HIDE DEF pow
      <3>4. pow \in 0 .. DigitBit - 1 /\ d = 2 ^ pow
        BY <3>1, <3>2
      <3>5. m.dp[0] % 2 ^ pow = Above(m, 0) % 2 ^ pow
        BY <1>2, <3>4, LowDigitRemainder
      <3> QED BY <1>3, <2>1, <3>3, <3>4, <3>5
    <2>3. CASE ~ pow >= 0
      <3>1. mp_div_d(h, a, d, a).r = s_mp_div_d(m, d).r
        BY <1>1, <2>3 DEF mp_div_d
      <3> HIDE DEF m, pow
      <3>2. s_mp_div_d(m, d).r = Above(m, 0) % d
        BY <1>1, <1>3, DividedByDigitHeld
      <3> QED BY <1>3, <2>1, <3>1, <3>2
    <2> QED BY <2>2, <2>3
  <1>6. CASE n < d
    <2>1. s_mp_cmp_d(m, d) = -1
      BY <1>1, <1>3, <1>4, <1>6 DEF Sgn
    <2>2. m.used \in Nat /\ m.used > 0 /\ ~ m.used > 1
      <3>1. ~ m.used > 1
        BY <2>1 DEF s_mp_cmp_d
      <3> QED BY <3>1, RightIs
    <2>3. m.used - 1 = 0 /\ Above(m, m.used - 1) = m.dp[m.used - 1]
      BY <1>2, <2>2, LeadingIs
    <2>4. m.dp[0] = n
      BY <1>3, <2>3
    <2>5. mp_mod_d(h, a, d) = n
      BY <1>3, <2>1, <2>4 DEF mp_mod_d, ZPOS, NEG
    <2>6. n % d = n
      <3>1. \A x, y \in Nat : x < y => x % y = x
        OBVIOUS
      <3> QED BY <1>1, <1>3, <1>6, <3>1
    <2> QED BY <2>5, <2>6
  <1> QED BY <1>1, <1>3, <1>5, <1>6

-----------------------------------------------------------------------------
(* The theorems.                                                           *)

\* Whatever calls are made, the mp_ints keep their shape.
THEOREM NumbersTyped == ArithmeticSpec => []TypeOK
  <1>1. NumbersInv => TypeOK
    <2> SUFFICES ASSUME NumbersInv PROVE TypeOK
      OBVIOUS
    <2>1. ASSUME NEW r \in Regs
          PROVE  /\ reg[r].sign \in {ZPOS, NEG}
                 /\ reg[r].alloc \in Nat \ {0} /\ reg[r].used \in Nat \ {0}
                 /\ 0 .. reg[r].alloc - 1 \subseteq DOMAIN reg[r].dp
                 /\ 0 .. reg[r].used - 1 \subseteq DOMAIN reg[r].dp
                 /\ \A i \in DOMAIN reg[r].dp : reg[r].dp[i] \in 0 .. RADIX - 1
      <3> DEFINE m == reg[r]
      <3>1. Right(m, val[r])
        BY DEF NumbersInv
      <3> HIDE DEF m
      <3>2. PICK k \in Nat : m \in Mp(k)
        BY <3>1, RightIs
      <3>3. /\ m.sign \in {ZPOS, NEG} /\ m.alloc \in 1 .. k /\ m.used \in 1 .. k
            /\ m.dp \in [0 .. k - 1 -> Digit]
        BY <3>2 DEF Mp
      <3>4. DOMAIN m.dp = 0 .. k - 1
        BY <3>3
      <3>5. 0 .. m.alloc - 1 \subseteq 0 .. k - 1 /\ 0 .. m.used - 1 \subseteq 0 .. k - 1
        BY <3>3
      <3>6. \A i \in DOMAIN m.dp : m.dp[i] \in 0 .. RADIX - 1
        BY <3>3 DEF Digit
      <3>7. m.alloc \in Nat \ {0} /\ m.used \in Nat \ {0}
        BY <3>3
      <3> QED BY <3>3, <3>4, <3>5, <3>6, <3>7 DEF m
    <2>2. val \in [Regs -> Int] /\ calls \in Nat
      BY DEF NumbersInv
    <2> QED BY <2>1, <2>2 DEF TypeOK
  <1> QED BY <1>1, NumbersAlways, PTL

\* Every call computes the sum, the difference, the product, ... that it is to compute,
\* whichever of its parameters are the same, and leaves the other numbers alone.
THEOREM CallsCompute == ArithmeticSpec => []Values
  <1>1. NumbersInv => Values
    <2> SUFFICES ASSUME NumbersInv, NEW r \in Regs PROVE Value(reg[r]) = val[r]
      BY DEF Values
    <2>1. Right(reg[r], val[r])
      BY DEF NumbersInv
    <2>2. /\ val[r] \in Int /\ reg[r].used \in Nat \ {0} /\ Above(reg[r], 0) = Magn(val[r])
          /\ reg[r].sign = IF val[r] < 0 THEN NEG ELSE ZPOS
      BY <2>1, RightIs
    <2>3. Worth(reg[r])[0] = Magn(val[r])
      BY <2>2 DEF Above
    <2> QED BY <2>2, <2>3 DEF Value, Magn, NEG, ZPOS
  <1> QED BY <1>1, NumbersAlways, PTL

\* No result begins with a zero digit, and no zero is negative.
THEOREM ResultsCanonical == ArithmeticSpec => []Canonical
  <1>1. NumbersInv => Canonical
    <2> SUFFICES ASSUME NumbersInv, NEW r \in Regs
                 PROVE  /\ reg[r].used > 1 => reg[r].dp[reg[r].used - 1] # 0
                        /\ IsZero(reg[r]) => reg[r].sign = ZPOS
      BY DEF Canonical
    <2>1. Right(reg[r], val[r])
      BY DEF NumbersInv
    <2>2. PICK k \in Nat : reg[r] \in Mp(k)
      BY <2>1, RightIs
    <2>3. Top(reg[r]) /\ val[r] \in Int /\ Above(reg[r], 0) = Magn(val[r])
      BY <2>1, RightIs
    <2>4. IsZero(reg[r]) <=> Above(reg[r], 0) = 0
      BY <2>2, <2>3, ZeroIs
    <2>5. reg[r].sign = IF val[r] < 0 THEN NEG ELSE ZPOS
      BY <2>1, RightIs
    <2>6. IsZero(reg[r]) => val[r] = 0
      BY <2>3, <2>4 DEF Magn
    <2> QED BY <2>3, <2>5, <2>6 DEF Top
  <1> QED BY <1>1, NumbersAlways, PTL

\* The storage above a number is clear at all times, so that it may grow into it.
THEOREM StorageClear == ArithmeticSpec => []CleanAbove
  <1>1. NumbersInv => CleanAbove
    BY DEF NumbersInv, Right, Held, Clean, CleanAbove
  <1> QED BY <1>1, NumbersAlways, PTL

\* Only a product with a digit may be written beyond the storage of its result.
THEOREM StorageSuffices == ArithmeticSpec => []OverrunOnlyTimesDigit
  <1>1. NumbersInv => OverrunOnlyTimesDigit
    BY DEF NumbersInv, OverrunOnlyTimesDigit
  <1> QED BY <1>1, NumbersAlways, PTL

\* The comparisons tell the order of the values from the digits, whatever storage
\* the calls before have left.
THEOREM ComparedRight == ArithmeticSpec => []Comparisons
  <1>1. NumbersInv => Comparisons
    <2> SUFFICES ASSUME NumbersInv, NEW r \in Regs, NEW s \in Regs
                 PROVE  /\ mp_cmp(reg[r], reg[s]) = Sgn(val[r] - val[s])
                        /\ s_mp_cmp(reg[r], reg[s]) = Sgn(Magn(val[r]) - Magn(val[s]))
                        /\ mp_cmp_z(reg[r]) = Sgn(val[r])
                        /\ \A d \in Digits : mp_cmp_d(reg[r], d) = Sgn(val[r] - d)
      BY DEF Comparisons
    <2>1. Right(reg[r], val[r]) /\ Right(reg[s], val[s])
      BY DEF NumbersInv
    <2> DEFINE a == reg[r]
               b == reg[s]
               m == val[r]
               n == val[s]
    <2>2. PICK k \in Nat : a \in Mp(k)
      BY <2>1, RightIs
    <2>3. PICK l \in Nat : b \in Mp(l)
      BY <2>1, RightIs
    <2>4. /\ Top(a) /\ m \in Int /\ Above(a, 0) \in Nat /\ Above(a, 0) = Magn(m)
          /\ a.sign = (IF m < 0 THEN 1 ELSE 0)
          /\ Top(b) /\ n \in Int /\ Above(b, 0) \in Nat /\ Above(b, 0) = Magn(n)
          /\ b.sign = (IF n < 0 THEN 1 ELSE 0)
      BY <2>1, RightIs DEF ZPOS, NEG
    <2> HIDE DEF a, b, m, n
    <2>5. s_mp_cmp(a, b) = Sgn(Magn(m) - Magn(n))
      BY <2>2, <2>3, <2>4, CmpIs
    <2>6. mp_cmp(a, b) = Sgn(m - n)
      BY <2>1, ComparedAs DEF a, b, m, n
    <2>7. Above(a, 0) = 0 <=> a.used = 1 /\ a.dp[0] = 0
      BY <2>2, <2>4, ZeroIs
    <2>8. mp_cmp_z(a) = Sgn(m)
      BY <2>4, <2>7 DEF mp_cmp_z, Sgn, Magn, NEG
    <2>9. ASSUME NEW d \in Digits PROVE mp_cmp_d(a, d) = Sgn(m - d)
      <3>1. d \in Digit /\ d \in Nat
        BY MpiCallsAssumption, RadixIs DEF Digit
      <3>2. s_mp_cmp_d(a, d) = Sgn(Above(a, 0) - d)
        BY <2>2, <2>4, <3>1, CmpDigitIs
      <3> QED BY <2>4, <3>1, <3>2 DEF mp_cmp_d, Sgn, Magn, NEG
    <2> QED BY <2>5, <2>6, <2>8, <2>9 DEF a, b, m, n
  <1> QED BY <1>1, NumbersAlways, PTL

\* Bytes and digits of text have room where the sizes say so, and comparisons with
\* integers and remainders by digits are those of the values.
THEOREM AnswersRight == ArithmeticSpec => []Answers
  <1>1. NumbersInv => Answers
    <2> SUFFICES ASSUME NumbersInv, NEW r \in Regs
                 PROVE  /\ Len(mp_to_unsigned_bin(reg[r])) = mp_unsigned_bin_size(reg[r])
                        /\ \A x \in Radixes :
                              LET str == mp_toradix(reg[r], x)
                                  text == Len(str.digits) + IF str.minus THEN 1 ELSE 0
                              IN  text <= mp_radix_size(reg[r], x)
                        /\ \A s \in Regs : Magn(val[s]) <= IntMax
                              => mp_cmp_int(reg[r], val[s]) = Sgn(val[r] - val[s])
                        /\ \A d \in Digits : val[r] >= 0 /\ d \notin {0, val[r]}
                              => mp_mod_d(reg, r, d) = val[r] % d
      BY DEF Answers
    <2> DEFINE m == reg[r]
               n == val[r]
    <2>1. Right(m, n)
      BY DEF NumbersInv
    <2>2. PICK t : Good(t, n) /\ Alike(t, m)
      BY <2>1, WithStorage
    <2>3. Len(mp_to_unsigned_bin(m)) = mp_unsigned_bin_size(m)
      <3> HIDE DEF m, n
      <3>1. Tidy(t) /\ Top(t)
        BY <2>2 DEF Good
      <3>2. Len(mp_to_unsigned_bin(t)) = mp_unsigned_bin_size(t)
        BY <3>1, WrittenIs
      <3> QED BY <2>2, <3>2, ToldAlike
    <2>4. ASSUME NEW x \in Radixes
          PROVE  Len(mp_toradix(m, x).digits) + (IF mp_toradix(m, x).minus THEN 1 ELSE 0)
                    <= mp_radix_size(m, x)
      <3> HIDE DEF m, n
      <3>1. x \in 2 .. RADIX - 1
        BY MpiCallsAssumption
      <3>2. TextIs(mp_toradix(t, x), n, x) /\ mp_toradix(t, x) = mp_toradix(m, x)
        BY <2>2, <3>1, ToRadixIs, ToldAlike
      <3> QED BY <2>1, <3>1, <3>2, TextFits
    <2>5. ASSUME NEW s \in Regs, Magn(val[s]) <= IntMax
          PROVE  mp_cmp_int(m, val[s]) = Sgn(n - val[s])
      <3>1. val[s] \in Int
        BY DEF NumbersInv
      <3> QED BY <2>1, <2>5, <3>1, ComparedWithInt
    <2>6. ASSUME NEW d \in Digits, n >= 0, d \notin {0, n}
          PROVE  mp_mod_d(reg, r, d) = n % d
      <3>1. d \in Digit
        BY MpiCallsAssumption DEF Digit
      <3> QED BY <2>1, <2>6, <3>1, RemainderByDigit
    <2> QED BY <2>3, <2>4, <2>5, <2>6
  <1> QED BY <1>1, NumbersAlways, PTL

=============================================================================
