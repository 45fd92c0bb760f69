--------------------------- MODULE PppauthProofs ---------------------------
(***************************************************************************)
(* The arithmetic of Passcards, for every length of the key stream; then,  *)
(* what pppauth prints answers the prompts, for every key, starting point  *)
(* and command line, and with logins running next to it.                   *)
(***************************************************************************)
EXTENDS Pppauth, SequenceTheorems, TLAPS

(* Quotient and remainder of a division by a literal, as linear facts.     *)
LEMMA Division ==
  ASSUME NEW n \in Nat
  PROVE  /\ n % 70 = n - 70 * (n \div 70) /\ n \div 70 \in Nat /\ n % 70 \in 0 .. 69
         /\ n % 16 = n - 16 * (n \div 16) /\ n \div 16 \in Nat /\ n % 16 \in 0 .. 15
         /\ n % 7 = n - 7 * (n \div 7) /\ n \div 7 \in Nat /\ n % 7 \in 0 .. 6
  <1>1. n % 70 = n - 70 * (n \div 70) /\ n \div 70 \in Nat /\ n % 70 \in 0 .. 69
    OBVIOUS
  <1>2. n % 16 = n - 16 * (n \div 16) /\ n \div 16 \in Nat /\ n % 16 \in 0 .. 15
    OBVIOUS
  <1>3. n % 7 = n - 7 * (n \div 7) /\ n \div 7 \in Nat /\ n % 7 \in 0 .. 6
    OBVIOUS
  <1> QED BY <1>1, <1>2, <1>3

(* currCode and calculatePasscodeNumberFromCardColRow are inverse to each  *)
(* other: every cell of every card is named by exactly one number.         *)
THEOREM CodesNameCells ==
  /\ \A card \in Nat, col \in 0 .. 6, row \in 0 .. 9 :
        Code(PasscodeNumber(card, col, row)) =
            [row |-> row + 1, col |-> col, card |-> card + 1]
  /\ \A n \in Nat :
        /\ Code(n) \in [row : 1 .. 10, col : 0 .. 6, card : Nat \ {0}]
        /\ PasscodeNumber(Code(n).card - 1, Code(n).col, Code(n).row - 1) = n
  <1>1. ASSUME NEW card \in Nat, NEW col \in 0 .. 6, NEW row \in 0 .. 9
        PROVE  Code(PasscodeNumber(card, col, row)) =
                   [row |-> row + 1, col |-> col, card |-> card + 1]
    <2> DEFINE n == card * 70 + row * 7 + col
    <2>1. n \in Nat /\ n \div 70 = card
      OBVIOUS
    <2>2. n - card * 70 = row * 7 + col
      OBVIOUS
    <2>3. (row * 7 + col) \div 7 = row /\ (row * 7 + col) % 7 = col
      OBVIOUS
    <2> QED BY <2>1, <2>2, <2>3 DEF Code, PasscodeNumber, CardContaining, CardSize
  <1>2. ASSUME NEW n \in Nat
        PROVE  /\ Code(n) \in [row : 1 .. 10, col : 0 .. 6, card : Nat \ {0}]
               /\ PasscodeNumber(Code(n).card - 1, Code(n).col, Code(n).row - 1) = n
    <2> DEFINE card == n \div 70
               rest == n - card * 70
    <2>1. card \in Nat /\ rest \in 0 .. 69
      OBVIOUS
    <2> HIDE DEF card, rest
    <2>2. rest \div 7 \in 0 .. 9 /\ rest % 7 \in 0 .. 6 /\ rest % 7 = rest - 7 * (rest \div 7)
      BY <2>1, Division
    <2>3. Code(n) = [row |-> rest \div 7 + 1, col |-> rest % 7, card |-> card + 1]
      BY DEF Code, CardContaining, CardSize, rest, card
    <2>4. n = card * 70 + rest
      BY <2>1 DEF rest
    <2> QED BY <2>1, <2>2, <2>3, <2>4 DEF PasscodeNumber
  <1> QED BY <1>1, <1>2

(* getNumPrintedCodesRemaining against the cards: pppWarning says that the *)
(* user is out of passcodes exactly when the next one is on no card yet,   *)
(* and mentions the last card or the last few only when it is on the last. *)
THEOREM RemainingCountsCards ==
  \A card \in Nat \cup {-1}, n \in Nat :
      LET rest == Remaining(card, n) IN
      /\ OutOfPasscodes(rest) <=> CardContaining(n) > card
      /\ OnLastCard(rest) \/ FewLeft(rest) <=> CardContaining(n) = card
  <1> SUFFICES ASSUME NEW card \in Nat \cup {-1}, NEW n \in Nat
               PROVE  LET rest == Remaining(card, n) IN
                      /\ OutOfPasscodes(rest) <=> CardContaining(n) > card
                      /\ OnLastCard(rest) \/ FewLeft(rest) <=> CardContaining(n) = card
    OBVIOUS
  <1>1. n % 70 = n - 70 * (n \div 70) /\ n \div 70 \in Nat /\ n % 70 \in 0 .. 69
    BY Division
  <1> QED BY <1>1 DEF Remaining, OutOfPasscodes, OnLastCard, FewLeft, CardContaining, CardSize

-----------------------------------------------------------------------------
(* The key stream.                                                         *)

(* One turn around the modulus.                                            *)
Wrapped(v) == IF v < Modulus THEN v ELSE v - Modulus

\* Byte a of the key stream.
StreamByte(a) == <<Wrapped(KeyOffset + a \div 16), a % 16>>

LEMMA Wraps ==
  \A v \in 0 .. 2 * Modulus - 1 : v % Modulus = Wrapped(v)
  BY CipherAssumption DEF Wrapped

(* The i-th plaintext of a group, without the step by step additions.      *)
LEMMA PlaintextAt ==
  ASSUME NEW c \in Nat, NEW i \in 0 .. 2, c + i < Modulus
  PROVE  Plaintexts(c)[i + 1] = Wrapped(KeyOffset + c + i)
  <1> DEFINE first == (KeyOffset + c) % Modulus
             second == (first + 1) % Modulus
             third == (second + 1) % Modulus
  <1>0. Modulus \in Nat \ {0} /\ KeyOffset \in 0 .. Modulus - 1
    BY CipherAssumption
  <1>1. first = Wrapped(KeyOffset + c)
    <2>1. KeyOffset + c \in 0 .. 2 * Modulus - 1
      BY <1>0
    <2> QED BY <2>1, Wraps, Zenon
  <1>2. first \in 0 .. Modulus - 1
    BY <1>0, <1>1 DEF Wrapped
  <1> HIDE DEF first
  <1>3. second = Wrapped(first + 1)
    <2>1. first + 1 \in 0 .. 2 * Modulus - 1
      BY <1>0, <1>2
    <2> QED BY <2>1, Wraps, Zenon DEF second
  <1>4. second \in 0 .. Modulus - 1
    BY <1>0, <1>2, <1>3 DEF Wrapped
  <1> HIDE DEF second
  <1>5. third = Wrapped(second + 1)
    <2>1. second + 1 \in 0 .. 2 * Modulus - 1
      BY <1>0, <1>4
    <2> QED BY <2>1, Wraps, Zenon DEF third
  <1>6. Plaintexts(c) = <<first, second, third>>
    BY DEF Plaintexts, first, second, third
  <1> HIDE DEF third
  <1>7. CASE i = 0
    BY <1>0, <1>1, <1>6, <1>7 DEF Wrapped
  <1>8. CASE i = 1
    BY <1>0, <1>1, <1>3, <1>6, <1>8 DEF Wrapped
  <1>9. CASE i = 2
    BY <1>0, <1>1, <1>3, <1>5, <1>6, <1>9 DEF Wrapped
  <1> QED BY <1>7, <1>8, <1>9

(* Byte k of passcode n is byte 3n + k of the key stream.                  *)
LEMMA PasscodeBytes ==
  ASSUME NEW n \in 0 .. MaxPasscodes - 1, NEW k \in 0 .. 2
  PROVE  /\ 3 * n + k \in 0 .. 16 * Modulus - 1
         /\ Passcode(n)[k] = StreamByte(3 * n + k)
  <1> DEFINE a == 3 * n + k
             q == n \div 16
             r == n % 16
             i == 3 * r + k
  <1>0. Modulus \in Nat \ {0} /\ KeyOffset \in 0 .. Modulus - 1
    BY CipherAssumption
  <1>1. MaxPasscodes \in Nat /\ 3 * MaxPasscodes <= 16 * Modulus
    BY <1>0 DEF MaxPasscodes
  <1>2. n \in Nat /\ a \in 0 .. 16 * Modulus - 1
    BY <1>0, <1>1
  <1>3. r = n - 16 * q /\ q \in Nat /\ r \in 0 .. 15
    BY <1>2, Division
  <1> HIDE DEF q, r
  <1>4. a = 48 * q + i /\ i \in 0 .. 47
    BY <1>2, <1>3
  <1>5. Passcode(n)[k] = Block(3 * q)[i]
    BY <1>4 DEF Passcode, Extract, CipherNum, Offset, q, r
  <1> HIDE DEF a, i
  <1> DEFINE j == i \div 16
  <1>6. j \in 0 .. 2 /\ i % 16 \in 0 .. 15 /\ i % 16 = i - 16 * j
    BY <1>4
  <1>7. a \div 16 = 3 * q + j /\ a % 16 = i % 16
    BY <1>3, <1>4
  <1>8. Block(3 * q)[i] = <<Plaintexts(3 * q)[j + 1], i % 16>>
    BY <1>4 DEF Block
  <1> HIDE DEF j
  <1>9. 3 * q \in Nat /\ 3 * q + j < Modulus
    BY <1>0, <1>2, <1>3, <1>4, <1>6
  <1>10. Plaintexts(3 * q)[j + 1] = Wrapped(KeyOffset + 3 * q + j)
    BY <1>6, <1>9, PlaintextAt
  <1>11. KeyOffset + 3 * q + j = KeyOffset + a \div 16
    BY <1>0, <1>3, <1>6, <1>7
  <1>12. Passcode(n)[k] = StreamByte(a)
    BY <1>5, <1>7, <1>8, <1>10, <1>11 DEF StreamByte
  <1> QED BY <1>2, <1>12 DEF a

LEMMA StreamBytesDiffer ==
  ASSUME NEW a \in 0 .. 16 * Modulus - 1, NEW b \in 0 .. 16 * Modulus - 1,
         StreamByte(a) = StreamByte(b)
  PROVE  a = b
  <1>0. Modulus \in Nat \ {0} /\ KeyOffset \in 0 .. Modulus - 1
    BY CipherAssumption
  <1>1. a \in Nat /\ b \in Nat
    BY <1>0
  <1>2. a % 16 = a - 16 * (a \div 16) /\ b % 16 = b - 16 * (b \div 16)
    BY <1>1, Division
  <1>3. a \div 16 \in 0 .. Modulus - 1 /\ b \div 16 \in 0 .. Modulus - 1
    BY <1>0
  <1>4. Wrapped(KeyOffset + a \div 16) = Wrapped(KeyOffset + b \div 16) /\ a % 16 = b % 16
    BY DEF StreamByte
  <1>5. a \div 16 = b \div 16
    BY <1>0, <1>3, <1>4 DEF Wrapped
  <1> QED BY <1>1, <1>2, <1>4, <1>5

(* Below MaxPasscodes no byte of the key stream serves two passcodes, nor  *)
(* one passcode twice: _locate_passcode and _compute_passcode_block cut    *)
(* the stream into windows that do not overlap, whatever the key's offset. *)
THEOREM KeyStreamUsedOnce ==
  \A m, n \in 0 .. MaxPasscodes - 1, j, k \in 0 .. 2 :
      Passcode(m)[j] = Passcode(n)[k] => m = n /\ j = k
  <1> SUFFICES ASSUME NEW m \in 0 .. MaxPasscodes - 1, NEW n \in 0 .. MaxPasscodes - 1,
                      NEW j \in 0 .. 2, NEW k \in 0 .. 2,
                      Passcode(m)[j] = Passcode(n)[k]
               PROVE  m = n /\ j = k
    OBVIOUS
  <1>1. MaxPasscodes \in Nat
    BY CipherAssumption DEF MaxPasscodes
  <1>2. /\ 3 * m + j \in 0 .. 16 * Modulus - 1 /\ Passcode(m)[j] = StreamByte(3 * m + j)
        /\ 3 * n + k \in 0 .. 16 * Modulus - 1 /\ Passcode(n)[k] = StreamByte(3 * n + k)
    BY PasscodeBytes
  <1>3. 3 * m + j = 3 * n + k
    BY <1>2, StreamBytesDiffer
  <1> QED BY <1>1, <1>3

-----------------------------------------------------------------------------
(* pppauth.                                                                *)

(* Passcode numbers, and the places of the key stream they lead to.        *)
LEMMA BlockType ==
  ASSUME NEW c \in Int
  PROVE  Block(c) \in [0 .. 47 -> Bytes]
  <1>1. Plaintexts(c) \in [1 .. 3 -> Int]
    <2> DEFINE first == (KeyOffset + c) % Modulus
               second == (first + 1) % Modulus
               third == (second + 1) % Modulus
    <2>1. Modulus \in Nat \ {0} /\ KeyOffset \in Int
      BY CipherAssumption
    <2>2. first \in Int
      BY <2>1
    <2> HIDE DEF first
    <2>3. second \in Int
      BY <2>1, <2>2
    <2> HIDE DEF second
    <2>4. third \in Int
      BY <2>1, <2>3
    <2>5. Plaintexts(c) = <<first, second, third>>
      BY DEF Plaintexts, first, second, third
    <2> HIDE DEF third
    <2> QED BY <2>2, <2>3, <2>4, <2>5
  <1>2. ASSUME NEW i \in 0 .. 47
        PROVE  <<Plaintexts(c)[i \div 16 + 1], i % 16>> \in Bytes
    <2>1. i \div 16 + 1 \in 1 .. 3 /\ i % 16 \in Int
      OBVIOUS
    <2> QED BY <1>1, <2>1 DEF Bytes
  <1> QED BY <1>2 DEF Block

LEMMA ExtractType ==
  ASSUME NEW b \in [0 .. 47 -> Bytes], NEW n \in Nat
  PROVE  Extract(b, Offset(n)) \in [0 .. 2 -> Bytes]
  <1>1. \A k \in 0 .. 2 : 3 * Offset(n) + k \in 0 .. 47
    BY DEF Offset
  <1> QED BY <1>1 DEF Extract

LEMMA NumberType ==
  /\ \A card \in Nat : PasscodeNumber(card, 0, 0) \in Nat
  /\ \A n \in Nat : CardContaining(n) \in Nat /\ CipherNum(n) \in Nat
  BY DEF PasscodeNumber, CardContaining, CipherNum, CardSize

LEMMA NoBlockType == NoBlock \in [0 .. 47 -> Bytes]
  <1>1. ASSUME NEW i \in 0 .. 47 PROVE <<-1, i>> \in Bytes
    BY DEF Bytes
  <1> QED BY <1>1 DEF NoBlock

LEMMA PageSizes == PageSize \in {1, 6}
  BY DEF PageSize

LEMMA InitType == Init => TypeOK
  <1> SUFFICES ASSUME Init PROVE TypeOK
    OBVIOUS
  <1>1. block \in [0 .. 47 -> Bytes]
    BY NoBlockType DEF Init
  <1>2. output \in Seq([0 .. 2 -> Bytes]) /\ Len(output) <= CardSize
    BY DEF Init, CardSize
  <1>3. asked \in Seq(Nat)
    BY DEF Init
  <1>4. onPage \in 0 .. PageSize - 1
    BY PageSizes DEF Init
  <1> QED BY <1>1, <1>2, <1>3, <1>4, PppauthAssumption DEF Init, TypeOK, NoLogin, Pcs

(* The types move together with the position on the page.                   *)
LEMMA NextType ==
  ASSUME TypeOK, Position, [Next]_vars
  PROVE  TypeOK' /\ Position'
  <1>0. /\ last \in Nat \cup {-1} /\ gen \in Nat \cup {-1} /\ cnt \in Nat
        /\ login \in [read : BOOLEAN, cur : Nat, last : Nat \cup {-1}]
        /\ left \in 0 .. MaxCount /\ onPage \in 0 .. PageSize - 1
        /\ cipherNum \in Nat \cup {-1} /\ block \in [0 .. 47 -> Bytes]
        /\ passcodeNum \in Nat /\ skipTo \in Nat /\ runs \in 0 .. MaxRuns
        /\ SkipTargets \subseteq Nat /\ MaxCount \in Nat /\ MaxRuns \in Nat
    BY PppauthAssumption DEF TypeOK
  <1> USE DEF TypeOK, Position, files, options, locals
  <1>1. CASE UNCHANGED vars
    BY <1>1 DEF vars, Pcs, PageSize
  <1> USE PppauthAssumption
  <1>2. CASE LoginReads
    BY <1>2 DEF LoginReads, Pcs, PageSize
  <1>3. CASE LoginWrites
    <2>1. asked' \in Seq(Nat)
      BY <1>3 DEF LoginWrites
    <2>2. cnt' \in Nat /\ gen' \in Nat \cup {-1} /\ login' \in [read : BOOLEAN, cur : Nat, last : Nat \cup {-1}]
      <3> HIDE DEF TypeOK
      <3>1. cnt' = login.cur + 1 /\ gen' = login.last /\ login' = NoLogin
        BY <1>3 DEF LoginWrites
      <3>2. login.cur \in Nat /\ login.last \in Nat \cup {-1}
        BY <1>0
      <3>3. NoLogin \in [read : BOOLEAN, cur : Nat, last : Nat \cup {-1}]
        BY DEF NoLogin
      <3> QED BY <3>1, <3>2, <3>3
    <2>3. PageSize' = PageSize
      BY <1>3 DEF LoginWrites, PageSize
    <2> QED BY <1>3, <2>1, <2>2, <2>3 DEF LoginWrites
  <1>4. CASE Open
    <2>1. pc' \in Pcs /\ left' \in 0 .. MaxCount /\ skipTo' \in Nat
      <3> HIDE DEF TypeOK
      <3>1. \/ skipTo' = 0 /\ left' \in 1 .. MaxCount /\ pc' = "page"
            \/ skipTo' \in SkipTargets /\ left' \in 0 .. MaxCount /\ pc' = "skip"
        BY <1>4 DEF Open
      <3>2. pc' \in Pcs
        BY <3>1 DEF Pcs
      <3>3. left' \in 0 .. MaxCount
        BY <1>0, <3>1
      <3>4. skipTo' \in Nat
        <4>1. \A n \in SkipTargets : n \in Nat
          BY PppauthAssumption
        <4>2. skipTo' = 0 \/ skipTo' \in SkipTargets
          BY <3>1
        <4>3. CASE skipTo' = 0
          BY <4>3
        <4>4. CASE skipTo' \in SkipTargets
          BY <4>1, <4>4, Zenon
        <4> QED BY <4>2, <4>3, <4>4, Zenon
      <3> QED BY <3>2, <3>3, <3>4
    <2>2. onPage' = 0 /\ onPage' \in 0 .. PageSize' - 1
      BY <1>4 DEF Open, PageSize
    <2>3. runs' \in 0 .. MaxRuns /\ cur' \in Nat /\ last' \in Nat \cup {-1} /\ layout' \in Layouts
      BY <1>4 DEF Open
    <2>4. pc' # "block"
      BY <1>4 DEF Open
    <2> QED BY <1>4, <2>1, <2>2, <2>3, <2>4 DEF Open
  <1>5. CASE SkipRefused
    BY <1>5 DEF SkipRefused, Pcs, PageSize
  <1>6. CASE Skip
    <2>1. CardContaining(skipTo) \in Nat
      BY NumberType
    <2>2. last' \in Nat \cup {-1}
      <3> HIDE DEF TypeOK
      <3>1. last' = IF last < CardContaining(skipTo) THEN CardContaining(skipTo) - 1 ELSE last
        BY <1>6 DEF Skip, LastAfterSkip
      <3> QED BY <1>0, <2>1, <3>1
    <2> QED BY <1>6, <2>2 DEF Skip, Pcs, PageSize
  <1>7. CASE WriteCnt \/ WriteGen
    <2>1. PageSize' = PageSize
      BY <1>7 DEF WriteCnt, WriteGen, PageSize
    <2> QED BY <1>7, <2>1 DEF WriteCnt, WriteGen, Pcs
  <1>8. CASE Close
    <2>1. PageSize' = PageSize /\ onPage = 0
      BY <1>8, PageSizes DEF Close, PageSize
    <2> QED BY <1>8, <2>1 DEF Close, Pcs
  <1>9. CASE StartCard
    <2>1. passcodeNum' \in Nat
      <3>1. last + 1 + onPage \in Nat
        BY PageSizes
      <3>2. PasscodeNumber(last + 1 + onPage, 0, 0) \in Nat
        BY <3>1, NumberType
      <3> QED BY <1>9, <3>2 DEF StartCard
    <2>2. block' \in [0 .. 47 -> Bytes]
      BY <1>9, NoBlockType DEF StartCard
    <2>3. output' \in Seq([0 .. 2 -> Bytes]) /\ Len(output') <= CardSize
      BY <1>9 DEF StartCard, CardSize
    <2> QED BY <1>9, <2>1, <2>2, <2>3 DEF StartCard, Pcs, PageSize
  <1>10. CASE NextPasscode
    <2>1. CipherNum(passcodeNum) \in Nat
      BY NumberType
    <2>2. CachedBlock(passcodeNum) \in [0 .. 47 -> Bytes]
      <3> HIDE DEF TypeOK
      <3>1. Block(CipherNum(passcodeNum)) \in [0 .. 47 -> Bytes]
        BY <2>1, BlockType
      <3> QED BY <1>0, <3>1 DEF CachedBlock
    <2>3. Extract(CachedBlock(passcodeNum), Offset(passcodeNum)) \in [0 .. 2 -> Bytes]
      BY <2>2, ExtractType
    <2>4. output' \in Seq([0 .. 2 -> Bytes]) /\ Len(output') = Len(output) + 1
      BY <1>10, <2>3 DEF NextPasscode
    <2>5. Len(output') <= CardSize
      BY <1>10, <2>4 DEF NextPasscode, CardSize
    <2>6. passcodeNum' \in Nat /\ cipherNum' \in Nat \cup {-1} /\ block' \in [0 .. 47 -> Bytes]
      BY <1>10, <2>1, <2>2 DEF NextPasscode
    <2> QED BY <1>10, <2>4, <2>5, <2>6 DEF NextPasscode, Pcs, PageSize
  <1>11. CASE PrintCard
    <2>1. output' \in Seq([0 .. 2 -> Bytes]) /\ Len(output') <= CardSize
      BY <1>11 DEF PrintCard, CardSize
    <2>2. PageSize' = PageSize
      BY <1>11 DEF PrintCard, PageSize
    <2>3. pc = "block" /\ left > 0
      BY <1>11 DEF PrintCard
    <2>4. /\ onPage' \in 0 .. PageSize - 1 /\ last' \in Nat \cup {-1} /\ left' \in 0 .. MaxCount
          /\ Position' /\ pc' \in Pcs
      <3> HIDE DEF TypeOK
      <3>1. CASE onPage + 1 < PageSize /\ onPage' = onPage + 1 /\ pc' = "page" /\ UNCHANGED <<last, left>>
        BY <1>0, <2>3, <3>1, PageSizes DEF Pcs
      <3>2. CASE onPage' = 0 /\ last' = last + 1 /\ left' = left - 1 /\ pc' = "writeCnt"
        BY <1>0, <2>3, <3>2, PageSizes DEF Pcs
      <3> QED BY <1>11, <3>1, <3>2 DEF PrintCard
    <2> QED BY <1>11, <2>1, <2>2, <2>4 DEF PrintCard
  <1> QED BY <1>1, <1>2, <1>3, <1>4, <1>5, <1>6, <1>7, <1>8, <1>9, <1>10, <1>11 DEF Next, Tool

LEMMA PositionInvariant == Spec => [](TypeOK /\ Position)
  <1>1. Init => TypeOK /\ Position
    BY InitType DEF Init, Position
  <1>2. TypeOK /\ Position /\ [Next]_vars => (TypeOK /\ Position)'
    BY NextType
  <1> QED BY <1>1, <1>2, PTL DEF Spec

(* Every counter, page position and passcode stays in its range; no count  *)
(* of pages ever goes below zero.                                          *)
THEOREM PppauthTypeCorrect == Spec => []TypeOK
  BY PositionInvariant, PTL

-----------------------------------------------------------------------------
(* The printed passcodes.                                                  *)

(* The cell of row r and column c, once the card is complete.              *)
LEMMA CellAnswers ==
  ASSUME NEW card \in Nat, Len(output) = CardSize,
         \A i \in 1 .. Len(output) :
            output[i] = Passcode(PasscodeNumber(card, 0, 0) + i - 1),
         NEW r \in 1 .. 10, NEW c \in 0 .. 6
  PROVE  LET cell == Cell(card, r, c) IN
         \E n \in (cell.code.card - 1) * CardSize .. cell.code.card * CardSize - 1 :
            cell.code = Code(n) /\ cell.bytes = Passcode(n)
  <1> DEFINE cell == Cell(card, r, c)
             n == PasscodeNumber(card, c, r - 1)
             i == (r - 1) * 7 + c + 1
  <1>1. cell.code = [row |-> r, col |-> c, card |-> card + 1] /\ cell.bytes = output[i]
    BY DEF Cell
  <1>2. Code(n) = [row |-> r - 1 + 1, col |-> c, card |-> card + 1]
    BY CodesNameCells, r - 1 \in 0 .. 9
  <1>3. i \in 1 .. Len(output) /\ PasscodeNumber(card, 0, 0) + i - 1 = n
    BY DEF PasscodeNumber, CardSize
  <1>4. n \in card * CardSize .. (card + 1) * CardSize - 1
    BY DEF PasscodeNumber, CardSize
  <1> HIDE DEF cell, n, i
  <1>5. cell.code = Code(n) /\ cell.bytes = Passcode(n)
    BY <1>1, <1>2, <1>3
  <1>6. cell.code.card = card + 1
    BY <1>1
  <1>7. n \in (cell.code.card - 1) * CardSize .. cell.code.card * CardSize - 1
    BY <1>4, <1>6 DEF CardSize
  <1>8. \E m \in (cell.code.card - 1) * CardSize .. cell.code.card * CardSize - 1 :
            cell.code = Code(m) /\ cell.bytes = Passcode(m)
    BY <1>5, <1>7
  <1> QED BY <1>8 DEF cell

(* The loop of getPasscodeBlock, and the paper.                             *)
LEMMA LoopNext ==
  ASSUME TypeOK, Position, LoopInv, [Next]_vars
  PROVE  LoopInv'
  <1> USE DEF files, options, locals
  <1>0. Start \in Nat /\ last + 1 + onPage \in Nat /\ output \in Seq([0 .. 2 -> Bytes])
    <2>1. last + 1 + onPage \in Nat /\ output \in Seq([0 .. 2 -> Bytes])
      BY PageSizes DEF TypeOK
    <2> QED BY <2>1, NumberType DEF Start
  <1>1. CASE UNCHANGED <<pc, last, onPage, locals, paper>>
    BY <1>1 DEF LoopInv, Start, PaperAnswersPrompts
  <1>2. CASE pc' # "block" /\ paper' = paper
    BY <1>2 DEF LoopInv, PaperAnswersPrompts
  <1>3. CASE StartCard
    <2>1. output' = <<>> /\ cipherNum' = -1 /\ paper' = paper
          /\ passcodeNum' = Start /\ last' = last /\ onPage' = onPage
      BY <1>3 DEF StartCard, Start
    <2>2. Start' = Start /\ Len(output') = 0
      BY <2>1 DEF Start
    <2>3. passcodeNum' = Start' + Len(output')
      BY <1>0, <2>1, <2>2
    <2>4. PaperAnswersPrompts'
      BY <2>1 DEF LoopInv, PaperAnswersPrompts
    <2> QED BY <2>1, <2>2, <2>3, <2>4 DEF LoopInv
  <1>4. CASE NextPasscode
    <2>1. pc = "block" /\ pc' = "block" /\ paper' = paper /\ Start' = Start
      BY <1>4 DEF NextPasscode, Start
    <2>2. /\ passcodeNum = Start + Len(output)
          /\ cipherNum # -1 => block = Block(cipherNum)
          /\ \A i \in 1 .. Len(output) : output[i] = Passcode(Start + i - 1)
      BY <2>1 DEF LoopInv
    <2>3. Len(output) \in Nat /\ passcodeNum \in Nat /\ CipherNum(passcodeNum) \in Nat
      <3>1. Len(output) \in Nat
        BY <1>0
      <3>2. passcodeNum \in Nat
        BY DEF TypeOK
      <3> QED BY <3>1, <3>2, NumberType
    <2>4. CachedBlock(passcodeNum) = Block(CipherNum(passcodeNum))
      BY <2>2, <2>3 DEF CachedBlock
    <2>5. block' = Block(cipherNum')
      BY <1>4, <2>4 DEF NextPasscode
    <2> DEFINE passcode == Extract(CachedBlock(passcodeNum), Offset(passcodeNum))
    <2>6. passcode = Passcode(passcodeNum)
      BY <2>4 DEF Passcode
    <2>7. output' = Append(output, passcode) /\ passcodeNum' = passcodeNum + 1
      BY <1>4 DEF NextPasscode
    <2>8. passcode \in [0 .. 2 -> Bytes]
      <3>1. Block(CipherNum(passcodeNum)) \in [0 .. 47 -> Bytes]
        <4>1. CipherNum(passcodeNum) \in Int
          BY <2>3
        <4> QED BY <4>1, BlockType
      <3> QED BY <2>3, <2>4, <3>1, ExtractType
    <2> HIDE DEF passcode
    <2>9. /\ Len(output') = Len(output) + 1
          /\ output'[Len(output) + 1] = passcode
          /\ \A i \in 1 .. Len(output) : output'[i] = output[i]
      BY <1>0, <2>7, <2>8
    <2>10. passcodeNum' = Start + Len(output')
      BY <1>0, <2>2, <2>3, <2>7, <2>9
    <2>11. passcode = Passcode(Start + (Len(output) + 1) - 1)
      <3>1. Start + (Len(output) + 1) - 1 = passcodeNum
        BY <1>0, <2>2, <2>3
      <3> QED BY <2>6, <3>1
    <2>12. \A i \in 1 .. Len(output') : output'[i] = Passcode(Start + i - 1)
      <3>1. \A i \in 1 .. Len(output') : i \in 1 .. Len(output) \/ i = Len(output) + 1
        BY <2>3, <2>9
      <3> QED BY <2>2, <2>9, <2>11, <3>1
    <2> QED BY <2>1, <2>2, <2>5, <2>10, <2>12 DEF LoopInv, PaperAnswersPrompts
  <1>5. CASE PrintCard
    <2>1. pc = "block" /\ pc' # "block" /\ Len(output) = CardSize
          /\ paper' = paper \cup Cells(last + 1 + onPage)
      BY <1>5 DEF PrintCard
    <2>2. \A i \in 1 .. Len(output) :
              output[i] = Passcode(PasscodeNumber(last + 1 + onPage, 0, 0) + i - 1)
      BY <2>1 DEF LoopInv, Start
    <2>3. ASSUME NEW cell \in Cells(last + 1 + onPage)
          PROVE  \E n \in (cell.code.card - 1) * CardSize .. cell.code.card * CardSize - 1 :
                    cell.code = Code(n) /\ cell.bytes = Passcode(n)
      <3>1. PICK r \in 1 .. 10, c \in 0 .. 6 : cell = Cell(last + 1 + onPage, r, c)
        BY DEF Cells
      <3> QED BY <1>0, <2>1, <2>2, <3>1, CellAnswers
    <2>4. PaperAnswersPrompts'
      BY <2>1, <2>3 DEF LoopInv, PaperAnswersPrompts
    <2> QED BY <2>1, <2>4 DEF LoopInv
  <1>6. CASE Next
    BY <1>1, <1>2, <1>3, <1>4, <1>5, <1>6 DEF Next, Tool, LoginReads, LoginWrites, Open,
       SkipRefused, Skip, WriteCnt, WriteGen, Close
  <1> QED BY <1>1, <1>6 DEF vars

(* Every passcode on paper is the one that a login asks for under the name *)
(* of its cell, whatever was skipped, reprinted or raced with.             *)
THEOREM PaperIsRight == Spec => []PaperAnswersPrompts
  <1>1. Init => LoopInv
    BY DEF Init, LoopInv, PaperAnswersPrompts
  <1>2. TypeOK /\ Position /\ LoopInv /\ [Next]_vars => LoopInv'
    BY LoopNext
  <1>3. LoopInv => PaperAnswersPrompts
    BY DEF LoopInv
  <1> QED BY <1>1, <1>2, <1>3, PositionInvariant, PTL DEF Spec

\* What is printed, or about to be, stays within the whole cards that the key
\* stream is long enough for (d_maxPasscodes of pppInit).
WithinStream ==
    /\ passcodeNum <= MaxPasscodes
    /\ \A cell \in paper : cell.code.card * CardSize <= MaxPasscodes

OutputInBlock ==
    /\ pc # "block" => output = <<>>
    /\ \A cell \in paper : cell.code.card \in Nat \ {0}

LEMMA OutputNext == TypeOK /\ OutputInBlock /\ [Next]_vars => OutputInBlock'
  <1> SUFFICES ASSUME TypeOK, OutputInBlock, [Next]_vars PROVE OutputInBlock'
    OBVIOUS
  <1> USE DEF OutputInBlock, files, options, locals
  <1>1. CASE PrintCard
    <2>0. onPage \in Nat /\ last \in Nat \cup {-1}
      BY PageSizes DEF TypeOK
    <2>1. last + 1 + onPage \in Nat
      BY <2>0
    <2>2. \A cell \in Cells(last + 1 + onPage) : cell.code.card \in Nat \ {0}
      BY <2>1 DEF Cells, Cell
    <2> QED BY <1>1, <2>2 DEF PrintCard
  <1>2. CASE ~PrintCard
    BY <1>2 DEF Next, Tool, LoginReads, LoginWrites, Open, SkipRefused, Skip, WriteCnt,
                WriteGen, Close, StartCard, NextPasscode, vars
  <1> QED BY <1>1, <1>2

LEMMA ApartWithin ==
  ASSUME TypeOK, LoopInv, OutputInBlock, WithinStream
  PROVE  NoByteTwice
  <1> SUFFICES ASSUME output # <<>> PROVE NoByteTwice
    BY DEF NoByteTwice
  <1>0. MaxPasscodes \in Nat
    BY CipherAssumption DEF MaxPasscodes
  <1>1. /\ Len(output) \in Nat \ {0} /\ Start \in Nat
        /\ output \in Seq([0 .. 2 -> Bytes])
    <2>1. last + 1 + onPage \in Nat /\ output \in Seq([0 .. 2 -> Bytes])
      BY PageSizes DEF TypeOK
    <2>2. Start \in Nat
      BY <2>1, NumberType DEF Start
    <2> QED BY <2>1, <2>2
  <1>2. /\ passcodeNum = Start + Len(output)
        /\ \A i \in 1 .. Len(output) : output[i] = Passcode(Start + i - 1)
    BY DEF OutputInBlock, LoopInv
  <1> DEFINE here == passcodeNum - 1
             newest == output[Len(output)]
  <1>3. here \in 0 .. MaxPasscodes - 1 /\ newest = Passcode(here)
    <2>1. Start + Len(output) - 1 = here /\ Len(output) \in 1 .. Len(output)
      BY <1>1, <1>2
    <2> QED BY <1>0, <1>1, <1>2, <2>1 DEF WithinStream
  <1> HIDE DEF here
  <1>4. ASSUME NEW i \in 1 .. Len(output) - 1, NEW j \in 0 .. 2, NEW k \in 0 .. 2
        PROVE  output[i][j] # newest[k]
    <2>1. /\ output[i] = Passcode(Start + i - 1)
          /\ Start + i - 1 \in 0 .. MaxPasscodes - 1 /\ Start + i - 1 # here
      BY <1>0, <1>1, <1>2, <1>3 DEF here, WithinStream
    <2> QED BY <1>3, <2>1, KeyStreamUsedOnce
  <1>5. ASSUME NEW cell \in paper, cell.code # Code(here), NEW j \in 0 .. 2, NEW k \in 0 .. 2
        PROVE  cell.bytes[j] # newest[k]
    <2>1. PICK n \in (cell.code.card - 1) * CardSize .. cell.code.card * CardSize - 1 :
              cell.code = Code(n) /\ cell.bytes = Passcode(n)
      BY DEF LoopInv, PaperAnswersPrompts
    <2>2. n # here
      BY <1>5, <2>1
    <2>3. n \in 0 .. MaxPasscodes - 1
      <3>1. cell.code.card \in Nat \ {0} /\ cell.code.card * CardSize <= MaxPasscodes
        BY DEF OutputInBlock, WithinStream
      <3> QED BY <1>0, <2>1, <3>1 DEF CardSize
    <2> QED BY <1>3, <2>1, <2>2, <2>3, KeyStreamUsedOnce
  <1> QED BY <1>4, <1>5 DEF NoByteTwice, here

\* Within the length of the key stream no byte of it is printed under two names:
\* a passcode seen, or lost, tells nothing about another one.
THEOREM StreamPrintedOnce == Spec => [](WithinStream => NoByteTwice)
  <1>1. Init => LoopInv /\ OutputInBlock
    BY DEF Init, LoopInv, OutputInBlock, PaperAnswersPrompts
  <1>2. TypeOK /\ Position /\ LoopInv /\ [Next]_vars => LoopInv'
    BY LoopNext
  <1>3. TypeOK /\ LoopInv /\ OutputInBlock => (WithinStream => NoByteTwice)
    BY ApartWithin
  <1> QED BY <1>1, <1>2, <1>3, OutputNext, PositionInvariant, PTL DEF Spec

-----------------------------------------------------------------------------
(* The tool and the logins one after the other.                            *)

\* Numbers were asked for below the counter; a login that has read still holds
\* what the files hold; the tool only moves forward from there.
Sequential ==
    /\ \A i \in 1 .. Len(asked) : asked[i] < cnt
    /\ NumbersAskedOnce
    /\ login.read => pc = "idle" /\ login.cur = cnt /\ login.last = gen
    /\ pc # "idle" => cur >= cnt
    /\ pc \in {"skip", "page", "block"} => cur = cnt /\ last = gen
    /\ pc = "writeGen" => cur = cnt

\* A card is on paper when each of its passcodes has its cell there.
OnPaper(card) ==
    \A n \in card * CardSize .. card * CardSize + CardSize - 1 :
        \E cell \in paper : cell.code = Code(n)

\* The counters that hold between two steps of the tool.
Newest == IF pc = "idle" THEN <<cnt, gen>> ELSE <<cur, last>>

\* Between the card of the next number and the last card that counts as printed
\* none is missing; neither is one of those already done on the current page.
Complete ==
    /\ \A card \in CardContaining(Newest[1]) .. Newest[2] : OnPaper(card)
    /\ pc \in {"page", "block"} =>
          \A card \in last + 1 .. last + onPage : OnPaper(card)

LEMMA AskedGrows ==
  ASSUME TypeOK, Sequential, LoginWrites
  PROVE  /\ \A i \in 1 .. Len(asked') : asked'[i] < cnt'
         /\ NumbersAskedOnce'
  <1>1. login.cur = cnt /\ cnt \in Nat /\ cnt' = cnt + 1 /\ asked' = Append(asked, cnt)
    BY DEF LoginWrites, Sequential, TypeOK
  <1>2. asked \in Seq(Nat)
    BY DEF TypeOK
  <1>3. /\ Len(asked') = Len(asked) + 1 /\ Len(asked) \in Nat
        /\ \A i \in 1 .. Len(asked) : asked'[i] = asked[i] /\ asked[i] \in Nat
        /\ asked'[Len(asked) + 1] = cnt
    BY <1>1, <1>2
  <1>4. \A i \in 1 .. Len(asked') : i \in 1 .. Len(asked) \/ i = Len(asked) + 1
    BY <1>3
  <1>5. \A i \in 1 .. Len(asked) : asked[i] < cnt
    BY DEF Sequential
  <1>6. \A i \in 1 .. Len(asked') : asked'[i] < cnt'
    BY <1>1, <1>3, <1>4, <1>5
  <1>7. ASSUME NEW i \in 1 .. Len(asked'), NEW j \in 1 .. Len(asked'), i # j
        PROVE  asked'[i] # asked'[j]
    <2>1. CASE i \in 1 .. Len(asked) /\ j \in 1 .. Len(asked)
      BY <1>3, <1>7, <2>1 DEF Sequential, NumbersAskedOnce
    <2>2. CASE i \in 1 .. Len(asked) /\ j = Len(asked) + 1
      BY <1>1, <1>3, <1>5, <2>2
    <2>3. CASE j \in 1 .. Len(asked) /\ i = Len(asked) + 1
      BY <1>1, <1>3, <1>5, <2>3
    <2> QED BY <1>4, <1>7, <2>1, <2>2, <2>3
  <1> QED BY <1>6, <1>7 DEF NumbersAskedOnce

LEMMA SequentialNext ==
  ASSUME ~Concurrent, TypeOK, Sequential, [Next]_vars
  PROVE  Sequential'
  <1> USE DEF files, options, locals
  <1>0. ASSUME asked' = asked, cnt' \in Nat, cnt' >= cnt
        PROVE  (\A i \in 1 .. Len(asked') : asked'[i] < cnt') /\ NumbersAskedOnce'
    <2>1. cnt \in Nat /\ \A i \in 1 .. Len(asked) : asked[i] \in Nat
      <3>1. asked \in Seq(Nat) /\ cnt \in Nat
        BY DEF TypeOK
      <3> QED BY <3>1
    <2>2. \A i \in 1 .. Len(asked) : asked[i] < cnt'
      BY <1>0, <2>1 DEF Sequential
    <2> QED BY <1>0, <2>2 DEF Sequential, NumbersAskedOnce
  <1>n. cnt \in Nat /\ cur \in Nat /\ skipTo \in Nat
    BY DEF TypeOK
  <1>1. CASE LoginReads
    BY <1>0, <1>1, <1>n DEF LoginReads, Sequential
  <1>2. CASE LoginWrites
    <2>1. pc = "idle" /\ pc' = pc /\ ~login'.read
      BY <1>2 DEF LoginWrites, Sequential, NoLogin
    <2> QED BY <1>2, <2>1, AskedGrows DEF Sequential
  <1>3. CASE Open
    BY <1>0, <1>3, <1>n DEF Open, Sequential
  <1>4. CASE SkipRefused \/ Skip
    BY <1>0, <1>4, <1>n DEF SkipRefused, Skip, Forward, Sequential
  <1>5. CASE WriteCnt
    BY <1>0, <1>5, <1>n DEF WriteCnt, Sequential
  <1>6. CASE WriteGen
    BY <1>0, <1>6, <1>n DEF WriteGen, Sequential
  <1>7. CASE Close \/ StartCard \/ NextPasscode
    BY <1>0, <1>7, <1>n DEF Close, StartCard, NextPasscode, Sequential
  <1>8. CASE PrintCard
    BY <1>0, <1>8, <1>n DEF PrintCard, Sequential
  <1>9. CASE UNCHANGED vars
    BY <1>0, <1>9, <1>n DEF vars, Sequential
  <1> QED BY <1>1, <1>2, <1>3, <1>4, <1>5, <1>6, <1>7, <1>8, <1>9 DEF Next, Tool

LEMMA SequentialInvariant == ~Concurrent => (Spec => [](TypeOK /\ Position /\ Sequential))
  <1> SUFFICES ASSUME ~Concurrent PROVE Spec => [](TypeOK /\ Position /\ Sequential)
    OBVIOUS
  <1>1. Init => Sequential
    BY DEF Init, Sequential, NumbersAskedOnce, NoLogin
  <1>2. TypeOK /\ Sequential /\ [Next]_vars => Sequential'
    BY SequentialNext
  <1> QED BY <1>1, <1>2, PositionInvariant, PTL DEF Spec

\* README.md:3, a passcode is "only valid for a single login session": however
\* users skip and print between their logins, no number is asked for twice.
THEOREM AskedOnce == ~Concurrent => (Spec => []NumbersAskedOnce)
  <1> SUFFICES ASSUME ~Concurrent PROVE Spec => []NumbersAskedOnce
    OBVIOUS
  <1>1. Sequential => NumbersAskedOnce
    BY DEF Sequential
  <1>2. Spec => [](TypeOK /\ Position /\ Sequential)
    BY SequentialInvariant
  <1> QED BY <1>1, <1>2, PTL

\* A printed card holds the cell of each of its numbers.
LEMMA CellsCover ==
  ASSUME NEW card \in Nat, NEW n \in card * CardSize .. card * CardSize + CardSize - 1
  PROVE  \E cell \in Cells(card) : cell.code = Code(n)
  <1> DEFINE r == Code(n).row
             c == Code(n).col
  <1>1. n \in Nat /\ CardContaining(n) = card
    BY DEF CardSize, CardContaining
  <1>2. Code(n).card = card + 1
    BY <1>1 DEF Code
  <1>3. Code(n) \in [row : 1 .. 10, col : 0 .. 6, card : Nat \ {0}]
    BY <1>1, CodesNameCells
  <1>4. r \in 1 .. 10 /\ c \in 0 .. 6
    BY <1>3
  <1>5. Code(n) = [row |-> r, col |-> c, card |-> card + 1]
    BY <1>2, <1>3
  <1> HIDE DEF r, c
  <1>6. Cell(card, r, c) \in Cells(card)
    BY <1>4 DEF Cells
  <1>7. Cell(card, r, c).code = Code(n)
    BY <1>5 DEF Cell
  <1> QED BY <1>6, <1>7

\* The card of a higher number does not come earlier.
LEMMA CardsAscend ==
  ASSUME NEW m \in Nat, NEW n \in Nat, m <= n
  PROVE  CardContaining(m) <= CardContaining(n) /\ CardContaining(n) \in Nat
  BY Division DEF CardContaining, CardSize

LEMMA CompleteNext ==
  ASSUME ~Concurrent, TypeOK, Position, Sequential, Complete, [Next]_vars
  PROVE  Complete'
  <1> USE DEF files, options, locals
  <1>n. /\ cnt \in Nat /\ cur \in Nat /\ skipTo \in Nat /\ last \in Int /\ gen \in Int
        /\ onPage \in Nat /\ last + 1 + onPage \in Nat
    BY PageSizes DEF TypeOK
  <1>a. ASSUME paper \subseteq paper'
        PROVE  \A card : OnPaper(card) => OnPaper(card)'
    BY <1>a DEF OnPaper
  <1>c. \A m, n \in Nat : m <= n => CardContaining(m) <= CardContaining(n)
                                     /\ CardContaining(m) \in Nat /\ CardContaining(n) \in Nat
    BY CardsAscend
  <1>1. CASE LoginReads \/ Open
    BY <1>1, <1>a, <1>n DEF LoginReads, Open, Complete, Newest, Position, Sequential
  <1>2. CASE LoginWrites
    <2>1. pc = "idle" /\ pc' = "idle" /\ cnt' = cnt + 1 /\ gen' = gen /\ paper' = paper
      BY <1>2 DEF LoginWrites, Sequential
    <2>2. CardContaining(cnt) <= CardContaining(cnt') /\ CardContaining(cnt') \in Int
             /\ CardContaining(cnt) \in Int
      BY <1>n, <1>c, <2>1
    <2> QED BY <1>a, <1>n, <2>1, <2>2 DEF Complete, Newest
  <1>3. CASE SkipRefused \/ Close
    BY <1>3, <1>a DEF SkipRefused, Close, Complete, Newest, Sequential
  <1>4. CASE Skip
    <2>1. /\ pc = "skip" /\ pc' = "writeCnt" /\ paper' = paper
          /\ cur' = skipTo /\ last' = LastAfterSkip /\ skipTo > cur
      BY <1>4 DEF Skip, Forward
    <2>2. /\ CardContaining(cur) <= CardContaining(skipTo) /\ CardContaining(skipTo) \in Int
          /\ CardContaining(cur) \in Int
      BY <1>n, <1>c, <2>1
    <2>3. \A card \in CardContaining(cur) .. last : OnPaper(card)
      BY <2>1 DEF Complete, Newest
    <2>4. \A card \in CardContaining(skipTo) .. LastAfterSkip : OnPaper(card)
      BY <1>n, <2>2, <2>3 DEF LastAfterSkip
    <2> QED BY <1>a, <2>1, <2>4 DEF Complete, Newest
  <1>5. CASE WriteCnt \/ WriteGen
    <2>1. /\ pc \in {"writeCnt", "writeGen"} /\ pc' \in {"writeGen", "page"}
          /\ cur' = cur /\ last' = last /\ paper' = paper /\ onPage' = onPage
      BY <1>5 DEF WriteCnt, WriteGen
    <2>2. onPage = 0 /\ last + 1 > last + onPage
      BY <1>n, <2>1 DEF Position
    <2> QED BY <1>a, <1>n, <2>1, <2>2 DEF Complete, Newest
  <1>6. CASE StartCard \/ NextPasscode
    BY <1>6, <1>a DEF StartCard, NextPasscode, Complete, Newest
  <1>7. CASE PrintCard
    <2>1. /\ pc = "block" /\ pc' \in {"page", "writeCnt"} /\ cur' = cur
          /\ paper' = paper \cup Cells(last + 1 + onPage)
      BY <1>7 DEF PrintCard
    <2>2. \A card : card = last + 1 + onPage => OnPaper(card)'
      <3>1. \A card \in Nat : \A n \in card * CardSize .. card * CardSize + CardSize - 1 :
                \E cell \in Cells(card) : cell.code = Code(n)
        BY CellsCover
      <3> QED BY <1>n, <2>1, <3>1 DEF OnPaper
    <2>3. \A card : OnPaper(card) => OnPaper(card)'
      BY <1>a, <2>1
    <2>4. \A card \in last + 1 .. last + 1 + onPage : OnPaper(card)'
      <3>1. \A card \in last + 1 .. last + 1 + onPage :
                card \in last + 1 .. last + onPage \/ card = last + 1 + onPage
        BY <1>n
      <3>2. \A card \in last + 1 .. last + onPage : OnPaper(card)'
        BY <2>1, <2>3 DEF Complete
      <3> QED BY <2>2, <3>1, <3>2
    <2>5. \A card \in CardContaining(cur) .. last : OnPaper(card)'
      BY <2>1, <2>3 DEF Complete, Newest
    <2>6. CASE onPage + 1 < PageSize
      <3>1. last' = last /\ onPage' = onPage + 1 /\ pc' = "page"
        BY <1>7, <1>n, <2>6, PageSizes DEF PrintCard
      <3>2. last' + onPage' = last + 1 + onPage
        BY <1>n, <3>1
      <3> QED BY <2>1, <2>4, <2>5, <3>1, <3>2 DEF Complete, Newest
    <2>7. CASE onPage + 1 = PageSize
      <3>1. last' = last + 1 /\ pc' = "writeCnt"
        BY <1>7, <1>n, <2>7, PageSizes DEF PrintCard
      <3>2. \A card : card = last + 1 => OnPaper(card)'
        BY <1>n, <2>4
      <3>3. CardContaining(cur) \in Int
        BY <1>n, <1>c
      <3>4. \A card \in CardContaining(cur) .. last + 1 : OnPaper(card)'
        BY <1>n, <2>5, <3>2, <3>3
      <3> QED BY <2>1, <3>1, <3>4 DEF Complete, Newest
    <2> QED BY <1>7, <2>6, <2>7 DEF PrintCard
  <1>8. CASE UNCHANGED vars
    BY <1>8, <1>a DEF vars, Complete, Newest
  <1> QED BY <1>1, <1>2, <1>3, <1>4, <1>5, <1>6, <1>7, <1>8 DEF Next, Tool

\* pppWarning can be trusted: with the tool and the logins one after the other,
\* a user who is not told "YOU ARE OUT OF PASSCODES" has the passcode of the next
\* prompt on paper, whatever was skipped and printed in whatever layout.
THEOREM PaperOrWarned == ~Concurrent => (Spec => []PrintedOrWarned)
  <1> SUFFICES ASSUME ~Concurrent PROVE Spec => []PrintedOrWarned
    OBVIOUS
  <1>1. Init => Complete
    <2> SUFFICES ASSUME Init PROVE Complete
      OBVIOUS
    <2>1. pc = "idle" /\ gen = -1 /\ cnt \in Nat
      BY PppauthAssumption DEF Init
    <2>2. CardContaining(cnt) \in Nat
      BY <2>1, NumberType
    <2> QED BY <2>1, <2>2 DEF Complete, Newest
  <1>2. (TypeOK /\ Position /\ Sequential) /\ Complete /\ [Next]_vars => Complete'
    BY CompleteNext
  <1>3. TypeOK /\ Complete => PrintedOrWarned
    <2> SUFFICES ASSUME TypeOK, Complete, pc = "idle", ~OutOfPasscodes(Remaining(gen, cnt))
                 PROVE  \E cell \in paper : cell.code = Code(cnt)
      BY DEF PrintedOrWarned
    <2>1. cnt \in Nat /\ gen \in Nat \cup {-1}
      BY DEF TypeOK
    <2>2. CardContaining(cnt) \in Nat
      BY <2>1, NumberType
    <2>3. ~(CardContaining(cnt) > gen)
      BY <2>1, RemainingCountsCards
    <2>4. OnPaper(CardContaining(cnt))
      BY <2>1, <2>2, <2>3 DEF Complete, Newest
    <2>5. cnt \in CardContaining(cnt) * CardSize .. CardContaining(cnt) * CardSize + CardSize - 1
      BY <2>1, Division DEF CardContaining, CardSize
    <2> QED BY <2>4, <2>5 DEF OnPaper
  <1>4. Spec => [](TypeOK /\ Position /\ Sequential)
    BY SequentialInvariant
  <1> QED BY <1>1, <1>2, <1>3, <1>4, PTL DEF Spec
=============================================================================
