----------------------------- MODULE Passcards -----------------------------
(***************************************************************************)
(* The arithmetic of passcodes and passcards (src/ppp/ppp.c).              *)
(*                                                                         *)
(* A passcode is three bytes of a key stream: the AES encryptions of       *)
(* KeyOffset, KeyOffset + 1, ... (mod 2^128), 16 bytes each.  For one key  *)
(* AES is a permutation, so a byte of the stream is named here by its      *)
(* plaintext block and its index in the block; equal names are equal bytes *)
(* and different names are different places of the stream.                 *)
(***************************************************************************)
EXTENDS Integers

CONSTANTS
    Modulus,        \* plaintext blocks: 2^128 in the code
    KeyOffset       \* low 128 bits of a version 1 key; 0 for version 2

ASSUME CipherAssumption ==
    Modulus \in Nat \ {0} /\ KeyOffset \in 0 .. Modulus - 1

-----------------------------------------------------------------------------
(* Cards of 10 rows and 7 columns.                                         *)

CardSize == 70

CardContaining(n) == n \div CardSize

PasscodeNumber(card, col, row) == card * 70 + row * 7 + col

\* What currCode shows: rows and cards count from 1, columns from A.
Code(n) ==
    LET rest == n - CardContaining(n) * 70
    IN [row |-> rest \div 7 + 1, col |-> rest % 7, card |-> CardContaining(n) + 1]

\* Whole cards that the key stream is long enough for.
MaxPasscodes == (((Modulus * 16) \div 3) \div 70) * 70

-----------------------------------------------------------------------------
(* From a passcode number to its bytes.                                    *)

\* Variant: the blocks of a group counted as two.
CipherNumShort(n) == 2 * (n \div 16)

\* Sixteen passcodes take three plaintext blocks.
CipherNum(n) == 3 * (n \div 16)
Offset(n) == n % 16

Plaintexts(cipherNum) ==
    LET first == (KeyOffset + cipherNum) % Modulus
        second == (first + 1) % Modulus
        third == (second + 1) % Modulus
    IN <<first, second, third>>

\* The 48 bytes of three encrypted plaintexts.
Block(cipherNum) ==
    [i \in 0 .. 47 |-> <<Plaintexts(cipherNum)[i \div 16 + 1], i % 16>>]

Extract(block, ofs) == [k \in 0 .. 2 |-> block[3 * ofs + k]]

\* getPasscode
Passcode(n) == Extract(Block(CipherNum(n)), Offset(n))

-----------------------------------------------------------------------------
(* How many printed passcodes a user has left, and what pppWarning says.   *)

Remaining(last, curr) == (last + 1) * 70 - curr

OnLastCard(left) == 14 < left /\ left <= 70
FewLeft(left) == 0 < left /\ left <= 14
OutOfPasscodes(left) == left <= 0

=============================================================================
