----------------------------- MODULE KeyStream -----------------------------
(***************************************************************************)
(* The passcodes themselves: how src/ppp/ppp.c makes a sequence key of a   *)
(* passphrase and passcodes of the sequence key, with the numbers of       *)
(* src/mpi, the digests of src/sha2 and the cipher of src/rijndael.        *)
(*                                                                         *)
(* A behaviour is one job: a card that is printed code by code as          *)
(* getPasscodeBlock does, a digest of a message that comes in pieces, or a *)
(* block to be encrypted.  An mp_int has digits of 8 bits, so that TLC can *)
(* multiply them.  Clearing memory after use, and codes by the time of     *)
(* day, are left out.                                                     *)
(***************************************************************************)
EXTENDS MpiDivision, MpiConversions, Sha2, Rijndael

CONSTANTS
    Jobs,           \* what is asked for
    MaxPieces       \* bound on the pieces of a message

ASSUME KeyStreamAssumption == CharBit = 8 /\ MaxPieces \in Nat

VARIABLES
    job,            \* the request
    stage,          \* "start", "keyed", "working" or "done"
    seqKey,         \* d_seqKey
    nums,           \* the local numbers of getPasscodeBlock
    codes,          \* what it has put out
    ctx,            \* the context of a digest, or a block of cipher text
    pieces          \* the lengths of the pieces of the message so far

vars == <<job, stage, seqKey, nums, codes, ctx, pieces>>

default_alphabet == "23456789!@#%+=:?abcdefghijkmnopqrstuvwxyzABCDEFGHJKLMNPRSTUVWXYZ"

alphabet(i) == SubSeq(default_alphabet, i + 1, i + 1)

-----------------------------------------------------------------------------
(* Numbers and bytes.                                                      *)

bytes_to_mp(bytes) == mp_read_unsigned_bin(mp_init, bytes)

mp_to_bytes(mp, len) ==
    Zeros(len - mp_unsigned_bin_size(mp)) \o mp_to_unsigned_bin(mp)

reverse_bytes(buf) == Reverse(buf)

\* The bytes of mp, taken as those of an integer of a little-endian machine.
mp_to_uint(mp) ==
    LET bytes == mp_to_unsigned_bin(mp)
        value[i \in 1 .. Len(bytes) + 1] ==
            IF i > Len(bytes) THEN 0 ELSE bytes[i] + 256 * value[i + 1]
    IN  value[1]

-----------------------------------------------------------------------------
(* Where a passcode is in the key stream, and what it is.                  *)

locate_passcode(h) ==
    mp_mul_d(mp_div_2d(h, "passcodeNum", 4, "cipherNum", "offset"), "cipherNum", 3, "cipherNum")

\* Four times six bits of three bytes, the lowest first.
extract_passcode_from_block(cipherBlock, n) ==
    LET Code(c) == alphabet(c[1] % 64)
                   \o alphabet((c[1] \div 64) + 4 * (c[2] % 16))
                   \o alphabet((c[2] \div 16) + 16 * (c[3] % 4))
                   \o alphabet(c[3] \div 4)
    IN  Code(SubSeq(mp_to_bytes(cipherBlock, 48), 3 * n + 1, 3 * n + 3))

setup_encrypt(key) == rijndaelSetupEncrypt(reverse_bytes(mp_to_bytes(key, 32)))

encrypt(rk, plain) == rijndaelEncrypt(rk, reverse_bytes(mp_to_bytes(plain, 16)))

Modulus == s_mp_mul_2d(SetDigit(mp_init, 1), 128)

\* mp_mod by 2^128, of what mp_add and mp_add_d leave.
Reduced(plaintext) == ModValue(plaintext, Modulus)
OneMore(plaintext) == Reduced(PlusDigit(plaintext, 1))

\* The three blocks of cipher text after the one before it.
ThreeBlocks(rk, plaintext) ==
    LET Third(p1, p2) == encrypt(rk, p1) \o encrypt(rk, p2) \o encrypt(rk, OneMore(p2))
    IN  Third(plaintext, OneMore(plaintext))

\* Variant: the offset of version 1 is left out, as in version 2.
OffsetOfNone(version, seqkey) == mp_init

\* Version 2 "does away with the offset".
Offset(version, seqkey) ==
    IF version = 1 THEN bytes_to_mp(SubSeq(seqkey, 33, 48)) ELSE mp_init

\* The key is the first 32 bytes of 48 in version 1, and the last in version 2.
compute_passcode_block(version, key, cipherNum) ==
    LET kp == IF version = 2 THEN 16 ELSE 0
        Plaintext(seqkey) ==
            mp_add([a |-> Offset(version, seqkey), b |-> cipherNum], "a", "b", "a")["a"]
        Block(seqkey) ==
            ThreeBlocks(setup_encrypt(bytes_to_mp(SubSeq(seqkey, kp + 1, kp + 32))),
                        Reduced(Plaintext(seqkey)))
    IN  bytes_to_mp(Block(mp_to_bytes(key, 48)))

\* Version 1 takes SHA-384, version 2 SHA-256.
SequenceKey(version, phrase) ==
    bytes_to_mp(reverse_bytes(IF version = 1 THEN sha384(phrase) ELSE sha256(phrase)))

getPasscode(version, key, n) ==
    LET Located == locate_passcode(
            [passcodeNum |-> n, cipherNum |-> mp_init, offset |-> mp_init])
        Code(h) == extract_passcode_from_block(
                       compute_passcode_block(version, key, h["cipherNum"]),
                       mp_to_uint(h["offset"]))
    IN  Code(Located)

calculatePasscodeNumberFromCardColRow(card, col, row) ==
    PlusDigit(PlusDigit(s_mp_mul_d(card, 70), row * 7), col)

\* The number of a card from the digits that the user gives, who counts from 1.
CardNumber(digits) ==
    MinusDigit(mp_read_radix(mp_init, [minus |-> FALSE, digits |-> digits], 10), 1)

-----------------------------------------------------------------------------
(* The jobs.                                                               *)

Init ==
    /\ job \in Jobs
    /\ stage = "start"
    /\ seqKey = mp_init
    /\ nums = <<>>
    /\ codes = <<>>
    /\ ctx = <<>>
    /\ pieces = <<>>

\* generateSequenceKeyFromPassphrase.
GenerateKey ==
    /\ stage = "start" /\ job.kind = "card"
    /\ seqKey' = SequenceKey(job.version, job.phrase)
    /\ stage' = "keyed"
    /\ UNCHANGED <<job, nums, codes, ctx, pieces>>

\* Variant: no number is taken for "none yet".
NoneYetZero == mp_init

NoneYet == MinusDigit(mp_init, 1)

\* getPasscodeBlock, up to its loop: "force the initial computation by making
\* lastCipherNum differ from cipherNum".
StartBlock ==
    /\ stage = "keyed"
    /\ nums' = [passcodeNum |-> calculatePasscodeNumberFromCardColRow(
                                    CardNumber(job.card), 0, 0),
                cipherNum |-> mp_init, offset |-> mp_init, cipherBlock |-> mp_init,
                lastCipherNum |-> NoneYet]
    /\ stage' = "working"
    /\ UNCHANGED <<job, seqKey, codes, ctx, pieces>>

\* The block is computed unless it is there from the code before.
WithBlock(h) ==
    IF mp_cmp(h["cipherNum"], h["lastCipherNum"]) = 0 THEN h
    ELSE mp_copy(Put(h, "cipherBlock",
                     compute_passcode_block(job.version, seqKey, h["cipherNum"])),
                 "cipherNum", "lastCipherNum")

\* One iteration.
NextCode ==
    /\ stage = "working" /\ job.kind = "card" /\ Len(codes) < job.qty
    /\ LET Printed(h) ==
               /\ codes' = Append(codes, extract_passcode_from_block(
                                            h["cipherBlock"], mp_to_uint(h["offset"])))
               /\ nums' = mp_add_d(h, "passcodeNum", 1, "passcodeNum")
       IN  Printed(WithBlock(locate_passcode(nums)))
    /\ stage' = IF Len(codes') = job.qty THEN "done" ELSE stage
    /\ UNCHANGED <<job, seqKey, ctx, pieces>>

Started(name) ==
    CASE name = "sha224" -> sha224_init
      [] name = "sha256" -> sha256_init
      [] name = "sha384" -> sha384_init
      [] name = "sha512" -> sha512_init

Updated(name, c, message) ==
    CASE name = "sha224" -> sha224_update(c, message)
      [] name = "sha256" -> sha256_update(c, message)
      [] name = "sha384" -> sha384_update(c, message)
      [] name = "sha512" -> sha512_update(c, message)

Finished(name, c) ==
    CASE name = "sha224" -> sha224_final(c)
      [] name = "sha256" -> sha256_final(c)
      [] name = "sha384" -> sha384_final(c)
      [] name = "sha512" -> sha512_final(c)

Hashed(name, message) ==
    CASE name = "sha224" -> sha224(message)
      [] name = "sha256" -> sha256(message)
      [] name = "sha384" -> sha384(message)
      [] name = "sha512" -> sha512(message)

StartDigest ==
    /\ stage = "start" /\ job.kind = "digest"
    /\ ctx' = Started(job.hash)
    /\ stage' = "working"
    /\ UNCHANGED <<job, seqKey, nums, codes, pieces>>

\* The bytes of the message from the one after skip.
Message(skip, n) == Settled([i \in 1 .. n |-> ((skip + i) * 37) % 256])

Given == FoldLeft(+, 0, pieces)

\* The next n bytes of the message.
Feed(n) ==
    /\ stage = "working" /\ job.kind = "digest" /\ Len(pieces) < MaxPieces
    /\ ctx' = Updated(job.hash, ctx, Message(Given, n))
    /\ pieces' = Append(pieces, n)
    /\ UNCHANGED <<job, stage, seqKey, nums, codes>>

EncryptBlock ==
    /\ stage = "start" /\ job.kind = "block"
    /\ ctx' = rijndaelEncrypt(rijndaelSetupEncrypt(job.key), job.plaintext)
    /\ stage' = "done"
    /\ UNCHANGED <<job, seqKey, nums, codes, pieces>>

Next ==
    \/ GenerateKey \/ StartBlock \/ NextCode
    \/ StartDigest
    \/ \E n \in IF job.kind = "digest" THEN job.sizes ELSE {} : Feed(n)
    \/ EncryptBlock

Spec == Init /\ [][Next]_vars

-----------------------------------------------------------------------------
(* Properties.                                                             *)

\* The codes of a card are those of the test vectors, which "make test" compares
\* (Makefile.am:45-61): for both versions of the algorithm, on the first card and on
\* cards around 2^16, 2^32, 2^64, 2^96 and 2^112, where a number that loses a carry
\* between digits, words or halves gives other codes (ppp.c:156-270, 735-773).
PassesTestVectors ==
    job.kind = "card" =>
        \A i \in DOMAIN codes :
            codes[i] = SubSeq(job.expected[((i - 1) \div 7) + 1],
                              5 * ((i - 1) % 7) + 1, 5 * ((i - 1) % 7) + 4)

\* A code that is printed is the one that is asked for later: getPasscodeBlock keeps
\* a block of the key stream from code to code and computes the next one when it gets
\* there (ppp.c:748-770), getPasscode computes the block of its code (ppp.c:698-733).
PrintedAsVerified ==
    codes # <<>> =>
        codes[Len(codes)] = getPasscode(job.version, seqKey, MinusDigit(nums["passcodeNum"], 1))

\* The message with its padding as the standard has it: a marker, zeroes, and the
\* length in bits at the end of the last block.
Padded(message, f) ==
    LET used == Len(message) + 1 + f.length
        last == (f.block - (used % f.block)) % f.block
    IN  message \o <<128>> \o Zeros(last) \o BytesOf(8 * Len(message), f.length)

StandardDigest(name, message) ==
    LET f == IF name \in {"sha224", "sha256"} THEN Words32Of ELSE Words64Of
        words == CASE name = "sha224" -> 7 [] name = "sha384" -> 6 [] OTHER -> 8
    IN  Joined(SubSeq(transf(f, Started(name).h, Parts(Padded(message, f), f.block)), 1, words),
               f.word)

\* A digest is that of the message, however it came in pieces and wherever its end is
\* in a block (sha2.c:364-444, 581-661), and has the value of the tests that sha2.c
\* carries; a block that is encrypted is the one that decryption gives back, with
\* keys of all sizes (rijndael.c:711-851).
PrimitivesRight ==
    /\ job.kind = "digest" /\ stage = "working" =>
           Finished(job.hash, ctx) = StandardDigest(job.hash, Message(0, Given))
    /\ job.kind = "digest" /\ stage = "start" =>
           \A v \in job.vectors : Hashed(job.hash, v.message) = v.digest
    /\ job.kind = "block" /\ stage = "done" =>
           rijndaelDecrypt(rijndaelSetupDecrypt(job.key), ctx) = job.plaintext
=============================================================================
