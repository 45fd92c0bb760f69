------------------------------ MODULE Rijndael ------------------------------
(***************************************************************************)
(* src/rijndael/rijndael.c: the AES cipher on blocks of 16 bytes, with keys *)
(* of 128, 192 and 256 bits.  The state is four columns, words of four     *)
(* bytes; rk is the sequence of the columns of all round keys.  Of the     *)
(* tables Te4 is written out, and the others are what it and GF(2^8) make  *)
(* of them.  The rounds are those of the unrolled and of the other loop,   *)
(* which agree.  Clearing local variables is left out.                     *)
(***************************************************************************)
EXTENDS Words

Te4 == <<
    \H63, \H7c, \H77, \H7b, \Hf2, \H6b, \H6f, \Hc5, \H30, \H01, \H67, \H2b, \Hfe, \Hd7, \Hab, \H76,
    \Hca, \H82, \Hc9, \H7d, \Hfa, \H59, \H47, \Hf0, \Had, \Hd4, \Ha2, \Haf, \H9c, \Ha4, \H72, \Hc0,
    \Hb7, \Hfd, \H93, \H26, \H36, \H3f, \Hf7, \Hcc, \H34, \Ha5, \He5, \Hf1, \H71, \Hd8, \H31, \H15,
    \H04, \Hc7, \H23, \Hc3, \H18, \H96, \H05, \H9a, \H07, \H12, \H80, \He2, \Heb, \H27, \Hb2, \H75,
    \H09, \H83, \H2c, \H1a, \H1b, \H6e, \H5a, \Ha0, \H52, \H3b, \Hd6, \Hb3, \H29, \He3, \H2f, \H84,
    \H53, \Hd1, \H00, \Hed, \H20, \Hfc, \Hb1, \H5b, \H6a, \Hcb, \Hbe, \H39, \H4a, \H4c, \H58, \Hcf,
    \Hd0, \Hef, \Haa, \Hfb, \H43, \H4d, \H33, \H85, \H45, \Hf9, \H02, \H7f, \H50, \H3c, \H9f, \Ha8,
    \H51, \Ha3, \H40, \H8f, \H92, \H9d, \H38, \Hf5, \Hbc, \Hb6, \Hda, \H21, \H10, \Hff, \Hf3, \Hd2,
    \Hcd, \H0c, \H13, \Hec, \H5f, \H97, \H44, \H17, \Hc4, \Ha7, \H7e, \H3d, \H64, \H5d, \H19, \H73,
    \H60, \H81, \H4f, \Hdc, \H22, \H2a, \H90, \H88, \H46, \Hee, \Hb8, \H14, \Hde, \H5e, \H0b, \Hdb,
    \He0, \H32, \H3a, \H0a, \H49, \H06, \H24, \H5c, \Hc2, \Hd3, \Hac, \H62, \H91, \H95, \He4, \H79,
    \He7, \Hc8, \H37, \H6d, \H8d, \Hd5, \H4e, \Ha9, \H6c, \H56, \Hf4, \Hea, \H65, \H7a, \Hae, \H08,
    \Hba, \H78, \H25, \H2e, \H1c, \Ha6, \Hb4, \Hc6, \He8, \Hdd, \H74, \H1f, \H4b, \Hbd, \H8b, \H8a,
    \H70, \H3e, \Hb5, \H66, \H48, \H03, \Hf6, \H0e, \H61, \H35, \H57, \Hb9, \H86, \Hc1, \H1d, \H9e,
    \He1, \Hf8, \H98, \H11, \H69, \Hd9, \H8e, \H94, \H9b, \H1e, \H87, \He9, \Hce, \H55, \H28, \Hdf,
    \H8c, \Ha1, \H89, \H0d, \Hbf, \He6, \H42, \H68, \H41, \H99, \H2d, \H0f, \Hb0, \H54, \Hbb, \H16>>

\* The byte that Te4 maps to b.
Td4 == Settled([b \in 1 .. 256 |-> (CHOOSE a \in 1 .. 256 : Te4[a] = b - 1) - 1])

\* The product with n of GF(2^8), n below 16.
Doubled(a) == IF a < 128 THEN 2 * a ELSE Xor(2 * a - 256, \H1b)

Times(n, a) ==
    LET power[i \in 0 .. 3] == IF i = 0 THEN a ELSE Doubled(power[i - 1])
        from[i \in 0 .. 4] == IF i = 4 THEN 0 ELSE Xor(BitOf(n, i) * power[i], from[i + 1])
    IN  from[0]

RightBy(w, k) == Settled([i \in 1 .. 4 |-> w[((i + 3 - k) % 4) + 1]])

\* Te0 to Te3, and Td0 to Td3: each a byte further right than the one before.
Turned(column(_), table) ==
    [k \in 1 .. 4 |-> Settled([a \in 1 .. 256 |-> RightBy(column(table[a]), k - 1)])]

Te == Turned(LAMBDA s : <<Times(2, s), s, s, Times(3, s)>>, Te4)
Td == Turned(LAMBDA s : <<Times(14, s), Times(9, s), Times(13, s), Times(11, s)>>, Td4)

rcon == <<1, 2, 4, 8, 16, 32, 64, 128, 27, 54>>

SubWord(table, w) == Settled([i \in 1 .. 4 |-> table[w[i] + 1]])

-----------------------------------------------------------------------------
(* Round keys.                                                             *)

NROUNDS(nk) == nk + 6

\* rk[i], counted from 0, of a key of nk words.
NextWord(rk, nk, i) ==
    LET temp == rk[i]
        Mixed == CASE i % nk = 0 ->
                        XorWord(SubWord(Te4, RightBy(temp, 3)), <<rcon[i \div nk], 0, 0, 0>>)
                   [] nk = 8 /\ i % nk = 4 -> SubWord(Te4, temp)
                   [] OTHER -> temp
    IN  Append(rk, XorWord(rk[i - nk + 1], Mixed))

rijndaelSetupEncrypt(key) ==
    LET nk == Len(key) \div 4
    IN  Iterated(LAMBDA rk, i : NextWord(rk, nk, i), Parts(key, 4),
                 nk, 4 * (NROUNDS(nk) + 1) - 1)

\* The inverse MixColumn: Td undoes a substitution, which Te4 does first.
InverseMix(w) == XorAll([k \in 1 .. 4 |-> Td[k][Te4[w[k] + 1] + 1]])

\* The round keys in reverse, mixed back but for the first and the last.
Reversed(rk) ==
    Settled([i \in 1 .. Len(rk) |->
        LET column == rk[Len(rk) - 4 * (((i - 1) \div 4) + 1) + ((i - 1) % 4) + 1]
        IN  IF i <= 4 \/ i > Len(rk) - 4 THEN column ELSE InverseMix(column)])

rijndaelSetupDecrypt(key) == Reversed(rijndaelSetupEncrypt(key))

-----------------------------------------------------------------------------
(* Blocks.                                                                 *)

\* Column c of the state takes its byte k from the column (k - 1) * shift further on.
From(s, c, k, shift) == s[((c - 1 + (k - 1) * shift) % 4) + 1][k]

AddRoundKey(s, rk, r) == Settled([c \in 1 .. 4 |-> XorWord(s[c], rk[4 * r + c])])

FullRound(T, s, shift, rk, r) ==
    AddRoundKey([c \in 1 .. 4 |-> XorAll([k \in 1 .. 4 |-> T[k][From(s, c, k, shift) + 1]])],
                rk, r)

LastRound(table, s, shift, rk, r) ==
    AddRoundKey([c \in 1 .. 4 |-> SubWord(table, [k \in 1 .. 4 |-> From(s, c, k, shift)])],
                rk, r)

Rounded(T, table, shift, rk, block) ==
    LET nrounds == (Len(rk) \div 4) - 1
    IN  Joined(LastRound(table,
                         Iterated(LAMBDA s, r : FullRound(T, s, shift, rk, r),
                                  AddRoundKey(Parts(block, 4), rk, 0), 1, nrounds - 1),
                         shift, rk, nrounds), 4)

rijndaelEncrypt(rk, plaintext) == Rounded(Te, Te4, 1, rk, plaintext)
rijndaelDecrypt(rk, ciphertext) == Rounded(Td, Td4, 3, rk, ciphertext)
=============================================================================
