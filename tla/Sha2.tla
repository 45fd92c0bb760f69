-------------------------------- MODULE Sha2 --------------------------------
(***************************************************************************)
(* src/sha2/sha2.c: SHA-224, SHA-256, SHA-384 and SHA-512.  A context has  *)
(* the hash value h, the bytes that wait for their block to be complete,   *)
(* and tot_len, the bytes hashed so far.  What the code leaves behind      *)
(* these bytes in ctx->block, and the clearing of local variables, is left *)
(* out; the length of a message in bits fits an integer of TLC.            *)
(***************************************************************************)
EXTENDS Words

SHA256_BLOCK_SIZE == 64
SHA512_BLOCK_SIZE == 128

\* Words of 64 bits from the tables, four of these numbers each.
Words64(halves) ==
    Parts(Joined([i \in 1 .. Len(halves) |-> BytesOf(halves[i], 2)], 2), 8)

HighHalf(w) == SubSeq(w, 1, 4)
LowHalf(w) == SubSeq(w, 5, 8)
Halves(words, half(_)) == Settled([i \in 1 .. Len(words) |-> half(words[i])])

sha384_h0 == Words64(<<
    \Hcbbb, \H9d5d, \Hc105, \H9ed8, \H629a, \H292a, \H367c, \Hd507, \H9159, \H015a, \H3070, \Hdd17,
    \H152f, \Hecd8, \Hf70e, \H5939, \H6733, \H2667, \Hffc0, \H0b31, \H8eb4, \H4a87, \H6858, \H1511,
    \Hdb0c, \H2e0d, \H64f9, \H8fa7, \H47b5, \H481d, \Hbefa, \H4fa4>>)

sha512_h0 == Words64(<<
    \H6a09, \He667, \Hf3bc, \Hc908, \Hbb67, \Hae85, \H84ca, \Ha73b, \H3c6e, \Hf372, \Hfe94, \Hf82b,
    \Ha54f, \Hf53a, \H5f1d, \H36f1, \H510e, \H527f, \Hade6, \H82d1, \H9b05, \H688c, \H2b3e, \H6c1f,
    \H1f83, \Hd9ab, \Hfb41, \Hbd6b, \H5be0, \Hcd19, \H137e, \H2179>>)

sha512_k == Words64(<<
    \H428a, \H2f98, \Hd728, \Hae22, \H7137, \H4491, \H23ef, \H65cd, \Hb5c0, \Hfbcf, \Hec4d, \H3b2f,
    \He9b5, \Hdba5, \H8189, \Hdbbc, \H3956, \Hc25b, \Hf348, \Hb538, \H59f1, \H11f1, \Hb605, \Hd019,
    \H923f, \H82a4, \Haf19, \H4f9b, \Hab1c, \H5ed5, \Hda6d, \H8118, \Hd807, \Haa98, \Ha303, \H0242,
    \H1283, \H5b01, \H4570, \H6fbe, \H2431, \H85be, \H4ee4, \Hb28c, \H550c, \H7dc3, \Hd5ff, \Hb4e2,
    \H72be, \H5d74, \Hf27b, \H896f, \H80de, \Hb1fe, \H3b16, \H96b1, \H9bdc, \H06a7, \H25c7, \H1235,
    \Hc19b, \Hf174, \Hcf69, \H2694, \He49b, \H69c1, \H9ef1, \H4ad2, \Hefbe, \H4786, \H384f, \H25e3,
    \H0fc1, \H9dc6, \H8b8c, \Hd5b5, \H240c, \Ha1cc, \H77ac, \H9c65, \H2de9, \H2c6f, \H592b, \H0275,
    \H4a74, \H84aa, \H6ea6, \He483, \H5cb0, \Ha9dc, \Hbd41, \Hfbd4, \H76f9, \H88da, \H8311, \H53b5,
    \H983e, \H5152, \Hee66, \Hdfab, \Ha831, \Hc66d, \H2db4, \H3210, \Hb003, \H27c8, \H98fb, \H213f,
    \Hbf59, \H7fc7, \Hbeef, \H0ee4, \Hc6e0, \H0bf3, \H3da8, \H8fc2, \Hd5a7, \H9147, \H930a, \Ha725,
    \H06ca, \H6351, \He003, \H826f, \H1429, \H2967, \H0a0e, \H6e70, \H27b7, \H0a85, \H46d2, \H2ffc,
    \H2e1b, \H2138, \H5c26, \Hc926, \H4d2c, \H6dfc, \H5ac4, \H2aed, \H5338, \H0d13, \H9d95, \Hb3df,
    \H650a, \H7354, \H8baf, \H63de, \H766a, \H0abb, \H3c77, \Hb2a8, \H81c2, \Hc92e, \H47ed, \Haee6,
    \H9272, \H2c85, \H1482, \H353b, \Ha2bf, \He8a1, \H4cf1, \H0364, \Ha81a, \H664b, \Hbc42, \H3001,
    \Hc24b, \H8b70, \Hd0f8, \H9791, \Hc76c, \H51a3, \H0654, \Hbe30, \Hd192, \He819, \Hd6ef, \H5218,
    \Hd699, \H0624, \H5565, \Ha910, \Hf40e, \H3585, \H5771, \H202a, \H106a, \Ha070, \H32bb, \Hd1b8,
    \H19a4, \Hc116, \Hb8d2, \Hd0c8, \H1e37, \H6c08, \H5141, \Hab53, \H2748, \H774c, \Hdf8e, \Heb99,
    \H34b0, \Hbcb5, \He19b, \H48a8, \H391c, \H0cb3, \Hc5c9, \H5a63, \H4ed8, \Haa4a, \He341, \H8acb,
    \H5b9c, \Hca4f, \H7763, \He373, \H682e, \H6ff3, \Hd6b2, \Hb8a3, \H748f, \H82ee, \H5def, \Hb2fc,
    \H78a5, \H636f, \H4317, \H2f60, \H84c8, \H7814, \Ha1f0, \Hab72, \H8cc7, \H0208, \H1a64, \H39ec,
    \H90be, \Hfffa, \H2363, \H1e28, \Ha450, \H6ceb, \Hde82, \Hbde9, \Hbef9, \Ha3f7, \Hb2c6, \H7915,
    \Hc671, \H78f2, \He372, \H532b, \Hca27, \H3ece, \Hea26, \H619c, \Hd186, \Hb8c7, \H21c0, \Hc207,
    \Heada, \H7dd6, \Hcde0, \Heb1e, \Hf57d, \H4f7f, \Hee6e, \Hd178, \H06f0, \H67aa, \H7217, \H6fba,
    \H0a63, \H7dc5, \Ha2c8, \H98a6, \H113f, \H9804, \Hbef9, \H0dae, \H1b71, \H0b35, \H131c, \H471b,
    \H28db, \H77f5, \H2304, \H7d84, \H32ca, \Hab7b, \H40c7, \H2493, \H3c9e, \Hbe0a, \H15c9, \Hbebc,
    \H431d, \H67c4, \H9c10, \H0d4c, \H4cc5, \Hd4be, \Hcb3e, \H42b6, \H597f, \H299c, \Hfc65, \H7e2a,
    \H5fcb, \H6fab, \H3ad6, \Hfaec, \H6c44, \H198c, \H4a47, \H5817>>)

\* The tables for 32-bit words repeat halves of those for 64-bit words.
sha224_h0 == Halves(sha384_h0, LowHalf)
sha256_h0 == Halves(sha512_h0, HighHalf)
sha256_k == Halves(SubSeq(sha512_k, 1, 64), HighHalf)

-----------------------------------------------------------------------------
(* The compression functions, for words of 32 bits and of 64 bits.         *)

CH(x, y, z) == XorWord(AndWord(x, y), AndWord(NotWord(x), z))
MAJ(x, y, z) == XorAll(<<AndWord(x, y), AndWord(x, z), AndWord(y, z)>>)

\* F1 and F2 rotate three times; F3 and F4 rotate twice and shift.
Rotations(x, n) == XorAll(<<ROTR(x, n[1]), ROTR(x, n[2]), ROTR(x, n[3])>>)
RotationsShift(x, n) == XorAll(<<ROTR(x, n[1]), ROTR(x, n[2]), SHFR(x, n[3])>>)

Words32Of == [word |-> 4, block |-> SHA256_BLOCK_SIZE, length |-> 8, k |-> sha256_k,
              F1 |-> <<2, 13, 22>>, F2 |-> <<6, 11, 25>>,
              F3 |-> <<7, 18, 3>>, F4 |-> <<17, 19, 10>>]

Words64Of == [word |-> 8, block |-> SHA512_BLOCK_SIZE, length |-> 16, k |-> sha512_k,
              F1 |-> <<28, 34, 39>>, F2 |-> <<14, 18, 41>>,
              F3 |-> <<1, 8, 7>>, F4 |-> <<19, 61, 6>>]

\* w[i] from the words before it; w begins with 1 here, as wv does.
SCR(f, w, i) ==
    Append(w, SumWord(<<RotationsShift(w[i - 2], f.F4), w[i - 7],
                      RotationsShift(w[i - 15], f.F3), w[i - 16]>>))

Schedule(f, block) ==
    Iterated(LAMBDA w, i : SCR(f, w, i), Parts(block, f.word), 17, Len(f.k))

\* One round, with a word of the schedule added to one of the table.
EXP(f, wv, kw) ==
    LET t1 == SumWord(<<wv[8], Rotations(wv[5], f.F2), CH(wv[5], wv[6], wv[7]), kw>>)
        t2 == PlusWord(Rotations(wv[1], f.F1), MAJ(wv[1], wv[2], wv[3]))
        Shifted(t) == <<PlusWord(t, t2), wv[1], wv[2], wv[3],
                        PlusWord(wv[4], t), wv[5], wv[6], wv[7]>>
    IN  Shifted(t1)

\* h after the rounds over the block with the schedule w.
Rounds(f, h, w) ==
    LET Added(wv) == Settled([i \in 1 .. 8 |-> PlusWord(h[i], wv[i])])
    IN  Added(Iterated(LAMBDA wv, j : EXP(f, wv, PlusWord(f.k[j], w[j])), h, 1, Len(f.k)))

transf(f, h, blocks) ==
    FoldLeft(LAMBDA g, block : Rounds(f, g, Schedule(f, block)), h, blocks)

-----------------------------------------------------------------------------
(* Contexts.                                                               *)

sha_init(h0) == [h |-> h0, block |-> <<>>, tot_len |-> 0]

\* The first bytes complete the block that waits; if they do, whole blocks of the
\* rest follow, and what is left waits.
sha_update(f, ctx, message) ==
    LET tmp_len == f.block - Len(ctx.block)
        rem_len == IF Len(message) < tmp_len THEN Len(message) ELSE tmp_len
        block == ctx.block \o SubSeq(message, 1, rem_len)
        shifted_message == SubSeq(message, rem_len + 1, Len(message))
        block_nb == Len(shifted_message) \div f.block
        Done(g, shifted, nb) ==
            [h |-> transf(f, g, Parts(shifted, f.block)),
             block |-> SubSeq(shifted, nb * f.block + 1, Len(shifted)),
             tot_len |-> ctx.tot_len + (nb + 1) * f.block]
    IN  IF Len(ctx.block) + Len(message) < f.block
        THEN [ctx EXCEPT !.block = block]
        ELSE Done(transf(f, ctx.h, <<block>>), shifted_message, block_nb)

\* Variant: the marker is not counted.
LastBlocksShort(f, len) == IF f.block - f.length < (len % f.block) THEN 2 ELSE 1

\* One block or two, for what waits, the marker and the length.
LastBlocks(f, len) == IF f.block - (f.length + 1) < (len % f.block) THEN 2 ELSE 1

\* Of the length in bits only 32 bits are written.
sha_final(f, ctx, words) ==
    LET pm_len == LastBlocks(f, Len(ctx.block)) * f.block
        last == SubSeq(ctx.block \o <<128>> \o Zeros(pm_len), 1, pm_len - 4)
                \o BytesOf((ctx.tot_len + Len(ctx.block)) * 8, 4)
    IN  Joined(SubSeq(transf(f, ctx.h, Parts(last, f.block)), 1, words), f.word)

sha224_init == sha_init(sha224_h0)
sha256_init == sha_init(sha256_h0)
sha384_init == sha_init(sha384_h0)
sha512_init == sha_init(sha512_h0)

sha224_update(ctx, message) == sha_update(Words32Of, ctx, message)
sha256_update(ctx, message) == sha_update(Words32Of, ctx, message)
sha384_update(ctx, message) == sha_update(Words64Of, ctx, message)
sha512_update(ctx, message) == sha_update(Words64Of, ctx, message)

sha224_final(ctx) == sha_final(Words32Of, ctx, 7)
sha256_final(ctx) == sha_final(Words32Of, ctx, 8)
sha384_final(ctx) == sha_final(Words64Of, ctx, 6)
sha512_final(ctx) == sha_final(Words64Of, ctx, 8)

sha224(message) == sha224_final(sha224_update(sha224_init, message))
sha256(message) == sha256_final(sha256_update(sha256_init, message))
sha384(message) == sha384_final(sha384_update(sha384_init, message))
sha512(message) == sha512_final(sha512_update(sha512_init, message))
=============================================================================
