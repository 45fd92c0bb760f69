---------------------------- MODULE MCKeyStream ----------------------------
EXTENDS KeyStream

(* The instance of KeyStream for TLC: the repository's test vectors. *)

\* "testvectors"
Phrase == <<116, 101, 115, 116, 118, 101, 99, 116, 111, 114, 115>>

\* The first rows of a card of ppp/testvectors-ver1.txt or -ver2.txt.
Card(version, number, rows) ==
    [kind |-> "card", version |-> version, phrase |-> Phrase, card |-> number,
     qty |-> 7 * Len(rows), expected |-> rows]

Cards == {
    Card(1, <<1>>,
         <<"odo+ MaFW SNeF rwmn t:H6 sNpu BF@q",
           "DXPS =!q2 qAV6 X3kf EZ2A Z#3B nZeP",
           "5b?U #br5 CtmT uNvj b+%x 3#q@ V!bR",
           "m89x tPsY WCnc %3eY JL!p WgyN e=@o",
           "SHwV #pUk @tVY ty=2 S@sS 5@6e PoTv",
           "ifDN w5G3 Mf:z !Gwp %W!J owyt sPPi",
           "bf54 meTK yw:Y iCbZ qk2m pML? H!@:",
           "ys9U ir9g PZ5w qNyX u?:b XFp@ 55wy",
           "KRqj x8U4 3ZMu ?CZY sSYt j86Y Hmk=",
           "dAB% 2SP@ #p6K MEdd @v@B d4gE SrpV">>),
    Card(1, <<6, 5, 5, 3, 6>>,
         <<"NR9g +f8t ck8r LtPE RZfp gde4 5Eh7",
           "=fs+ x9kd hmET !Azo T8ex KUf4 d6mE",
           "M84+ V8c2 NuR+ cvBs 7!rK m!a# FJ!m">>),
    Card(1, <<4, 2, 9, 4, 9, 6, 7, 2, 9, 6>>,
         <<"!URf snot puJ? PBHn :cNw MCqZ #Ni%",
           "5ysj asv5 kjAi kK66 zaWt y+Mj ?3tz",
           "bobT MGE2 Puu@ erFA bRZC jCa5 Uma?">>),
    Card(1, <<1, 8, 4, 4, 6, 7, 4, 4, 0, 7, 3, 7, 0, 9, 5, 5, 1, 6, 1, 5>>,
         <<"Ayok xRTe hSeh P9?k wXeH z2op S@dc",
           "+vbb 6dA+ mz2U cSeh H6ZW TqXA yX@X",
           "GZW% 5EyN a9FU uU:! kTeH Jip2 M43F">>),
    Card(1, <<7, 9, 2, 2, 8, 1, 6, 2, 5, 1, 4, 2, 6, 4, 3, 3, 7, 5, 9, 3, 5, 4, 3, 9, 5, 0, 3, 3, 6>>,
         <<"mG53 phbT vw94 n+!t w6y+ M7Se Dnys",
           "2E#f +yPB v6tu DKcn skya qhux vH8D",
           "%WPH ?9se GfxE uZtn cNrS fyB! x9mz">>),
    Card(1, <<5, 1, 9, 2, 2, 9, 6, 8, 5, 8, 5, 3, 4, 8, 2, 7, 6, 2, 8, 5, 3, 0, 4, 9, 6, 3, 2, 9, 2, 2, 0, 0, 9, 7>>,
         <<"n7LE BM!7 #hK! wszr m3ji za8Y 4Cxn",
           "nTsC @DoU xyxW hF+i %wnM zT!y KWR3",
           "BrsD %rYu htEV hver 8Tw4 3ASE ai=@">>),
    Card(2, <<1>>,
         <<"BcUq xzF5 2gvj r:fF HdcF =5FD LebG",
           "WC6b ?TPa mpRh 4F=v !Rzs tpUU 8hfk",
           "PJqx =b?k M@yz KMdT JEL9 bn2= 63sB",
           "ACrx aBtU cMe@ rBzu BK2F 4+!D zsXf",
           "!L=U ySBa Lu4@ 9XL4 XRUM hCNw eVwM",
           "Nwja vePz mGw@ i8kv sG9v BEqf +gKA",
           "gr+j A+fg kKcu ES@w 7jc# DXmt #=JD",
           "m#VY tJf3 K4vE 8wB4 ADhT Mvps S8u2",
           "ebrA b8xt %t6D %raq BUaq vb6C stwB",
           "Gm5? LHKJ WDPK SFe6 M@WH JNv2 5pZY">>),
    Card(2, <<6, 5, 5, 3, 6>>,
         <<"CzwS ttr9 Nzb= FL:a bHBP iiuY w:C2",
           "@A@8 emK3 TwxR 2c7b KgLh zH3Y F7Gs",
           "%:hE ALMa =+vZ keWc i5yc #3EF F+Cz">>),
    Card(2, <<4, 2, 9, 4, 9, 6, 7, 2, 9, 6>>,
         <<"N#=H 5L%c s:!W AfrJ %J4H j6!p 4%eM",
           "VGfY U7xX +sZE !+EX j!:z JCHX xj8p",
           "?s23 =K:y M%Jq Ngwt k#Wd Xn7T m+us">>),
    Card(2, <<1, 8, 4, 4, 6, 7, 4, 4, 0, 7, 3, 7, 0, 9, 5, 5, 1, 6, 1, 5>>,
         <<"hDra UwB: nnBA CAvS 58@e j3rK wj=d",
           "bDuL ZMrT 7tEp p!:w :Nre Dxf: fD3:",
           "+d@K 7vCJ cKSG P7pu xaev zsu6 E:2a">>),
    Card(2, <<7, 9, 2, 2, 8, 1, 6, 2, 5, 1, 4, 2, 6, 4, 3, 3, 7, 5, 9, 3, 5, 4, 3, 9, 5, 0, 3, 3, 6>>,
         <<"3vLJ iabC YbhL @EMS rLsV sHYy =8iZ",
           "UYAZ uPR+ TWnq jqG7 h9Hh p?FH WYZt",
           "2wcp ece4 WouB Ki%6 gswk YRU% xkJn">>),
    Card(2, <<5, 1, 9, 2, 2, 9, 6, 8, 5, 8, 5, 3, 4, 8, 2, 7, 6, 2, 8, 5, 3, 0, 4, 9, 6, 3, 2, 9, 2, 2, 0, 0, 9, 7>>,
         <<"mMfn H5BY AseV @8Wd toEE @Au9 nwTr",
           "HrJP @?3j PVkw %NG7 M3dp qLxS 5?!T",
           "fim3 y=gM sJ:: N9Tn 6+8x j@!N B2?U">>)}

Bytes(halves) == Joined([i \in 1 .. Len(halves) |-> BytesOf(halves[i], 2)], 2)

\* "abc", and as many groups of letters as the longer message has, each beginning
\* with the next letter.
abc == <<97, 98, 99>>
Letters(n) == Joined([i \in 1 .. 14 |-> [j \in 1 .. n |-> 95 + i + j]], n)

\* The first two tests of a function in sha2.c (890-1013), and pieces of a message
\* that end where the padding changes.
Digest(hash, sizes, ofShort, ofLong) ==
    [kind |-> "digest", hash |-> hash, sizes |-> sizes,
     vectors |-> {[message |-> abc, digest |-> Bytes(ofShort)],
                  [message |-> Letters(IF hash \in {"sha224", "sha256"} THEN 4 ELSE 8),
                   digest |-> Bytes(ofLong)]}]

Digests == {
    Digest("sha224", {1, 8, 55},
        <<\H2309, \H7d22, \H3405, \Hd822, \H8642, \Ha477, \Hbda2, \H55b3, \H2aad, \Hbce4, \Hbda0, \Hb3f7,
          \He36c, \H9da7>>,
        <<\H7538, \H8b16, \H5127, \H76cc, \H5dba, \H5da1, \Hfd89, \H0150, \Hb0c6, \H455c, \Hb4f5, \H8b19,
          \H5252, \H2525>>),
    Digest("sha256", {1, 8, 55},
        <<\Hba78, \H16bf, \H8f01, \Hcfea, \H4141, \H40de, \H5dae, \H2223, \Hb003, \H61a3, \H9617, \H7a9c,
          \Hb410, \Hff61, \Hf200, \H15ad>>,
        <<\H248d, \H6a61, \Hd206, \H38b8, \He5c0, \H2693, \H0c3e, \H6039, \Ha33c, \He459, \H64ff, \H2167,
          \Hf6ec, \Hedd4, \H19db, \H06c1>>),
    Digest("sha384", {1, 16, 111},
        <<\Hcb00, \H753f, \H45a3, \H5e8b, \Hb5a0, \H3d69, \H9ac6, \H5007, \H272c, \H32ab, \H0ede, \Hd163,
          \H1a8b, \H605a, \H43ff, \H5bed, \H8086, \H072b, \Ha1e7, \Hcc23, \H58ba, \Heca1, \H34c8, \H25a7>>,
        <<\H0933, \H0c33, \Hf711, \H47e8, \H3d19, \H2fc7, \H82cd, \H1b47, \H5311, \H1b17, \H3b3b, \H05d2,
          \H2fa0, \H8086, \He3b0, \Hf712, \Hfcc7, \Hc71a, \H557e, \H2db9, \H66c3, \He9fa, \H9174, \H6039>>),
    Digest("sha512", {1, 16, 111},
        <<\Hddaf, \H35a1, \H9361, \H7aba, \Hcc41, \H7349, \Hae20, \H4131, \H12e6, \Hfa4e, \H89a9, \H7ea2,
          \H0a9e, \Heee6, \H4b55, \Hd39a, \H2192, \H992a, \H274f, \Hc1a8, \H36ba, \H3c23, \Ha3fe, \Hebbd,
          \H454d, \H4423, \H643c, \He80e, \H2a9a, \Hc94f, \Ha54c, \Ha49f>>,
        <<\H8e95, \H9b75, \Hdae3, \H13da, \H8cf4, \Hf728, \H14fc, \H143f, \H8f77, \H79c6, \Heb9f, \H7fa1,
          \H7299, \Haead, \Hb688, \H9018, \H501d, \H289e, \H4900, \Hf7e4, \H331b, \H99de, \Hc4b5, \H433a,
          \Hc7d3, \H29ee, \Hb6dd, \H2654, \H5e96, \He55b, \H874b, \He909>>)}

Blocks ==
    {[kind |-> "block", key |-> Settled([i \in 1 .. k |-> (i * m) % 256]),
      plaintext |-> Settled([i \in 1 .. 16 |-> (i * i * m) % 256])] :
         k \in {16, 24, 32}, m \in {17, 101}}

AllJobs == Cards \cup Digests \cup Blocks
=============================================================================
