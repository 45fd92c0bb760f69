--------------------------- MODULE KeyToolProofs ---------------------------
(***************************************************************************)
(* Proofs about runs of pppauth, for every key, command line, sequence of  *)
(* runs and logins, and with every accident: a temporary key reaches no    *)
(* file, writing counters spares the key file, and cards go on record for  *)
(* a browser only while they are sent.                                     *)
(***************************************************************************)
EXTENDS KeyTool, FiniteSetTheorems, TLAPS

Memory ==
    [key : Int, ver : 0 .. 2, flags : SUBSET Flags, cur : Int, last : Int,
     alphabet : {"default", "given"}]

Ops == [file : {"key", "cnt", "gen"}, act : {"open", "close"}]

\* Contents of the state files, with the version that a failed reading leaves.
AnyContents == [fmt : Formats, ver : 0 .. 2, flags : SUBSET Flags, num : Int]

AnyBuffer == [head : AnyContents, tail : Int]

Shape ==
    /\ keyFile \in AnyContents /\ cntFile \in AnyContents /\ genFile \in AnyContents
    /\ m \in Memory
    /\ todo \in Seq(Ops)
    /\ opt.useVersion \in {0, 1} /\ opt.target.num \in Int

-----------------------------------------------------------------------------
(* The shape of the state.                                                 *)

LEMMA ReadBuffer ==
  ASSUME NEW b \in AnyBuffer, NEW file \in AnyContents
  PROVE  Fread(b, file) \in AnyBuffer
  BY DEF Fread, AnyBuffer, AnyContents

LEMMA BufferYields ==
  ASSUME NEW b \in AnyBuffer, NEW flags
  PROVE  /\ PppVersion(b) \in 0 .. 2
         /\ PppFlags(b) \in SUBSET Flags
         /\ ReadData(b, flags) \in Int
  <1>1. b.head \in AnyContents /\ b.tail \in Int
    BY DEF AnyBuffer
  <1>2. b.head.ver \in 0 .. 2 /\ b.head.flags \in SUBSET Flags /\ b.head.num \in Int
    BY <1>1 DEF AnyContents
  <1> QED BY <1>1, <1>2 DEF PppVersion, PppFlags, ReadData, FlagsWord, Flags

LEMMA ReadingShape ==
  ASSUME Shape
  PROVE  Reading.mem \in Memory
  <1> DEFINE b1 == Fread(ZeroedBuffer, keyFile)
             b2 == Fread(b1, cntFile)
             b3 == Fread(b2, genFile)
             agree == PppVersion(b1) = PppVersion(b2) /\ PppVersion(b2) = PppVersion(b3)
             ver == IF agree THEN PppVersion(b1) ELSE 0
             cur == ReadData(b2, PppFlags(b1))
             last == ReadData(b3, PppFlags(b1))
             read == [key |-> ReadData(b1, PppFlags(b1)), ver |-> ver, flags |-> PppFlags(b1),
                      cur |-> cur, last |-> last, alphabet |-> "default"]
  <1>1. ZeroedBuffer \in AnyBuffer
    BY DEF ZeroedBuffer, AnyBuffer, Empty, AnyContents, Formats
  <1>2. b1 \in AnyBuffer
    BY <1>1, ReadBuffer DEF Shape
  <1>3. b2 \in AnyBuffer
    BY <1>2, ReadBuffer DEF Shape
  <1>4. b3 \in AnyBuffer
    BY <1>3, ReadBuffer DEF Shape
  <1> HIDE DEF b1, b2, b3
  <1>5. read \in Memory
    BY <1>2, <1>3, <1>4, BufferYields DEF Memory
  <1>6. FreshMemory \in Memory
    BY DEF FreshMemory, Memory
  <1>7. Reading.mem = FreshMemory \/ Reading.mem = read
    BY DEF Reading, b1, b2, b3
  <1> QED BY <1>5, <1>6, <1>7

\* What the key in memory can be after reading, and that flags are not lost.
LEMMA ReadingKey ==
  ASSUME Shape
  PROVE  /\ Reading.mem.key \in {0, keyFile.num}
         /\ Reading.ok /\ keyFile.fmt = "flagged" => "present" \in Reading.mem.flags
  <1> DEFINE b1 == Fread(ZeroedBuffer, keyFile)
  <1>1. CASE keyFile.fmt = "empty"
    <2>1. b1 = ZeroedBuffer
      BY <1>1 DEF Fread
    <2> QED BY <1>1, <2>1 DEF Reading, FreshMemory, ReadData, PppFlags, ZeroedBuffer, Empty
  <1>2. CASE keyFile.fmt # "empty"
    <2>1. b1.head = keyFile
      BY <1>2 DEF Fread
    <2> HIDE DEF b1
    <2>2. ReadData(b1, PppFlags(b1)) = keyFile.num
      BY <2>1 DEF ReadData, PppFlags
    <2>3. keyFile.fmt = "flagged" => "present" \in PppFlags(b1)
      BY <2>1 DEF PppFlags
    <2>4. Reading.mem.key = 0 \/ Reading.mem.key = ReadData(b1, PppFlags(b1))
      BY DEF Reading, FreshMemory, b1
    <2>5. Reading.ok => Reading.mem.flags = PppFlags(b1)
      BY DEF Reading, b1
    <2> QED BY <2>2, <2>3, <2>4, <2>5
  <1> QED BY <1>1, <1>2

LEMMA WrittenType ==
  ASSUME NEW ver \in 0 .. 2, NEW flags \in SUBSET Flags, NEW num \in Int
  PROVE  Written(ver, flags, num) \in AnyContents
  BY DEF Written, AnyContents, Formats

LEMMA AfterType ==
  ASSUME Shape, todo # <<>>
  PROVE  /\ After(keyFile, "key", m.key) \in AnyContents
         /\ After(cntFile, "cnt", m.cur) \in AnyContents
         /\ After(genFile, "gen", m.last) \in AnyContents
  <1>1. /\ m.ver \in 0 .. 2 /\ m.flags \in SUBSET Flags
        /\ m.key \in Int /\ m.cur \in Int /\ m.last \in Int
    BY DEF Shape, Memory
  <1>2. Empty \in AnyContents
    BY DEF Empty, AnyContents, Formats
  <1> QED BY <1>1, <1>2, WrittenType DEF After, Shape

\* The sequences of file operations, and what is left of one after a step.
LEMMA OpsShape ==
  /\ <<>> \in Seq(Ops)
  /\ CounterOps \in Seq(Ops) /\ KeyOps \in Seq(Ops)
  /\ \A flags : StateOps(flags) \in Seq(Ops)
  <1>1. CounterOps \in Seq(Ops)
    BY DEF CounterOps, Op, Ops
  <1>2. KeyOps \in Seq(Ops)
    BY DEF KeyOps, Op, Ops
  <1>3. <<Op("key", "open"), Op("key", "close")>> \in Seq(Ops)
    BY DEF Op, Ops
  <1>4. <<Op("key", "open"), Op("key", "close")>> \o CounterOps \in Seq(Ops)
    BY <1>1, <1>3
  <1> QED BY <1>1, <1>2, <1>4 DEF StateOps

LEMMA NewKeyShape ==
  ASSUME Shape, NEW key \in Int
  PROVE  /\ NewKey(key) \in Memory /\ NewKey(key).key = key
         /\ "present" \in NewKey(key).flags
  BY DEF NewKey, Shape, Memory, Flags

\* writeState changes no more of the memory than the flags, and adds to these.
LEMMA CallShape ==
  ASSUME Shape, NEW mem \in Memory, NEW to, CallWriteState(mem, to)
  PROVE  /\ m' \in Memory /\ m'.key = mem.key
         /\ mem.flags \subseteq m'.flags
         /\ Exists(keyFile) => "present" \in m'.flags
         /\ todo' = StateOps(mem.flags) /\ back' = to /\ pc' = "write"
  <1> DEFINE flags == IF Exists(keyFile) THEN mem.flags \cup {"present"} ELSE mem.flags
  <1>1. m' = [mem EXCEPT !.flags = flags] /\ flags \in SUBSET Flags
    BY DEF CallWriteState, Memory, Flags
  <1> HIDE DEF flags
  <1>2. m' \in Memory /\ m'.key = mem.key /\ m'.flags = flags
    BY <1>1 DEF Memory
  <1> QED BY <1>2 DEF CallWriteState, flags

-----------------------------------------------------------------------------
(* The invariant.                                                          *)

\* A temporary key has flags, so that no step of writing touches the key file;
\* nothing is left to write outside "write"; only --key leads to the question.
KeysApart ==
    /\ keyFile.num # TemporaryKey
    /\ pc \in {"key", "confirm"} => opt.key
    /\ pc = "confirm" => m.key # TemporaryKey
    /\ back \notin {"key", "confirm"}
    /\ pc # "write" => todo = <<>>
    /\ m.key = TemporaryKey =>
          "present" \in m.flags /\ \A i \in 1 .. Len(todo) : todo[i].file # "key"

\* Without --key the key file is written only when it had no flags, and then
\* first of all; the memory has the flags that the file has.
KeySpared ==
    /\ "present" \in keyFile.flags => keyFile.fmt = "flagged"
    /\ ~opt.key =>
          /\ \A i \in 1 .. Len(todo) : todo[i].file = "key" =>
                /\ i = 1 \/ (i = 2 /\ todo[1].act = "open")
                /\ "present" \notin keyFile.flags
          /\ pc \notin {"idle", "passphrase"} /\ "present" \in keyFile.flags =>
                "present" \in m.flags

\* Printing and serving were asked for, with something to print.
Asked ==
    /\ pc = "print" \/ (pc = "write" /\ back = "print") => fText(opt) \/ fLatex(opt)
    /\ pc \in {"html", "serve"} \/ (pc = "write" /\ back \in {"html", "serve"}) => fHtml(opt)
    /\ pc # "idle" => /\ fText(opt) => fNext(opt) \/ fCard(opt) \/ fPasscode(opt)
                      /\ fHtml(opt) => fNext(opt) \/ fCard(opt)

KeysCounted == keys \in 0 .. Len(KeyOf)

ToolInv == Shape /\ KeysApart /\ KeySpared /\ Asked /\ KeysCounted

LEMMA AcceptedOption ==
  ASSUME NEW o \in Accepted[Exists(keyFile)]
  PROVE  \E e \in BOOLEAN : o \in Options /\ Refusals(o, e) = {}
  <1>1. CASE Exists(keyFile)
    BY <1>1 DEF Accepted
  <1>2. CASE ~Exists(keyFile)
    <2>1. Exists(keyFile) = FALSE
      BY <1>2 DEF Exists
    <2>2. Accepted[FALSE] = {p \in Options : Refusals(p, FALSE) = {}}
      BY DEF Accepted
    <2>3. o \in Options /\ Refusals(o, FALSE) = {}
      BY <2>1, <2>2
    <2> QED BY <2>3
  <1> QED BY <1>1, <1>2

LEMMA AcceptedMeans ==
  ASSUME NEW o \in Accepted[Exists(keyFile)]
  PROVE  /\ o.useVersion \in {0, 1} /\ o.target.num \in Int
         /\ fText(o) => fNext(o) \/ fCard(o) \/ fPasscode(o)
         /\ fHtml(o) => fNext(o) \/ fCard(o)
  <1>1. PICK e \in BOOLEAN : o \in Options /\ Refusals(o, e) = {}
    BY AcceptedOption
  <1>2. o.useVersion \in {0, 1} /\ o.target \in Targets
    BY <1>1 DEF Options
  <1>3. o.target.num \in Int
    <2>1. CASE o.target \in [kind : {"none", "current", "both", "invalid"}, num : {0}]
      BY <2>1
    <2>2. CASE o.target \in [kind : {"card"}, num : CardTargets]
      <3>1. o.target.num \in CardTargets
        BY <2>2
      <3>2. \A n \in CardTargets : n \in Nat
        BY CommandLineAssumption
      <3> QED BY <3>1, <3>2
    <2>3. CASE o.target \in [kind : {"passcode"}, num : PasscodeTargets]
      <3>1. o.target.num \in PasscodeTargets
        BY <2>3
      <3>2. \A n \in PasscodeTargets : n \in Nat
        BY CommandLineAssumption
      <3> QED BY <3>1, <3>2
    <2> QED BY <1>2, <2>1, <2>2, <2>3 DEF Targets
  <1>4. /\ "textWhat" \in Reasons /\ "textWhat" \notin Refusals(o, e)
        /\ "htmlWhat" \in Reasons /\ "htmlWhat" \notin Refusals(o, e)
    BY <1>1 DEF Reasons
  <1>5. /\ fText(o) => fNext(o) \/ fCard(o) \/ fPasscode(o)
        /\ fHtml(o) => fNext(o) \/ fCard(o)
    BY <1>4 DEF Refusals
  <1> QED BY <1>2, <1>3, <1>5

LEMMA InitInv == Init => ToolInv
  <1> SUFFICES ASSUME Init PROVE ToolInv
    OBVIOUS
  <1>1. /\ opt = NoOptions /\ m = FreshMemory /\ todo = <<>> /\ back = "idle" /\ pc = "idle"
    BY DEF Init
  <1>2. m \in Memory /\ m.key = 0 /\ TemporaryKey # 0
    BY <1>1, KeyToolAssumption DEF FreshMemory, Memory
  <1>3. /\ opt.useVersion \in {0, 1} /\ opt.target.num \in Int
    BY <1>1 DEF NoOptions
  <1>4. /\ keyFile \in AnyContents /\ cntFile \in AnyContents /\ genFile \in AnyContents
        /\ keyFile.num # TemporaryKey
        /\ "present" \in keyFile.flags => keyFile.fmt = "flagged"
    <2> DEFINE Good == /\ keyFile \in AnyContents /\ cntFile \in AnyContents
                       /\ genFile \in AnyContents /\ keyFile.num # TemporaryKey
                       /\ "present" \in keyFile.flags => keyFile.fmt = "flagged"
    <2>1. CASE keyFile = Missing /\ cntFile = Missing /\ genFile = Missing
      BY <2>1, KeyToolAssumption DEF Missing, AnyContents, Formats
    <2>2. ASSUME NEW fmt \in {"versioned", "flagged"},
                 NEW flags, flags = IF fmt = "flagged" THEN {"present"} ELSE {},
                 keyFile = [fmt |-> fmt, ver |-> 2, flags |-> flags, num |-> KeyOf[1]],
                 cntFile = [fmt |-> fmt, ver |-> 2, flags |-> flags, num |-> 0],
                 genFile = [fmt |-> fmt, ver |-> 2, flags |-> flags, num |-> -1]
          PROVE  Good
      <3>1. Len(KeyOf) > 0 /\ KeyOf[1] \in Nat /\ KeyOf[1] # TemporaryKey
        BY KeyToolAssumption
      <3> QED BY <2>2, <3>1 DEF AnyContents, Formats, Flags
    <2>3. \/ keyFile = Missing /\ cntFile = Missing /\ genFile = Missing
          \/ \E fmt \in {"versioned", "flagged"} :
                \E flags : /\ flags = IF fmt = "flagged" THEN {"present"} ELSE {}
                           /\ keyFile = [fmt |-> fmt, ver |-> 2, flags |-> flags, num |-> KeyOf[1]]
                           /\ cntFile = [fmt |-> fmt, ver |-> 2, flags |-> flags, num |-> 0]
                           /\ genFile = [fmt |-> fmt, ver |-> 2, flags |-> flags, num |-> -1]
      BY DEF Init
    <2>4. Good
      BY <2>1, <2>2, <2>3
    <2> QED BY <2>4
  <1>5. KeysCounted
    <2>1. Len(KeyOf) \in Nat \ {0}
      BY KeyToolAssumption
    <2>2. keys = 0 \/ keys = 1
      BY DEF Init
    <2> QED BY <2>1, <2>2 DEF KeysCounted
  <1> QED BY <1>1, <1>2, <1>3, <1>4, <1>5 DEF ToolInv, Shape, KeysApart, KeySpared, Asked

-----------------------------------------------------------------------------
(* The steps.                                                              *)

\* Where main goes from one part to the next.
LEMMA HtmlOnwards ==
  ASSUME NEW o
  PROVE  FromHtml(o) \in {"html", "exit"} /\ (FromHtml(o) = "html" => fHtml(o))
  BY DEF FromHtml

LEMMA PrintOnwards ==
  ASSUME NEW o
  PROVE  /\ FromPrint(o) \in {"print", "html", "exit"}
         /\ FromPrint(o) = "print" => fText(o) \/ fLatex(o)
         /\ FromPrint(o) = "html" => fHtml(o)
  BY HtmlOnwards DEF FromPrint

LEMMA SkipOnwards ==
  ASSUME NEW o
  PROVE  /\ FromSkip(o) \in {"skip", "print", "html", "exit"}
         /\ FromSkip(o) = "print" => fText(o) \/ fLatex(o)
         /\ FromSkip(o) = "html" => fHtml(o)
  BY PrintOnwards DEF FromSkip

LEMMA PassphraseOnwards ==
  ASSUME NEW o
  PROVE  /\ FromPassphrase(o) \in {"passphrase", "skip", "print", "html", "exit"}
         /\ FromPassphrase(o) = "print" => fText(o) \/ fLatex(o)
         /\ FromPassphrase(o) = "html" => fHtml(o)
         /\ o.passphrase => FromPassphrase(o) = "passphrase"
  BY SkipOnwards DEF FromPassphrase

\* The end of a process leaves nothing in memory.
LEMMA EndsInv ==
  ASSUME ToolInv, Ends, UNCHANGED <<files, keys>>
  PROVE  ToolInv'
  <1>1. /\ m' = FreshMemory /\ opt' = NoOptions /\ todo' = <<>> /\ back' = "idle"
        /\ pc' = "idle" /\ keyFile' = keyFile /\ cntFile' = cntFile /\ genFile' = genFile
    BY DEF Ends, files
  <1>2. m' \in Memory /\ m'.key = 0 /\ TemporaryKey # 0
    BY <1>1, KeyToolAssumption DEF FreshMemory, Memory
  <1>3. opt'.useVersion \in {0, 1} /\ opt'.target.num \in Int
    BY <1>1 DEF NoOptions
  <1> QED BY <1>1, <1>2, <1>3 DEF ToolInv, Shape, KeysApart, KeySpared, Asked, KeysCounted

LEMMA StartInv ==
  ASSUME ToolInv, Start
  PROVE  ToolInv'
  <1>1. PICK o \in Accepted[Exists(keyFile)] :
          /\ ~InvalidKeyFile(o)
          /\ opt' = o
          /\ m' = [Reading.mem EXCEPT !.flags = @ \ {"dontSkip"},
                                      !.alphabet = IF o.alphabet THEN "given" ELSE @]
          /\ pc' = FromKey(o)
    BY DEF Start
  <1>2. /\ keyFile' = keyFile /\ cntFile' = cntFile /\ genFile' = genFile
        /\ todo' = <<>> /\ back' = back /\ pc = "idle"
    BY DEF Start, files, ToolInv, KeysApart
  <1>3. Reading.mem \in Memory /\ Reading.mem.key \in {0, keyFile.num}
    BY ReadingShape, ReadingKey DEF ToolInv
  <1>4. /\ m' \in Memory /\ m'.key = Reading.mem.key
        /\ m'.flags = Reading.mem.flags \ {"dontSkip"}
    <2> DEFINE r == Reading.mem
               flags == r.flags \ {"dontSkip"}
               alphabet == IF o.alphabet THEN "given" ELSE r.alphabet
    <2>1. r \in Memory /\ flags \in SUBSET Flags /\ alphabet \in {"default", "given"}
      BY <1>3 DEF Memory
    <2>2. m' = [r EXCEPT !.flags = flags, !.alphabet = alphabet]
      BY <1>1
    <2> HIDE DEF r, flags, alphabet
    <2>3. m' \in Memory /\ m'.key = r.key /\ m'.flags = flags
      BY <2>1, <2>2 DEF Memory
    <2> QED BY <2>3 DEF r, flags
  <1>5. m'.key # TemporaryKey
    BY <1>3, <1>4, KeyToolAssumption DEF ToolInv, KeysApart
  <1>6. Shape'
    BY <1>1, <1>2, <1>4, AcceptedMeans DEF ToolInv, Shape
  <1>7. pc' \in {"key", "passphrase", "skip", "print", "html", "exit"}
           /\ (pc' = "key" => o.key) /\ (pc' = "print" => fText(o) \/ fLatex(o))
           /\ (pc' = "html" => fHtml(o))
    BY <1>1, PassphraseOnwards DEF FromKey
  <1>8. KeysApart'
    BY <1>1, <1>2, <1>5, <1>7 DEF ToolInv, KeysApart
  <1>9. ASSUME ~o.key, pc' # "passphrase", "present" \in keyFile.flags
        PROVE  "present" \in m'.flags
    <2>1. keyFile.fmt = "flagged" /\ Exists(keyFile)
      BY <1>9 DEF ToolInv, KeySpared, Exists
    <2>2. ~o.passphrase
      BY <1>1, <1>9, PassphraseOnwards DEF FromKey
    <2>3. Reading.ok
      BY <1>1, <1>9, <2>1, <2>2 DEF InvalidKeyFile
    <2> QED BY <1>4, <2>1, <2>3, ReadingKey DEF ToolInv
  <1>10. KeySpared'
    BY <1>1, <1>2, <1>9 DEF ToolInv, KeySpared
  <1>11. Asked'
    BY <1>1, <1>2, <1>7, AcceptedMeans DEF Asked
  <1>12. KeysCounted'
    BY DEF Start, ToolInv, KeysCounted
  <1> QED BY <1>6, <1>8, <1>10, <1>11, <1>12 DEF ToolInv

\* A step of writing.
LEMMA WriteStepInv ==
  ASSUME ToolInv, WriteStep
  PROVE  ToolInv'
  <1>1. /\ pc = "write" /\ todo # <<>> /\ todo' = Tail(todo)
        /\ keyFile' = After(keyFile, "key", m.key)
        /\ cntFile' = After(cntFile, "cnt", m.cur)
        /\ genFile' = After(genFile, "gen", m.last)
        /\ m' = m /\ opt' = opt /\ pc' = pc /\ back' = back
    BY DEF WriteStep
  <1>2. todo \in Seq(Ops)
    BY DEF ToolInv, Shape
  <1>3. /\ Len(todo) \in Nat \ {0} /\ Head(todo) = todo[1] /\ todo[1] \in Ops
        /\ Tail(todo) \in Seq(Ops) /\ Len(Tail(todo)) = Len(todo) - 1
        /\ \A i \in 1 .. Len(todo) - 1 : Tail(todo)[i] = todo[i + 1]
    BY <1>1, <1>2
  <1>4. Shape'
    BY <1>1, <1>3, AfterType DEF ToolInv, Shape
  <1>5. Empty.num # TemporaryKey /\ Empty.flags = {}
    BY KeyToolAssumption DEF Empty
  <1>6. /\ Written(m.ver, m.flags, m.key).num = m.key
        /\ Written(m.ver, m.flags, m.key).flags = m.flags
        /\ Written(m.ver, m.flags, m.key).fmt = "flagged"
    BY DEF Written
  <1>7. \/ todo[1].file # "key" /\ keyFile' = keyFile
        \/ todo[1].file = "key" /\ todo[1].act = "open" /\ keyFile' = Empty
        \/ /\ todo[1].file = "key" /\ todo[1].act # "open"
           /\ keyFile' = Written(m.ver, m.flags, m.key)
    BY <1>1, <1>3 DEF After
  <1>8. KeysApart'
    BY <1>1, <1>3, <1>5, <1>6, <1>7 DEF ToolInv, KeysApart
  <1>9. "present" \in keyFile'.flags => keyFile'.fmt = "flagged"
    BY <1>5, <1>6, <1>7 DEF ToolInv, KeySpared
  <1>10. ASSUME ~opt.key, NEW i \in 1 .. Len(todo'), todo'[i].file = "key"
         PROVE  (i = 1 \/ (i = 2 /\ todo'[1].act = "open")) /\ "present" \notin keyFile'.flags
    <2>1. i + 1 \in 1 .. Len(todo) /\ todo[i + 1].file = "key"
      BY <1>1, <1>3, <1>10
    <2>2. i = 1 /\ todo[1].act = "open" /\ "present" \notin keyFile.flags
      BY <1>10, <2>1 DEF ToolInv, KeySpared
    <2> QED BY <1>5, <1>7, <2>2
  <1>11. ASSUME ~opt.key, "present" \in keyFile'.flags
         PROVE  "present" \in m.flags
    BY <1>1, <1>5, <1>6, <1>7, <1>11 DEF ToolInv, KeySpared
  <1>12. KeySpared'
    BY <1>1, <1>9, <1>10, <1>11 DEF KeySpared
  <1>13. Asked' /\ KeysCounted'
    BY <1>1 DEF ToolInv, Asked, KeysCounted, WriteStep
  <1> QED BY <1>4, <1>8, <1>12, <1>13 DEF ToolInv

\* What writeState is about to do, and where it returns to.
LEMMA CallInv ==
  ASSUME ToolInv, NEW mem \in Memory, mem.key = m.key, mem.flags = m.flags,
         NEW to \in {"print", "html", "serve", "exit"}, CallWriteState(mem, to),
         UNCHANGED <<files, opt, keys>>, pc \in {"skip", "print", "serve"},
         to = "print" => fText(opt) \/ fLatex(opt),
         to \in {"html", "serve"} => fHtml(opt)
  PROVE  ToolInv'
  <1>1. /\ m' \in Memory /\ m'.key = m.key /\ m.flags \subseteq m'.flags
        /\ Exists(keyFile) => "present" \in m'.flags
        /\ todo' = StateOps(m.flags) /\ back' = to /\ pc' = "write"
    BY CallShape DEF ToolInv
  <1>2. keyFile' = keyFile /\ cntFile' = cntFile /\ genFile' = genFile /\ opt' = opt
    BY DEF files
  <1>3. Shape'
    BY <1>1, <1>2, OpsShape DEF ToolInv, Shape
  <1>4. "present" \in m.flags => \A i \in 1 .. Len(todo') : todo'[i].file # "key"
    <2>1. \A i \in 1 .. Len(CounterOps) : CounterOps[i].file # "key"
      BY DEF CounterOps, Op
    <2> QED BY <1>1, <2>1 DEF StateOps
  <1>5. \A i \in 1 .. Len(todo') : todo'[i].file = "key" => i = 1 \/ (i = 2 /\ todo'[1].act = "open")
    <2>1. \A i \in 1 .. Len(CounterOps) : CounterOps[i].file # "key"
      BY DEF CounterOps, Op
    <2> DEFINE ops == <<Op("key", "open"), Op("key", "close")>> \o CounterOps
    <2>2. /\ Len(ops) = 6 /\ ops[1].act = "open"
          /\ ops[3].file # "key" /\ ops[4].file # "key" /\ ops[5].file # "key" /\ ops[6].file # "key"
      BY DEF CounterOps, Op
    <2> HIDE DEF ops
    <2>3. \A i \in 1 .. Len(ops) : ops[i].file = "key" => i = 1 \/ (i = 2 /\ ops[1].act = "open")
      <3>1. \A i \in 1 .. Len(ops) : i \in {1, 2, 3, 4, 5, 6}
        BY <2>2
      <3> QED BY <2>2, <3>1
    <2>4. todo' \in {<<>>, CounterOps, ops}
      BY <1>1 DEF StateOps, ops
    <2> QED BY <2>1, <2>3, <2>4
  <1>6. KeysApart'
    BY <1>1, <1>2, <1>4 DEF ToolInv, KeysApart
  <1>7. KeySpared'
    BY <1>1, <1>2, <1>4, <1>5 DEF ToolInv, KeySpared
  <1>8. Asked' /\ KeysCounted'
    BY <1>1, <1>2 DEF ToolInv, Asked, KeysCounted
  <1> QED BY <1>3, <1>6, <1>7, <1>8 DEF ToolInv

\* A step that writes nothing and leaves the memory alone.
LEMMA QuietInv ==
  ASSUME ToolInv, UNCHANGED <<files, m, opt, todo, back, keys>>, pc \notin {"idle", "passphrase"},
         \/ pc = "write" /\ todo = <<>> /\ pc' = back
         \/ pc # "write" /\ pc' \in {"passphrase", "skip", "print", "html", "serve", "exit"},
         pc' = "print" => fText(opt) \/ fLatex(opt),
         pc' \in {"html", "serve"} => fHtml(opt)
  PROVE  ToolInv'
  <1>1. /\ keyFile' = keyFile /\ cntFile' = cntFile /\ genFile' = genFile
        /\ m' = m /\ opt' = opt /\ todo' = todo /\ back' = back
    BY DEF files
  <1>2. Shape'
    BY <1>1 DEF ToolInv, Shape
  <1>3. KeysApart'
    BY <1>1 DEF ToolInv, KeysApart
  <1>4. KeySpared'
    BY <1>1 DEF ToolInv, KeySpared
  <1>5. Asked' /\ KeysCounted'
    BY <1>1 DEF ToolInv, Asked, KeysCounted
  <1> QED BY <1>2, <1>3, <1>4, <1>5 DEF ToolInv

LEMMA NewKeyInv ==
  ASSUME ToolInv, GenerateKey \/ Confirm \/ Decline \/ UsePassphrase
  PROVE  ToolInv'
  <1>1. /\ keyFile' = keyFile /\ cntFile' = cntFile /\ genFile' = genFile /\ opt' = opt
        /\ pc \in {"key", "confirm", "passphrase"} /\ todo = <<>>
    BY DEF GenerateKey, Confirm, Decline, UsePassphrase, files, ToolInv, KeysApart
  <1>2. /\ FromPassphrase(opt) \in {"passphrase", "skip", "print", "html", "exit"}
        /\ FromPassphrase(opt) = "print" => fText(opt) \/ fLatex(opt)
        /\ FromPassphrase(opt) = "html" => fHtml(opt)
    BY PassphraseOnwards
  <1>3. KeyOps \in Seq(Ops)
    BY OpsShape
  <1>4. CASE GenerateKey
    <2>1. /\ KeyOf[keys + 1] \in Int /\ KeyOf[keys + 1] # TemporaryKey
          /\ m' = NewKey(KeyOf[keys + 1]) /\ pc = "key"
          /\ \/ pc' = "confirm" /\ todo' = todo /\ back' = back
             \/ pc' = "write" /\ todo' = KeyOps /\ back' = FromPassphrase(opt)
      <3>1. keys + 1 \in 1 .. Len(KeyOf)
        BY <1>4 DEF GenerateKey, ToolInv, KeysCounted
      <3> QED BY <1>4, <3>1, KeyToolAssumption DEF GenerateKey
    <2>2. m' \in Memory /\ m'.key # TemporaryKey /\ "present" \in m'.flags
      BY <2>1, NewKeyShape DEF ToolInv
    <2>3. opt.key
      BY <2>1 DEF ToolInv, KeysApart
    <2>4. Shape'
      BY <1>1, <1>3, <2>1, <2>2 DEF ToolInv, Shape
    <2>5. KeysApart'
      BY <1>1, <1>2, <2>1, <2>2, <2>3 DEF ToolInv, KeysApart
    <2>6. KeySpared'
      BY <1>1, <2>3 DEF ToolInv, KeySpared
    <2>7. Asked'
      BY <1>1, <1>2, <2>1 DEF ToolInv, Asked
    <2>8. KeysCounted'
      BY <1>4 DEF GenerateKey, ToolInv, KeysCounted
    <2> QED BY <2>4, <2>5, <2>6, <2>7, <2>8 DEF ToolInv
  <1>5. CASE Confirm
    <2>1. /\ m' = m /\ pc = "confirm" /\ pc' = "write" /\ todo' = KeyOps
          /\ back' = FromPassphrase(opt) /\ keys' = keys
      BY <1>5 DEF Confirm
    <2>2. opt.key /\ m.key # TemporaryKey
      BY <2>1 DEF ToolInv, KeysApart
    <2>3. Shape'
      BY <1>1, <1>3, <2>1 DEF ToolInv, Shape
    <2>4. KeysApart'
      BY <1>1, <1>2, <2>1, <2>2 DEF ToolInv, KeysApart
    <2>5. KeySpared'
      BY <1>1, <2>2 DEF ToolInv, KeySpared
    <2>6. Asked' /\ KeysCounted'
      BY <1>1, <1>2, <2>1 DEF ToolInv, Asked, KeysCounted
    <2> QED BY <2>3, <2>4, <2>5, <2>6 DEF ToolInv
  <1>6. CASE Decline
    <2>1. /\ UNCHANGED <<files, m, opt, todo, back, keys>> /\ pc = "confirm"
          /\ pc' = FromPassphrase(opt)
      BY <1>6 DEF Decline
    <2> QED BY <1>2, <2>1, QuietInv
  <1>7. CASE UsePassphrase
    <2>1. /\ m' = NewKey(TemporaryKey) /\ pc = "passphrase" /\ pc' = FromSkip(opt)
          /\ todo' = todo /\ back' = back /\ keys' = keys
      BY <1>7 DEF UsePassphrase
    <2>2. /\ pc' \in {"skip", "print", "html", "exit"}
          /\ pc' = "print" => fText(opt) \/ fLatex(opt)
          /\ pc' = "html" => fHtml(opt)
      BY <2>1, SkipOnwards
    <2>3. m' \in Memory /\ "present" \in m'.flags
      BY <2>1, NewKeyShape, KeyToolAssumption DEF ToolInv
    <2>4. Shape'
      BY <1>1, <2>1, <2>3 DEF ToolInv, Shape
    <2>5. KeysApart'
      BY <1>1, <2>1, <2>2, <2>3 DEF ToolInv, KeysApart
    <2>6. KeySpared'
      BY <1>1, <2>1, <2>3 DEF ToolInv, KeySpared
    <2>7. Asked' /\ KeysCounted'
      BY <1>1, <2>1, <2>2 DEF ToolInv, Asked, KeysCounted
    <2> QED BY <2>4, <2>5, <2>6, <2>7 DEF ToolInv
  <1> QED BY <1>4, <1>5, <1>6, <1>7

LEMMA LoginsInv ==
  ASSUME ToolInv, Logins
  PROVE  ToolInv'
  <1>1. PICK n \in LoginCnts :
          LET r == Reading
              flags == r.mem.flags \cup {"present"}
          IN  /\ keyFile' = Written(r.mem.ver, flags, r.mem.key)
              /\ cntFile' = Written(r.mem.ver, flags, n)
              /\ genFile' = Written(r.mem.ver, flags, r.mem.last)
    BY DEF Logins
  <1>2. /\ pc = "idle" /\ pc' = pc /\ m' = m /\ opt' = opt /\ todo' = todo /\ back' = back
        /\ keys' = keys
    BY DEF Logins
  <1> DEFINE mem == Reading.mem
             flags == mem.flags \cup {"present"}
  <1>3. mem \in Memory /\ mem.key \in {0, keyFile.num}
    BY ReadingShape, ReadingKey DEF ToolInv
  <1>4. /\ keyFile' = Written(mem.ver, flags, mem.key)
        /\ cntFile' = Written(mem.ver, flags, n)
        /\ genFile' = Written(mem.ver, flags, mem.last)
    BY <1>1
  <1> HIDE DEF mem
  <1>5. /\ mem.ver \in 0 .. 2 /\ flags \in SUBSET Flags /\ mem.key \in Int
        /\ mem.last \in Int /\ n \in Int
    BY <1>3, KeyToolAssumption DEF Memory, Flags
  <1> HIDE DEF flags
  <1>6. Shape'
    BY <1>2, <1>4, <1>5, WrittenType DEF ToolInv, Shape
  <1>7. keyFile'.num # TemporaryKey /\ keyFile'.fmt = "flagged"
    BY <1>3, <1>4, KeyToolAssumption DEF Written, ToolInv, KeysApart
  <1>8. todo = <<>>
    BY <1>2 DEF ToolInv, KeysApart
  <1>9. KeysApart'
    BY <1>2, <1>7 DEF ToolInv, KeysApart
  <1>10. KeySpared'
    BY <1>2, <1>7, <1>8 DEF ToolInv, KeySpared
  <1>11. Asked' /\ KeysCounted'
    BY <1>2 DEF ToolInv, Asked, KeysCounted
  <1> QED BY <1>6, <1>9, <1>10, <1>11 DEF ToolInv

LEMMA PrintInv ==
  ASSUME ToolInv, Skip \/ PrintNext
  PROVE  ToolInv'
  <1>1. m \in Memory
    BY DEF ToolInv, Shape
  <1>2. CASE Skip
    <2> DEFINE last == LastAfterSkip(m.last, opt.target.num)
               mem == [m EXCEPT !.cur = opt.target.num, !.last = last]
    <2>1. opt.target.num \in Int /\ last \in Int
      <3>1. opt.target.num \in Int /\ m.last \in Int
        BY <1>1 DEF ToolInv, Shape, Memory
      <3> QED BY <3>1 DEF LastAfterSkip, Cards!CardContaining, Cards!CardSize
    <2> HIDE DEF last
    <2>2. mem \in Memory /\ mem.key = m.key /\ mem.flags = m.flags
      BY <1>1, <2>1 DEF Memory
    <2>3. CallWriteState(mem, FromPrint(opt)) /\ pc = "skip" /\ UNCHANGED <<files, opt, keys>>
      BY <1>2 DEF Skip, last
    <2> HIDE DEF mem
    <2> QED BY <2>2, <2>3, CallInv, PrintOnwards
  <1>3. CASE PrintNext
    <2> DEFINE mem == [m EXCEPT !.last = m.last + 1]
    <2>1. m.last + 1 \in Int
      BY <1>1 DEF Memory
    <2>2. mem \in Memory /\ mem.key = m.key /\ mem.flags = m.flags
      BY <1>1, <2>1 DEF Memory
    <2>3. CallWriteState(mem, pc) /\ pc \in {"print", "serve"} /\ UNCHANGED <<files, opt, keys>>
      BY <1>3 DEF PrintNext
    <2> HIDE DEF mem
    <2>4. (pc = "print" => fText(opt) \/ fLatex(opt)) /\ (pc = "serve" => fHtml(opt))
      BY DEF ToolInv, Asked
    <2> QED BY <2>2, <2>3, <2>4, CallInv
  <1> QED BY <1>2, <1>3

LEMMA NextInv == ToolInv /\ [Next]_vars => ToolInv'
  <1> SUFFICES ASSUME ToolInv, [Next]_vars PROVE ToolInv'
    OBVIOUS
  <1>1. CASE Start
    BY <1>1, StartInv
  <1>2. CASE GenerateKey \/ Confirm \/ Decline \/ UsePassphrase
    BY <1>2, NewKeyInv
  <1>3. CASE Skip \/ PrintNext
    BY <1>3, PrintInv
  <1>4. CASE WriteStep
    BY <1>4, WriteStepInv
  <1>5. CASE SkipRefused \/ PrintTemporary \/ ServeNothing \/ Process
    <2>1. /\ UNCHANGED <<files, m, opt, todo, back, keys>>
          /\ pc \in {"skip", "print", "serve", "html"}
          /\ pc' \in {"exit", "serve", pc} /\ (pc' = "serve" => pc \in {"html", "serve"})
          /\ (pc' = "skip" => FALSE) /\ (pc' = "print" => pc = "print")
          /\ (pc' = "html" => FALSE)
      BY <1>5 DEF SkipRefused, PrintTemporary, ServeNothing, Process
    <2>2. (pc = "print" => fText(opt) \/ fLatex(opt)) /\ (pc \in {"html", "serve"} => fHtml(opt))
      BY DEF ToolInv, Asked
    <2> QED BY <2>1, <2>2, QuietInv
  <1>6. CASE PrintedAll \/ PrintOne \/ PrintPasscode
    <2>1. /\ UNCHANGED <<files, m, opt, todo, back, keys>> /\ pc \in {"print", "serve"}
          /\ pc' \in {FromHtml(opt), "exit"}
      BY <1>6 DEF PrintedAll, PrintOne, PrintPasscode, AfterPrinting
    <2>2. pc' \in {"html", "exit"} /\ (pc' = "html" => fHtml(opt))
      BY <2>1, HtmlOnwards
    <2> QED BY <2>1, <2>2, QuietInv
  <1>7. CASE WriteDone
    <2>1. /\ UNCHANGED <<files, m, opt, todo, back, keys>> /\ pc = "write" /\ todo = <<>>
          /\ pc' = back
      BY <1>7 DEF WriteDone
    <2> QED BY <2>1, QuietInv DEF ToolInv, Asked
  <1>8. CASE Exit \/ Kill
    <2>1. Ends /\ UNCHANGED <<files, keys>>
      BY <1>8 DEF Exit, Kill
    <2> QED BY <2>1, EndsInv
  <1>9. CASE Logins
    BY <1>9, LoginsInv
  <1>10. CASE Refuse \/ UNCHANGED vars
    <2>1. UNCHANGED <<files, m, opt, pc, todo, back, keys>>
      BY <1>10 DEF Refuse, vars, files
    <2> QED BY <2>1 DEF files, ToolInv, Shape, KeysApart, KeySpared, Asked, KeysCounted
  <1> QED BY <1>1, <1>2, <1>3, <1>4, <1>5, <1>6, <1>7, <1>8, <1>9, <1>10 DEF Next

LEMMA AlwaysToolInv == Spec => []ToolInv
  BY InitInv, NextInv, PTL DEF Spec

-----------------------------------------------------------------------------
(* The theorems.                                                           *)

\* cmdline.c:134, "This temporary key is not saved": for no command line, no
\* earlier state of the files, and with no accident, a kill included.
THEOREM TemporaryStaysTemporary == Spec => []TemporaryKeyNotSaved
  <1>1. ToolInv => TemporaryKeyNotSaved
    BY DEF ToolInv, KeysApart, TemporaryKeyNotSaved
  <1> QED BY <1>1, AlwaysToolInv, PTL

\* Nothing but --key touches a key file of this release: not skipping, not
\* printing, not a kill between any two file operations.
THEOREM KeyFileSpared == Spec => KeySurvivesCounterWrites
  <1> DEFINE Step == Exists(keyFile) /\ keyFile' # keyFile /\ pc = "write"
                       /\ "present" \in keyFile.flags => opt.key
  <1>1. ToolInv /\ [Next]_vars => [Step]_vars
    <2> SUFFICES ASSUME ToolInv, Next, keyFile' # keyFile, pc = "write",
                        "present" \in keyFile.flags, ~opt.key
                 PROVE  FALSE
      OBVIOUS
    <2>1. WriteStep
      BY DEF Next, Start, GenerateKey, Confirm, Decline, UsePassphrase, SkipRefused, Skip,
             PrintNext, PrintTemporary, PrintedAll, PrintOne, PrintPasscode, ServeNothing,
             Process, Exit, Kill, Logins, Refuse, WriteDone, files
    <2>2. todo # <<>> /\ Head(todo).file = "key" /\ todo \in Seq(Ops)
      BY <2>1 DEF WriteStep, After, ToolInv, Shape
    <2>3. 1 \in 1 .. Len(todo) /\ todo[1].file = "key"
      BY <2>2
    <2> QED BY <2>3 DEF ToolInv, KeySpared
  <1> QED BY <1>1, AlwaysToolInv, PTL DEF Spec, KeySurvivesCounterWrites

-----------------------------------------------------------------------------
(* The browser.                                                            *)

\* One format at a time, and counters written for a browser are written while
\* it is being served.
Served ==
    /\ pc # "idle" => ~(fHtml(opt) /\ (fText(opt) \/ fLatex(opt)))
    /\ pc \in {"skip", "write"} /\ (pc = "skip" \/ back \notin {"serve", "print"}) =>
          opt.skip \/ opt.key
    /\ pc = "serve" \/ (pc = "write" /\ back = "serve") =>
          request /\ status \in Seq({200, 404, 501}) \ {<<>>} /\ status[Len(status)] = 200

LEMMA OneFormat ==
  ASSUME NEW o \in Accepted[Exists(keyFile)]
  PROVE  ~(fHtml(o) /\ (fText(o) \/ fLatex(o)))
  <1>1. PICK e \in BOOLEAN : o \in Options /\ Refusals(o, e) = {}
    BY AcceptedOption
  <1>2. "twoFormats" \in Reasons /\ "twoFormats" \notin Refusals(o, e)
    BY <1>1 DEF Reasons
  <1>3. ~(Cardinality(o.formats) > 1)
    BY <1>2 DEF Refusals
  <1>4. o.formats \subseteq Media /\ IsFiniteSet(Media)
    <2>1. IsFiniteSet({"html"})
      BY FS_Singleton
    <2>2. IsFiniteSet({"html"} \cup {"text"})
      BY <2>1, FS_AddElement
    <2>3. IsFiniteSet(({"html"} \cup {"text"}) \cup {"latex"})
      BY <2>2, FS_AddElement
    <2>4. Media = ({"html"} \cup {"text"}) \cup {"latex"}
      BY DEF Media
    <2> QED BY <1>1, <2>3, <2>4 DEF Options
  <1>5. IsFiniteSet(o.formats)
    BY <1>4, FS_Subset
  <1>6. ASSUME NEW f \in {"text", "latex"}, {"html", f} \subseteq o.formats
        PROVE  FALSE
    <2>1. IsFiniteSet({"html"}) /\ Cardinality({"html"}) = 1
      BY FS_Singleton
    <2>2. {"html"} \cup {f} = {"html", f} /\ f \notin {"html"}
      OBVIOUS
    <2>3. Cardinality({"html", f}) = 2
      BY <2>1, <2>2, FS_AddElement
    <2>4. Cardinality({"html", f}) <= Cardinality(o.formats)
      BY <1>5, <1>6, FS_Subset
    <2>5. Cardinality(o.formats) \in Nat
      BY <1>5, FS_CardinalityType
    <2> QED BY <1>3, <2>3, <2>4, <2>5
  <1> QED BY <1>6 DEF fHtml, fText, fLatex

LEMMA FoundIs200 ==
  ASSUME NEW r \in Requests, Found(r)
  PROVE  /\ Statuses(r) \in Seq({200, 404, 501}) \ {<<>>}
         /\ Statuses(r)[Len(Statuses(r))] = 200
         /\ r.path
  <1> DEFINE a == IF r.get THEN <<>> ELSE <<501>>
             b == IF r.length THEN <<>> ELSE <<404>>
  <1>1. a \in Seq({200, 404, 501}) /\ b \in Seq({200, 404, 501})
    <2>1. /\ <<>> \in Seq({200, 404, 501})
          /\ <<501>> \in Seq({200, 404, 501}) /\ <<404>> \in Seq({200, 404, 501})
      OBVIOUS
    <2> QED BY <2>1 DEF a, b
  <1>2. Statuses(r) = (a \o b) \o <<200>>
    BY DEF Statuses, a, b
  <1> HIDE DEF a, b
  <1>3. a \o b \in Seq({200, 404, 501})
    BY <1>1
  <1> DEFINE c == a \o b
  <1>4. c \in Seq({200, 404, 501}) /\ Statuses(r) = c \o <<200>>
    BY <1>2, <1>3
  <1> HIDE DEF c
  <1>5. /\ Statuses(r) \in Seq({200, 404, 501}) /\ Len(Statuses(r)) = Len(c) + 1
        /\ Len(c) \in Nat /\ Statuses(r)[Len(c) + 1] = 200
    BY <1>4
  <1>6. Statuses(r) # <<>>
    BY <1>5
  <1> QED BY <1>5, <1>6 DEF Found

LEMMA NextServed == ToolInv /\ Served /\ [Next]_vars => Served'
  <1> SUFFICES ASSUME ToolInv, Served, [Next]_vars PROVE Served'
    OBVIOUS
  <1> USE DEF http
  <1>1. CASE Start
    <2>1. PICK o \in Accepted[Exists(keyFile)] : opt' = o /\ pc' = FromKey(o)
      BY <1>1 DEF Start
    <2>2. ~(fHtml(o) /\ (fText(o) \/ fLatex(o)))
      BY <2>1, OneFormat
    <2>3. pc' \notin {"serve", "write"} /\ (pc' = "skip" => o.skip)
      BY <2>1, PassphraseOnwards DEF FromKey, FromPassphrase, FromSkip, FromPrint, FromHtml
    <2> QED BY <2>1, <2>2, <2>3 DEF Served
  <1>2. CASE GenerateKey \/ Confirm
    <2>1. /\ opt' = opt /\ pc \in {"key", "confirm"} /\ pc' \in {"confirm", "write"}
          /\ pc' = "write" => back' = FromPassphrase(opt)
      BY <1>2 DEF GenerateKey, Confirm
    <2>2. opt.key /\ FromPassphrase(opt) # "serve"
      BY <2>1, PassphraseOnwards DEF ToolInv, KeysApart
    <2> QED BY <2>1, <2>2 DEF Served
  <1>3. CASE Decline
    <2>1. opt' = opt /\ pc = "confirm" /\ pc' = FromPassphrase(opt)
      BY <1>3 DEF Decline
    <2>2. opt.key /\ FromPassphrase(opt) \notin {"serve", "write", "idle"}
      BY <2>1, PassphraseOnwards DEF ToolInv, KeysApart
    <2> QED BY <2>1, <2>2 DEF Served
  <1>4. CASE UsePassphrase
    <2>1. opt' = opt /\ pc = "passphrase" /\ pc' = FromSkip(opt)
      BY <1>4 DEF UsePassphrase
    <2>2. FromSkip(opt) \notin {"serve", "write", "idle"} /\ (FromSkip(opt) = "skip" => opt.skip)
      BY SkipOnwards, PrintOnwards DEF FromSkip
    <2> QED BY <2>1, <2>2 DEF Served
  <1>5. CASE Skip
    <2>1. opt' = opt /\ pc = "skip" /\ pc' = "write" /\ back' = FromPrint(opt)
      BY <1>5 DEF Skip, CallWriteState
    <2> QED BY <2>1, PrintOnwards DEF Served
  <1>6. CASE PrintNext
    <2>1. /\ opt' = opt /\ pc \in {"print", "serve"} /\ pc' = "write" /\ back' = pc
          /\ request' = request /\ status' = status
      BY <1>6 DEF PrintNext, CallWriteState
    <2> QED BY <2>1 DEF Served
  <1>7. CASE WriteDone
    <2>1. /\ opt' = opt /\ pc = "write" /\ pc' = back /\ back' = back
          /\ request' = request /\ status' = status
      BY <1>7 DEF WriteDone
    <2> QED BY <2>1 DEF Served
  <1>8. CASE WriteStep \/ Refuse \/ UNCHANGED vars
    <2>1. UNCHANGED <<opt, pc, back, request, status>>
      BY <1>8 DEF WriteStep, Refuse, vars
    <2> QED BY <2>1 DEF Served
  <1>9. CASE PrintTemporary \/ PrintedAll \/ PrintOne \/ PrintPasscode
    <2>1. /\ UNCHANGED <<opt, request, status>> /\ pc \in {"print", "serve"}
          /\ pc' \in {pc, FromHtml(opt), "exit"}
      BY <1>9 DEF PrintTemporary, PrintedAll, PrintOne, PrintPasscode, AfterPrinting
    <2>2. pc' \in {pc, "html", "exit"}
      BY <2>1, HtmlOnwards
    <2> QED BY <2>1, <2>2 DEF Served
  <1>10. CASE Process
    <2>1. PICK r \in Requests :
            request' = r.path /\ status' = Statuses(r) /\ pc' = IF Found(r) THEN "serve" ELSE "exit"
      BY <1>10 DEF Process
    <2>2. opt' = opt /\ pc = "html"
      BY <1>10 DEF Process
    <2>3. CASE Found(r)
      BY <2>1, <2>2, <2>3, FoundIs200 DEF Served
    <2>4. CASE ~Found(r)
      BY <2>1, <2>2, <2>4 DEF Served
    <2> QED BY <2>3, <2>4
  <1>11. CASE SkipRefused \/ ServeNothing \/ Exit \/ Kill \/ Logins
    <2>1. /\ pc' \in {"exit", "idle"}
          /\ pc' = "exit" => opt' = opt /\ pc # "idle"
      BY <1>11 DEF SkipRefused, ServeNothing, Exit, Kill, Ends, Logins
    <2> QED BY <2>1 DEF Served
  <1> QED BY <1>1, <1>2, <1>3, <1>4, <1>5, <1>6, <1>7, <1>8, <1>9, <1>10, <1>11 DEF Next

LEMMA AlwaysServed == Spec => [](ToolInv /\ Served)
  <1>1. Init => Served
    BY DEF Init, Served
  <1> QED BY <1>1, NextServed, AlwaysToolInv, PTL DEF Spec

\* http.c:290: a card goes on record for a browser only while it is being sent
\* in answer to a request for the secret path, whatever was reported before.
THEOREM RecordsWhatItSends == Spec => RecordedWhenSent
  <1> DEFINE Step == fHtml(opt) /\ genFile' # genFile /\ ~opt.skip /\ ~opt.key /\ pc = "write"
                       => request /\ status[Len(status)] = 200
  <1>1. ToolInv /\ Served /\ [Next]_vars => [Step]_vars
    <2> SUFFICES ASSUME ToolInv, Served, fHtml(opt), ~opt.skip, ~opt.key, pc = "write"
                 PROVE  request /\ status[Len(status)] = 200
      OBVIOUS
    <2>1. back \in {"serve", "print"}
      BY DEF Served
    <2>2. back # "print"
      BY DEF Served, ToolInv, Asked
    <2> QED BY <2>1, <2>2 DEF Served
  <1> QED BY <1>1, AlwaysServed, PTL DEF Spec, RecordedWhenSent

=============================================================================
