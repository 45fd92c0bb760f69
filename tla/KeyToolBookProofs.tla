------------------------- MODULE KeyToolBookProofs -------------------------
(***************************************************************************)
(* Proofs about what runs of pppauth leave in the files, in memory and on  *)
(* paper, for every key, command line, sequence of runs and logins: types, *)
(* while no accident has happened, that numbers are asked for once, that   *)
(* the cards on record are on paper, and that the tool implements          *)
(* CardBook; and, whatever has happened, that a run sends the pages that   *)
(* its command line names.                                                 *)
(***************************************************************************)
EXTENDS KeyToolProofs

-----------------------------------------------------------------------------
(* The types.                                                              *)

FilesTyped ==
    /\ keyFile \in Contents /\ cntFile \in Contents /\ genFile \in Contents
    /\ keyFile.num \in Nat

ToolMemory ==
    [key : Nat, ver : 0 .. 2, flags : SUBSET Flags, cur : Int, last : Int,
     alphabet : {"default", "given"}]

SentPages == [key : Nat, alphabet : {"default", "given"}, card : Int]

\* The version in memory is one of the two as soon as it may be written.
MemoryTyped ==
    /\ m \in ToolMemory
    /\ pc \notin {"idle", "key", "passphrase", "exit"} => m.ver \in Versions

Places == {"idle", "key", "confirm", "passphrase", "skip", "print", "html", "serve", "write", "exit"}

RunTyped ==
    /\ opt \in Options \cup {NoOptions}
    /\ pc \in Places /\ back \in Places
    /\ left \in Nat /\ cardNum \in Nat /\ sent \in Seq(SentPages)
    /\ request \in BOOLEAN /\ status \in Seq({200, 404, 501})
    /\ runs \in 0 .. MaxRuns

\* What a run may do that counts as an accident is one that may happen.
Excused ==
    /\ accidents \subseteq Accidents
    /\ opt.skip /\ opt.passphrase => "temporary" \in Accidents
    /\ pc = "skip" \/ (pc = "write" /\ back = "skip") => opt.skip
    /\ m.alphabet = "given" =>
          \/ pc \in {"key", "passphrase"}
          \/ ~opt.key /\ ~opt.passphrase /\ "alphabet" \in Accidents

LEMMA AcceptedNeedsKey ==
  ASSUME NEW o \in Accepted[Exists(keyFile)]
  PROVE  o \in Options /\ (Exists(keyFile) \/ o.key \/ o.passphrase)
  <1>1. CASE Exists(keyFile)
    BY <1>1 DEF Accepted
  <1>2. CASE ~Exists(keyFile)
    <2>1. Exists(keyFile) = FALSE
      BY <1>2 DEF Exists
    <2>2. Accepted[FALSE] = {p \in Options : Refusals(p, FALSE) = {}}
      BY DEF Accepted
    <2>3. o \in Options /\ Refusals(o, FALSE) = {}
      BY <2>1, <2>2
    <2>4. "noKey" \in Reasons /\ "noKey" \notin Refusals(o, FALSE)
      BY <2>3 DEF Reasons
    <2> QED BY <2>3, <2>4 DEF Refusals
  <1> QED BY <1>1, <1>2

LEMMA OptionParts ==
  ASSUME NEW o \in Options
  PROVE  /\ o.count \in Nat \cup {-1} /\ o.target.num \in Nat
         /\ o.useVersion \in {0, 1} /\ o.skip \in BOOLEAN /\ o.passphrase \in BOOLEAN
  <1>1. o.count \in Counts /\ o.target \in Targets
    BY DEF Options
  <1>2. o.count \in Nat \cup {-1}
    BY <1>1, CommandLineAssumption
  <1>3. o.target.num \in Nat
    <2>1. CASE o.target \in [kind : {"none", "current", "both", "invalid"}, num : {0}]
      BY <2>1
    <2>2. CASE o.target \in [kind : {"card"}, num : CardTargets]
      <3>1. o.target.num \in CardTargets
        BY <2>2
      <3>2. \A n \in CardTargets : n \in Nat
        BY CommandLineAssumption
      <3> QED BY <3>1, <3>2
    <2>3. CASE o.target \in [kind : {"passcode"}, num : PasscodeTargets]
      <3>1. o.target.num \in PasscodeTargets
        BY <2>3
      <3>2. \A n \in PasscodeTargets : n \in Nat
        BY CommandLineAssumption
      <3> QED BY <3>1, <3>2
    <2> QED BY <1>1, <2>1, <2>2, <2>3 DEF Targets
  <1> QED BY <1>2, <1>3 DEF Options

\* Files with a version make a memory with a version.
LEMMA ReadingVersion ==
  ASSUME FilesTyped, Reading.ok
  PROVE  Reading.mem.ver \in Versions
  <1> DEFINE b1 == Fread(ZeroedBuffer, keyFile)
             b2 == Fread(b1, cntFile)
             b3 == Fread(b2, genFile)
             agree == PppVersion(b1) = PppVersion(b2) /\ PppVersion(b2) = PppVersion(b3)
  <1>1. b1.head = Empty \/ b1.head = keyFile
    BY DEF Fread, ZeroedBuffer
  <1>2. b1.head \in Contents
    BY <1>1 DEF FilesTyped, Empty, Contents, Formats, Versions
  <1>3. b1.head.ver \in Versions
    BY <1>2 DEF Contents
  <1> HIDE DEF b1
  <1>4. PppVersion(b1) \in Versions
    BY <1>3 DEF PppVersion, Versions
  <1>5. Reading.ok => Reading.mem.ver = IF agree THEN PppVersion(b1) ELSE 0
    BY DEF Reading, b1, b2, b3
  <1>6. Reading.ok => agree
    BY DEF Reading, b1, b2, b3
  <1> QED BY <1>4, <1>5, <1>6

LEMMA ReadingTyped ==
  ASSUME FilesTyped, Shape
  PROVE  Reading.mem \in ToolMemory
  <1>1. Reading.mem \in Memory /\ Reading.mem.key \in Nat
    BY ReadingShape, ReadingKey DEF FilesTyped
  <1> DEFINE r == Reading.mem
  <1> HIDE DEF r
  <1>2. r \in Memory /\ r.key \in Nat
    BY <1>1 DEF r
  <1>3. r \in ToolMemory
    BY <1>2 DEF Memory, ToolMemory
  <1> QED BY <1>3 DEF r

LEMMA NewKeyTyped ==
  ASSUME m \in ToolMemory, opt.useVersion \in {0, 1}, NEW key \in Nat
  PROVE  /\ NewKey(key) \in ToolMemory /\ NewKey(key).ver \in Versions
         /\ NewKey(key).alphabet = "default"
  BY DEF NewKey, ToolMemory, Flags, Versions

LEMMA WrittenContents ==
  ASSUME NEW ver \in Versions, NEW flags \in SUBSET Flags, NEW num \in Int
  PROVE  Written(ver, flags, num) \in Contents
  BY DEF Written, Contents, Formats

LEMMA FilesTypedNext ==
  ASSUME ToolInv, FilesTyped, MemoryTyped, Next
  PROVE  FilesTyped'
  <1>1. CASE WriteStep
    <2>1. /\ m.ver \in Versions /\ m.flags \in SUBSET Flags /\ m.key \in Nat
          /\ m.cur \in Int /\ m.last \in Int
      BY <1>1 DEF WriteStep, MemoryTyped, ToolMemory
    <2>2. Empty \in Contents /\ Empty.num \in Nat
      BY DEF Empty, Contents, Formats, Versions
    <2>3. /\ Written(m.ver, m.flags, m.key) \in Contents
          /\ Written(m.ver, m.flags, m.cur) \in Contents
          /\ Written(m.ver, m.flags, m.last) \in Contents
          /\ Written(m.ver, m.flags, m.key).num \in Nat
      BY <2>1, WrittenContents DEF Written
    <2>4. /\ keyFile' \in {keyFile, Empty, Written(m.ver, m.flags, m.key)}
          /\ cntFile' \in {cntFile, Empty, Written(m.ver, m.flags, m.cur)}
          /\ genFile' \in {genFile, Empty, Written(m.ver, m.flags, m.last)}
      BY <1>1 DEF WriteStep, After
    <2> QED BY <2>2, <2>3, <2>4 DEF FilesTyped
  <1>2. CASE Logins
    <2> DEFINE mem == Reading.mem
               flags == mem.flags \cup {"present"}
    <2>1. PICK n \in LoginCnts :
            /\ keyFile' = Written(mem.ver, flags, mem.key)
            /\ cntFile' = Written(mem.ver, flags, n)
            /\ genFile' = Written(mem.ver, flags, mem.last)
      BY <1>2 DEF Logins
    <2>2. mem.ver \in Versions /\ mem \in ToolMemory
      BY <1>2, ReadingVersion, ReadingTyped DEF Logins, ToolInv
    <2> HIDE DEF mem
    <2>3. flags \in SUBSET Flags /\ mem.key \in Nat /\ mem.last \in Int /\ n \in Int
      BY <2>2, KeyToolAssumption DEF ToolMemory, Flags
    <2> HIDE DEF flags
    <2>4. /\ Written(mem.ver, flags, mem.key) \in Contents
          /\ Written(mem.ver, flags, n) \in Contents
          /\ Written(mem.ver, flags, mem.last) \in Contents
          /\ Written(mem.ver, flags, mem.key).num \in Nat
      BY <2>2, <2>3, WrittenContents DEF Written
    <2> QED BY <2>1, <2>4 DEF FilesTyped
  <1>3. CASE UNCHANGED files
    BY <1>3 DEF FilesTyped, files
  <1> QED BY <1>1, <1>2, <1>3 DEF Next, Refuse, Start, GenerateKey, Confirm, Decline,
             UsePassphrase, SkipRefused, Skip, WriteDone, PrintNext, PrintTemporary, PrintedAll,
             PrintOne, PrintPasscode, ServeNothing, Process, Exit, Kill

LEMMA NewKeysTyped ==
  ASSUME ToolInv, MemoryTyped, RunTyped, GenerateKey \/ UsePassphrase
  PROVE  /\ m' \in ToolMemory /\ m'.ver \in Versions /\ m'.alphabet = "default"
         /\ GenerateKey => m' = NewKey(KeyOf[keys + 1]) /\ keys + 1 \in 1 .. Len(KeyOf)
  <1>1. opt.useVersion \in {0, 1}
    BY DEF ToolInv, Shape
  <1>2. CASE GenerateKey
    <2>1. keys + 1 \in 1 .. Len(KeyOf)
      BY <1>2 DEF GenerateKey, ToolInv, KeysCounted
    <2>2. KeyOf[keys + 1] \in Nat /\ m' = NewKey(KeyOf[keys + 1])
      BY <1>2, <2>1, KeyToolAssumption DEF GenerateKey
    <2> QED BY <1>1, <2>1, <2>2, NewKeyTyped DEF MemoryTyped
  <1>3. CASE UsePassphrase
    <2>1. TemporaryKey \in Nat /\ m' = NewKey(TemporaryKey)
      BY <1>3, KeyToolAssumption DEF UsePassphrase
    <2>2. ~GenerateKey
      BY <1>3 DEF UsePassphrase, GenerateKey
    <2> QED BY <1>1, <2>1, <2>2, NewKeyTyped DEF MemoryTyped
  <1> QED BY <1>2, <1>3

\* What Start leaves, for the options it takes.
LEMMA StartTyped ==
  ASSUME ToolInv, FilesTyped, Start
  PROVE  /\ m' \in ToolMemory
         /\ opt' \in Accepted[Exists(keyFile)] /\ pc' = FromKey(opt')
         /\ pc' \notin {"key", "passphrase"} =>
               /\ ~opt'.key /\ ~opt'.passphrase /\ Reading.ok /\ Exists(keyFile)
               /\ m'.ver \in Versions
         /\ opt'.skip /\ opt'.passphrase => "temporary" \in Accidents
         /\ m'.alphabet = "given" /\ ~opt'.key /\ ~opt'.passphrase => "alphabet" \in Accidents
         /\ /\ m'.key = Reading.mem.key /\ m'.ver = Reading.mem.ver
            /\ m'.cur = Reading.mem.cur /\ m'.last = Reading.mem.last
            /\ m'.flags = Reading.mem.flags \ {"dontSkip"}
         /\ m'.alphabet = IF opt'.alphabet THEN "given" ELSE "default"
  <1>1. PICK o \in Accepted[Exists(keyFile)] :
          /\ ~InvalidKeyFile(o)
          /\ Permitted(o)
          /\ opt' = o
          /\ m' = [Reading.mem EXCEPT !.flags = @ \ {"dontSkip"},
                                      !.alphabet = IF o.alphabet THEN "given" ELSE @]
          /\ pc' = FromKey(o)
    BY DEF Start
  <1> DEFINE r == Reading.mem
             flags == r.flags \ {"dontSkip"}
             alphabet == IF o.alphabet THEN "given" ELSE r.alphabet
  <1>2. r \in ToolMemory
    BY ReadingTyped DEF ToolInv
  <1>3. flags \in SUBSET Flags /\ alphabet \in {"default", "given"}
    BY <1>2 DEF ToolMemory
  <1>4. r.alphabet = "default"
    BY DEF Reading, FreshMemory
  <1>5. alphabet = IF o.alphabet THEN "given" ELSE "default"
    BY <1>4
  <1>6. m' = [r EXCEPT !.flags = flags, !.alphabet = alphabet]
    BY <1>1
  <1>7. Reading.ok => r.ver \in Versions
    BY ReadingVersion
  <1> HIDE DEF r, flags, alphabet
  <1>8. /\ m' \in ToolMemory /\ m'.ver = r.ver /\ m'.alphabet = alphabet
        /\ m'.key = r.key /\ m'.cur = r.cur /\ m'.last = r.last /\ m'.flags = flags
    BY <1>2, <1>3, <1>6 DEF ToolMemory
  <1>9. FromKey(o) \notin {"key", "passphrase"} => ~o.key /\ ~o.passphrase
    BY PassphraseOnwards DEF FromKey
  <1>10. ~o.key /\ ~o.passphrase => Exists(keyFile) /\ Reading.ok
    BY <1>1, AcceptedNeedsKey DEF InvalidKeyFile
  <1>11. /\ o.skip /\ o.passphrase => "temporary" \in Accidents
         /\ o.alphabet /\ ~o.key /\ ~o.passphrase => "alphabet" \in Accidents
    BY <1>1 DEF Permitted, May
  <1> QED BY <1>1, <1>5, <1>7, <1>8, <1>9, <1>10, <1>11 DEF r, flags

\* The memory that writeState writes.
LEMMA SkipTyped ==
  ASSUME m \in ToolMemory, opt.target.num \in Int, Skip
  PROVE  /\ m' \in ToolMemory
         /\ m'.key = m.key /\ m'.ver = m.ver /\ m'.alphabet = m.alphabet
         /\ m'.cur = opt.target.num /\ m'.last = LastAfterSkip(m.last, opt.target.num)
         /\ m'.flags = IF Exists(keyFile) THEN m.flags \cup {"present"} ELSE m.flags
  <1> DEFINE flags == IF Exists(keyFile) THEN m.flags \cup {"present"} ELSE m.flags
             last == LastAfterSkip(m.last, opt.target.num)
  <1>1. last \in Int
    <2>1. m.last \in Int
      BY DEF ToolMemory
    <2> QED BY <2>1 DEF LastAfterSkip, Cards!CardContaining, Cards!CardSize
  <1>2. flags \in SUBSET Flags
    BY DEF ToolMemory, Flags
  <1>3. m' = [[m EXCEPT !.cur = opt.target.num, !.last = last] EXCEPT !.flags = flags]
    BY DEF Skip, CallWriteState, ToolMemory
  <1> HIDE DEF flags, last
  <1>4. /\ m' \in ToolMemory /\ m'.key = m.key /\ m'.ver = m.ver /\ m'.alphabet = m.alphabet
        /\ m'.cur = opt.target.num /\ m'.last = last /\ m'.flags = flags
    BY <1>1, <1>2, <1>3 DEF ToolMemory
  <1> QED BY <1>4 DEF flags, last

LEMMA PrintNextTyped ==
  ASSUME m \in ToolMemory, PrintNext
  PROVE  /\ m' \in ToolMemory
         /\ m'.key = m.key /\ m'.ver = m.ver /\ m'.alphabet = m.alphabet
         /\ m'.cur = m.cur /\ m'.last = m.last + 1
         /\ m'.flags = IF Exists(keyFile) THEN m.flags \cup {"present"} ELSE m.flags
  <1> DEFINE flags == IF Exists(keyFile) THEN m.flags \cup {"present"} ELSE m.flags
             last == m.last + 1
  <1>1. last \in Int /\ flags \in SUBSET Flags
    BY DEF ToolMemory, Flags
  <1>2. m' = [[m EXCEPT !.last = last] EXCEPT !.flags = flags]
    BY DEF PrintNext, CallWriteState, ToolMemory
  <1> HIDE DEF flags, last
  <1>3. /\ m' \in ToolMemory /\ m'.key = m.key /\ m'.ver = m.ver /\ m'.alphabet = m.alphabet
        /\ m'.cur = m.cur /\ m'.last = last /\ m'.flags = flags
    BY <1>1, <1>2 DEF ToolMemory
  <1> QED BY <1>3 DEF flags, last

LEMMA FreshTyped == FreshMemory \in ToolMemory /\ FreshMemory.alphabet = "default"
  BY DEF FreshMemory, ToolMemory

LEMMA MemoryTypedNext ==
  ASSUME ToolInv, FilesTyped, MemoryTyped, RunTyped, Next
  PROVE  MemoryTyped'
  <1>1. CASE Start
    BY <1>1, StartTyped DEF MemoryTyped
  <1>2. CASE GenerateKey \/ UsePassphrase
    BY <1>2, NewKeysTyped DEF MemoryTyped
  <1>3. CASE Skip
    <2>1. m' \in ToolMemory /\ m'.ver = m.ver /\ pc = "skip"
      BY <1>3, SkipTyped DEF MemoryTyped, Skip, ToolInv, Shape
    <2> QED BY <2>1 DEF MemoryTyped
  <1>4. CASE PrintNext
    <2>1. m' \in ToolMemory /\ m'.ver = m.ver /\ pc \in {"print", "serve"}
      BY <1>4, PrintNextTyped DEF MemoryTyped, PrintNext
    <2> QED BY <2>1 DEF MemoryTyped
  <1>5. CASE Exit \/ Kill
    BY <1>5, FreshTyped DEF Exit, Kill, Ends, MemoryTyped
  <1>6. CASE Refuse \/ Logins \/ WriteStep \/ PrintTemporary
    <2>1. m' = m /\ pc' = pc
      BY <1>6 DEF Refuse, Logins, WriteStep, PrintTemporary
    <2> QED BY <2>1 DEF MemoryTyped
  <1>7. CASE Confirm \/ Decline \/ SkipRefused \/ WriteDone \/ PrintedAll \/ PrintOne
                \/ PrintPasscode \/ ServeNothing \/ Process
    <2>1. m' = m /\ pc \in {"confirm", "skip", "write", "print", "serve", "html"}
      BY <1>7 DEF Confirm, Decline, SkipRefused, WriteDone, PrintedAll, PrintOne,
                  PrintPasscode, ServeNothing, Process
    <2> QED BY <2>1 DEF MemoryTyped
  <1> QED BY <1>1, <1>2, <1>3, <1>4, <1>5, <1>6, <1>7 DEF Next

LEMMA StatusesTyped ==
  ASSUME NEW r \in Requests
  PROVE  Statuses(r) \in Seq({200, 404, 501}) /\ r.path \in BOOLEAN
  <1> DEFINE a == IF r.get THEN <<>> ELSE <<501>>
             b == IF r.length THEN <<>> ELSE <<404>>
             c == IF Found(r) THEN <<200>> ELSE <<404>>
  <1>1. a \in Seq({200, 404, 501}) /\ b \in Seq({200, 404, 501}) /\ c \in Seq({200, 404, 501})
    <2>1. /\ <<>> \in Seq({200, 404, 501}) /\ <<200>> \in Seq({200, 404, 501})
          /\ <<501>> \in Seq({200, 404, 501}) /\ <<404>> \in Seq({200, 404, 501})
      OBVIOUS
    <2> QED BY <2>1 DEF a, b, c
  <1>2. Statuses(r) = a \o b \o c
    BY DEF Statuses, a, b, c
  <1> HIDE DEF a, b, c
  <1>3. a \o b \in Seq({200, 404, 501})
    BY <1>1
  <1> QED BY <1>1, <1>2, <1>3 DEF Requests

\* Where main goes on to.
LEMMA OnwardsTyped ==
  ASSUME NEW o
  PROVE  /\ FromKey(o) \in Places \ {"idle", "write", "confirm"}
         /\ FromPassphrase(o) \in Places \ {"idle", "write", "confirm", "key"}
         /\ FromKey(o) = "skip" \/ FromPassphrase(o) = "skip" \/ FromSkip(o) = "skip" => o.skip
         /\ FromPrint(o) # "skip" /\ FromHtml(o) # "skip"
         /\ FromSkip(o) \in Places \ {"idle", "write", "confirm", "key", "passphrase"}
         /\ FromPrint(o) \in Places \ {"idle", "write", "confirm", "key", "passphrase"}
         /\ FromHtml(o) \in {"html", "exit"}
  BY DEF FromKey, FromPassphrase, FromSkip, FromPrint, FromHtml, Places

LEMMA EmitTyped ==
  ASSUME m \in ToolMemory, sent \in Seq(SentPages), NEW card \in Int, Emit(card)
  PROVE  sent' \in Seq(SentPages)
  <1>1. InUse(card) \in SentPages
    BY DEF InUse, SentPages, ToolMemory
  <1>2. sent' = Append(sent, InUse(card))
    BY DEF Emit
  <1> HIDE DEF SentPages
  <1> QED BY <1>1, <1>2

LEMMA RunTypedNext ==
  ASSUME ToolInv, FilesTyped, MemoryTyped, RunTyped, Next
  PROVE  RunTyped'
  <1> USE DEF RunTyped
  <1>1. CASE Start
    <2>1. PICK o \in Accepted[Exists(keyFile)] :
            /\ opt' = o /\ pc' = FromKey(o) /\ runs' = runs + 1 /\ runs < MaxRuns
            /\ left' = IF fNext(o) THEN o.count ELSE 0
            /\ cardNum' = Cards!CardContaining(o.target.num)
            /\ back' = back /\ sent' = sent /\ request' = request /\ status' = status
      BY <1>1 DEF Start, http
    <2>2. o \in Options /\ o.count \in Nat \cup {-1} /\ o.target.num \in Nat
      BY AcceptedNeedsKey, OptionParts
    <2>3. left' \in Nat
      BY <2>1, <2>2 DEF fNext
    <2>4. cardNum' \in Nat
      BY <2>1, <2>2 DEF Cards!CardContaining, Cards!CardSize
    <2>5. runs' \in 0 .. MaxRuns
      BY <2>1, KeyToolAssumption
    <2> QED BY <2>1, <2>2, <2>3, <2>4, <2>5, OnwardsTyped
  <1>2. CASE Refuse
    <2>1. runs' \in 0 .. MaxRuns /\ UNCHANGED <<opt, pc, back, progress, http>>
      BY <1>2, KeyToolAssumption DEF Refuse
    <2> QED BY <2>1 DEF http, progress
  <1>3. CASE GenerateKey \/ Confirm \/ Decline \/ UsePassphrase \/ Skip
    <2>1. /\ pc' \in {"confirm", "write", FromPassphrase(opt), FromSkip(opt)}
          /\ back' \in {back, FromPassphrase(opt), FromPrint(opt)}
          /\ UNCHANGED <<opt, progress, http, runs>>
      BY <1>3 DEF GenerateKey, Confirm, Decline, UsePassphrase, Skip, CallWriteState
    <2>2. pc' \in Places /\ back' \in Places
      BY <2>1, OnwardsTyped DEF Places
    <2> QED BY <2>1, <2>2 DEF http, progress
  <1>4. CASE PrintNext \/ PrintTemporary
    <2>1. /\ pc' \in {"write", pc} /\ back' \in {back, pc}
          /\ left > 0 /\ left' = left - 1 /\ cardNum' = cardNum + 1
          /\ Emit(m.last + 1) \/ Emit(cardNum)
          /\ UNCHANGED <<opt, http, runs>>
      BY <1>4 DEF PrintNext, PrintTemporary, CallWriteState
    <2>2. pc' \in Places /\ back' \in Places /\ left' \in Nat /\ cardNum' \in Nat
      BY <2>1 DEF Places
    <2>3. sent' \in Seq(SentPages)
      <3>1. m \in ToolMemory /\ m.last + 1 \in Int /\ cardNum \in Int
        BY DEF MemoryTyped, ToolMemory
      <3> QED BY <2>1, <3>1, EmitTyped
    <2> QED BY <2>1, <2>2, <2>3 DEF http
  <1>5. CASE SkipRefused \/ WriteStep \/ WriteDone \/ PrintedAll \/ PrintPasscode \/ ServeNothing
    <2>1. /\ pc' \in {"exit", pc, back, FromHtml(opt)}
          /\ UNCHANGED <<opt, back, left, cardNum, sent, http, runs>>
      BY <1>5 DEF SkipRefused, WriteStep, WriteDone, PrintedAll, PrintPasscode, ServeNothing,
                  AfterPrinting, progress
    <2>2. pc' \in Places
      BY <2>1, OnwardsTyped DEF Places
    <2> QED BY <2>1, <2>2 DEF http
  <1>6. CASE PrintOne
    <2>1. /\ pc' \in {"exit", FromHtml(opt)} /\ Emit(cardNum)
          /\ UNCHANGED <<opt, back, left, cardNum, http, runs>>
      BY <1>6 DEF PrintOne, AfterPrinting
    <2>2. pc' \in Places
      BY <2>1, OnwardsTyped DEF Places
    <2>3. sent' \in Seq(SentPages)
      BY <2>1, EmitTyped DEF MemoryTyped
    <2> QED BY <2>1, <2>2, <2>3 DEF http
  <1>7. CASE Process
    <2>1. PICK r \in Requests :
            request' = r.path /\ status' = Statuses(r) /\ pc' \in {"serve", "exit"}
      BY <1>7 DEF Process
    <2>2. request' \in BOOLEAN /\ status' \in Seq({200, 404, 501}) /\ pc' \in Places
      BY <2>1, StatusesTyped DEF Places
    <2> QED BY <1>7, <2>2 DEF Process, progress
  <1>8. CASE Exit \/ Kill
    <2>1. /\ opt' = NoOptions /\ pc' = "idle" /\ back' = "idle" /\ left' = 0 /\ cardNum' = 0
          /\ request' = FALSE /\ status' = <<>> /\ sent' = <<>> /\ runs' = runs
      BY <1>8 DEF Exit, Kill, Ends
    <2>2. status' \in Seq({200, 404, 501}) /\ sent' \in Seq(SentPages)
      BY <2>1
    <2> QED BY <2>1, <2>2 DEF Places
  <1>9. CASE Logins
    BY <1>9 DEF Logins, http, progress
  <1> QED BY <1>1, <1>2, <1>3, <1>4, <1>5, <1>6, <1>7, <1>8, <1>9 DEF Next

LEMMA ExcusedNext ==
  ASSUME ToolInv, FilesTyped, MemoryTyped, RunTyped, Excused, Next
  PROVE  Excused'
  <1> USE DEF Excused
  <1>1. CASE Start
    <2>1. accidents' = accidents
      BY <1>1 DEF Start, history
    <2> QED BY <1>1, <2>1, StartTyped, OnwardsTyped
  <1>2. CASE GenerateKey \/ UsePassphrase
    <2>1. /\ accidents' = accidents /\ opt' = opt
          /\ pc' = "confirm" \/ pc' = FromSkip(opt)
             \/ (pc' = "write" /\ back' = FromPassphrase(opt))
      BY <1>2 DEF GenerateKey, UsePassphrase, history
    <2> QED BY <1>2, <2>1, NewKeysTyped, OnwardsTyped
  <1>3. CASE Skip
    <2>1. /\ m'.alphabet = m.alphabet /\ pc = "skip" /\ opt' = opt
          /\ pc' = "write" /\ back' = FromPrint(opt)
          /\ accidents' = accidents \cup (IF opt.passphrase THEN {"temporary"} ELSE {})
      BY <1>3, SkipTyped DEF MemoryTyped, Skip, CallWriteState, ToolInv, Shape
    <2> QED BY <2>1, OnwardsTyped
  <1>4. CASE PrintNext
    <2>1. /\ m'.alphabet = m.alphabet /\ pc \in {"print", "serve"} /\ opt' = opt
          /\ pc' = "write" /\ back' = pc
      BY <1>4, PrintNextTyped DEF MemoryTyped, PrintNext, CallWriteState
    <2>2. Emit(m.last + 1)
      BY <1>4 DEF PrintNext
    <2> QED BY <2>1, <2>2 DEF Emit, May
  <1>5. CASE PrintTemporary \/ PrintOne
    <2>1. /\ m' = m /\ pc \in {"print", "serve"} /\ opt' = opt /\ Emit(cardNum)
          /\ pc' \in {pc, FromHtml(opt), "exit"}
      BY <1>5 DEF PrintTemporary, PrintOne, AfterPrinting
    <2>2. pc' \notin {"skip", "write"}
      BY <2>1, OnwardsTyped
    <2> QED BY <2>1, <2>2 DEF Emit, May
  <1>6. CASE Decline
    <2>1. /\ m' = m /\ pc = "confirm" /\ opt' = opt /\ accidents' = accidents \cup {"declined"}
          /\ "declined" \in Accidents /\ pc' = FromPassphrase(opt)
      BY <1>6 DEF Decline, May
    <2> QED BY <2>1, OnwardsTyped
  <1>7. CASE Exit \/ Kill
    <2>1. /\ opt' = NoOptions /\ m' = FreshMemory /\ pc' = "idle"
          /\ accidents' \subseteq accidents \cup (Accidents \cap {"killed"})
      BY <1>7 DEF Exit, Kill, Ends, May, history
    <2> QED BY <2>1, FreshTyped DEF NoOptions
  <1>8. CASE Refuse \/ Logins \/ WriteStep
    <2>1. /\ m' = m /\ pc' = pc /\ opt' = opt /\ accidents' = accidents /\ back' = back
      BY <1>8 DEF Refuse, Logins, WriteStep, history
    <2> QED BY <2>1
  <1>9. CASE Confirm \/ SkipRefused \/ WriteDone \/ PrintedAll \/ PrintPasscode \/ ServeNothing
               \/ Process
    <2>1. /\ m' = m /\ pc \in {"confirm", "skip", "write", "print", "serve", "html"}
          /\ opt' = opt /\ accidents' = accidents
          /\ \/ pc' \in {"exit", "serve", FromHtml(opt)}
             \/ pc = "write" /\ pc' = back /\ back' = back
             \/ pc' = "write" /\ back' = FromPassphrase(opt)
      BY <1>9 DEF Confirm, SkipRefused, WriteDone, PrintedAll, PrintPasscode, ServeNothing,
                  Process, AfterPrinting, history
    <2>2. pc' = "skip" \/ (pc' = "write" /\ back' = "skip") => opt.skip
      BY <2>1, OnwardsTyped
    <2> QED BY <2>1, <2>2
  <1> QED BY <1>1, <1>2, <1>3, <1>4, <1>5, <1>6, <1>7, <1>8, <1>9 DEF Next

LEMMA InitTyped ==
  ASSUME Init
  PROVE  FilesTyped /\ MemoryTyped /\ RunTyped /\ Excused
  <1>1. FilesTyped
    <2>1. CASE keyFile = Missing /\ cntFile = Missing /\ genFile = Missing
      BY <2>1 DEF Missing, FilesTyped, Contents, Formats, Versions
    <2>2. ASSUME NEW fmt \in {"versioned", "flagged"},
                 NEW flags, flags = IF fmt = "flagged" THEN {"present"} ELSE {},
                 keyFile = [fmt |-> fmt, ver |-> 2, flags |-> flags, num |-> KeyOf[1]],
                 cntFile = [fmt |-> fmt, ver |-> 2, flags |-> flags, num |-> 0],
                 genFile = [fmt |-> fmt, ver |-> 2, flags |-> flags, num |-> -1]
          PROVE  FilesTyped
      <3>1. KeyOf[1] \in Nat
        BY KeyToolAssumption
      <3>2. flags \in SUBSET Flags
        BY <2>2 DEF Flags
      <3> QED BY <2>2, <3>1, <3>2 DEF FilesTyped, Contents, Formats, Versions
    <2>3. \/ keyFile = Missing /\ cntFile = Missing /\ genFile = Missing
          \/ \E fmt \in {"versioned", "flagged"} :
                \E flags : /\ flags = IF fmt = "flagged" THEN {"present"} ELSE {}
                           /\ keyFile = [fmt |-> fmt, ver |-> 2, flags |-> flags, num |-> KeyOf[1]]
                           /\ cntFile = [fmt |-> fmt, ver |-> 2, flags |-> flags, num |-> 0]
                           /\ genFile = [fmt |-> fmt, ver |-> 2, flags |-> flags, num |-> -1]
      BY DEF Init
    <2> QED BY <2>1, <2>2, <2>3
  <1>2. MemoryTyped
    BY FreshTyped DEF Init, MemoryTyped
  <1>3. RunTyped
    <2>1. /\ opt = NoOptions /\ pc = "idle" /\ back = "idle" /\ left = 0 /\ cardNum = 0
          /\ request = FALSE /\ status = <<>> /\ runs = 0 /\ sent = <<>>
      BY DEF Init
    <2>2. status \in Seq({200, 404, 501}) /\ sent \in Seq(SentPages) /\ runs \in 0 .. MaxRuns
      BY <2>1, KeyToolAssumption
    <2> QED BY <2>1, <2>2 DEF RunTyped, Places
  <1>4. Excused
    <2>1. opt = NoOptions /\ pc = "idle" /\ m = FreshMemory /\ accidents = {}
      BY DEF Init
    <2> QED BY <2>1, FreshTyped DEF Excused, NoOptions
  <1> QED BY <1>1, <1>2, <1>3, <1>4

Typed == FilesTyped /\ MemoryTyped /\ RunTyped /\ Excused

LEMMA AlwaysTyped == Spec => [](ToolInv /\ Typed)
  <1>1. Init => Typed
    BY InitTyped DEF Typed
  <1>2. ToolInv /\ Typed /\ [Next]_vars => Typed'
    <2> SUFFICES ASSUME ToolInv, Typed, [Next]_vars PROVE Typed'
      OBVIOUS
    <2>1. CASE Next
      BY <2>1, FilesTypedNext, MemoryTypedNext, RunTypedNext, ExcusedNext DEF Typed
    <2>2. CASE UNCHANGED vars
      BY <2>2 DEF vars, files, progress, http, history, Typed, FilesTyped, MemoryTyped, RunTyped, Excused
    <2> QED BY <2>1, <2>2
  <1> QED BY <1>1, <1>2, AlwaysToolInv, PTL DEF Spec

\* However runs and logins follow each other, with kills between any two file
\* operations: what is read back, and what is in memory when it is written, is of
\* one of the two versions and within the bounds; and nothing is counted as an
\* accident that may not happen.
THEOREM ToolTypeCorrect == Spec => []TypeOK
  <1>1. ToolInv /\ Typed => TypeOK
    BY DEF ToolInv, KeysCounted, Typed, FilesTyped, MemoryTyped, ToolMemory, RunTyped, SentPages, Places,
           Excused, TypeOK
  <1> QED BY <1>1, AlwaysTyped, PTL

-----------------------------------------------------------------------------
(* The invariant of behaviours without an accident so far.                 *)

UsedKeys == {KeyOf[i] : i \in 1 .. keys}

NoFiles == keyFile = Missing /\ cntFile = Missing /\ genFile = Missing

\* The three files are of one release and one version.
Agree ==
    /\ keyFile.fmt \in {"versioned", "flagged"}
    /\ cntFile.fmt = keyFile.fmt /\ genFile.fmt = keyFile.fmt
    /\ cntFile.ver = keyFile.ver /\ genFile.ver = keyFile.ver

\* The memory holds what the files hold.
Loaded ==
    /\ Agree
    /\ m.key = keyFile.num /\ m.cur = cntFile.num /\ m.last = genFile.num
    /\ m.ver = keyFile.ver
    /\ "present" \in m.flags <=> keyFile.fmt = "flagged"

\* A file that holds its number already, and one that will be written.
Settled(file, num) == file.fmt = "flagged" /\ file.ver = m.ver /\ file.num = num
Pending(ops, name) == \E i \in 1 .. Len(ops) : ops[i] = Op(name, "close")

\* What is opened is closed later.
OpensClosed(ops) ==
    \A i \in 1 .. Len(ops) : ops[i].act = "open" =>
        \E j \in i + 1 .. Len(ops) : ops[j] = Op(ops[i].file, "close")

\* Between two file operations the files may be of two releases, or empty, but
\* the operations left to do will make all three agree with the memory.
Writing ==
    /\ "present" \in m.flags
    /\ Settled(keyFile, m.key) \/ Pending(todo, "key")
    /\ Settled(cntFile, m.cur) \/ Pending(todo, "cnt")
    /\ Settled(genFile, m.last) \/ Pending(todo, "gen")

\* A key in memory that nobody has used or has cards of.
Unasked ==
    /\ m.key \in UsedKeys /\ m.cur = 0 /\ m.last = -1
    /\ "present" \in m.flags
    /\ \A a \in asked : a[1] # m.key
    /\ \A c \in paper : c.key # m.key

\* The files, and the memory where it matters.
Kept ==
    /\ pc # "write" => NoFiles \/ Agree
    /\ pc = "write" => Writing
    /\ pc \in {"skip", "print", "html", "serve"} /\ ~opt.passphrase => Loaded
    /\ pc = "confirm" => Unasked
    /\ pc = "write" \/ Exists(keyFile) => BookKey \in UsedKeys

\* A temporary key comes after everything that is written, and stays.
Temporarily ==
    /\ pc = "passphrase" \/ (pc = "write" /\ back = "passphrase") => opt.passphrase
    /\ pc = "write" /\ opt.passphrase => back = "passphrase"
    /\ pc \in {"skip", "print", "html", "serve"} /\ opt.passphrase => m.key = TemporaryKey

\* Numbers of the key in force are asked in order, and the cards from that of
\* the next number to the last on record are on paper.
Below ==
    \A a \in asked : a[1] \in UsedKeys /\ a[2] \in Int /\ (a[1] = BookKey => a[2] < BookNext)
OnPaper ==
    \A c \in Int : Cards!CardContaining(BookNext) <= c /\ c <= BookLast =>
        [key |-> BookKey, alphabet |-> "default", card |-> c] \in paper
PaperKeys == \A c \in paper : c.key \in UsedKeys \cup {TemporaryKey}

Honoured == ~reasked /\ Below /\ OnPaper /\ PaperKeys

BookInv == OpensClosed(todo) /\ (accidents = {} => Kept /\ Temporarily /\ Honoured)

-----------------------------------------------------------------------------
(* Sequences of file operations.                                           *)

KeyFirst == <<Op("key", "open"), Op("key", "close")>> \o CounterOps

LEMMA TailOps ==
  ASSUME NEW ops \in Seq(Ops), ops # <<>>
  PROVE  /\ Len(ops) \in Nat \ {0} /\ Head(ops) = ops[1] /\ ops[1] \in Ops
         /\ Tail(ops) \in Seq(Ops) /\ Len(Tail(ops)) = Len(ops) - 1
         /\ \A i \in 1 .. Len(ops) - 1 : Tail(ops)[i] = ops[i + 1]
  OBVIOUS

LEMMA TailPending ==
  ASSUME NEW ops \in Seq(Ops), ops # <<>>, NEW name, Pending(ops, name),
         ops[1] # Op(name, "close")
  PROVE  Pending(Tail(ops), name)
  <1>1. PICK i \in 1 .. Len(ops) : ops[i] = Op(name, "close")
    BY DEF Pending
  <1>2. i - 1 \in 1 .. Len(Tail(ops)) /\ (i - 1) + 1 = i
    BY <1>1, TailOps
  <1>3. Tail(ops)[i - 1] = ops[i]
    BY <1>2, TailOps
  <1> QED BY <1>1, <1>2, <1>3 DEF Pending

LEMMA TailClosed ==
  ASSUME NEW ops \in Seq(Ops), ops # <<>>, OpensClosed(ops)
  PROVE  /\ OpensClosed(Tail(ops))
         /\ ops[1].act = "open" => Pending(Tail(ops), ops[1].file)
  <1>1. ASSUME NEW i \in 1 .. Len(ops), ops[i].act = "open"
        PROVE  \E j \in i .. Len(ops) - 1 : Tail(ops)[j] = Op(ops[i].file, "close")
    <2>1. PICK j \in i + 1 .. Len(ops) : ops[j] = Op(ops[i].file, "close")
      BY <1>1 DEF OpensClosed
    <2>2. j - 1 \in i .. Len(ops) - 1 /\ Tail(ops)[j - 1] = ops[(j - 1) + 1] /\ (j - 1) + 1 = j
      BY <1>1, <2>1, TailOps
    <2> QED BY <2>1, <2>2
  <1>2. OpensClosed(Tail(ops))
    <2> SUFFICES ASSUME NEW i \in 1 .. Len(Tail(ops)), Tail(ops)[i].act = "open"
                 PROVE  \E j \in i + 1 .. Len(Tail(ops)) : Tail(ops)[j] = Op(Tail(ops)[i].file, "close")
      BY DEF OpensClosed
    <2>1. i + 1 \in 1 .. Len(ops) /\ Tail(ops)[i] = ops[i + 1]
      BY TailOps
    <2>2. \E j \in i + 1 .. Len(ops) - 1 : Tail(ops)[j] = Op(ops[i + 1].file, "close")
      BY <1>1, <2>1
    <2> QED BY <2>1, <2>2, TailOps
  <1>3. ops[1].act = "open" => Pending(Tail(ops), ops[1].file)
    <2>1. 1 \in 1 .. Len(ops) /\ Len(Tail(ops)) = Len(ops) - 1
      BY TailOps
    <2> QED BY <1>1, <2>1 DEF Pending
  <1> QED BY <1>2, <1>3

\* The sequences that the code begins with.
LEMMA OpsComplete ==
  /\ OpensClosed(<<>>) /\ OpensClosed(KeyOps) /\ OpensClosed(CounterOps) /\ OpensClosed(KeyFirst)
  /\ \A name \in {"key", "cnt", "gen"} : Pending(KeyOps, name) /\ Pending(KeyFirst, name)
  /\ \A name \in {"cnt", "gen"} : Pending(CounterOps, name)
  <1>1. OpensClosed(<<>>)
    BY DEF OpensClosed
  <1>2. OpensClosed(CounterOps) /\ Pending(CounterOps, "cnt") /\ Pending(CounterOps, "gen")
    <2>1. /\ Len(CounterOps) = 4
          /\ CounterOps[1] = Op("cnt", "open") /\ CounterOps[2] = Op("gen", "open")
          /\ CounterOps[3] = Op("cnt", "close") /\ CounterOps[4] = Op("gen", "close")
      BY DEF CounterOps
    <2> HIDE DEF CounterOps
    <2>2. \A i \in 1 .. Len(CounterOps) : i \in {1, 2, 3, 4}
      BY <2>1
    <2>3. 3 \in 1 + 1 .. 4 /\ 4 \in 2 + 1 .. 4 /\ 3 \in 1 .. 4 /\ 4 \in 1 .. 4
      OBVIOUS
    <2> QED BY <2>1, <2>2, <2>3 DEF OpensClosed, Pending, Op
  <1>3. /\ OpensClosed(KeyFirst)
        /\ Pending(KeyFirst, "key") /\ Pending(KeyFirst, "cnt") /\ Pending(KeyFirst, "gen")
    <2>1. /\ Len(KeyFirst) = 6
          /\ KeyFirst[1] = Op("key", "open") /\ KeyFirst[2] = Op("key", "close")
          /\ KeyFirst[3] = Op("cnt", "open") /\ KeyFirst[4] = Op("gen", "open")
          /\ KeyFirst[5] = Op("cnt", "close") /\ KeyFirst[6] = Op("gen", "close")
      BY DEF KeyFirst, CounterOps
    <2> HIDE DEF KeyFirst
    <2>2. \A i \in 1 .. Len(KeyFirst) : i \in {1, 2, 3, 4, 5, 6}
      BY <2>1
    <2>3. /\ 2 \in 1 + 1 .. 6 /\ 5 \in 3 + 1 .. 6 /\ 6 \in 4 + 1 .. 6
          /\ 2 \in 1 .. 6 /\ 5 \in 1 .. 6 /\ 6 \in 1 .. 6
      OBVIOUS
    <2> QED BY <2>1, <2>2, <2>3 DEF OpensClosed, Pending, Op
  <1>4. /\ OpensClosed(KeyOps)
        /\ Pending(KeyOps, "key") /\ Pending(KeyOps, "cnt") /\ Pending(KeyOps, "gen")
    <2>1. /\ Len(KeyOps) = 6
          /\ KeyOps[1] = Op("key", "open") /\ KeyOps[2] = Op("cnt", "open")
          /\ KeyOps[3] = Op("gen", "open") /\ KeyOps[4] = Op("key", "close")
          /\ KeyOps[5] = Op("cnt", "close") /\ KeyOps[6] = Op("gen", "close")
      BY DEF KeyOps
    <2> HIDE DEF KeyOps
    <2>2. \A i \in 1 .. Len(KeyOps) : i \in {1, 2, 3, 4, 5, 6}
      BY <2>1
    <2>3. /\ 4 \in 1 + 1 .. 6 /\ 5 \in 2 + 1 .. 6 /\ 6 \in 3 + 1 .. 6
          /\ 4 \in 1 .. 6 /\ 5 \in 1 .. 6 /\ 6 \in 1 .. 6
      OBVIOUS
    <2> QED BY <2>1, <2>2, <2>3 DEF OpensClosed, Pending, Op
  <1> QED BY <1>1, <1>2, <1>3, <1>4

LEMMA StateOpsComplete ==
  ASSUME NEW flags
  PROVE  /\ OpensClosed(StateOps(flags))
         /\ Exists(keyFile) =>
               /\ Pending(StateOps(flags), "cnt") /\ Pending(StateOps(flags), "gen")
               /\ "present" \notin flags => Pending(StateOps(flags), "key")
  BY OpsComplete DEF StateOps, KeyFirst

\* One step of writing, for one of the files.
LEMMA WriteOne ==
  ASSUME todo \in Seq(Ops), todo # <<>>, OpensClosed(todo),
         NEW file, NEW name, NEW num, Settled(file, num) \/ Pending(todo, name)
  PROVE  Settled(After(file, name, num), num) \/ Pending(Tail(todo), name)
  <1>1. Head(todo) = todo[1] /\ todo[1] \in Ops
    BY TailOps
  <1>2. CASE todo[1].file # name
    <2>1. todo[1] # Op(name, "close") /\ After(file, name, num) = file
      BY <1>1, <1>2 DEF Op, After
    <2> QED BY <2>1, TailPending
  <1>3. CASE todo[1].file = name /\ todo[1].act = "open"
    BY <1>3, TailClosed
  <1>4. CASE todo[1].file = name /\ todo[1].act = "close"
    BY <1>1, <1>4 DEF After, Settled, Written
  <1> QED BY <1>1, <1>2, <1>3, <1>4 DEF Ops

-----------------------------------------------------------------------------
(* Reading, and keys.                                                      *)

\* Files that agree are read for what they hold.
LEMMA ReadingAgree ==
  ASSUME Agree
  PROVE  /\ Reading.ok
         /\ Reading.mem.key = keyFile.num /\ Reading.mem.cur = cntFile.num
         /\ Reading.mem.last = genFile.num /\ Reading.mem.ver = keyFile.ver
         /\ "present" \in Reading.mem.flags <=> keyFile.fmt = "flagged"
  <1> DEFINE b1 == Fread(ZeroedBuffer, keyFile)
             b2 == Fread(b1, cntFile)
             b3 == Fread(b2, genFile)
  <1>1. b1.head = keyFile /\ b2.head = cntFile /\ b3.head = genFile
    BY DEF Fread, Agree
  <1>2. Exists(keyFile) /\ Exists(cntFile) /\ Exists(genFile)
    BY DEF Exists, Agree
  <1>3. /\ Reading.ok = (PppVersion(b1) = PppVersion(b2) /\ PppVersion(b2) = PppVersion(b3))
        /\ Reading.mem.key = ReadData(b1, PppFlags(b1))
        /\ Reading.mem.cur = ReadData(b2, PppFlags(b1))
        /\ Reading.mem.last = ReadData(b3, PppFlags(b1))
        /\ Reading.mem.flags = PppFlags(b1)
        /\ Reading.ok => Reading.mem.ver = PppVersion(b1)
    BY <1>2 DEF Reading
  <1> HIDE DEF b1, b2, b3
  <1>4. /\ PppVersion(b1) = keyFile.ver /\ PppVersion(b2) = keyFile.ver
        /\ PppVersion(b3) = keyFile.ver
    BY <1>1 DEF PppVersion, Agree
  <1>5. "present" \in PppFlags(b1) <=> keyFile.fmt = "flagged"
    BY <1>1 DEF PppFlags, Agree
  <1>6. /\ ReadData(b1, PppFlags(b1)) = keyFile.num
        /\ ReadData(b2, PppFlags(b1)) = cntFile.num
        /\ ReadData(b3, PppFlags(b1)) = genFile.num
    BY <1>1, <1>5 DEF ReadData, Agree
  <1> QED BY <1>3, <1>4, <1>5, <1>6

\* Random keys are new.
LEMMA NextKeyUnused ==
  ASSUME KeysCounted, keys + 1 \in 1 .. Len(KeyOf), keys' = keys + 1
  PROVE  /\ KeyOf[keys + 1] \in UsedKeys' /\ KeyOf[keys + 1] \notin UsedKeys
         /\ KeyOf[keys + 1] # TemporaryKey /\ UsedKeys \subseteq UsedKeys'
  <1>1. keys \in Nat /\ keys + 1 \in 1 .. keys'
    BY DEF KeysCounted
  <1>2. \A i \in 1 .. keys : i \in 1 .. keys' /\ i \in 1 .. Len(KeyOf) /\ i # keys + 1
    BY <1>1
  <1> QED BY <1>1, <1>2, KeyToolAssumption DEF UsedKeys

LEMMA UsedAreNotTemporary ==
  ASSUME KeysCounted
  PROVE  TemporaryKey \notin UsedKeys
  <1>1. \A i \in 1 .. keys : i \in 1 .. Len(KeyOf)
    BY DEF KeysCounted
  <1> QED BY <1>1, KeyToolAssumption DEF UsedKeys

\* Counters that go forward keep the order of the numbers and the cards.
LEMMA CardsInOrder ==
  ASSUME NEW a \in Int, NEW b \in Int, a < b
  PROVE  Cards!CardContaining(a) <= Cards!CardContaining(b)
  BY DEF Cards!CardContaining, Cards!CardSize

LEMMA UsedKeysAreKeys ==
  ASSUME KeysCounted, NEW k \in UsedKeys
  PROVE  k \in {KeyOf[i] : i \in 1 .. Len(KeyOf)} /\ k # 0
  <1>1. PICK i \in 1 .. keys : k = KeyOf[i]
    BY DEF UsedKeys
  <1>2. i \in 1 .. Len(KeyOf)
    BY DEF KeysCounted
  <1> QED BY <1>1, <1>2, KeyToolAssumption

-----------------------------------------------------------------------------
(* The steps, each with the step of the book that it is, if any.           *)

BookSame == UNCHANGED <<BookKey, BookNext, BookLast, asked, paper>>

\* Steps that leave files, memory, keys and histories alone.
LEMMA QuietKept ==
  ASSUME ToolInv, Kept, Temporarily, Honoured,
         UNCHANGED <<files, m, opt, todo, back, keys, paper, asked, reasked>>,
         \/ pc' = pc
         \/ /\ pc \notin {"write"} /\ pc' \in {"idle", "exit", "html", "serve"}
            /\ pc' \in {"html", "serve"} => pc \in {"print", "html", "serve"}
  PROVE  Kept' /\ Temporarily' /\ Honoured' /\ BookSame
  <1>1. /\ keyFile' = keyFile /\ cntFile' = cntFile /\ genFile' = genFile /\ m' = m /\ opt' = opt
        /\ todo' = todo /\ back' = back /\ keys' = keys /\ paper' = paper /\ asked' = asked
        /\ reasked' = reasked
    BY DEF files
  <1>2. BookKey' = BookKey /\ BookNext' = BookNext /\ BookLast' = BookLast
    BY <1>1 DEF BookKey, BookNext, BookLast, Exists
  <1>3. Agree' = Agree /\ NoFiles' = NoFiles /\ Loaded' = Loaded /\ Writing' = Writing
        /\ Unasked' = Unasked /\ UsedKeys' = UsedKeys
    BY <1>1 DEF Agree, NoFiles, Loaded, Writing, Unasked, UsedKeys, Settled
  <1>4. Kept'
    BY <1>1, <1>2, <1>3 DEF Kept, Exists
  <1>5. Temporarily'
    BY <1>1 DEF Temporarily
  <1>6. Honoured'
    BY <1>1, <1>2, <1>3 DEF Honoured, Below, OnPaper, PaperKeys
  <1> QED BY <1>1, <1>2, <1>4, <1>5, <1>6 DEF BookSame

LEMMA StartKept ==
  ASSUME ToolInv, Typed, Kept, Temporarily, Honoured, Start
  PROVE  Kept' /\ Temporarily' /\ Honoured' /\ BookSame
  <1>1. /\ keyFile' = keyFile /\ cntFile' = cntFile /\ genFile' = genFile /\ back' = back
        /\ keys' = keys /\ paper' = paper /\ asked' = asked /\ reasked' = reasked /\ pc = "idle"
    BY DEF Start, files, history
  <1>2. pc' = FromKey(opt')
    BY StartTyped DEF Typed
  <1>3. pc' \in Places \ {"idle", "write", "confirm"}
    BY <1>2, OnwardsTyped
  <1>4. pc' \in {"skip", "print", "html", "serve"} => Loaded' /\ ~opt'.passphrase
    <2> SUFFICES ASSUME pc' \in {"skip", "print", "html", "serve"}
                 PROVE  Loaded' /\ ~opt'.passphrase
      OBVIOUS
    <2>1. /\ m'.key = Reading.mem.key /\ m'.ver = Reading.mem.ver
          /\ m'.cur = Reading.mem.cur /\ m'.last = Reading.mem.last
          /\ m'.flags = Reading.mem.flags \ {"dontSkip"}
          /\ Exists(keyFile) /\ ~opt'.passphrase
      BY StartTyped DEF Typed
    <2>2. Agree
      BY <1>1, <2>1 DEF Kept, NoFiles, Missing, Exists
    <2>3. "present" \in m'.flags <=> keyFile.fmt = "flagged"
      BY <2>1, <2>2, ReadingAgree
    <2> QED BY <1>1, <2>1, <2>2, <2>3, ReadingAgree DEF Loaded, Agree
  <1>5. pc' = "passphrase" => opt'.passphrase
    BY <1>2 DEF FromKey, FromPassphrase, FromSkip, FromPrint, FromHtml
  <1>6. /\ BookKey' = BookKey /\ BookNext' = BookNext /\ BookLast' = BookLast
        /\ UsedKeys' = UsedKeys /\ Agree' = Agree /\ NoFiles' = NoFiles
    BY <1>1, <1>3 DEF BookKey, BookNext, BookLast, Exists, UsedKeys, Agree, NoFiles
  <1>7. Kept'
    BY <1>1, <1>3, <1>4, <1>6 DEF Kept, Exists
  <1>8. Temporarily'
    BY <1>3, <1>4, <1>5 DEF Temporarily
  <1>9. Honoured'
    BY <1>1, <1>6 DEF Honoured, Below, OnPaper, PaperKeys
  <1> QED BY <1>1, <1>6, <1>7, <1>8, <1>9 DEF BookSame

\* A new key comes into force with nothing asked and nothing on record.
LEMMA InForce ==
  ASSUME ToolInv, Unasked, Honoured, pc' = "write", m' = m, todo' = KeyOps, back' = FromPassphrase(opt),
         UNCHANGED <<files, opt, keys, paper, asked, reasked>>
  PROVE  Kept' /\ Temporarily' /\ Honoured' /\ Book!NewKey
  <1>1. BookKey' = m.key /\ BookNext' = 0 /\ BookLast' = -1
    BY DEF BookKey, BookNext, BookLast, Unasked
  <1>2. UsedKeys' = UsedKeys
    BY DEF UsedKeys
  <1>3. Kept'
    BY <1>1, <1>2, OpsComplete DEF Kept, Writing, Unasked
  <1>4. Temporarily'
    BY PassphraseOnwards DEF Temporarily, FromPassphrase, FromSkip, FromPrint, FromHtml
  <1>5. Below' /\ PaperKeys'
    BY <1>1, <1>2 DEF Below, PaperKeys, Honoured, Unasked
  <1>6. OnPaper'
    BY <1>1 DEF OnPaper, Cards!CardContaining, Cards!CardSize
  <1>7. Book!NewKey
    BY <1>1, UsedKeysAreKeys DEF Unasked, ToolInv, Book!NewKey
  <1> QED BY <1>3, <1>4, <1>5, <1>6, <1>7 DEF Honoured

LEMMA GenerateKept ==
  ASSUME ToolInv, Typed, Kept, Temporarily, Honoured, GenerateKey
  PROVE  Kept' /\ Temporarily' /\ Honoured' /\ (BookSame \/ Book!NewKey)
  <1>1. /\ m' = NewKey(KeyOf[keys + 1]) /\ keys + 1 \in 1 .. Len(KeyOf) /\ keys' = keys + 1
        /\ pc = "key" /\ UNCHANGED <<files, opt, paper, asked, reasked>>
    BY NewKeysTyped DEF Typed, GenerateKey, history
  <1>2. /\ KeyOf[keys + 1] \in UsedKeys' /\ KeyOf[keys + 1] \notin UsedKeys
        /\ KeyOf[keys + 1] # TemporaryKey /\ UsedKeys \subseteq UsedKeys'
    BY <1>1, NextKeyUnused DEF ToolInv
  <1>3. /\ m'.key = KeyOf[keys + 1] /\ m'.cur = 0 /\ m'.last = -1 /\ "present" \in m'.flags
    BY <1>1 DEF NewKey
  <1>4. /\ \A a \in asked : a[1] # m'.key
        /\ \A c \in paper : c.key # m'.key
    BY <1>2, <1>3 DEF Honoured, Below, PaperKeys
  <1>5. Unasked'
    BY <1>1, <1>2, <1>3, <1>4 DEF Unasked
  <1>6. PaperKeys' /\ \A a \in asked' : a[1] \in UsedKeys' /\ a[2] \in Int
    BY <1>1, <1>2 DEF PaperKeys, Honoured, Below
  <1>7. CASE Exists(keyFile)
    <2>1. pc' = "confirm" /\ back' = back
      BY <1>7 DEF GenerateKey
    <2>2. BookKey' = BookKey /\ BookNext' = BookNext /\ BookLast' = BookLast
      BY <1>1, <2>1 DEF BookKey, BookNext, BookLast, Exists, files
    <2>3. Kept'
      BY <1>1, <1>2, <1>5, <2>1, <2>2 DEF Kept, Agree, NoFiles, Exists, files
    <2>4. Temporarily'
      BY <1>1, <2>1 DEF Temporarily
    <2>5. Honoured'
      BY <1>1, <1>6, <2>2 DEF Honoured, Below, OnPaper
    <2>6. BookSame
      BY <1>1, <2>2 DEF BookSame
    <2> QED BY <2>3, <2>4, <2>5, <2>6
  <1>8. CASE ~Exists(keyFile)
    <2>1. pc' = "write" /\ todo' = KeyOps /\ back' = FromPassphrase(opt)
      BY <1>8 DEF GenerateKey
    <2>2. BookKey' = m'.key /\ BookNext' = 0 /\ BookLast' = -1
      BY <1>3, <2>1 DEF BookKey, BookNext, BookLast
    <2>3. Kept'
      BY <1>2, <1>3, <2>1, <2>2, OpsComplete DEF Kept, Writing
    <2>4. Temporarily'
      BY <1>1, <2>1, PassphraseOnwards DEF Temporarily, FromPassphrase, FromSkip, FromPrint, FromHtml
    <2>5. Below'
      BY <1>1, <1>4, <1>6, <2>2 DEF Below
    <2>6. OnPaper'
      BY <2>2 DEF OnPaper, Cards!CardContaining, Cards!CardSize
    <2>7. Book!NewKey
      BY <1>1, <1>3, <1>4, <2>2 DEF Book!NewKey
    <2> QED BY <1>1, <1>6, <2>3, <2>4, <2>5, <2>6, <2>7 DEF Honoured
  <1> QED BY <1>7, <1>8

LEMMA UsePassphraseKept ==
  ASSUME ToolInv, Kept, Temporarily, Honoured, UsePassphrase
  PROVE  Kept' /\ Temporarily' /\ Honoured' /\ BookSame
  <1>1. /\ pc = "passphrase" /\ pc' = FromSkip(opt) /\ m'.key = TemporaryKey
        /\ UNCHANGED <<files, opt, back, keys, paper, asked, reasked>>
    BY DEF UsePassphrase, NewKey, history
  <1>2. opt.passphrase /\ pc' \in {"skip", "print", "html", "exit"}
    BY <1>1, SkipOnwards DEF Temporarily
  <1>3. /\ BookKey' = BookKey /\ BookNext' = BookNext /\ BookLast' = BookLast
        /\ UsedKeys' = UsedKeys /\ Agree' = Agree /\ NoFiles' = NoFiles
    BY <1>1, <1>2 DEF BookKey, BookNext, BookLast, Exists, UsedKeys, Agree, NoFiles, files
  <1>4. Kept'
    BY <1>1, <1>2, <1>3 DEF Kept, Exists, files
  <1>5. Temporarily'
    BY <1>1, <1>2 DEF Temporarily
  <1>6. Honoured'
    BY <1>1, <1>3 DEF Honoured, Below, OnPaper, PaperKeys
  <1> QED BY <1>1, <1>3, <1>4, <1>5, <1>6 DEF BookSame

\* writeState with the key in force: what is in memory is about to be in the files.
LEMMA CallKept ==
  ASSUME ToolInv, Kept, Loaded, ~opt.passphrase, pc \in {"skip", "print", "serve"},
         m'.key = m.key, m'.ver = m.ver,
         m'.flags = IF Exists(keyFile) THEN m.flags \cup {"present"} ELSE m.flags,
         todo' = StateOps(m.flags), back' # "passphrase", pc' = "write",
         UNCHANGED <<files, opt, keys>>
  PROVE  /\ Kept' /\ Temporarily'
         /\ BookKey = m.key /\ BookKey' = m.key /\ BookKey # 0 /\ UsedKeys' = UsedKeys
         /\ BookNext = m.cur /\ BookNext' = m'.cur
         /\ BookLast = m.last /\ BookLast' = m'.last
  <1>1. Exists(keyFile)
    BY DEF Loaded, Agree, Exists
  <1>2. /\ BookKey = m.key /\ BookKey' = m.key /\ UsedKeys' = UsedKeys
        /\ BookNext = m.cur /\ BookNext' = m'.cur
        /\ BookLast = m.last /\ BookLast' = m'.last
    BY <1>1 DEF BookKey, BookNext, BookLast, Loaded, UsedKeys
  <1>3. /\ Pending(todo', "cnt") /\ Pending(todo', "gen")
        /\ "present" \notin m.flags => Pending(todo', "key")
    BY <1>1, StateOpsComplete
  <1>4. "present" \in m.flags => Settled(keyFile, m.key)'
    BY DEF Settled, Loaded, files
  <1>5. Writing'
    BY <1>1, <1>3, <1>4 DEF Writing
  <1>6. Kept'
    BY <1>1, <1>2, <1>5 DEF Kept
  <1>7. Temporarily'
    BY DEF Temporarily
  <1>8. BookKey # 0
    BY <1>1, UsedKeysAreKeys DEF Kept, ToolInv
  <1> QED BY <1>2, <1>6, <1>7, <1>8

LEMMA SkipKept ==
  ASSUME ToolInv, Typed, Kept, Temporarily, Honoured, Skip, accidents' = {}
  PROVE  Kept' /\ Temporarily' /\ Honoured' /\ Book!Skip
  <1>1. /\ pc = "skip" /\ pc' = "write" /\ ~opt.passphrase /\ opt.target.num > m.cur
        /\ todo' = StateOps(m.flags) /\ back' = FromPrint(opt)
        /\ UNCHANGED <<files, opt, keys, paper, asked, reasked>>
    BY DEF Skip, CallWriteState, Forward
  <1>2. /\ m'.key = m.key /\ m'.ver = m.ver
        /\ m'.flags = IF Exists(keyFile) THEN m.flags \cup {"present"} ELSE m.flags
        /\ m'.cur = opt.target.num /\ m'.last = LastAfterSkip(m.last, opt.target.num)
        /\ m.cur \in Int /\ m.last \in Int /\ opt.target.num \in Int
    BY SkipTyped DEF Typed, MemoryTyped, ToolInv, Shape, ToolMemory
  <1>3. Loaded /\ back' # "passphrase"
    BY <1>1, OnwardsTyped DEF Kept
  <1>4. /\ Kept' /\ Temporarily'
        /\ BookKey = m.key /\ BookKey' = m.key /\ BookKey # 0 /\ UsedKeys' = UsedKeys
        /\ BookNext = m.cur /\ BookNext' = m'.cur
        /\ BookLast = m.last /\ BookLast' = m'.last
    BY <1>1, <1>2, <1>3, CallKept
  <1>5. Below' /\ PaperKeys'
    <2>1. \A a \in asked :
            a[1] \in UsedKeys /\ a[2] \in Int /\ (a[1] = m.key => a[2] < m.cur)
      BY <1>4 DEF Honoured, Below
    <2>2. ASSUME NEW a \in asked', a[1] = BookKey'
          PROVE  a[2] < BookNext'
      <3>1. a \in asked /\ a[1] = m.key
        BY <1>1, <1>4, <2>2
      <3>2. a[2] < m.cur /\ a[2] \in Int
        BY <2>1, <3>1
      <3> QED BY <1>1, <1>2, <1>4, <3>2
    <2> QED BY <1>1, <1>4, <2>1, <2>2 DEF Below, PaperKeys, Honoured
  <1>6. OnPaper'
    <2> DEFINE card == Cards!CardContaining(opt.target.num)
    <2>1. card \in Int /\ Cards!CardContaining(m.cur) <= card
      BY <1>1, <1>2, CardsInOrder DEF Cards!CardContaining, Cards!CardSize
    <2>2. m'.last = IF m.last < card THEN card - 1 ELSE m.last
      BY <1>2 DEF LastAfterSkip
    <2>3. Cards!CardContaining(m.cur) \in Int
      BY <1>2 DEF Cards!CardContaining, Cards!CardSize
    <2>4. ASSUME NEW c \in Int, card <= c, c <= m'.last
          PROVE  Cards!CardContaining(m.cur) <= c /\ c <= m.last
      <3> HIDE DEF card
      <3> QED BY <1>2, <2>1, <2>2, <2>3, <2>4
    <2>5. \A c \in Int : card <= c /\ c <= m'.last =>
              [key |-> m.key, alphabet |-> "default", card |-> c] \in paper
      BY <1>4, <2>4 DEF Honoured, OnPaper
    <2> QED BY <1>1, <1>2, <1>4, <2>5 DEF OnPaper
  <1>7. Book!Skip
    BY <1>1, <1>2, <1>4
       DEF Book!Skip, Book!NoKey, Book!CardOf, LastAfterSkip, Cards!CardContaining, Cards!CardSize
  <1> QED BY <1>1, <1>4, <1>5, <1>6, <1>7 DEF Honoured

LEMMA PrintNextKept ==
  ASSUME ToolInv, Typed, Kept, Temporarily, Honoured, PrintNext, accidents' = {}
  PROVE  Kept' /\ Temporarily' /\ Honoured' /\ Book!PrintNext
  <1>1. /\ pc \in {"print", "serve"} /\ pc' = "write" /\ ~opt.passphrase
        /\ Emit(m.last + 1) /\ todo' = StateOps(m.flags) /\ back' = pc
        /\ UNCHANGED <<files, opt, keys, asked, reasked>>
    BY DEF PrintNext, CallWriteState
  <1>2. /\ m'.key = m.key /\ m'.ver = m.ver /\ m'.cur = m.cur /\ m'.last = m.last + 1
        /\ m'.flags = IF Exists(keyFile) THEN m.flags \cup {"present"} ELSE m.flags
        /\ m.cur \in Int /\ m.last \in Int /\ m.alphabet \in {"default", "given"}
    BY PrintNextTyped DEF Typed, MemoryTyped, ToolMemory
  <1>3. Loaded /\ back' # "passphrase"
    BY <1>1 DEF Kept
  <1>4. /\ Kept' /\ Temporarily'
        /\ BookKey = m.key /\ BookKey' = m.key /\ BookKey # 0 /\ UsedKeys' = UsedKeys
        /\ BookNext = m.cur /\ BookNext' = m'.cur
        /\ BookLast = m.last /\ BookLast' = m'.last
    BY <1>1, <1>2, <1>3, CallKept
  <1>5. paper' = paper \cup Printed(m.last + 1) /\ m.alphabet = "default"
    BY <1>1, <1>2 DEF Emit
  <1>6. [key |-> m.key, alphabet |-> "default", card |-> m.last + 1] \in paper'
    <2>1. m.last + 1 \in Page(m.last + 1)
      BY <1>2 DEF Page
    <2> QED BY <1>5, <2>1 DEF Printed, InUse
  <1>7. OnPaper'
    <2> SUFFICES ASSUME NEW c \in Int, Cards!CardContaining(m.cur) <= c, c <= m.last + 1
                 PROVE  [key |-> m.key, alphabet |-> "default", card |-> c] \in paper'
      BY <1>2, <1>4 DEF OnPaper
    <2>1. CASE c = m.last + 1
      BY <1>6, <2>1
    <2>2. CASE c <= m.last
      BY <1>4, <1>5, <2>2 DEF Honoured, OnPaper
    <2> QED BY <1>2, <2>1, <2>2
  <1>8. PaperKeys'
    <2>1. m.key \in UsedKeys
      BY <1>1, <1>3, <1>4 DEF Kept, Loaded, Agree, Exists
    <2>2. \A c \in Printed(m.last + 1) : c.key = m.key
      BY DEF Printed, InUse
    <2> QED BY <1>4, <1>5, <2>1, <2>2 DEF PaperKeys, Honoured
  <1>9. Below'
    BY <1>1, <1>2, <1>4 DEF Below, Honoured
  <1>10. Book!PrintNext
    BY <1>1, <1>2, <1>4, <1>5, <1>6 DEF Book!PrintNext, Book!NoKey, Book!Card
  <1> QED BY <1>1, <1>4, <1>7, <1>8, <1>9, <1>10 DEF Honoured

LEMMA WriteStepKept ==
  ASSUME ToolInv, OpensClosed(todo), Kept, Temporarily, Honoured, WriteStep
  PROVE  Kept' /\ Temporarily' /\ Honoured' /\ BookSame
  <1>1. /\ pc = "write" /\ pc' = pc /\ todo # <<>> /\ todo' = Tail(todo) /\ m' = m
        /\ keyFile' = After(keyFile, "key", m.key)
        /\ cntFile' = After(cntFile, "cnt", m.cur)
        /\ genFile' = After(genFile, "gen", m.last)
        /\ UNCHANGED <<opt, back, keys, paper, asked, reasked>>
    BY DEF WriteStep, history
  <1>2. todo \in Seq(Ops)
    BY DEF ToolInv, Shape
  <1>3. Writing
    BY <1>1 DEF Kept
  <1>4. /\ Settled(keyFile', m.key) \/ Pending(todo', "key")
        /\ Settled(cntFile', m.cur) \/ Pending(todo', "cnt")
        /\ Settled(genFile', m.last) \/ Pending(todo', "gen")
    BY <1>1, <1>2, <1>3, WriteOne DEF Writing
  <1>5. Writing'
    BY <1>1, <1>3, <1>4 DEF Writing, Settled
  <1>6. BookKey' = BookKey /\ BookNext' = BookNext /\ BookLast' = BookLast /\ UsedKeys' = UsedKeys
    BY <1>1 DEF BookKey, BookNext, BookLast, UsedKeys
  <1>7. Kept'
    BY <1>1, <1>5, <1>6 DEF Kept
  <1>8. Temporarily'
    BY <1>1 DEF Temporarily
  <1>9. Honoured'
    BY <1>1, <1>6 DEF Honoured, Below, OnPaper, PaperKeys
  <1> QED BY <1>1, <1>6, <1>7, <1>8, <1>9 DEF BookSame

\* When nothing is left to write, the files hold what the memory holds.
LEMMA WriteDoneKept ==
  ASSUME ToolInv, Kept, Temporarily, Honoured, WriteDone
  PROVE  Kept' /\ Temporarily' /\ Honoured' /\ BookSame
  <1>1. /\ pc = "write" /\ todo = <<>> /\ pc' = back
        /\ UNCHANGED <<files, m, opt, todo, back, keys, paper, asked, reasked>>
    BY DEF WriteDone, history
  <1>2. Writing
    BY <1>1 DEF Kept
  <1>3. \A name : ~Pending(todo, name)
    BY <1>1 DEF Pending
  <1>4. /\ Settled(keyFile, m.key) /\ Settled(cntFile, m.cur) /\ Settled(genFile, m.last)
        /\ "present" \in m.flags
    BY <1>2, <1>3 DEF Writing
  <1>5. Loaded /\ Exists(keyFile)
    BY <1>4 DEF Settled, Loaded, Agree, Exists
  <1>6. Loaded' /\ Agree' /\ (Writing' <=> Writing)
    BY <1>1, <1>5 DEF Loaded, Agree, Writing, Settled, files
  <1>7. /\ BookKey' = BookKey /\ BookNext' = BookNext /\ BookLast' = BookLast
        /\ UsedKeys' = UsedKeys
    BY <1>1, <1>5 DEF BookKey, BookNext, BookLast, UsedKeys, Loaded, Exists, files
  <1>8. Kept'
    BY <1>1, <1>2, <1>6, <1>7 DEF Kept, ToolInv, KeysApart
  <1>9. Temporarily'
    BY <1>1 DEF Temporarily
  <1>10. Honoured'
    BY <1>1, <1>7 DEF Honoured, Below, OnPaper, PaperKeys
  <1> QED BY <1>1, <1>7, <1>8, <1>9, <1>10 DEF BookSame

\* Cards that are not recorded.
LEMMA PrintOthersKept ==
  ASSUME ToolInv, Typed, Kept, Temporarily, Honoured, PrintTemporary \/ PrintOne, accidents' = {}
  PROVE  Kept' /\ Temporarily' /\ Honoured' /\ Book!PrintOthers
  <1>1. /\ pc \in {"print", "serve"} /\ pc' \in {pc, "html", "exit"} /\ Emit(cardNum)
        /\ UNCHANGED <<files, m, opt, todo, back, keys, asked, reasked>>
    BY OnwardsTyped DEF PrintTemporary, PrintOne, AfterPrinting
  <1>2. paper' = paper \cup Printed(cardNum)
    BY <1>1 DEF Emit
  <1>3. /\ keyFile' = keyFile /\ cntFile' = cntFile /\ genFile' = genFile /\ m' = m /\ opt' = opt
        /\ keys' = keys /\ asked' = asked /\ reasked' = reasked
    BY <1>1 DEF files
  <1>4. /\ BookKey' = BookKey /\ BookNext' = BookNext /\ BookLast' = BookLast
        /\ UsedKeys' = UsedKeys /\ Agree' = Agree /\ NoFiles' = NoFiles /\ Loaded' = Loaded
    BY <1>1, <1>3 DEF BookKey, BookNext, BookLast, Exists, UsedKeys, Agree, NoFiles, Loaded
  <1>5. m.key \in UsedKeys \cup {TemporaryKey}
    <2>1. CASE opt.passphrase
      BY <1>1, <2>1 DEF Temporarily
    <2>2. CASE ~opt.passphrase
      <3>1. Loaded
        BY <1>1, <2>2 DEF Kept
      <3> QED BY <1>1, <3>1 DEF Kept, Loaded, Agree, Exists, BookKey
    <2> QED BY <2>1, <2>2
  <1>6. PaperKeys'
    <2>1. \A c \in Printed(cardNum) : c.key = m.key
      BY DEF Printed, InUse
    <2> QED BY <1>2, <1>4, <1>5, <2>1 DEF PaperKeys, Honoured
  <1>7. Kept'
    BY <1>1, <1>3, <1>4 DEF Kept, Exists
  <1>8. Temporarily'
    BY <1>1 DEF Temporarily
  <1>9. Below' /\ OnPaper'
    BY <1>2, <1>3, <1>4 DEF Honoured, Below, OnPaper
  <1>10. Book!PrintOthers
    BY <1>2, <1>3, <1>4 DEF Book!PrintOthers
  <1> QED BY <1>3, <1>6, <1>7, <1>8, <1>9, <1>10 DEF Honoured

\* A login asks for numbers that were not asked for, and writes all three files
\* in the newest format.
LEMMA LoginsKept ==
  ASSUME ToolInv, Typed, Kept, Temporarily, Honoured, Logins
  PROVE  Kept' /\ Temporarily' /\ Honoured' /\ Book!Login
  <1> DEFINE mem == Reading.mem
             flags == mem.flags \cup {"present"}
  <1>1. /\ pc = "idle" /\ Reading.ok
        /\ UNCHANGED <<m, opt, pc, todo, back, keys, paper>>
    BY DEF Logins
  <1>2. Agree
    <2>1. NoFiles => ~Reading.ok
      BY DEF NoFiles, Missing, Reading, Exists
    <2> QED BY <1>1, <2>1 DEF Kept
  <1>3. /\ mem.key = keyFile.num /\ mem.cur = cntFile.num /\ mem.last = genFile.num
        /\ Exists(keyFile)
    BY <1>2, ReadingAgree DEF Agree, Exists
  <1>4. BookKey = mem.key /\ BookNext = mem.cur /\ BookLast = mem.last /\ mem.cur \in Int
    BY <1>1, <1>3 DEF BookKey, BookNext, BookLast, Typed, FilesTyped, Contents
  <1>5. PICK n \in LoginCnts :
          /\ n > mem.cur
          /\ asked' = asked \cup {<<mem.key, k>> : k \in mem.cur .. n - 1}
          /\ reasked' = (reasked \/ {<<mem.key, k>> : k \in mem.cur .. n - 1} \cap asked # {})
          /\ keyFile' = Written(mem.ver, flags, mem.key)
          /\ cntFile' = Written(mem.ver, flags, n)
          /\ genFile' = Written(mem.ver, flags, mem.last)
    BY DEF Logins
  <1>6. n \in Int
    BY KeyToolAssumption
  <1> HIDE DEF mem, flags
  <1>7. /\ BookKey' = mem.key /\ BookNext' = n /\ BookLast' = mem.last
    BY <1>1, <1>5 DEF BookKey, BookNext, BookLast, Written, Exists
  <1>8. Agree'
    BY <1>5 DEF Agree, Written
  <1>9. UsedKeys' = UsedKeys /\ BookKey \in UsedKeys
    BY <1>1, <1>3 DEF UsedKeys, Kept
  <1>10. Kept'
    BY <1>1, <1>4, <1>7, <1>8, <1>9 DEF Kept
  <1>11. Temporarily'
    BY <1>1 DEF Temporarily
  <1>12. ~reasked'
    <2>1. ASSUME NEW a \in asked, NEW k \in mem.cur .. n - 1, a = <<mem.key, k>>
          PROVE  FALSE
      <3>1. a[1] = mem.key /\ a[2] = k
        BY <2>1
      <3>2. k < mem.cur
        BY <1>4, <3>1 DEF Honoured, Below
      <3> QED BY <1>4, <1>6, <3>2
    <2>2. {<<mem.key, k>> : k \in mem.cur .. n - 1} \cap asked = {}
      BY <2>1
    <2> QED BY <1>5, <2>2 DEF Honoured
  <1>13. Below'
    <2>1. ASSUME NEW a \in asked'
          PROVE  a[1] \in UsedKeys /\ a[2] \in Int /\ (a[1] = mem.key => a[2] < n)
      <3>1. CASE a \in asked
        <4>1. a[1] \in UsedKeys /\ a[2] \in Int /\ (a[1] = mem.key => a[2] < mem.cur)
          BY <1>4, <3>1 DEF Honoured, Below
        <4> QED BY <1>4, <1>5, <1>6, <4>1
      <3>2. CASE a \in {<<mem.key, k>> : k \in mem.cur .. n - 1}
        <4>1. PICK k \in mem.cur .. n - 1 : a = <<mem.key, k>>
          BY <3>2
        <4>2. a[1] = mem.key /\ a[2] = k
          BY <4>1
        <4> QED BY <1>4, <1>6, <1>9, <4>2
      <3> QED BY <1>5, <3>1, <3>2
    <2> QED BY <1>7, <1>9, <2>1 DEF Below
  <1>14. OnPaper'
    <2> SUFFICES ASSUME NEW c \in Int, Cards!CardContaining(n) <= c, c <= mem.last
                 PROVE  [key |-> mem.key, alphabet |-> "default", card |-> c] \in paper
      BY <1>1, <1>7 DEF OnPaper
    <2>1. /\ Cards!CardContaining(mem.cur) <= Cards!CardContaining(n)
          /\ Cards!CardContaining(mem.cur) \in Int /\ Cards!CardContaining(n) \in Int
      BY <1>4, <1>5, <1>6, CardsInOrder DEF Cards!CardContaining, Cards!CardSize
    <2>2. Cards!CardContaining(mem.cur) <= c
      BY <2>1
    <2> QED BY <1>4, <2>2 DEF Honoured, OnPaper
  <1>15. PaperKeys'
    BY <1>1, <1>9 DEF Honoured, PaperKeys
  <1>16. Book!Login
    BY <1>1, <1>4, <1>5, <1>7, <1>9, UsedKeysAreKeys DEF Book!Login, Book!NoKey, ToolInv
  <1> QED BY <1>10, <1>11, <1>12, <1>13, <1>14, <1>15, <1>16 DEF Honoured

\* A process ends: what it knew is gone.
LEMMA ExitKept ==
  ASSUME ToolInv, Kept, Temporarily, Honoured, Exit
  PROVE  Kept' /\ Temporarily' /\ Honoured' /\ BookSame
  <1>1. /\ pc = "exit" /\ pc' = "idle"
        /\ keyFile' = keyFile /\ cntFile' = cntFile /\ genFile' = genFile
        /\ keys' = keys /\ paper' = paper /\ asked' = asked /\ reasked' = reasked
    BY DEF Exit, Ends, files, history
  <1>2. /\ BookKey' = BookKey /\ BookNext' = BookNext /\ BookLast' = BookLast
        /\ UsedKeys' = UsedKeys /\ Agree' = Agree /\ NoFiles' = NoFiles
    BY <1>1 DEF BookKey, BookNext, BookLast, Exists, UsedKeys, Agree, NoFiles
  <1>3. Kept'
    BY <1>1, <1>2 DEF Kept, Exists
  <1>4. Temporarily'
    BY <1>1 DEF Temporarily
  <1>5. Honoured'
    BY <1>1, <1>2 DEF Honoured, Below, OnPaper, PaperKeys
  <1> QED BY <1>1, <1>2, <1>3, <1>4, <1>5 DEF BookSame

LEMMA ConfirmKept ==
  ASSUME ToolInv, Kept, Honoured, Confirm
  PROVE  Kept' /\ Temporarily' /\ Honoured' /\ Book!NewKey
  BY InForce DEF Confirm, Kept, history

-----------------------------------------------------------------------------
(* The invariant.                                                          *)

LEMMA BookInit ==
  ASSUME Init
  PROVE  BookInv
  <1>1. /\ m = FreshMemory /\ pc = "idle" /\ todo = <<>> /\ paper = {} /\ asked = {}
        /\ reasked = FALSE
    BY DEF Init
  <1>2. CASE NoFiles /\ keys = 0
    <2>1. BookLast = -1 /\ BookNext = 0 /\ ~Exists(keyFile)
      BY <1>1, <1>2 DEF BookLast, BookNext, NoFiles, Missing, Exists
    <2>2. OnPaper
      BY <2>1 DEF OnPaper, Cards!CardContaining, Cards!CardSize
    <2>3. Kept
      BY <1>1, <1>2, <2>1 DEF Kept
    <2> QED BY <1>1, <2>2, <2>3, OpsComplete
            DEF BookInv, Temporarily, Honoured, Below, PaperKeys
  <1>3. CASE /\ keys = 1 /\ Agree
             /\ keyFile.num = KeyOf[1] /\ cntFile.num = 0 /\ genFile.num = -1
    <2>1. BookLast = -1 /\ BookNext = 0 /\ BookKey = KeyOf[1]
      BY <1>1, <1>3 DEF BookLast, BookNext, BookKey, Agree, Exists
    <2>2. OnPaper
      BY <2>1 DEF OnPaper, Cards!CardContaining, Cards!CardSize
    <2>3. KeyOf[1] \in UsedKeys
      BY <1>3 DEF UsedKeys
    <2>4. Kept
      BY <1>1, <1>3, <2>1, <2>3 DEF Kept
    <2> QED BY <1>1, <2>2, <2>4, OpsComplete
            DEF BookInv, Temporarily, Honoured, Below, PaperKeys
  <1>4. \/ NoFiles /\ keys = 0
        \/ /\ keys = 1 /\ Agree
           /\ keyFile.num = KeyOf[1] /\ cntFile.num = 0 /\ genFile.num = -1
    BY DEF Init, NoFiles, Agree
  <1> QED BY <1>2, <1>3, <1>4

LEMMA OpensClosedNext ==
  ASSUME ToolInv, OpensClosed(todo), [Next]_vars
  PROVE  OpensClosed(todo)'
  <1>1. CASE WriteStep
    BY <1>1, TailClosed DEF WriteStep, ToolInv, Shape
  <1>2. CASE GenerateKey \/ Confirm
    <2>1. todo' = todo \/ todo' = KeyOps
      BY <1>2 DEF GenerateKey, Confirm
    <2> QED BY <2>1, OpsComplete
  <1>3. CASE Skip \/ PrintNext
    <2>1. todo' = StateOps(m.flags)
      BY <1>3 DEF Skip, PrintNext, CallWriteState, ToolInv, Shape, Memory
    <2> QED BY <2>1, StateOpsComplete
  <1>4. CASE Exit \/ Kill
    <2>1. todo' = <<>>
      BY <1>4 DEF Exit, Kill, Ends
    <2> QED BY <2>1, OpsComplete
  <1>5. CASE UNCHANGED todo
    BY <1>5
  <1> QED BY <1>1, <1>2, <1>3, <1>4, <1>5 DEF Next, vars, Refuse, Start, Decline, UsePassphrase,
             SkipRefused, WriteDone, PrintTemporary, PrintedAll, PrintOne, PrintPasscode,
             ServeNothing, Process, Logins

\* Steps that move a run on and do nothing else.
MovesOn ==
    Refuse \/ SkipRefused \/ PrintedAll \/ PrintPasscode \/ ServeNothing \/ Process

LEMMA MovesOnKept ==
  ASSUME ToolInv, Kept, Temporarily, Honoured, MovesOn \/ UNCHANGED vars
  PROVE  Kept' /\ Temporarily' /\ Honoured' /\ BookSame
  <1>1. /\ UNCHANGED <<files, m, opt, todo, back, keys, paper, asked, reasked>>
        /\ \/ pc' = pc
           \/ /\ pc # "write" /\ pc' \in {"idle", "exit", "html", "serve"}
              /\ pc' \in {"html", "serve"} => pc \in {"print", "html", "serve"}
    BY DEF MovesOn, Refuse, SkipRefused, PrintedAll, PrintPasscode, ServeNothing, Process, vars,
           history, files, AfterPrinting, FromHtml
  <1> QED BY <1>1, QuietKept

\* Accidents are not undone.
LEMMA AccidentsStay ==
  ASSUME [Next]_vars, accidents' = {}
  PROVE  accidents = {} /\ ~Decline /\ ~Kill
  <1>1. accidents \subseteq accidents'
    BY DEF Next, vars, history, Refuse, Start, GenerateKey, Confirm, Decline, UsePassphrase,
           SkipRefused, Skip, WriteStep, WriteDone, PrintNext, PrintTemporary, PrintedAll,
           PrintOne, PrintPasscode, ServeNothing, Process, Exit, Kill, Logins, Emit
  <1> QED BY <1>1 DEF Decline, Kill

\* Each step of the tool keeps the invariant, and is a step of the book or none.
LEMMA StepKept ==
  ASSUME ToolInv, Typed, BookInv, [Next]_vars, accidents' = {}
  PROVE  Kept' /\ Temporarily' /\ Honoured' /\ (Book!Next \/ BookSame)
  <1>1. accidents = {} /\ ~Decline /\ ~Kill
    BY AccidentsStay
  <1>2. Kept /\ Temporarily /\ Honoured /\ OpensClosed(todo)
    BY <1>1 DEF BookInv
  <1>3. CASE Start \/ UsePassphrase \/ WriteStep \/ WriteDone \/ Exit \/ MovesOn \/ UNCHANGED vars
    BY <1>2, <1>3, StartKept, UsePassphraseKept, WriteStepKept, WriteDoneKept, ExitKept, MovesOnKept
  <1>4. CASE GenerateKey \/ Confirm
    BY <1>2, <1>4, GenerateKept, ConfirmKept DEF Book!Next
  <1>5. CASE Skip
    BY <1>2, <1>5, SkipKept DEF Book!Next
  <1>6. CASE PrintNext
    BY <1>2, <1>6, PrintNextKept DEF Book!Next
  <1>7. CASE PrintTemporary \/ PrintOne
    BY <1>2, <1>7, PrintOthersKept DEF Book!Next
  <1>8. CASE Logins
    BY <1>2, <1>8, LoginsKept DEF Book!Next
  <1> QED BY <1>1, <1>3, <1>4, <1>5, <1>6, <1>7, <1>8 DEF Next, MovesOn

LEMMA BookInvNext ==
  ASSUME ToolInv, Typed, BookInv, [Next]_vars
  PROVE  BookInv'
  <1>1. OpensClosed(todo)'
    BY OpensClosedNext DEF BookInv
  <1>2. accidents' = {} => Kept' /\ Temporarily' /\ Honoured'
    BY StepKept
  <1> QED BY <1>1, <1>2 DEF BookInv

LEMMA AlwaysBooked == Spec => [](ToolInv /\ Typed /\ BookInv)
  <1>1. ToolInv /\ Typed /\ BookInv /\ [Next]_vars => BookInv'
    BY BookInvNext
  <1>2. Init => BookInv
    BY BookInit
  <1> QED BY <1>1, <1>2, AlwaysTyped, PTL DEF Spec

\* Over new keys, skips, printing, kept releases of the files and any number of
\* runs, no login is asked for a number of a key that a login was asked for
\* before, unless an accident happened.
THEOREM AskedOnce == Spec => []AskedOncePerKey
  <1>1. BookInv => AskedOncePerKey
    BY DEF BookInv, Honoured, AskedOncePerKey
  <1> QED BY <1>1, AlwaysBooked, PTL

\* The card that the next prompt names is on paper, with the key and alphabet
\* that the login will use, or the user is warned.
THEOREM CardAtHand == Spec => []PaperOrWarning
  <1>1. ASSUME Typed, BookInv
        PROVE  PaperOrWarning
    <2> SUFFICES ASSUME pc = "idle", accidents = {}, Reading.ok,
                        ~Cards!OutOfPasscodes(Cards!Remaining(Reading.mem.last, Reading.mem.cur))
                 PROVE  [key |-> Reading.mem.key, alphabet |-> "default",
                         card |-> Cards!CardContaining(Reading.mem.cur)] \in paper
      BY DEF PaperOrWarning
    <2>1. Kept /\ OnPaper
      BY <1>1 DEF BookInv, Honoured
    <2>2. Agree
      <3>1. NoFiles => ~Reading.ok
        BY DEF NoFiles, Missing, Reading, Exists
      <3> QED BY <2>1, <3>1 DEF Kept
    <2>3. /\ Reading.mem.key = BookKey /\ Reading.mem.cur = BookNext
          /\ Reading.mem.last = BookLast /\ BookNext \in Int /\ BookLast \in Int
      BY <1>1, <2>2, ReadingAgree
         DEF BookKey, BookNext, BookLast, Agree, Exists, Typed, FilesTyped, Contents
    <2>4. /\ Cards!CardContaining(BookNext) \in Int
          /\ Cards!CardContaining(BookNext) <= BookLast
      BY <2>3 DEF Cards!OutOfPasscodes, Cards!Remaining, Cards!CardContaining, Cards!CardSize
    <2> QED BY <2>1, <2>3, <2>4 DEF OnPaper
  <1> QED BY <1>1, AlwaysBooked, PTL

-----------------------------------------------------------------------------
(* The book.                                                               *)

LEMMA InitBooked ==
  ASSUME Init
  PROVE  Book!Init
  <1>1. pc = "idle" /\ paper = {} /\ asked = {}
    BY DEF Init
  <1>2. CASE NoFiles
    BY <1>1, <1>2 DEF Book!Init, Book!NoKey, BookKey, BookNext, BookLast, NoFiles, Missing, Exists
  <1>3. CASE /\ keyFile.num = KeyOf[1] /\ cntFile.num = 0 /\ genFile.num = -1
             /\ Exists(keyFile)
    <2>1. 1 \in 1 .. Len(KeyOf)
      BY KeyToolAssumption
    <2> QED BY <1>1, <1>3, <2>1 DEF Book!Init, BookKey, BookNext, BookLast
  <1> QED BY <1>2, <1>3 DEF Init, NoFiles, Exists

\* Until there is an accident the steps are those of CardBook: whatever the order
\* of file operations, the release of the files and the mix of options, a key
\* comes into force with its counters, a counter moves with the card on record,
\* and a card is on record in the step that puts it on paper.
THEOREM ToolImplementsBook == Spec => ImplementsCardBook
  <1>1. Init => Book!Init
    BY InitBooked
  <1>2. ToolInv /\ Typed /\ BookInv /\ [Next]_vars =>
            [accidents' = {} => Book!Next]_<<BookKey, BookNext, BookLast, asked, paper>>
    BY StepKept DEF BookSame
  <1>3. Spec => [](ToolInv /\ Typed /\ BookInv)
    BY AlwaysBooked
  <1> QED BY <1>1, <1>2, <1>3, PTL DEF Spec, ImplementsCardBook

\* A behaviour without an accident is one of CardBook.
THEOREM AccidentFree == Spec /\ [](accidents = {}) => Book!Spec
  <1> DEFINE NoAccident == accidents = {}
             Bookish == [accidents' = {} => Book!Next]_<<BookKey, BookNext, BookLast, asked, paper>>
  <1>1. Bookish /\ NoAccident' => [Book!Next]_<<BookKey, BookNext, BookLast, asked, paper>>
    OBVIOUS
  <1>2. Spec => Book!Init /\ [][accidents' = {} => Book!Next]_<<BookKey, BookNext, BookLast, asked, paper>>
    BY ToolImplementsBook DEF ImplementsCardBook
  <1> HIDE DEF NoAccident
  <1>3. Spec /\ []NoAccident => Book!Spec
    BY <1>1, <1>2, PTL DEF Book!Spec, Book!vars
  <1> QED BY <1>3 DEF NoAccident

-----------------------------------------------------------------------------
(* What a run sends.                                                       *)

\* Where a run is once pages may have been sent.
Sending == pc \in {"print", "serve", "exit"} \/ (pc = "write" /\ back \in {"print", "serve"})

\* FirstNamed with the record as the memory has it.
FirstInMemory ==
    IF fNext(opt) /\ ~opt.passphrase
    THEN m.last - Len(sent) + 1
    ELSE Cards!CardContaining(opt.target.num)

\* The pages are of the key in memory, from the first one named.
InOrder ==
    /\ sent # <<>> =>
          Sending /\ (fNext(opt) \/ fCard(opt) \/ (fLatex(opt) /\ ~fPasscode(opt)))
    /\ \A i \in DOMAIN sent : sent[i] = InUse(FirstInMemory + i - 1)

\* With those still to be sent they are as many as were asked for.
Counted ==
    pc # "idle" =>
        /\ fNext(opt) =>
              /\ left = opt.count - Len(sent)
              /\ cardNum = Cards!CardContaining(opt.target.num) + Len(sent)
              /\ pc = "exit" => sent = <<>> \/ left = 0
        /\ ~fNext(opt) =>
              /\ Len(sent) <= 1
              /\ pc # "exit" => sent = <<>>
              /\ cardNum = Cards!CardContaining(opt.target.num)

\* Key and alphabet in memory are those that the command line names, as soon as
\* they are used.
Chosen ==
    /\ pc = "passphrase" \/ (pc = "write" /\ back = "passphrase") => opt.passphrase
    /\ pc \notin {"idle", "key", "passphrase"} => m.alphabet = NamedAlphabet
    /\ opt.passphrase /\ pc \in {"skip", "print", "html", "serve", "exit", "write"} =>
          m.key = TemporaryKey \/ (pc = "write" /\ back = "passphrase")

\* The memory is in the files, or will be when the operations are done.
InFiles(ops) ==
    /\ Exists(keyFile) \/ Pending(ops, "key")
    /\ "declined" \notin accidents => keyFile.num = m.key \/ Pending(ops, "key")
    /\ fNext(opt) /\ sent # <<>> => genFile.num = m.last \/ Pending(ops, "gen")

\* So it is in a run for the user's own key.
Kindred ==
    /\ keyFile.fmt = "empty" => keyFile.num = 0
    /\ pc = "confirm" => Exists(keyFile)
    /\ ~opt.passphrase =>
          /\ pc \in {"skip", "print", "html", "serve", "exit"} => InFiles(<<>>)
          /\ pc = "write" => InFiles(todo)

SentInv == InOrder /\ Counted /\ Chosen /\ Kindred

\* A page is added at the end.
LEMMA SentGrows ==
  ASSUME sent \in Seq(SentPages), m \in ToolMemory, NEW card \in Int, Emit(card)
  PROVE  /\ Len(sent) \in Nat /\ Len(sent') = Len(sent) + 1 /\ sent' # <<>>
         /\ DOMAIN sent' = 1 .. Len(sent) + 1
         /\ \A i \in 1 .. Len(sent) : i \in DOMAIN sent /\ sent'[i] = sent[i]
         /\ sent'[Len(sent) + 1] = InUse(card)
  <1>1. InUse(card) \in SentPages
    BY DEF InUse, SentPages, ToolMemory
  <1>2. sent' = Append(sent, InUse(card))
    BY DEF Emit
  <1> HIDE DEF SentPages
  <1> QED BY <1>1, <1>2

\* A run that sends text or HTML goes on to its end and not to the other medium.
LEMMA AfterPrintingExit ==
  ASSUME ToolInv, Served, pc \in {"print", "serve"}
  PROVE  AfterPrinting = "exit"
  <1>1. CASE pc = "print"
    <2>1. ~fHtml(opt)
      BY <1>1 DEF ToolInv, Asked, Served
    <2> QED BY <1>1, <2>1 DEF AfterPrinting, FromHtml
  <1> QED BY <1>1 DEF AfterPrinting

\* A file that holds its number, or exists, or will, after a step of writing.
LEMMA NumberWritten ==
  ASSUME todo \in Seq(Ops), todo # <<>>, OpensClosed(todo), NEW file, NEW name, NEW num
  PROVE  /\ file.num = num \/ Pending(todo, name) =>
                After(file, name, num).num = num \/ Pending(Tail(todo), name)
         /\ Exists(file) \/ Pending(todo, name) =>
                Exists(After(file, name, num)) \/ Pending(Tail(todo), name)
  <1>1. Head(todo) = todo[1] /\ todo[1] \in Ops
    BY TailOps
  <1>2. CASE todo[1].file # name
    <2>1. todo[1] # Op(name, "close") /\ After(file, name, num) = file
      BY <1>1, <1>2 DEF Op, After
    <2> QED BY <2>1, TailPending
  <1>3. CASE todo[1].file = name /\ todo[1].act = "open"
    BY <1>3, TailClosed
  <1>4. CASE todo[1].file = name /\ todo[1].act = "close"
    BY <1>1, <1>4 DEF After, Exists, Written
  <1> QED BY <1>1, <1>2, <1>3, <1>4 DEF Ops

LEMMA NothingPending == \A name : ~Pending(<<>>, name)
  BY DEF Pending

LEMMA InOrderNext ==
  ASSUME ToolInv, Typed, Served, InOrder, Counted, [Next]_vars
  PROVE  InOrder' /\ Counted'
  <1> DEFINE card == Cards!CardContaining(opt.target.num)
  <1>1. /\ sent \in Seq(SentPages) /\ Len(sent) \in Nat /\ m \in ToolMemory /\ m.last \in Int
        /\ cardNum \in Int /\ left \in Nat /\ card \in Int
    <2>1. opt.target.num \in Int
      BY DEF ToolInv, Shape
    <2>2. card \in Int
      BY <2>1 DEF Cards!CardContaining, Cards!CardSize
    <2>3. sent \in Seq(SentPages) /\ m \in ToolMemory /\ cardNum \in Int /\ left \in Nat
      BY DEF Typed, RunTyped, MemoryTyped
    <2>4. Len(sent) \in Nat /\ m.last \in Int
      BY <2>3 DEF ToolMemory
    <2> QED BY <2>2, <2>3, <2>4
  <1>2. CASE Start
    <2>1. /\ sent' = <<>> /\ pc' = FromKey(opt')
          /\ left' = IF fNext(opt') THEN opt'.count ELSE 0
          /\ cardNum' = Cards!CardContaining(opt'.target.num)
      BY <1>2 DEF Start, InOrder, Sending
    <2>2. opt'.count \in Int /\ opt'.target.num \in Nat
      <3>1. opt' \in Options
        BY <1>2, StartTyped, AcceptedNeedsKey DEF Typed
      <3> QED BY <3>1, OptionParts
    <2>3. Cards!CardContaining(opt'.target.num) \in Int
      BY <2>2 DEF Cards!CardContaining, Cards!CardSize
    <2>4. Len(sent') = 0 /\ DOMAIN sent' = {}
      BY <2>1
    <2> QED BY <2>1, <2>2, <2>3, <2>4 DEF InOrder, Counted
  <1>3. CASE GenerateKey \/ Confirm \/ Decline \/ UsePassphrase \/ Skip \/ SkipRefused
               \/ ServeNothing \/ Process
    <2>1. /\ opt' = opt /\ left' = left /\ cardNum' = cardNum /\ sent' = sent
          /\ pc \in {"key", "confirm", "passphrase", "skip", "html"}
      BY <1>3 DEF GenerateKey, Confirm, Decline, UsePassphrase, Skip, SkipRefused,
                  ServeNothing, Process, progress, CallWriteState
    <2>2. sent = <<>> /\ DOMAIN sent = {}
      BY <2>1 DEF InOrder, Sending
    <2> QED BY <2>1, <2>2 DEF InOrder, Counted
  <1>4. CASE WriteStep \/ WriteDone \/ Refuse \/ Logins \/ UNCHANGED vars
    <2>1. /\ opt' = opt /\ left' = left /\ cardNum' = cardNum /\ sent' = sent /\ m' = m
          /\ back' = back /\ (pc' = pc \/ (pc = "write" /\ pc' = back))
      BY <1>4 DEF WriteStep, WriteDone, Refuse, Logins, vars, progress
    <2>2. sent # <<>> => Sending' /\ (pc' = "exit" => pc = "exit")
      BY <2>1 DEF InOrder, Sending
    <2>3. FirstInMemory' = FirstInMemory
      BY <2>1 DEF FirstInMemory
    <2>4. InOrder'
      BY <2>1, <2>2, <2>3 DEF InOrder, InUse
    <2>5. pc = "idle" => sent = <<>> /\ pc' = "idle"
      BY <2>1 DEF InOrder, Sending
    <2>6. Counted'
      BY <2>1, <2>2, <2>5 DEF Counted
    <2> QED BY <2>4, <2>6
  <1>5. CASE PrintNext
    <2>1. /\ pc \in {"print", "serve"} /\ pc' = "write" /\ back' = pc /\ opt' = opt
          /\ fNext(opt) /\ ~opt.passphrase /\ Emit(m.last + 1)
          /\ left' = left - 1 /\ cardNum' = cardNum + 1
      BY <1>5 DEF PrintNext, CallWriteState
    <2>2. m'.key = m.key /\ m'.alphabet = m.alphabet /\ m'.last = m.last + 1
      BY <1>1, <1>5, PrintNextTyped
    <2>3. /\ Len(sent') = Len(sent) + 1 /\ DOMAIN sent' = 1 .. Len(sent) + 1
          /\ \A i \in 1 .. Len(sent) : i \in DOMAIN sent /\ sent'[i] = sent[i]
          /\ sent'[Len(sent) + 1] = InUse(m.last + 1)
      BY <1>1, <2>1, SentGrows
    <2>4. /\ FirstInMemory = m.last - Len(sent) + 1
          /\ FirstInMemory' = m.last + 1 - (Len(sent) + 1) + 1
      <3>1. m'.last = m.last + 1 /\ Len(sent') = Len(sent) + 1
        BY <2>2, <2>3
      <3>2. fNext(opt) /\ ~opt.passphrase /\ opt' = opt
        BY <2>1
      <3>3. FirstInMemory' = m'.last - Len(sent') + 1
        BY <3>2 DEF FirstInMemory, fNext
      <3>4. FirstInMemory = m.last - Len(sent) + 1
        BY <3>2 DEF FirstInMemory
      <3> QED BY <1>1, <3>1, <3>3, <3>4
    <2>5. ASSUME NEW i \in DOMAIN sent'
          PROVE  sent'[i] = [key |-> m'.key, alphabet |-> m'.alphabet, card |-> FirstInMemory' + i - 1]
      <3>1. CASE i \in 1 .. Len(sent)
        <4>1. sent'[i] = InUse(FirstInMemory + i - 1)
          BY <2>3, <3>1 DEF InOrder
        <4>2. FirstInMemory' = FirstInMemory
          BY <1>1, <2>4
        <4> QED BY <2>2, <4>1, <4>2 DEF InUse
      <3>2. CASE i = Len(sent) + 1
        <4>1. FirstInMemory' + i - 1 = m.last + 1
          BY <1>1, <2>4, <3>2
        <4> QED BY <2>2, <2>3, <3>2, <4>1 DEF InUse
      <3> QED BY <1>1, <2>3, <3>1, <3>2
    <2>6. InOrder'
      BY <2>1, <2>5 DEF InOrder, Sending, fNext, InUse
    <2>7. cardNum = card + Len(sent) /\ left = opt.count - Len(sent) /\ opt.count \in Int
      BY <2>1, OptionParts DEF Counted, Typed, RunTyped, NoOptions
    <2> HIDE DEF card
    <2>8. left' = opt.count - Len(sent') /\ cardNum' = card + Len(sent')
      <3>1. Len(sent') = Len(sent) + 1
        BY <2>3
      <3> QED BY <1>1, <2>1, <2>7, <3>1
    <2>9. Counted'
      BY <2>1, <2>8 DEF Counted, fNext, card
    <2> QED BY <2>6, <2>9
  <1>6. CASE PrintTemporary
    <2>1. /\ pc \in {"print", "serve"} /\ pc' = pc /\ opt' = opt /\ m' = m
          /\ fNext(opt) /\ opt.passphrase /\ Emit(cardNum)
          /\ left' = left - 1 /\ cardNum' = cardNum + 1
      BY <1>6 DEF PrintTemporary
    <2>2. /\ Len(sent') = Len(sent) + 1 /\ DOMAIN sent' = 1 .. Len(sent) + 1
          /\ \A i \in 1 .. Len(sent) : i \in DOMAIN sent /\ sent'[i] = sent[i]
          /\ sent'[Len(sent) + 1] = InUse(cardNum)
      BY <1>1, <2>1, SentGrows
    <2>3. FirstInMemory = card /\ FirstInMemory' = card
      BY <2>1 DEF FirstInMemory
    <2>4. cardNum = card + Len(sent) /\ left = opt.count - Len(sent)
      BY <2>1 DEF Counted
    <2>5. ASSUME NEW i \in DOMAIN sent'
          PROVE  sent'[i] = [key |-> m'.key, alphabet |-> m'.alphabet, card |-> FirstInMemory' + i - 1]
      <3>1. CASE i \in 1 .. Len(sent)
        <4>1. sent'[i] = InUse(FirstInMemory + i - 1)
          BY <2>2, <3>1 DEF InOrder
        <4> QED BY <2>1, <2>3, <4>1 DEF InUse
      <3>2. CASE i = Len(sent) + 1
        <4>1. FirstInMemory' + i - 1 = cardNum
          BY <1>1, <2>3, <2>4, <3>2
        <4> QED BY <2>1, <2>2, <3>2, <4>1 DEF InUse
      <3> QED BY <1>1, <2>2, <3>1, <3>2
    <2>6. InOrder'
      BY <2>1, <2>5 DEF InOrder, Sending, fNext, InUse
    <2>7. opt.count \in Int
      BY OptionParts DEF Typed, RunTyped, NoOptions
    <2> HIDE DEF card
    <2>8. left' = opt.count - Len(sent') /\ cardNum' = card + Len(sent')
      <3>1. Len(sent') = Len(sent) + 1
        BY <2>2
      <3> QED BY <1>1, <2>1, <2>4, <2>7, <3>1
    <2>9. Counted'
      BY <2>1, <2>8 DEF Counted, fNext, card
    <2> QED BY <2>6, <2>9
  <1>7. CASE PrintedAll \/ PrintPasscode
    <2>1. /\ opt' = opt /\ left' = left /\ cardNum' = cardNum /\ sent' = sent /\ m' = m
          /\ pc \in {"print", "serve"} /\ pc' = "exit"
          /\ fNext(opt) => left = 0
      BY <1>7, AfterPrintingExit DEF PrintedAll, PrintPasscode, progress
    <2>2. FirstInMemory' = FirstInMemory
      BY <2>1 DEF FirstInMemory
    <2>3. InOrder'
      BY <2>1, <2>2 DEF InOrder, Sending, InUse
    <2>4. Counted'
      BY <2>1 DEF Counted
    <2> QED BY <2>3, <2>4
  <1>8. CASE PrintOne
    <2>1. /\ opt' = opt /\ left' = left /\ cardNum' = cardNum /\ m' = m /\ Emit(cardNum)
          /\ pc \in {"print", "serve"} /\ pc' = "exit" /\ ~fNext(opt) /\ ~fPasscode(opt)
      BY <1>8, AfterPrintingExit DEF PrintOne
    <2>2. Len(sent) = 0 /\ cardNum = card
      BY <2>1 DEF Counted
    <2>3. Len(sent') = 1 /\ DOMAIN sent' = 1 .. 1 /\ sent'[1] = InUse(cardNum)
      BY <1>1, <2>1, <2>2, SentGrows
    <2>4. FirstInMemory' = card
      BY <2>1 DEF FirstInMemory
    <2>5. ASSUME NEW i \in DOMAIN sent'
          PROVE  sent'[i] = [key |-> m'.key, alphabet |-> m'.alphabet, card |-> FirstInMemory' + i - 1]
      <3>1. i = 1 /\ FirstInMemory' + i - 1 = cardNum
        BY <1>1, <2>2, <2>3, <2>4
      <3> QED BY <2>1, <2>3, <3>1 DEF InUse
    <2>6. fCard(opt) \/ fLatex(opt)
      BY <2>1 DEF ToolInv, Asked
    <2>7. InOrder'
      BY <2>1, <2>5, <2>6 DEF InOrder, Sending, InUse, fCard, fLatex, fPasscode
    <2>8. Counted'
      BY <2>1, <2>2, <2>3 DEF Counted, fNext
    <2> QED BY <2>7, <2>8
  <1>9. CASE Exit \/ Kill
    <2>1. sent' = <<>> /\ pc' = "idle" /\ DOMAIN sent' = {}
      BY <1>9 DEF Exit, Kill, Ends
    <2> QED BY <2>1 DEF InOrder, Counted
  <1> QED BY <1>2, <1>3, <1>4, <1>5, <1>6, <1>7, <1>8, <1>9 DEF Next

LEMMA ChosenNext ==
  ASSUME ToolInv, Typed, Chosen, [Next]_vars
  PROVE  Chosen'
  <1>1. CASE Start
    <2>1. /\ pc' = FromKey(opt')
          /\ m'.alphabet = IF opt'.alphabet THEN "given" ELSE "default"
          /\ pc' \notin {"key", "passphrase"} => ~opt'.key /\ ~opt'.passphrase
      BY <1>1, StartTyped DEF Typed
    <2>2. pc' \in {"key", "passphrase", "skip", "print", "html", "exit"}
      BY <2>1, PassphraseOnwards DEF FromKey
    <2>3. pc' = "passphrase" => opt'.passphrase
      BY <2>1, SkipOnwards DEF FromKey, FromPassphrase
    <2> QED BY <2>1, <2>2, <2>3 DEF Chosen, NamedAlphabet
  <1>2. CASE GenerateKey \/ Confirm \/ Decline
    <2>1. /\ opt' = opt /\ pc \in {"key", "confirm"} /\ opt.key
          /\ \/ pc' = "confirm"
             \/ pc' = "write" /\ back' = FromPassphrase(opt)
             \/ pc' = FromPassphrase(opt)
      BY <1>2 DEF GenerateKey, Confirm, Decline, ToolInv, KeysApart
    <2>2. m'.alphabet = "default"
      <3>1. CASE GenerateKey
        BY <3>1, NewKeysTyped DEF Typed
      <3>2. CASE Confirm \/ Decline
        BY <2>1, <3>2 DEF Confirm, Decline, Chosen, NamedAlphabet
      <3> QED BY <1>2, <3>1, <3>2
    <2>3. /\ opt.passphrase => FromPassphrase(opt) = "passphrase"
          /\ FromPassphrase(opt) = "passphrase" => opt.passphrase
          /\ FromPassphrase(opt) \in {"passphrase", "skip", "print", "html", "exit"}
      BY PassphraseOnwards, SkipOnwards DEF FromPassphrase
    <2> QED BY <2>1, <2>2, <2>3 DEF Chosen, NamedAlphabet
  <1>3. CASE UsePassphrase
    <2>1. /\ opt' = opt /\ pc = "passphrase" /\ pc' = FromSkip(opt) /\ m' = NewKey(TemporaryKey)
      BY <1>3 DEF UsePassphrase
    <2>2. m'.alphabet = "default" /\ m'.key = TemporaryKey
      BY <2>1 DEF NewKey
    <2>3. opt.passphrase /\ pc' \in {"skip", "print", "html", "exit"}
      BY <2>1, SkipOnwards DEF Chosen
    <2> QED BY <2>1, <2>2, <2>3 DEF Chosen, NamedAlphabet
  <1>4. CASE Skip \/ PrintNext
    <2>1. /\ opt' = opt /\ pc \in {"skip", "print", "serve"} /\ pc' = "write"
          /\ back' \in {pc, FromPrint(opt)}
      BY <1>4 DEF Skip, PrintNext, CallWriteState
    <2>2. m'.key = m.key /\ m'.alphabet = m.alphabet
      BY <1>4, SkipTyped, PrintNextTyped DEF Typed, MemoryTyped, ToolInv, Shape
    <2>3. FromPrint(opt) # "passphrase"
      BY PrintOnwards
    <2> QED BY <2>1, <2>2, <2>3 DEF Chosen, NamedAlphabet
  <1>5. CASE WriteStep \/ WriteDone
    <2>1. opt' = opt /\ m' = m /\ pc = "write" /\ pc' \in {pc, back} /\ back' = back
      BY <1>5 DEF WriteStep, WriteDone
    <2> QED BY <2>1 DEF Chosen, NamedAlphabet
  <1>6. CASE SkipRefused \/ PrintTemporary \/ PrintedAll \/ PrintOne \/ PrintPasscode
                \/ ServeNothing \/ Process
    <2>1. /\ opt' = opt /\ m' = m /\ pc \in {"skip", "print", "serve", "html"}
          /\ pc' \in {"print", "serve", "html", "exit"}
      BY <1>6, HtmlOnwards DEF SkipRefused, PrintTemporary, PrintedAll, PrintOne, PrintPasscode,
         ServeNothing, Process, AfterPrinting
    <2> QED BY <2>1 DEF Chosen, NamedAlphabet
  <1>7. CASE Exit \/ Kill
    <2>1. pc' = "idle"
      BY <1>7 DEF Exit, Kill, Ends
    <2> QED BY <2>1 DEF Chosen
  <1>8. CASE Refuse \/ Logins \/ UNCHANGED vars
    <2>1. opt' = opt /\ m' = m /\ pc' = pc /\ back' = back
      BY <1>8 DEF Refuse, Logins, vars
    <2> QED BY <2>1 DEF Chosen, NamedAlphabet
  <1> QED BY <1>1, <1>2, <1>3, <1>4, <1>5, <1>6, <1>7, <1>8 DEF Next

\* A reading that succeeds has the key of the file.
LEMMA ReadingKeyOk ==
  ASSUME Reading.ok, keyFile.fmt = "empty" => keyFile.num = 0
  PROVE  Reading.mem.key = keyFile.num
  <1> DEFINE b1 == Fread(ZeroedBuffer, keyFile)
  <1>1. CASE keyFile.fmt = "empty"
    <2>1. b1 = ZeroedBuffer
      BY <1>1 DEF Fread
    <2> QED BY <1>1, <2>1 DEF Reading, FreshMemory, ReadData, PppFlags, ZeroedBuffer, Empty
  <1>2. CASE keyFile.fmt # "empty"
    <2>1. b1.head = keyFile
      BY <1>2 DEF Fread
    <2> HIDE DEF b1
    <2>2. ReadData(b1, PppFlags(b1)) = keyFile.num
      BY <2>1 DEF ReadData, PppFlags
    <2>3. Reading.mem.key = ReadData(b1, PppFlags(b1))
      BY DEF Reading, b1
    <2> QED BY <2>2, <2>3
  <1> QED BY <1>1, <1>2

LEMMA KindredNext ==
  ASSUME ToolInv, Typed, OpensClosed(todo), InOrder, Chosen, Kindred, [Next]_vars
  PROVE  Kindred'
  <1>1. CASE Start
    <2>1. /\ pc' = FromKey(opt') /\ m'.key = Reading.mem.key
          /\ pc' \notin {"key", "passphrase"} => Reading.ok /\ Exists(keyFile)
      BY <1>1, StartTyped DEF Typed
    <2>2. pc' \in {"key", "passphrase", "skip", "print", "html", "exit"}
      BY <2>1, PassphraseOnwards DEF FromKey
    <2>3. keyFile' = keyFile /\ sent' = <<>>
      BY <1>1 DEF Start, files, InOrder, Sending
    <2>4. pc' \notin {"key", "passphrase"} => m'.key = keyFile'.num
      BY <2>1, <2>3, ReadingKeyOk DEF Kindred
    <2> QED BY <2>1, <2>2, <2>3, <2>4 DEF Kindred, InFiles, Exists
  <1>2. CASE GenerateKey \/ Confirm
    <2>1. /\ keyFile' = keyFile /\ sent' = <<>>
          /\ \/ pc' = "confirm" /\ Exists(keyFile)
             \/ pc' = "write" /\ todo' = KeyOps
      BY <1>2 DEF GenerateKey, Confirm, files, progress, InOrder, Sending
    <2>2. Pending(KeyOps, "key")
      BY OpsComplete
    <2> QED BY <2>1, <2>2 DEF Kindred, InFiles, Exists
  <1>3. CASE Decline
    <2>1. /\ keyFile' = keyFile /\ sent' = <<>> /\ "declined" \in accidents'
          /\ pc = "confirm" /\ pc' = FromPassphrase(opt)
      BY <1>3 DEF Decline, files, progress, InOrder, Sending
    <2>2. pc' \notin {"confirm", "write"}
      BY <2>1, PassphraseOnwards
    <2> QED BY <2>1, <2>2 DEF Kindred, InFiles, Exists
  <1>4. CASE UsePassphrase
    <2>1. opt' = opt /\ opt.passphrase /\ keyFile' = keyFile /\ pc' = FromSkip(opt)
      BY <1>4 DEF UsePassphrase, files, Chosen
    <2>2. pc' # "confirm"
      BY <2>1, SkipOnwards
    <2> QED BY <2>1, <2>2 DEF Kindred
  <1>5. CASE Skip \/ PrintNext
    <2>1. /\ keyFile' = keyFile /\ genFile' = genFile /\ opt' = opt /\ pc' = "write"
          /\ pc \in {"skip", "print", "serve"} /\ todo' = StateOps(m.flags)
      BY <1>5 DEF Skip, PrintNext, CallWriteState, files, ToolInv, Shape, Memory
    <2>2. m'.key = m.key
      BY <1>5, SkipTyped, PrintNextTyped DEF Typed, MemoryTyped, ToolInv, Shape
    <2>3. accidents \subseteq accidents'
      BY <1>5 DEF Skip, PrintNext, Emit
    <2>4. ~opt.passphrase =>
             /\ Exists(keyFile)
             /\ "declined" \notin accidents => keyFile.num = m.key
      BY <2>1, NothingPending DEF Kindred, InFiles
    <2>5. Exists(keyFile) => Pending(todo', "gen")
      BY <2>1, StateOpsComplete
    <2> QED BY <2>1, <2>2, <2>3, <2>4, <2>5 DEF Kindred, InFiles, Exists
  <1>6. CASE WriteStep
    <2>1. /\ keyFile' = After(keyFile, "key", m.key) /\ genFile' = After(genFile, "gen", m.last)
          /\ todo' = Tail(todo) /\ todo # <<>> /\ todo \in Seq(Ops)
          /\ opt' = opt /\ m' = m /\ pc = "write" /\ pc' = pc /\ sent' = sent
          /\ accidents' = accidents
      BY <1>6 DEF WriteStep, progress, history, ToolInv, Shape
    <2>2. /\ keyFile.num = m.key \/ Pending(todo, "key") =>
                keyFile'.num = m.key \/ Pending(todo', "key")
          /\ Exists(keyFile) \/ Pending(todo, "key") =>
                Exists(keyFile') \/ Pending(todo', "key")
          /\ genFile.num = m.last \/ Pending(todo, "gen") =>
                genFile'.num = m.last \/ Pending(todo', "gen")
      BY <2>1, NumberWritten
    <2>3. keyFile'.fmt = "empty" => keyFile'.num = 0
      BY <2>1 DEF After, Empty, Written, Kindred
    <2> QED BY <2>1, <2>2, <2>3 DEF Kindred, InFiles, Exists, fNext
  <1>7. CASE WriteDone
    <2>1. /\ UNCHANGED <<keyFile, genFile, opt, m, sent, accidents, todo>>
          /\ pc = "write" /\ todo = <<>> /\ pc' = back /\ back # "confirm"
      BY <1>7 DEF WriteDone, files, progress, history, ToolInv, KeysApart
    <2> QED BY <2>1 DEF Kindred, InFiles, Exists, fNext, Pending
  <1>8. CASE PrintTemporary
    <2>1. opt.passphrase' /\ keyFile' = keyFile /\ pc' = pc /\ pc # "confirm"
      BY <1>8 DEF PrintTemporary, files
    <2> QED BY <2>1 DEF Kindred
  <1>9. CASE PrintOne
    <2>1. /\ UNCHANGED <<keyFile, opt, m>> /\ ~fNext(opt) /\ accidents \subseteq accidents'
          /\ pc \in {"print", "serve"} /\ pc' \in {"html", "exit"}
      BY <1>9, HtmlOnwards DEF PrintOne, files, Emit, AfterPrinting
    <2> QED BY <2>1, NothingPending DEF Kindred, InFiles, Exists, fNext
  <1>10. CASE SkipRefused \/ PrintedAll \/ PrintPasscode \/ ServeNothing \/ Process
    <2>1. /\ UNCHANGED <<keyFile, genFile, opt, m, sent, accidents>>
          /\ pc \in {"skip", "print", "serve", "html"} /\ pc' \in {"serve", "html", "exit"}
      BY <1>10, HtmlOnwards DEF SkipRefused, PrintedAll, PrintPasscode, ServeNothing, Process,
         AfterPrinting, files, progress, history
    <2> QED BY <2>1 DEF Kindred, InFiles, Exists, fNext, Pending
  <1>11. CASE Exit \/ Kill
    <2>1. pc' = "idle" /\ keyFile' = keyFile
      BY <1>11 DEF Exit, Kill, Ends, files
    <2> QED BY <2>1 DEF Kindred
  <1>12. CASE Refuse \/ UNCHANGED vars
    <2>1. UNCHANGED <<keyFile, genFile, opt, m, sent, accidents, pc, todo>>
      BY <1>12 DEF Refuse, vars, files, progress, history
    <2> QED BY <2>1 DEF Kindred, InFiles, Exists, fNext, Pending
  <1>13. CASE Logins
    <2>1. pc' = "idle" /\ keyFile'.fmt = "flagged"
      BY <1>13 DEF Logins, Written
    <2> QED BY <2>1 DEF Kindred
  <1> QED BY <1>1, <1>2, <1>3, <1>4, <1>5, <1>6, <1>7, <1>8, <1>9, <1>10, <1>11, <1>12, <1>13
          DEF Next

LEMMA InitSent == Init => SentInv
  <1> SUFFICES ASSUME Init PROVE SentInv
    OBVIOUS
  <1>1. pc = "idle" /\ sent = <<>> /\ opt = NoOptions
    BY DEF Init
  <1>2. keyFile.fmt # "empty"
    BY DEF Init, Missing
  <1>3. DOMAIN sent = {}
    BY <1>1
  <1> QED BY <1>1, <1>2, <1>3 DEF SentInv, InOrder, Counted, Chosen, Kindred

LEMMA AlwaysSent == Spec => [](ToolInv /\ Typed /\ SentInv)
  <1>1. ToolInv /\ Typed /\ Served /\ BookInv /\ SentInv /\ [Next]_vars => SentInv'
    BY InOrderNext, ChosenNext, KindredNext DEF SentInv, BookInv
  <1> QED BY <1>1, InitSent, AlwaysBooked, AlwaysServed, PTL DEF Spec

\* Whatever keys were made, skipped with, written, declined or killed before, the
\* pages of a run are of the key and the alphabet that its command line names,
\* the cards it names one after the other, and all of them if any.
THEOREM OnlyWhatWasNamed == Spec => []PrintsWhatWasNamed
  <1>1. ToolInv /\ Typed /\ SentInv => PrintsWhatWasNamed
    <2> SUFFICES ASSUME ToolInv, Typed, InOrder, Counted, Chosen, Kindred
                 PROVE  PrintsWhatWasNamed
      BY DEF SentInv
    <2>1. CASE sent = <<>>
      BY <2>1 DEF PrintsWhatWasNamed
    <2>2. CASE sent # <<>>
      <3>1. Sending
        BY <2>2 DEF InOrder
      <3>2. m.alphabet = NamedAlphabet /\ (opt.passphrase => m.key = TemporaryKey)
        BY <3>1 DEF Chosen, Sending
      <3>3. ~opt.passphrase =>
               /\ "declined" \notin accidents => m.key = BookKey
               /\ fNext(opt) => m.last = BookLast
        BY <2>2, <3>1, NothingPending DEF Kindred, InFiles, Sending, BookKey, BookLast
      <3>4. FirstInMemory = FirstNamed
        BY <3>3 DEF FirstInMemory, FirstNamed
      <3>5. ASSUME NEW i \in DOMAIN sent
            PROVE  /\ sent[i].card = FirstNamed + i - 1 /\ sent[i].alphabet = NamedAlphabet
                   /\ "declined" \notin accidents => sent[i].key = NamedKey
        BY <3>2, <3>3, <3>4 DEF InOrder, InUse, NamedKey
      <3>6. pc = "exit" => Len(sent) = NamedPages
        <4>1. Len(sent) \in Nat /\ Len(sent) # 0
          BY <2>2 DEF Typed, RunTyped
        <4>2. opt.count \in Int
          BY OptionParts DEF Typed, RunTyped, NoOptions
        <4>3. pc = "exit" /\ fNext(opt) => left = 0 /\ left = opt.count - Len(sent)
          BY <2>2 DEF Counted
        <4>4. pc = "exit" /\ ~fNext(opt) => Len(sent) <= 1
          BY DEF Counted
        <4>5. CASE fNext(opt)
          BY <4>1, <4>2, <4>3, <4>5 DEF NamedPages
        <4>6. CASE ~fNext(opt)
          BY <4>1, <4>4, <4>6 DEF NamedPages
        <4> QED BY <4>5, <4>6
      <3> QED BY <2>2, <3>5, <3>6 DEF InOrder, PrintsWhatWasNamed
    <2> QED BY <2>1, <2>2
  <1> QED BY <1>1, AlwaysSent, PTL

=============================================================================
