------------------------------ MODULE KeyTool ------------------------------
(***************************************************************************)
(* Runs of pppauth from the command line to the exit (src/ppp/pppauth.c,   *)
(* with cmdline.c, http.c and writeKeyFile of keyfiles.c), one after the   *)
(* other, with logins in between: new keys, temporary keys, skipping, and  *)
(* printing on paper or to a browser.                                      *)
(*                                                                         *)
(* Pppauth follows one printed card down to the key stream; here a card is *)
(* one thing, named by the key and alphabet it was made with and its       *)
(* number.  Keys are numbers.  The files are those of StateFiles, written  *)
(* one fopen and one fclose at a time, so that a run may be killed in      *)
(* between and the next run reads what it left.                            *)
(***************************************************************************)
EXTENDS CommandLine, StateFiles, Sequences

CONSTANTS
    KeyOf,          \* KeyOf[i] is the i-th random key
    TemporaryKey,   \* the key made from a passphrase
    LoginCnts,      \* counters that logins may move to
    MaxRuns,        \* bound on the runs of the tool
    Accidents,      \* accidents that may happen
    MaxAccidents    \* bound on the kinds of accident in one behaviour

ASSUME KeyToolAssumption ==
    /\ KeyOf \in Seq(Nat \ {0}) \ {<<>>} /\ TemporaryKey \in Nat \ {0}
    /\ \A i, j \in 1 .. Len(KeyOf) : KeyOf[i] # TemporaryKey /\ (KeyOf[i] = KeyOf[j] => i = j)
    /\ LoginCnts \subseteq Nat /\ MaxRuns \in Nat /\ MaxAccidents \in Nat

Cards == INSTANCE Passcards WITH Modulus <- 1, KeyOffset <- 0

\* What a user may do, or suffer, that keeps paper and counters from agreeing:
\* declining to overwrite the key, skipping with a temporary key, printing with
\* an alphabet of one's own, a browser that does not get the page, a kill.
AllAccidents == {"declined", "temporary", "alphabet", "lostPage", "killed"}

ASSUME AccidentsAssumption == Accidents \subseteq AllAccidents

VARIABLES
    keyFile, cntFile, genFile,
    m,              \* the variables of ppp.c that hold key, version, flags, counters
    opt,            \* the command line
    pc,             \* where the run is
    todo, back,     \* file operations to do, and where the run goes on then
    left,           \* cards of --next still to print
    cardNum,        \* cardNum of cmdline.c
    sent,           \* history: the pages of this run, each by its first card
    request,        \* whether the browser asked for the secret path
    status,         \* status lines sent to the browser
    keys,           \* random keys made so far
    runs,
    paper,          \* the cards people have
    accidents,      \* history: accidents so far
    asked,          \* history: the numbers logins were asked for, with the key
    reasked         \* history: a login was asked for one of those again

files == <<keyFile, cntFile, genFile>>
progress == <<left, cardNum, sent>>
http == <<request, status>>
history == <<accidents, asked, reasked>>
vars == <<files, m, opt, pc, todo, back, progress, http, keys, runs, paper, history>>

Missing == [fmt |-> "missing", ver |-> 1, flags |-> {}, num |-> 0]

NoOptions ==
    [key |-> FALSE, skip |-> FALSE, formats |-> {}, count |-> -1,
     target |-> [kind |-> "none", num |-> 0], passphrase |-> FALSE,
     alphabet |-> FALSE, useVersion |-> 0]

\* After pppInit, before any file is read.
FreshMemory ==
    [key |-> 0, ver |-> 0, flags |-> {}, cur |-> 0, last |-> 0, alphabet |-> "default"]

\* A user without a key, or with a fresh key of an older release.
Init ==
    /\ \/ keyFile = Missing /\ cntFile = Missing /\ genFile = Missing /\ keys = 0
       \/ /\ \E fmt \in {"versioned", "flagged"} :
                LET flags == IF fmt = "flagged" THEN {"present"} ELSE {}
                IN  /\ keyFile = [fmt |-> fmt, ver |-> 2, flags |-> flags, num |-> KeyOf[1]]
                    /\ cntFile = [fmt |-> fmt, ver |-> 2, flags |-> flags, num |-> 0]
                    /\ genFile = [fmt |-> fmt, ver |-> 2, flags |-> flags, num |-> -1]
          /\ keys = 1
    /\ m = FreshMemory
    /\ opt = NoOptions
    /\ pc = "idle"
    /\ todo = <<>> /\ back = "idle"
    /\ left = 0 /\ cardNum = 0 /\ sent = <<>>
    /\ request = FALSE /\ status = <<>>
    /\ runs = 0
    /\ paper = {}
    /\ accidents = {} /\ asked = {} /\ reasked = FALSE

\* One more accident is allowed.
May(accident) ==
    accident \in Accidents /\ Cardinality(accidents \cup {accident}) <= MaxAccidents

-----------------------------------------------------------------------------
(* readKeyFile in a new process.                                           *)

\* What it leaves in memory, and its result.  setKeyVersion sets the version,
\* and the default alphabet, only when all is well.
Reading ==
    LET b1 == Fread(ZeroedBuffer, keyFile)
        b2 == Fread(b1, cntFile)
        b3 == Fread(b2, genFile)
        flags == PppFlags(b1)
        exist == Exists(keyFile) /\ Exists(cntFile) /\ Exists(genFile)
        agree == PppVersion(b1) = PppVersion(b2) /\ PppVersion(b2) = PppVersion(b3)
    IN  IF ~exist
        THEN [ok |-> FALSE, mem |-> FreshMemory]
        ELSE [ok |-> agree,
              mem |-> [key |-> ReadData(b1, flags),
                       ver |-> IF agree THEN PppVersion(b1) ELSE 0,
                       flags |-> flags,
                       cur |-> ReadData(b2, flags),
                       last |-> ReadData(b3, flags),
                       alphabet |-> "default"]]

-----------------------------------------------------------------------------
(* Writing the files.                                                      *)

Op(file, act) == [file |-> file, act |-> act]

CounterOps == <<Op("cnt", "open"), Op("gen", "open"), Op("cnt", "close"), Op("gen", "close")>>

\* Variant: the key file is written every time.
StateOpsWithKey(flags) ==
    IF ~Exists(keyFile)
    THEN <<>>
    ELSE <<Op("key", "open"), Op("key", "close")>> \o CounterOps

\* writeState, in a directory that exists: a key file without flags is
\* written anew first.
StateOps(flags) ==
    IF ~Exists(keyFile)
    THEN <<>>
    ELSE IF "present" \in flags
         THEN CounterOps
         ELSE <<Op("key", "open"), Op("key", "close")>> \o CounterOps

\* Variant: the counters of the old key stay.
KeyOpsKeyOnly == <<Op("key", "open"), Op("key", "close")>>

\* writeKeyFile truncates all three files before it writes any.
KeyOps ==
    <<Op("key", "open"), Op("cnt", "open"), Op("gen", "open"),
      Op("key", "close"), Op("cnt", "close"), Op("gen", "close")>>

\* fopen(..., "w") empties a file; what _write_data put into it is there after
\* fclose.
After(file, name, num) ==
    IF Head(todo).file # name
    THEN file
    ELSE IF Head(todo).act = "open" THEN Empty ELSE Written(m.ver, m.flags, num)

WriteStep ==
    /\ pc = "write"
    /\ todo # <<>>
    /\ keyFile' = After(keyFile, "key", m.key)
    /\ cntFile' = After(cntFile, "cnt", m.cur)
    /\ genFile' = After(genFile, "gen", m.last)
    /\ todo' = Tail(todo)
    /\ UNCHANGED <<m, opt, pc, back, progress, http, keys, runs, paper, history>>

WriteDone ==
    /\ pc = "write"
    /\ todo = <<>>
    /\ pc' = back
    /\ UNCHANGED <<files, m, opt, todo, back, progress, http, keys, runs, paper, history>>

\* Where writeState, called from here, goes on to.
CallWriteState(memory, to) ==
    /\ m' = [memory EXCEPT !.flags = IF Exists(keyFile) THEN @ \cup {"present"} ELSE @]
    /\ todo' = StateOps(memory.flags)
    /\ back' = to
    /\ pc' = "write"

-----------------------------------------------------------------------------
(* main: key, passphrase, skip, print, serve, each if asked for.           *)

FromHtml(o) == IF fHtml(o) THEN "html" ELSE "exit"
FromPrint(o) == IF fText(o) \/ fLatex(o) THEN "print" ELSE FromHtml(o)
FromSkip(o) == IF o.skip THEN "skip" ELSE FromPrint(o)
FromPassphrase(o) == IF o.passphrase THEN "passphrase" ELSE FromSkip(o)
FromKey(o) == IF o.key THEN "key" ELSE FromPassphrase(o)

\* Options whose use is one of the accidents.
Permitted(o) ==
    /\ o.skip /\ o.passphrase => May("temporary")
    /\ o.alphabet /\ ~o.key /\ ~o.passphrase => May("alphabet")

\* "key file exists, but is invalid. Recreate it with -k option"
InvalidKeyFile(o) == Exists(keyFile) /\ ~Reading.ok /\ ~(o.key \/ o.passphrase)

\* errorExit and errorExitWithUsage, before anything is done.
Refuse ==
    /\ pc = "idle"
    /\ runs < MaxRuns
    /\ Accepted[Exists(keyFile)] # Options
    /\ runs' = runs + 1
    /\ UNCHANGED <<files, m, opt, pc, todo, back, progress, http, keys, paper, history>>

\* readKeyFile, then the options: -a replaces the alphabet, and the flags that
\* are not on the command line are cleared.
Start ==
    /\ pc = "idle"
    /\ runs < MaxRuns
    /\ runs' = runs + 1
    /\ \E o \in Accepted[Exists(keyFile)] :
          /\ ~InvalidKeyFile(o)
          /\ Permitted(o)
          /\ opt' = o
          /\ m' = [Reading.mem EXCEPT !.flags = @ \ {"dontSkip"},
                                      !.alphabet = IF o.alphabet THEN "given" ELSE @]
          /\ left' = IF fNext(o) THEN o.count ELSE 0
          /\ cardNum' = Cards!CardContaining(o.target.num)
          /\ pc' = FromKey(o)
    /\ UNCHANGED <<files, todo, back, sent, http, keys, paper, history>>

\* Variant: the file's flags are still those in force.
NewKeyOldFlags(key) ==
    [key |-> key, ver |-> IF opt.useVersion # 0 THEN opt.useVersion ELSE 2,
     flags |-> m.flags, cur |-> 0, last |-> -1, alphabet |-> "default"]

\* generateRandomSequenceKey and generateSequenceKeyFromPassphrase end alike:
\* the version in use with its alphabet, flags present, counters at the start.
NewKey(key) ==
    [key |-> key, ver |-> IF opt.useVersion # 0 THEN opt.useVersion ELSE 2,
     flags |-> m.flags \cup {"present"}, cur |-> 0, last |-> -1, alphabet |-> "default"]

\* A new key, and writeKeyFile up to its question.
GenerateKey ==
    /\ pc = "key"
    /\ keys < Len(KeyOf)
    /\ keys' = keys + 1
    /\ m' = NewKey(KeyOf[keys + 1])
    /\ IF Exists(keyFile)
       THEN pc' = "confirm" /\ UNCHANGED <<todo, back>>
       ELSE pc' = "write" /\ todo' = KeyOps /\ back' = FromPassphrase(opt)
    /\ UNCHANGED <<files, opt, progress, http, runs, paper, history>>

Confirm ==
    /\ pc = "confirm"
    /\ pc' = "write"
    /\ todo' = KeyOps
    /\ back' = FromPassphrase(opt)
    /\ UNCHANGED <<files, m, opt, progress, http, keys, runs, paper, history>>

\* "no", or the end of the input.  main does not look at writeKeyFile's result.
Decline ==
    /\ pc = "confirm"
    /\ May("declined")
    /\ pc' = FromPassphrase(opt)
    /\ accidents' = accidents \cup {"declined"}
    /\ UNCHANGED <<files, m, opt, todo, back, progress, http, keys, runs, paper,
                   asked, reasked>>

UsePassphrase ==
    /\ pc = "passphrase"
    /\ m' = NewKey(TemporaryKey)
    /\ pc' = FromSkip(opt)
    /\ UNCHANGED <<files, opt, todo, back, progress, http, keys, runs, paper, history>>

\* Variant: without the test.
ForwardOrBack == TRUE

\* "you can only `--skip' forward."
Forward == opt.target.num > m.cur

SkipRefused ==
    /\ pc = "skip"
    /\ ~Forward
    /\ pc' = "exit"
    /\ UNCHANGED <<files, m, opt, todo, back, progress, http, keys, runs, paper, history>>

\* Variant: the card skipped to counts as printed.
LastAfterSkipLate(last, n) ==
    IF last < Cards!CardContaining(n) THEN Cards!CardContaining(n) ELSE last

LastAfterSkip(last, n) ==
    IF last < Cards!CardContaining(n) THEN Cards!CardContaining(n) - 1 ELSE last

Skip ==
    /\ pc = "skip"
    /\ Forward
    /\ CallWriteState([m EXCEPT !.cur = opt.target.num,
                                !.last = LastAfterSkip(m.last, opt.target.num)],
                      FromPrint(opt))
    /\ accidents' = accidents \cup (IF opt.passphrase THEN {"temporary"} ELSE {})
    /\ UNCHANGED <<files, opt, progress, http, keys, runs, paper, asked, reasked>>

-----------------------------------------------------------------------------
(* Printing: printCard, latexCard, htmlCard.                               *)

Page(card) == IF fLatex(opt) THEN card .. card + 5 ELSE {card}

InUse(card) == [key |-> m.key, alphabet |-> m.alphabet, card |-> card]

Printed(card) == {InUse(c) : c \in Page(card)}

\* A page comes out of the tool; a browser may still lose it.
Emit(card) ==
    /\ sent' = Append(sent, InUse(card))
    /\ \/ /\ paper' = paper \cup Printed(card)
          /\ accidents' = accidents \cup (IF m.alphabet = "given" THEN {"alphabet"} ELSE {})
       \/ /\ pc = "serve"
          /\ May("lostPage")
          /\ accidents' = accidents \cup {"lostPage"}
          /\ UNCHANGED paper

AfterPrinting == IF pc = "print" THEN FromHtml(opt) ELSE "exit"

\* One turn of the loop over --next for the user's key: the card after the
\* last one, which is then on record.
PrintNext ==
    /\ pc \in {"print", "serve"}
    /\ fNext(opt) /\ left > 0 /\ ~opt.passphrase
    /\ Emit(m.last + 1)
    /\ CallWriteState([m EXCEPT !.last = @ + 1], pc)
    /\ left' = left - 1
    /\ cardNum' = cardNum + 1
    /\ UNCHANGED <<files, opt, http, keys, runs, asked, reasked>>

\* Variant: the card number moves only with the record.
PrintTemporarySame ==
    /\ pc \in {"print", "serve"}
    /\ fNext(opt) /\ left > 0 /\ opt.passphrase
    /\ Emit(cardNum)
    /\ left' = left - 1
    /\ UNCHANGED <<files, m, opt, pc, todo, back, cardNum, http, keys, runs, asked, reasked>>

\* The same for a temporary key: the cards named on the command line, and
\* nothing is recorded.
PrintTemporary ==
    /\ pc \in {"print", "serve"}
    /\ fNext(opt) /\ left > 0 /\ opt.passphrase
    /\ Emit(cardNum)
    /\ left' = left - 1
    /\ cardNum' = cardNum + 1
    /\ UNCHANGED <<files, m, opt, pc, todo, back, http, keys, runs, asked, reasked>>

PrintedAll ==
    /\ pc \in {"print", "serve"}
    /\ fNext(opt) /\ left = 0
    /\ pc' = AfterPrinting
    /\ UNCHANGED <<files, m, opt, todo, back, progress, http, keys, runs, paper, history>>

\* One card, as named by --card.
PrintOne ==
    /\ pc \in {"print", "serve"}
    /\ ~fNext(opt) /\ ~fPasscode(opt)
    /\ Emit(cardNum)
    /\ pc' = AfterPrinting
    /\ UNCHANGED <<files, m, opt, todo, back, left, cardNum, http, keys, runs, asked, reasked>>

\* One passcode, or the current one.
PrintPasscode ==
    /\ pc = "print"
    /\ ~fNext(opt) /\ fPasscode(opt)
    /\ pc' = AfterPrinting
    /\ UNCHANGED <<files, m, opt, todo, back, progress, http, keys, runs, paper, history>>

-----------------------------------------------------------------------------
(* httpServe: one connection, one request.                                 *)

\* "parses" says that there is a first line of three words.  The path of the
\* right name has the right length.
Requests ==
    {r \in [parses : BOOLEAN, get : BOOLEAN, length : BOOLEAN, path : BOOLEAN] :
        r.path => r.length}

\* Variant: only the length of the path is looked at.
FoundByLength(r) == r.length

\* strncmp(path+1, secretPath, 64) == 0
Found(r) == r.path

\* What httpProcess sends: the tests for the method and the length report an
\* error and go on.
Statuses(r) ==
    (IF r.get THEN <<>> ELSE <<501>>)
        \o (IF r.length THEN <<>> ELSE <<404>>)
        \o (IF Found(r) THEN <<200>> ELSE <<404>>)

\* accept() fails, or the first line is not a request.
ServeNothing ==
    /\ pc = "html"
    /\ pc' = "exit"
    /\ UNCHANGED <<files, m, opt, todo, back, progress, http, keys, runs, paper, history>>

Process ==
    /\ pc = "html"
    /\ \E r \in Requests :
          /\ r.parses
          /\ request' = r.path
          /\ status' = Statuses(r)
          /\ pc' = IF Found(r) THEN "serve" ELSE "exit"
    /\ UNCHANGED <<files, m, opt, todo, back, progress, keys, runs, paper, history>>

-----------------------------------------------------------------------------
(* Around the tool.                                                        *)

\* The memory of a process is gone when it ends, however it ends.
Ends ==
    /\ pc' = "idle"
    /\ m' = FreshMemory
    /\ opt' = NoOptions
    /\ todo' = <<>> /\ back' = "idle"
    /\ left' = 0 /\ cardNum' = 0 /\ sent' = <<>>
    /\ request' = FALSE /\ status' = <<>>

Exit ==
    /\ pc = "exit"
    /\ Ends
    /\ UNCHANGED <<files, keys, runs, paper, history>>

Kill ==
    /\ pc \notin {"idle", "exit"}
    /\ May("killed")
    /\ Ends
    /\ accidents' = accidents \cup {"killed"}
    /\ UNCHANGED <<files, keys, runs, paper, asked, reasked>>

\* A few logins, one after the other, each asking for a number and writing its
\* successor (PamSession).
Logins ==
    LET r == Reading IN
    /\ pc = "idle"
    /\ r.ok
    /\ \E n \in LoginCnts :
          /\ n > r.mem.cur
          /\ LET now == {<<r.mem.key, k>> : k \in r.mem.cur .. n - 1}
                 flags == r.mem.flags \cup {"present"}
             IN  /\ asked' = asked \cup now
                 /\ reasked' = (reasked \/ now \cap asked # {})
                 /\ keyFile' = Written(r.mem.ver, flags, r.mem.key)
                 /\ cntFile' = Written(r.mem.ver, flags, n)
                 /\ genFile' = Written(r.mem.ver, flags, r.mem.last)
    /\ UNCHANGED <<m, opt, pc, todo, back, progress, http, keys, runs, paper, accidents>>

Next ==
    \/ Refuse \/ Start \/ GenerateKey \/ Confirm \/ Decline \/ UsePassphrase
    \/ SkipRefused \/ Skip \/ WriteStep \/ WriteDone
    \/ PrintNext \/ PrintTemporary \/ PrintedAll \/ PrintOne \/ PrintPasscode
    \/ ServeNothing \/ Process \/ Exit \/ Kill \/ Logins

Spec == Init /\ [][Next]_vars

-----------------------------------------------------------------------------
(* Properties.                                                             *)

TypeOK ==
    /\ keyFile \in Contents /\ cntFile \in Contents /\ genFile \in Contents
    /\ m \in [key : Nat, ver : 0 .. 2, flags : SUBSET Flags, cur : Int, last : Int,
              alphabet : {"default", "given"}]
    /\ opt \in Options \cup {NoOptions}
    /\ pc \in {"idle", "key", "confirm", "passphrase", "skip", "print", "html", "serve", "write",
           "exit"}
    /\ left \in Nat /\ cardNum \in Nat
    /\ sent \in Seq([key : Nat, alphabet : {"default", "given"}, card : Int])
    /\ request \in BOOLEAN /\ status \in Seq({200, 404, 501})
    /\ keys \in 0 .. Len(KeyOf) /\ runs \in 0 .. MaxRuns
    /\ accidents \subseteq Accidents

\* Between runs, without an accident: a user who is not told "YOU ARE OUT OF
\* PASSCODES" has the card that the next prompt names, made with the key and
\* the alphabet that pppAuthenticate will use.
PaperOrWarning ==
    LET now == Reading.mem IN
    pc = "idle" /\ accidents = {} /\ Reading.ok
        /\ ~Cards!OutOfPasscodes(Cards!Remaining(now.last, now.cur)) =>
            [key |-> now.key, alphabet |-> "default", card |-> Cards!CardContaining(now.cur)]
                \in paper

\* Without an accident every number of a key is asked for once, over new keys,
\* skips and printing.
AskedOncePerKey == accidents = {} => ~reasked

\* cmdline.c:134, "This temporary key is not saved": not even when a run with a
\* temporary key skips on a key file of an older release, or is killed.
TemporaryKeyNotSaved ==
    keyFile.num # TemporaryKey

\* http.c:290: with --html, cards go on record only while the page that holds
\* them is being sent in answer to a request for the secret path, whatever
\* errors were reported to that request before.
RecordedWhenSent ==
    [][fHtml(opt) /\ genFile' # genFile /\ ~opt.skip /\ ~opt.key /\ pc = "write" =>
          request /\ status[Len(status)] = 200]_vars

\* A kill while counters are written leaves a key file of this release alone:
\* it is only ever emptied when a new key is about to be written.
KeySurvivesCounterWrites ==
    [][Exists(keyFile) /\ keyFile' # keyFile /\ pc = "write" /\ "present" \in keyFile.flags =>
          opt.key]_vars

-----------------------------------------------------------------------------
(* What the runs promise, as CardBook says it.                             *)

\* The key in force and its counters: while the files are written, what is being
\* written; otherwise what is in them.
BookKey == IF pc = "write" THEN m.key ELSE keyFile.num
BookNext == IF pc = "write" THEN m.cur ELSE cntFile.num
BookLast ==
    IF pc = "write" THEN m.last
    ELSE IF Exists(keyFile) THEN genFile.num ELSE -1

Book ==
    INSTANCE CardBook WITH
        Keys <- {KeyOf[i] : i \in 1 .. Len(KeyOf)},
        key <- BookKey, next <- BookNext, last <- BookLast

\* Until there is an accident, runs and logins look like single steps of CardBook:
\* no order of file operations, no release that the files come from, no mix of
\* options lets a key, a counter or a card on record move alone.
ImplementsCardBook ==
    /\ Book!Init
    /\ [][accidents' = {} => Book!Next]_<<BookKey, BookNext, BookLast, asked, paper>>

-----------------------------------------------------------------------------
(* What a run sends, as its command line says it.                          *)

\* -a is for a key that is read; a key that is made has the usual alphabet.
NamedAlphabet == IF opt.alphabet /\ ~opt.key /\ ~opt.passphrase THEN "given" ELSE "default"

NamedKey == IF opt.passphrase THEN TemporaryKey ELSE BookKey

\* --next names the cards after those on record, which by now include the pages
\* sent; otherwise the first card is that of --card.
FirstNamed ==
    IF fNext(opt) /\ ~opt.passphrase
    THEN BookLast - Len(sent) + 1
    ELSE Cards!CardContaining(opt.target.num)

NamedPages == IF fNext(opt) THEN opt.count ELSE 1

\* cmdline.c:416, "must specify which card(s) to generate": the pages of a run
\* are of the key in the key file, or of the passphrase, in the alphabet that
\* was asked for, start at the card that was named, or at the first not on record
\* in the file, follow each other without a gap or a repetition, and are all sent
\* if one is and the run is not killed; nothing is sent when no card was named
\* (but for --latex, which has no such test).  Whatever keys were made, skipped
\* with, written or killed before.  (After a declined overwrite the pages are of
\* the key that is not in the file.)
PrintsWhatWasNamed ==
    /\ sent # <<>> => fNext(opt) \/ fCard(opt) \/ (fLatex(opt) /\ ~fPasscode(opt))
    /\ \A i \in DOMAIN sent :
          /\ sent[i].card = FirstNamed + i - 1
          /\ sent[i].alphabet = NamedAlphabet
          /\ "declined" \notin accidents => sent[i].key = NamedKey
    /\ pc = "exit" /\ sent # <<>> => Len(sent) = NamedPages

-----------------------------------------------------------------------------
(* A property the repository states and the code does not have.            *)

\* keyfiles.c:669: whoever declines a new key "can continue to use" the
\* existing passcards, so no number is asked for again after that.
DeclinedKeepsNumbers == accidents \subseteq {"declined"} => ~reasked

=============================================================================
