------------------------------ MODULE Pppauth ------------------------------
(***************************************************************************)
(* The command line tool (src/ppp/pppauth.c) where it moves through the    *)
(* passcards of the user's key: --skip, and --next with --text or --latex. *)
(* A run reads the counter files, may skip, and then prints page by page,  *)
(* writing both counters after each.  It takes no lock.                    *)
(*                                                                         *)
(* Logins advance the counter (PamSession); to the tool a login is a read  *)
(* of both counters and, later, a write of both.                           *)
(*                                                                         *)
(* Paper is what has been printed, a set of cells.  A card is printed from *)
(* a block of 70 passcodes that getPasscodeBlock computes with a cipher    *)
(* block it keeps from one passcode to the next.                           *)
(***************************************************************************)
EXTENDS Passcards, Sequences

CONSTANTS
    StartCnts,      \* counters a user may start with
    SkipTargets,    \* passcode numbers named after --skip
    Layouts,        \* "text", "latex"
    MaxCount,       \* bound on the number after --next
    MaxRuns,        \* bound on the runs of the tool
    MaxCnt,         \* bound on the counter that logins reach
    Concurrent      \* users log in while the tool runs

ASSUME PppauthAssumption ==
    /\ StartCnts \subseteq Nat /\ SkipTargets \subseteq Nat
    /\ Layouts \subseteq {"text", "latex"}
    /\ MaxCount \in Nat /\ MaxRuns \in Nat /\ MaxCnt \in Nat
    /\ Concurrent \in BOOLEAN

VARIABLES
    cnt, gen,           \* the counter files
    login,              \* the counters a login has read and not written yet
    asked,              \* history: the numbers users were asked for, in order
    runs,               \* runs of the tool so far
    pc,                 \* where the tool is
    cur, last,          \* d_currPasscodeNum, d_lastCardGenerated of the tool
    skipTo, layout, left,   \* the command line: target, format, pages to go
    onPage,             \* cards of the page already printed
    passcodeNum, cipherNum, block, output,  \* locals of getPasscodeBlock
    paper

files == <<cnt, gen>>
options == <<skipTo, layout>>
locals == <<passcodeNum, cipherNum, block, output>>
vars == <<files, login, asked, runs, pc, cur, last, options, left, onPage, locals, paper>>

Pcs == {"idle", "skip", "writeCnt", "writeGen", "page", "block"}

\* Places of the key stream, and zero bytes outside it.
Bytes == Int \X Int

NoLogin == [read |-> FALSE, cur |-> 0, last |-> 0]

\* An mp_int of zero: every byte of the block is a zero that is no cipher's.
NoBlock == [i \in 0 .. 47 |-> <<-1, i>>]

\* A fresh key has no card printed and the counter on its first passcode; the
\* user may have skipped ahead by hand.
Init ==
    /\ cnt \in StartCnts
    /\ gen = -1
    /\ login = NoLogin
    /\ asked = <<>>
    /\ runs = 0
    /\ pc = "idle"
    /\ cur = 0 /\ last = 0
    /\ skipTo = 0 /\ layout \in Layouts /\ left = 0 /\ onPage = 0
    /\ passcodeNum = 0 /\ cipherNum = -1 /\ block = NoBlock /\ output = <<>>
    /\ paper = {}

-----------------------------------------------------------------------------
(* Logins, as the tool sees them.                                          *)

LoginReads ==
    /\ ~login.read
    /\ cnt < MaxCnt
    /\ Concurrent \/ pc = "idle"
    /\ login' = [read |-> TRUE, cur |-> cnt, last |-> gen]
    /\ UNCHANGED <<files, asked, runs, pc, cur, last, options, left, onPage, locals, paper>>

LoginWrites ==
    /\ login.read
    /\ cnt' = login.cur + 1
    /\ gen' = login.last
    /\ login' = NoLogin
    /\ asked' = Append(asked, login.cur)
    /\ UNCHANGED <<runs, pc, cur, last, options, left, onPage, locals, paper>>

-----------------------------------------------------------------------------
(* main.                                                                   *)

\* readKeyFile(0) and processCommandLine.  "skip" is a target, or none.
Open ==
    /\ pc = "idle"
    /\ runs < MaxRuns
    /\ Concurrent \/ ~login.read
    /\ runs' = runs + 1
    /\ cur' = cnt /\ last' = gen
    /\ layout' \in Layouts
    /\ \/ /\ skipTo' = 0
          /\ left' \in 1 .. MaxCount
          /\ pc' = "page"
       \/ /\ skipTo' \in SkipTargets
          /\ left' \in 0 .. MaxCount
          /\ pc' = "skip"
    /\ UNCHANGED <<files, login, asked, onPage, locals, paper>>

\* Variant: without the test.
ForwardOrBack == TRUE

\* "you can only `--skip' forward."
Forward == skipTo > cur

SkipRefused ==
    /\ pc = "skip"
    /\ ~Forward
    /\ pc' = "idle"
    /\ left' = 0
    /\ UNCHANGED <<files, login, asked, runs, cur, last, options, onPage, locals, paper>>

\* Variant: the card skipped to counts as printed.
LastAfterSkipLate ==
    IF last < CardContaining(skipTo) THEN CardContaining(skipTo) ELSE last

\* The cards skipped over count as printed.
LastAfterSkip ==
    IF last < CardContaining(skipTo) THEN CardContaining(skipTo) - 1 ELSE last

Skip ==
    /\ pc = "skip"
    /\ Forward
    /\ cur' = skipTo
    /\ last' = LastAfterSkip
    /\ pc' = "writeCnt"
    /\ UNCHANGED <<files, login, asked, runs, options, left, onPage, locals, paper>>

\* writeState, one file at a time.
WriteCnt ==
    /\ pc = "writeCnt"
    /\ cnt' = cur
    /\ pc' = "writeGen"
    /\ UNCHANGED <<gen, login, asked, runs, cur, last, options, left, onPage, locals, paper>>

WriteGen ==
    /\ pc = "writeGen"
    /\ gen' = last
    /\ pc' = "page"
    /\ UNCHANGED <<cnt, login, asked, runs, cur, last, options, left, onPage, locals, paper>>

Close ==
    /\ pc = "page"
    /\ left = 0
    /\ pc' = "idle"
    /\ UNCHANGED <<files, login, asked, runs, cur, last, options, left, onPage, locals, paper>>

-----------------------------------------------------------------------------
(* printCard, latexCard and getPasscodeBlock.                              *)

\* latexCard prints the card it is given and the five after it.
PageSize == IF layout = "latex" THEN 6 ELSE 1

\* Variant: the loop over --next runs once too often.
StartCardAgain ==
    /\ pc = "page"
    /\ passcodeNum' = PasscodeNumber(last + 1 + onPage, 0, 0)
    /\ cipherNum' = -1 /\ block' = NoBlock /\ output' = <<>>
    /\ pc' = "block"
    /\ UNCHANGED <<files, login, asked, runs, cur, last, options, left, onPage, paper>>

StartCard ==
    /\ pc = "page"
    /\ left > 0
    /\ passcodeNum' = PasscodeNumber(last + 1 + onPage, 0, 0)
    /\ cipherNum' = -1          \* lastCipherNum, differs from every cipherNum
    /\ block' = NoBlock
    /\ output' = <<>>
    /\ pc' = "block"
    /\ UNCHANGED <<files, login, asked, runs, cur, last, options, left, onPage, paper>>

\* Variant: the cipher block is looked up once per card.
CachedBlockStale(n) == IF cipherNum = -1 THEN Block(CipherNum(n)) ELSE block

\* The cipher block is computed anew only when the passcode needs another one.
CachedBlock(n) == IF CipherNum(n) # cipherNum THEN Block(CipherNum(n)) ELSE block

NextPasscode ==
    /\ pc = "block"
    /\ Len(output) < CardSize
    /\ block' = CachedBlock(passcodeNum)
    /\ cipherNum' = CipherNum(passcodeNum)
    /\ output' = Append(output, Extract(CachedBlock(passcodeNum), Offset(passcodeNum)))
    /\ passcodeNum' = passcodeNum + 1
    /\ UNCHANGED <<files, login, asked, runs, pc, cur, last, options, left, onPage, paper>>

\* The cell that the r-th line of the card has in its c-th column.
Cell(card, r, c) ==
    [code |-> [row |-> r, col |-> c, card |-> card + 1],
     bytes |-> output[(r - 1) * 7 + c + 1]]

Cells(card) == {Cell(card, r, c) : r \in 1 .. 10, c \in 0 .. 6}

PrintCard ==
    /\ pc = "block"
    /\ Len(output) = CardSize
    /\ paper' = paper \cup Cells(last + 1 + onPage)
    /\ output' = <<>>
    /\ \/ /\ onPage + 1 < PageSize
          /\ onPage' = onPage + 1
          /\ pc' = "page"
          /\ UNCHANGED <<last, left>>
       \/ /\ onPage + 1 = PageSize
          /\ onPage' = 0
          /\ last' = last + 1       \* incrLastCardGenerated
          /\ left' = left - 1
          /\ pc' = "writeCnt"
    /\ UNCHANGED <<files, login, asked, runs, cur, options, passcodeNum, cipherNum, block>>

Tool ==
    \/ Open \/ SkipRefused \/ Skip \/ WriteCnt \/ WriteGen \/ Close
    \/ StartCard \/ NextPasscode \/ PrintCard

Next == LoginReads \/ LoginWrites \/ Tool

Spec == Init /\ [][Next]_vars

-----------------------------------------------------------------------------
(* Properties.                                                             *)

TypeOK ==
    /\ cnt \in Nat /\ gen \in Nat \cup {-1}
    /\ login \in [read : BOOLEAN, cur : Nat, last : Nat \cup {-1}]
    /\ asked \in Seq(Nat)
    /\ runs \in 0 .. MaxRuns
    /\ pc \in Pcs
    /\ cur \in Nat /\ last \in Nat \cup {-1}
    /\ skipTo \in Nat /\ layout \in Layouts /\ left \in 0 .. MaxCount
    /\ onPage \in 0 .. PageSize - 1
    /\ passcodeNum \in Nat /\ cipherNum \in Nat \cup {-1}
    /\ block \in [0 .. 47 -> Bytes]
    /\ output \in Seq([0 .. 2 -> Bytes]) /\ Len(output) <= CardSize

\* What the paper shows in a cell is the passcode that pppAuthenticate expects
\* when the prompt names that cell.
PaperAnswersPrompts ==
    \A cell \in paper :
        \E n \in (cell.code.card - 1) * CardSize .. cell.code.card * CardSize - 1 :
            cell.code = Code(n) /\ cell.bytes = Passcode(n)

\* Why: passcodes come in order, each from its own cipher block, and the tool
\* is on a page only while it has pages to print.
Start == PasscodeNumber(last + 1 + onPage, 0, 0)

Position ==
    /\ pc \notin {"page", "block"} => onPage = 0
    /\ pc = "block" \/ onPage > 0 => left > 0

LoopInv ==
    /\ pc = "block" =>
          /\ passcodeNum = Start + Len(output)
          /\ cipherNum # -1 => block = Block(cipherNum)
          /\ \A i \in 1 .. Len(output) : output[i] = Passcode(Start + i - 1)
    /\ PaperAnswersPrompts

\* A passcode being printed has no byte of the key stream in common with one of
\* another cell: whoever saw a passcode learns nothing of the others.
NoByteTwice ==
    output # <<>> =>
        LET newest == output[Len(output)]
            Apart(bytes) == \A j, k \in 0 .. 2 : bytes[j] # newest[k]
        IN  /\ \A i \in 1 .. Len(output) - 1 : Apart(output[i])
            /\ \A cell \in paper : cell.code # Code(passcodeNum - 1) => Apart(cell.bytes)

\* Between runs a user who is not told "YOU ARE OUT OF PASSCODES" has on paper
\* the cell that the next prompt names.
PrintedOrWarned ==
    pc = "idle" /\ ~OutOfPasscodes(Remaining(gen, cnt)) =>
        \E cell \in paper : cell.code = Code(cnt)

\* README.md:3, a passcode is "only valid for a single login session": no two
\* logins ask for the same number.
NumbersAskedOnce ==
    \A i, j \in 1 .. Len(asked) : i # j => asked[i] # asked[j]

=============================================================================
