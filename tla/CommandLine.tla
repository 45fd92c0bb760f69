---------------------------- MODULE CommandLine ----------------------------
(***************************************************************************)
(* The command line of pppauth (src/ppp/cmdline.c): which combinations of  *)
(* options processCommandLine accepts.                                     *)
(*                                                                         *)
(* A target is what --card or --passcode names, as a passcode number; the  *)
(* variables cardNum, colNum and rowNum are zero when nothing was given.   *)
(* A count is the number after --next, or -1 without --next.  --time is    *)
(* accepted and taken back at once, so it is left out.                     *)
(***************************************************************************)
EXTENDS Integers, FiniteSets

CONSTANTS
    CardTargets,        \* passcode numbers that --card names, first of a card
    PasscodeTargets,    \* passcode numbers that --passcode names
    Counts              \* numbers after --next, -1 for no --next

ASSUME CommandLineAssumption ==
    /\ \A n \in CardTargets : n \in Nat /\ n % 70 = 0
    /\ PasscodeTargets \subseteq Nat
    /\ Counts \subseteq Nat \cup {-1}

\* "both" is --card with --passcode, "invalid" a row, column or card that does
\* not exist (rows 1 to 10, columns A to G, cards from 1).
Targets ==
    [kind : {"none", "current", "both", "invalid"}, num : {0}]
        \cup [kind : {"card"}, num : CardTargets]
        \cup [kind : {"passcode"}, num : PasscodeTargets]

Media == {"html", "text", "latex"}

Options ==
    [key : BOOLEAN, skip : BOOLEAN, formats : SUBSET Media, count : Counts,
     target : Targets, passphrase : BOOLEAN, alphabet : BOOLEAN, useVersion : {0, 1}]

-----------------------------------------------------------------------------
fNext(o) == o.count # -1
fCard(o) == o.target.kind \in {"card", "both"}
fPasscode(o) == o.target.kind \in {"passcode", "current", "both"}
fPasscodeCurr(o) == o.target.kind = "current"
fText(o) == "text" \in o.formats
fHtml(o) == "html" \in o.formats
fLatex(o) == "latex" \in o.formats

Reasons ==
    {"nothing", "twoTargets", "twoFormats", "skipWhere", "textWhat", "htmlWhat",
     "noKey", "badTarget", "nextTemporary", "nextCard", "htmlPasscode", "version"}

\* Why processCommandLine gives up on the options: each test ends the program.
Refusals(o, keyfileExists) ==
    {r \in Reasons :
        \/ r = "nothing" /\ ~(o.key \/ o.skip \/ o.formats # {})
        \/ r = "twoTargets" /\ fPasscode(o) /\ fCard(o)
        \/ r = "twoFormats" /\ Cardinality(o.formats) > 1
        \/ r = "skipWhere" /\ o.skip /\ ~(fPasscode(o) \/ fCard(o))
        \/ r = "textWhat" /\ fText(o) /\ ~(fNext(o) \/ fCard(o) \/ fPasscode(o))
        \/ r = "htmlWhat" /\ fHtml(o) /\ ~(fNext(o) \/ fCard(o))
        \/ r = "noKey" /\ ~(keyfileExists \/ o.key \/ o.passphrase)
        \/ r = "badTarget" /\ o.target.kind = "invalid"
        \/ r = "nextTemporary" /\ o.passphrase /\ fNext(o) /\ ~fCard(o)
        \/ r = "nextCard" /\ fNext(o) /\ fCard(o) /\ ~o.passphrase
        \/ r = "htmlPasscode" /\ fHtml(o) /\ fPasscode(o)
        \/ r = "version" /\ o.useVersion # 0 /\ ~o.passphrase}

\* The command lines that get past processCommandLine, with and without a key
\* file.
Accepted == [exists \in BOOLEAN |-> {o \in Options : Refusals(o, exists) = {}}]

=============================================================================
