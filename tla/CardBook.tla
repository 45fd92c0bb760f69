----------------------------- MODULE CardBook -----------------------------
(***************************************************************************)
(* What pppauth and the logins promise to somebody who carries passcards:  *)
(* a key, the number asked for next, the last card on record and the cards *)
(* on paper change together, in single steps, whatever the tool does to    *)
(* its files in between.  KeyTool is shown to implement this.              *)
(***************************************************************************)
EXTENDS Integers

CONSTANTS Keys

VARIABLES
    key,        \* the key in force, or 0
    next,       \* the number that the next login is asked for
    last,       \* the last card on record, -1 for none
    asked,      \* the numbers that were asked for, each with its key
    paper       \* the cards people have

vars == <<key, next, last, asked, paper>>

NoKey == 0

\* Seventy passcodes to a card.
CardOf(n) == n \div 70

Card(k, number) == [key |-> k, alphabet |-> "default", card |-> number]

Init ==
    /\ key \in Keys \cup {NoKey}
    /\ next = 0 /\ last = -1
    /\ asked = {} /\ paper = {}

\* A key that nobody has used or has cards of.
NewKey ==
    /\ key' \in Keys
    /\ \A a \in asked : a[1] # key'
    /\ \A c \in paper : c.key # key'
    /\ next' = 0 /\ last' = -1
    /\ UNCHANGED <<asked, paper>>

\* Only forward; a card that is skipped to and not on record comes next.
Skip ==
    /\ key # NoKey
    /\ next' > next
    /\ last' = IF last < CardOf(next') THEN CardOf(next') - 1 ELSE last
    /\ UNCHANGED <<key, asked, paper>>

\* The next card goes on paper and on record, perhaps with others on paper.
PrintNext ==
    /\ key # NoKey
    /\ last' = last + 1
    /\ paper \cup {Card(key, last')} \subseteq paper'
    /\ UNCHANGED <<key, next, asked>>

\* Cards printed again, ahead of time, or of a temporary key.
PrintOthers ==
    /\ paper \subseteq paper'
    /\ UNCHANGED <<key, next, last, asked>>

Login ==
    /\ key # NoKey
    /\ next' > next
    /\ asked' = asked \cup {<<key, n>> : n \in next .. next' - 1}
    /\ UNCHANGED <<key, last, paper>>

Next == NewKey \/ Skip \/ PrintNext \/ PrintOthers \/ Login

Spec == Init /\ [][Next]_vars

=============================================================================
