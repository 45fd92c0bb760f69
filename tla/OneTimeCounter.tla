-------------------------- MODULE OneTimeCounter --------------------------
(***************************************************************************)
(* What logins with one-time passcodes promise, without files or locks: a  *)
(* counter that only moves forward, one passcode at a time; sessions that  *)
(* ask for numbers below it, each number asked for at most once; and a     *)
(* verdict only for a session that asked.                                  *)
(***************************************************************************)
EXTENDS Integers

CONSTANTS Sessions, Start, None

VARIABLES next, asked, outcome

Range(f) == {f[s] : s \in DOMAIN f}

Init ==
    /\ next = Start
    /\ asked = [s \in Sessions |-> None]
    /\ outcome = [s \in Sessions |-> "none"]

\* The next number is spent, before anyone is asked for it.
Spend ==
    /\ next' = next + 1
    /\ UNCHANGED <<asked, outcome>>

Ask(s) ==
    /\ asked[s] = None
    /\ \E n \in Start .. next - 1 :
          /\ n \notin Range(asked)
          /\ asked' = [asked EXCEPT ![s] = n]
    /\ UNCHANGED <<next, outcome>>

Judge(s) ==
    /\ asked[s] # None
    /\ outcome[s] = "none"
    /\ \E verdict \in {"success", "auth_err"} :
          outcome' = [outcome EXCEPT ![s] = verdict]
    /\ UNCHANGED <<next, asked>>

Next == Spend \/ \E s \in Sessions : Ask(s) \/ Judge(s)

Spec == Init /\ [][Next]_<<next, asked, outcome>>

=============================================================================
