------------------------------- MODULE Loops -------------------------------
(***************************************************************************)
(* The loops of src/mpi, src/sha2 and src/rijndael, over the values that   *)
(* they change.                                                            *)
(***************************************************************************)
EXTENDS Integers

\* step(s, i) for i from m to n.  That s is compared has TLC compute it before the step.
StepByStep(step(_, _), start, m, n) ==
    LET Stepped(s, i) == IF s = <<>> THEN s ELSE step(s, i)
        after[i \in m - 1 .. n] == IF i < m THEN start ELSE Stepped(after[i - 1], i)
    IN  after[n]

\* The same, nested less deep in TLC: eight steps at a time.
Iterated(step(_, _), start, m, n) ==
    LET last(j) == IF m + 8 * j + 7 < n THEN m + 8 * j + 7 ELSE n
    IN  StepByStep(LAMBDA s, j : StepByStep(step, s, m + 8 * j, last(j)),
                   start, 0, (n - m) \div 8)
=============================================================================
