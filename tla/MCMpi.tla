------------------------------- MODULE MCMpi -------------------------------
EXTENDS Mpi

(* Instances of Mpi for TLC. *)

\* One call on every pair of these, with a third number that is longer than both,
\* and two calls, one after the other, on a few small numbers.
Pairs == {-37, -16, -3, 0, 27, 63}

Starts ==
    {[val |-> [r1 |-> p, r2 |-> q, r3 |-> -1021], exact |-> e, calls |-> 1] :
         p \in Pairs, q \in Pairs, e \in BOOLEAN}
    \cup {[val |-> [r1 |-> 1, r2 |-> -2, r3 |-> 3], exact |-> FALSE, calls |-> 2]}
=============================================================================
