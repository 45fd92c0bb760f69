----------------------------- MODULE MCKeyTool -----------------------------
(* Instances of KeyTool for TLC. *)
EXTENDS KeyTool

TwoKeys == <<1001, 1002>>
CountsOfTwo == {-1, 2}
CountsOfOne == {-1, 1}

=============================================================================
