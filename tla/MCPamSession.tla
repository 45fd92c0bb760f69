--------------------------- MODULE MCPamSession ---------------------------
(* Instances of PamSession for TLC. *)
EXTENDS PamSession, TLC

SessionSymmetry == Permutations(Sessions)

PlainFlags == {{"present"}}
AllFlags == {{"present"}, {"present", "dontSkip"}}

=============================================================================
