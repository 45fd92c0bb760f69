----------------------------- MODULE MCPppauth -----------------------------
(* Instances of Pppauth for TLC. *)
EXTENDS Pppauth


=============================================================================
