------------------------------ MODULE MCPacing ------------------------------
(* Pacing with ticks of three units and two messages under way. *)
EXTENDS Pacing
=============================================================================
