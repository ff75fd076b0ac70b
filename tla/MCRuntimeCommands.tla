------------------------- MODULE MCRuntimeCommands -------------------------
(* Runtime with every command, from every profile. *)
EXTENDS Runtime

EveryProfile == [mode: Modes, connected: BOOLEAN]
=============================================================================
