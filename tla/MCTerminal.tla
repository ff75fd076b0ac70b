----------------------------- MODULE MCTerminal -----------------------------
(* A history that is shorter than what drain_uart may take at once. *)
EXTENDS Terminal
=============================================================================
