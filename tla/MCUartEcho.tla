----------------------------- MODULE MCUartEcho -----------------------------
(* A ring of two bytes whose indices wrap around after four. *)
EXTENDS UartEcho
=============================================================================
