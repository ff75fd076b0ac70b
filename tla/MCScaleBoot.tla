----------------------------- MODULE MCScaleBoot -----------------------------
(* Two guests; the three pieces that are kept hold a marker and little more. *)
EXTENDS ScaleBoot

NshPrompt == <<"nsh", ">">>
BenchReady == <<"BENCH", "READY">>
Greeting == <<"NuttX">> \o NshPrompt
Bench == <<"nsh", "bench">> \o BenchReady \o <<"result", "result">>
=============================================================================
