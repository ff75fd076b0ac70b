------------------------------ MODULE EchoPipe ------------------------------
(***************************************************************************)
(* What the echo firmware promises to the host at the other end of the     *)
(* line: first a greeting, then every byte that was received, in order.    *)
(* Only two things lose a byte: a UART whose buffer is full when the byte  *)
(* comes, or that is reconnected before it is read; and a queue that is    *)
(* full when it is read.                                                   *)
(***************************************************************************)
EXTENDS Naturals, Sequences

CONSTANTS
    Bytes,
    Greeting,                  \* a sequence of them
    RxPlaces, TxPlaces,        \* what the UART holds in either direction
    Places                     \* what the queue holds

VARIABLES
    rx, tx,     \* the two directions of the UART
    queue,      \* what waits to be sent
    greeted     \* how much of the greeting is queued

vars == <<rx, tx, queue, greeted>>

Init == rx = <<>> /\ tx = <<>> /\ queue = <<>> /\ greeted = 0

\* A byte that finds no place in the UART changes nothing.
HostSends ==
    /\ Len(rx) < RxPlaces
    /\ \E b \in Bytes : rx' = Append(rx, b)
    /\ UNCHANGED <<tx, queue, greeted>>

HostDrains == tx' = <<>> /\ UNCHANGED <<rx, queue, greeted>>

HostReconnects == rx' = <<>> /\ UNCHANGED <<tx, queue, greeted>>

\* The greeting is never cut short.
Greet ==
    /\ greeted < Len(Greeting) /\ Len(queue) < Places
    /\ greeted' = greeted + 1
    /\ queue' = Append(queue, Greeting[greeted'])
    /\ UNCHANGED <<rx, tx>>

Echo ==
    /\ greeted = Len(Greeting) /\ rx # <<>>
    /\ rx' = Tail(rx)
    /\ queue' = IF Len(queue) < Places THEN Append(queue, Head(rx)) ELSE queue
    /\ UNCHANGED <<tx, greeted>>

Send ==
    /\ queue # <<>> /\ Len(tx) < TxPlaces
    /\ tx' = Append(tx, Head(queue)) /\ queue' = Tail(queue)
    /\ UNCHANGED <<rx, greeted>>

Next == HostSends \/ HostDrains \/ HostReconnects \/ Greet \/ Echo \/ Send

Spec == Init /\ [][Next]_vars
=============================================================================
