------------------------------ MODULE Terminal ------------------------------
(***************************************************************************)
(* The UART terminal: drain_uart of src/runtime/mod.rs takes what the      *)
(* guest has transmitted, a buffer at a time, into the TerminalProjection  *)
(* of src/terminal.rs, which keeps an ANSI screen and a bounded history of *)
(* raw bytes.  The vt100 parser is external: what it shows is a function   *)
(* of the bytes it was given, so it is modelled by those bytes.            *)
(***************************************************************************)
EXTENDS Naturals, Sequences

CONSTANTS
    RawCapacity,   \* raw_capacity of the projection
    DrainBytes,    \* UART_DRAIN_BYTES, the buffer of drain_uart
    Byte,          \* what the guest prints
    MaxPending,    \* bound on the bytes of one quantum
    MaxPrinted     \* bound on the bytes between two clears

ASSUME TerminalAssumption ==
    /\ RawCapacity \in Nat /\ DrainBytes \in Nat \ {0}
    /\ MaxPending \in Nat /\ MaxPrinted \in Nat

VARIABLES
    tx,         \* the UART's transmitted bytes, not drained yet
    raw_bytes,  \* the raw history
    parser,     \* the bytes the vt100 parser was given since it was made
    mode        \* which of the two the user sees

vars == <<tx, raw_bytes, parser, mode>>

TypeOK ==
    /\ tx \in Seq(Byte)
    /\ raw_bytes \in Seq(Byte) /\ Len(raw_bytes) <= RawCapacity
    /\ parser \in Seq(Byte)
    /\ mode \in {"ansi", "raw"}

Init ==
    /\ tx = <<>> /\ raw_bytes = <<>> /\ parser = <<>> /\ mode = "ansi"

-----------------------------------------------------------------------------
\* saturating_sub.
Minus(a, b) == IF a > b THEN a - b ELSE 0

AtMost(a, b) == IF a < b THEN a ELSE b

DropFirst(s, n) == SubSeq(s, n + 1, Len(s))

\* Mutant of Pushed: what does not fit is taken off the new bytes only.
PushedKeepingOld(old, bytes) ==
    old \o SubSeq(bytes, 1, AtMost(Len(bytes), Minus(RawCapacity, Len(old))))

\* push_guest_bytes on the raw history.
Pushed(old, bytes) ==
    LET overflow == Minus(Len(old) + Len(bytes), RawCapacity)
        skip == Minus(Len(bytes), RawCapacity)
    IN DropFirst(old, AtMost(overflow, Len(old))) \o DropFirst(bytes, skip)

\* The guest runs and prints; the UART's own bound is the virtual machine's.
GuestPrints ==
    /\ Len(tx) < MaxPending /\ Len(parser) + Len(tx) < MaxPrinted
    /\ \E b \in Byte : tx' = Append(tx, b)
    /\ UNCHANGED <<raw_bytes, parser, mode>>

\* One turn of the loop of drain_uart, which ends when nothing is left.
Drain ==
    /\ tx # <<>>
    /\ LET count == AtMost(DrainBytes, Len(tx))
           bytes == SubSeq(tx, 1, count)
       IN /\ raw_bytes' = Pushed(raw_bytes, bytes)
          /\ parser' = parser \o bytes
          /\ tx' = DropFirst(tx, count)
    /\ UNCHANGED mode

SetMode ==
    /\ \E m \in {"ansi", "raw"} : mode' = m
    /\ UNCHANGED <<tx, raw_bytes, parser>>

Clear ==
    /\ raw_bytes' = <<>> /\ parser' = <<>>
    /\ UNCHANGED <<tx, mode>>

Next == GuestPrints \/ Drain \/ SetMode \/ Clear

Spec == Init /\ [][Next]_vars

-----------------------------------------------------------------------------
\* The last n bytes of a sequence, or all of it.
Newest(s, n) == DropFirst(s, Minus(Len(s), n))

\* The raw history is the end of the very stream the screen shows: the newest
\* bytes printed since the last clear, as many as it may hold, in whatever
\* pieces they came, also when one piece is longer than the whole history.
HistoryIsNewest == raw_bytes = Newest(parser, RawCapacity)
=============================================================================
