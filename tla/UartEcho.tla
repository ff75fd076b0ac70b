------------------------------ MODULE UartEcho ------------------------------
(***************************************************************************)
(* The firmware of firmware/uart-echo/main.c: it queues a banner, enables  *)
(* interrupts, sleeps, and echoes in its trap handler what the UART        *)
(* receives, through a ring buffer with u32 indices that wrap around.      *)
(* The main program and the trap handler are two threads of control, of    *)
(* which the handler runs whenever it is entered; one step is what lies    *)
(* between two accesses to a device.  The host acts between any two steps, *)
(* for a quantum of the virtual machine may end after any instruction.     *)
(* The 16550 and the PLIC belong to the virtual machine and are modelled   *)
(* from how the firmware uses them: a level-triggered line and one source. *)
(***************************************************************************)
EXTENDS Naturals, Sequences

CONSTANTS
    TxBufferCapacity,    \* TX_BUFFER_CAPACITY
    Word,                \* one more than the largest index, 2^32 for a u32
    BannerLength,
    RxFifo, TxFifo,      \* the sizes of the UART's own buffers
    MaxInput             \* bound on the bytes the host sends

ASSUME UartEchoAssumption ==
    /\ {TxBufferCapacity, Word, RxFifo, TxFifo} \subseteq Nat \ {0}
    /\ Word % TxBufferCapacity = 0 /\ TxBufferCapacity < Word
    /\ BannerLength \in 0 .. TxBufferCapacity
    /\ MaxInput \in Nat

VARIABLES
    main, trap,       \* where the main program and the handler are
    index,            \* uart_queue: how many bytes of the banner it has pushed
    enabled,          \* mstatus.MIE and mie.MEIE
    buffer, tx_read, tx_write,    \* the ring
    rx, tx, ier,      \* the UART: its buffers and enabled interrupts
    claimed,          \* the PLIC: source 1 is claimed and not completed
    input,            \* how many bytes the host has sent
    pushed, sent      \* history: bytes put into the ring and into the UART

ring == <<buffer, tx_read, tx_write>>
uart == <<rx, tx, ier>>
history == <<pushed, sent>>
vars == <<main, trap, index, enabled, ring, uart, claimed, input, history>>

\* The bytes of the banner, and after them those of the host, are numbered.
Byte == 1 .. (BannerLength + MaxInput)

Used == (tx_write + Word - tx_read) % Word

TypeOK ==
    /\ main \in {"setup", "queue", "send", "ier", "unmask", "wfi"}
    /\ trap \in {"none", "claim", "receive", "send", "ier", "complete"}
    /\ index \in 0 .. BannerLength
    /\ enabled \in BOOLEAN /\ claimed \in BOOLEAN
    /\ buffer \in [0 .. TxBufferCapacity - 1 -> Byte \cup {0}]
    /\ {tx_read, tx_write} \subseteq 0 .. Word - 1
    /\ Used <= TxBufferCapacity
    /\ rx \in Seq(Byte) /\ Len(rx) <= RxFifo
    /\ tx \in Seq(Byte) /\ Len(tx) <= TxFifo
    /\ ier \subseteq {"rx", "tx"}
    /\ input \in 0 .. MaxInput
    /\ {pushed, sent} \subseteq Seq(Byte)

Init ==
    /\ main = "setup" /\ trap = "none" /\ index = 0
    /\ enabled = FALSE /\ claimed = FALSE
    /\ buffer = [i \in 0 .. TxBufferCapacity - 1 |-> 0]
    /\ tx_read = 0 /\ tx_write = 0
    /\ rx = <<>> /\ tx = <<>> /\ ier = {}
    /\ input = 0 /\ pushed = <<>> /\ sent = <<>>

-----------------------------------------------------------------------------
(* The devices.                                                            *)

DataReady == rx # <<>>           \* UART_LSR_DR
HoldingEmpty == Len(tx) < TxFifo \* UART_LSR_THRE

\* The interrupt line of the UART.
Line == ("rx" \in ier /\ DataReady) \/ ("tx" \in ier /\ HoldingEmpty)

\* inject_rx: the UART drops what does not fit.
HostSends ==
    /\ input < MaxInput
    /\ input' = input + 1
    /\ rx' = IF Len(rx) < RxFifo THEN Append(rx, BannerLength + input') ELSE rx
    /\ UNCHANGED <<main, trap, index, enabled, ring, tx, ier, claimed, history>>

\* drain_tx, after every quantum.
HostDrains ==
    /\ tx # <<>> /\ tx' = <<>>
    /\ UNCHANGED <<main, trap, index, enabled, ring, rx, ier, claimed, input, history>>

\* The host disconnects the line and connects it again: unread bytes are lost.
HostReconnects ==
    /\ rx # <<>> /\ rx' = <<>>
    /\ UNCHANGED <<main, trap, index, enabled, ring, tx, ier, claimed, input, history>>

-----------------------------------------------------------------------------
(* What the main program and the handler share.                            *)

\* Mutant of Full: the ring takes one byte more than it has places.
FullTooLate == Used = TxBufferCapacity + 1

\* Mutant of Full: one place of the ring is never used.
FullTooSoon == Used = TxBufferCapacity - 1

Full == Used = TxBufferCapacity

\* tx_push, which drops the byte when the ring is full.
Push(byte) ==
    IF Full THEN UNCHANGED <<ring, pushed>>
    ELSE /\ buffer' = [buffer EXCEPT ![tx_write % TxBufferCapacity] = byte]
         /\ tx_write' = (tx_write + 1) % Word
         /\ pushed' = Append(pushed, byte)
         /\ UNCHANGED tx_read

\* The loop of uart_service_tx.
SendOne ==
    /\ tx_read # tx_write /\ HoldingEmpty
    /\ tx' = Append(tx, buffer[tx_read % TxBufferCapacity])
    /\ sent' = Append(sent, buffer[tx_read % TxBufferCapacity])
    /\ tx_read' = (tx_read + 1) % Word
    /\ UNCHANGED <<buffer, tx_write, rx, ier, pushed>>

SendDone ==
    /\ ~(tx_read # tx_write /\ HoldingEmpty)
    /\ UNCHANGED <<ring, uart, history>>

\* Mutant of SetIer: the transmit interrupt is not asked for.
SetIerRxOnly == ier' = {"rx"} /\ UNCHANGED <<rx, tx, ring, history>>

\* The end of uart_service_tx.
SetIer ==
    /\ ier' = {"rx"} \cup (IF tx_read # tx_write THEN {"tx"} ELSE {})
    /\ UNCHANGED <<rx, tx, ring, history>>

-----------------------------------------------------------------------------
(* firmware_main.                                                          *)

Main(from, to) ==
    /\ trap = "none" /\ main = from /\ main' = to
    /\ UNCHANGED <<trap, claimed, input>>

\* Mutant of Setup: interrupts are enabled before the banner is queued.
SetupUnmasked ==
    /\ Main("setup", "queue")
    /\ ier' = {"rx"} /\ enabled' = TRUE
    /\ UNCHANGED <<index, ring, rx, tx, history>>

\* The UART's interrupts are off, and the PLIC has source 1 enabled.
Setup ==
    /\ Main("setup", "queue")
    /\ ier' = {} /\ UNCHANGED <<index, enabled, ring, rx, tx, history>>

\* uart_queue of the banner, a byte at a time.
Queue ==
    /\ \/ /\ index < BannerLength /\ index' = index + 1
          /\ Main("queue", "queue") /\ Push(index')
       \/ /\ index = BannerLength /\ UNCHANGED index
          /\ Main("queue", "send") /\ UNCHANGED <<ring, pushed>>
    /\ UNCHANGED <<enabled, uart, sent>>

MainSends ==
    /\ \/ Main("send", "send") /\ SendOne
       \/ Main("send", "ier") /\ SendDone
    /\ UNCHANGED <<index, enabled>>

MainSetsIer == Main("ier", "unmask") /\ SetIer /\ UNCHANGED <<index, enabled>>

\* csrs mie and mstatus; then it sleeps for ever.
Unmask ==
    /\ Main("unmask", "wfi")
    /\ enabled' = TRUE /\ UNCHANGED <<index, ring, uart, history>>

-----------------------------------------------------------------------------
(* machine_trap.                                                           *)

\* An external interrupt wakes the hart and enters the handler.
Interrupt ==
    /\ enabled /\ trap = "none" /\ Line /\ ~claimed
    /\ trap' = "claim"
    /\ UNCHANGED <<main, index, enabled, ring, uart, claimed, input, history>>

Trap(from, to) ==
    /\ trap = from /\ trap' = to
    /\ UNCHANGED <<main, index, enabled, input>>

\* The source is 1, or 0 if the line has fallen again.
Claim ==
    /\ \/ Line /\ Trap("claim", "receive") /\ claimed' = TRUE
       \/ ~Line /\ Trap("claim", "none") /\ UNCHANGED claimed
    /\ UNCHANGED <<ring, uart, history>>

Receive ==
    /\ \/ /\ DataReady /\ Trap("receive", "receive")
          /\ Push(Head(rx)) /\ rx' = Tail(rx)
       \/ ~DataReady /\ Trap("receive", "send") /\ UNCHANGED <<ring, rx, pushed>>
    /\ UNCHANGED <<tx, ier, claimed, sent>>

TrapSends ==
    /\ \/ Trap("send", "send") /\ SendOne
       \/ Trap("send", "ier") /\ SendDone
    /\ UNCHANGED claimed

TrapSetsIer == Trap("ier", "complete") /\ SetIer /\ UNCHANGED claimed

\* Mutant of Complete: the interrupt is not completed.
ForgetComplete ==
    Trap("complete", "none") /\ UNCHANGED <<claimed, ring, uart, history>>

Complete ==
    /\ Trap("complete", "none")
    /\ claimed' = FALSE /\ UNCHANGED <<ring, uart, history>>

-----------------------------------------------------------------------------
Cpu ==
    \/ Setup \/ Queue \/ MainSends \/ MainSetsIer \/ Unmask
    \/ Interrupt \/ Claim \/ Receive \/ TrapSends \/ TrapSetsIer \/ Complete

Next == Cpu \/ HostSends \/ HostDrains \/ HostReconnects

Spec == Init /\ [][Next]_vars

\* The machine runs, and the worker drains the UART after every quantum.
FairSpec == Spec /\ WF_vars(Cpu) /\ WF_vars(HostDrains)

-----------------------------------------------------------------------------
\* Not a byte that tx_push accepted is lost, repeated, overtaken or mixed up,
\* however often the indices wrap around and whenever the handler comes.
Contents ==
    [i \in 1 .. Used |-> buffer[(tx_read + i - 1) % TxBufferCapacity]]

EchoInOrder == sent \o Contents = pushed

\* The banner is whole and comes first: the handler never enters uart_queue.
BannerFirst ==
    \A i \in 1 .. Len(pushed) : i <= BannerLength => pushed[i] = i

\* The hart does not sleep on work: when the main program waits and there is
\* a byte to read, or one to send and room for it, an interrupt is pending.
NoSleepingWork ==
    (main = "wfi" /\ trap = "none"
       /\ (DataReady \/ (tx_read # tx_write /\ HoldingEmpty)))
      => enabled /\ Line /\ ~claimed

\* A byte that was put into the ring leaves it in the end, by the loop that
\* finds room for it or by the transmit interrupt.
RingDrains == \A b \in Byte :
    (\E i \in 1 .. Len(pushed) : pushed[i] = b)
      ~> (\E i \in 1 .. Len(sent) : sent[i] = b)

Pipe == INSTANCE EchoPipe
          WITH Bytes <- Byte, Greeting <- [i \in 1 .. BannerLength |-> i],
               RxPlaces <- RxFifo, TxPlaces <- TxFifo,
               Places <- TxBufferCapacity,
               queue <- Contents, greeted <- index

\* The ring with its wrapping indices, shared by the main program and the
\* handler, is a queue behind which the host sees a greeting and an echo: no
\* byte is dropped while there is a place for it.
ImplementsEchoPipe == Pipe!Spec
=============================================================================
