------------------------------ MODULE ScaleBoot ------------------------------
(***************************************************************************)
(* The scale benchmark, src/bin/scale-bench.rs: it boots a population of   *)
(* guests in turns, finds out from their output when to type the benchmark *)
(* command and when a guest is ready, and then measures them.  A marker is *)
(* two tokens here, so that it may come in two pieces; a guest prints the  *)
(* script of its firmware, some of it in each quantum, and waits for the   *)
(* command between the script's two parts.                                 *)
(***************************************************************************)
EXTENDS Naturals, Sequences

CONSTANTS
    Population, MeasuredTicks,       \* the arguments of the program
    BootTickLimit, WarmupTicks,      \* BOOT_TICK_LIMIT and WARMUP_TICKS
    Keep,                            \* the 4096 bytes drain_boot_uart keeps
    Budget,                          \* instructions_per_tick
    Prompt, Ready,                   \* PROMPT and READY
    Booting, Benching,               \* the script before and after the command
    MaxPrint                         \* bound on what one quantum prints

ASSUME ScaleBootAssumption ==
    /\ {Population, MeasuredTicks} \subseteq Nat \ {0}
    /\ {BootTickLimit, WarmupTicks, Budget, Keep, MaxPrint} \subseteq Nat
    /\ {Prompt, Ready, Booting, Benching} \subseteq Seq(STRING)
    /\ Len(Prompt) = 2 /\ Len(Ready) = 2

Guests == 1 .. Population

VARIABLES
    phase,            \* the loop of main that runs
    ticks,            \* its counter
    turn,             \* the guest whose turn it is; 0 at the loop's head
    output, command_sent, ready,     \* of each Guest
    printed,          \* how much of the script each guest has printed
    retired,          \* the sum over the measured quanta
    flooded           \* history: a quantum printed too much to keep

guestVars == <<output, command_sent, ready, printed, flooded>>
benchVars == <<phase, ticks, turn, guestVars, retired>>

Script == Booting \o Benching

BenchOK ==
    /\ phase \in {"boot", "warmup", "measure", "done", "failed"}
    /\ ticks \in Nat /\ turn \in 0 .. Population + 1 /\ retired \in Nat
    /\ command_sent \in [Guests -> BOOLEAN] /\ ready \in [Guests -> BOOLEAN]
    /\ flooded \in [Guests -> BOOLEAN]
    /\ printed \in [Guests -> 0 .. Len(Script)]
    /\ output \in [Guests -> Seq(STRING)] /\ \A g \in Guests : Len(output[g]) <= Keep

BenchInit ==
    /\ phase = "boot" /\ ticks = 0 /\ turn = 0 /\ retired = 0
    /\ output = [g \in Guests |-> <<>>] /\ printed = [g \in Guests |-> 0]
    /\ command_sent = [g \in Guests |-> FALSE]
    /\ ready = [g \in Guests |-> FALSE] /\ flooded = [g \in Guests |-> FALSE]

-----------------------------------------------------------------------------
contains(haystack, needle) ==
    \E i \in 1 .. Len(haystack) + 1 - Len(needle) :
        SubSeq(haystack, i, i + Len(needle) - 1) = needle

\* Mutant of Drained: only what this quantum printed is looked at.
DrainedFresh(old, bytes) == bytes

\* drain_boot_uart.
Drained(old, bytes) ==
    LET all == old \o bytes
    IN IF Len(all) > Keep THEN SubSeq(all, Len(all) - Keep + 1, Len(all)) ELSE all

\* What guest g may print in a quantum: the next pieces of the script, but
\* nothing of its second part before it is given the command.
Prints(g) ==
    LET end == IF command_sent[g] THEN Len(Script) ELSE Len(Booting)
    IN {n \in 0 .. MaxPrint : printed[g] + n <= end}

\* A guest that is not ready runs a quantum of the boot; one that is, waits.
BootTurn ==
    /\ phase = "boot" /\ turn \in Guests
    /\ turn' = turn + 1
    /\ IF ready[turn] THEN UNCHANGED guestVars ELSE
         \E n \in Prints(turn) :
           LET bytes == SubSeq(Script, printed[turn] + 1, printed[turn] + n)
               all == Drained(output[turn], bytes)
           IN /\ printed' = [printed EXCEPT ![turn] = @ + n]
              /\ flooded' = [flooded EXCEPT ![turn] = @ \/ n > Keep - 1]
              /\ command_sent' =
                   [command_sent EXCEPT ![turn] = @ \/ contains(all, Prompt)]
              /\ ready' = [ready EXCEPT ![turn] = contains(all, Ready)]
              /\ output' =
                   [output EXCEPT ![turn] = IF contains(all, Ready) THEN <<>> ELSE all]
    /\ UNCHANGED <<phase, ticks, retired>>

\* Mutant of Runs: a ready guest may wait for an interrupt.
RunsIdle(g) == 0 .. Budget

\* run_guest's result: a guest that is ready has to use its budget up.
Runs(g) == IF ready[g] THEN {Budget} ELSE 0 .. Budget

\* A quantum of the warm-up or of the measurement; drain_discard.
Turn ==
    /\ phase \in {"warmup", "measure"} /\ turn \in Guests
    /\ turn' = turn + 1
    /\ \E n \in Runs(turn) :
         retired' = IF phase = "measure" THEN retired + n ELSE retired
    /\ UNCHANGED <<phase, ticks, guestVars>>

\* run_guest fails: the machine does, or the guest stops consuming its budget.
Fail ==
    /\ turn \in Guests /\ ~(phase = "boot" /\ ready[turn])
    /\ phase' = "failed" /\ turn' = 0
    /\ UNCHANGED <<ticks, guestVars, retired>>

\* Mutant of EndTick: the boot counts the ticks in which a guest became ready.
EndTickReady ==
    /\ turn = Population + 1
    /\ turn' = 0
    /\ ticks' = IF phase = "boot" /\ ~\E g \in Guests : ready[g] THEN ticks ELSE ticks + 1
    /\ UNCHANGED <<phase, guestVars, retired>>

EndTick ==
    /\ turn = Population + 1
    /\ turn' = 0 /\ ticks' = ticks + 1
    /\ UNCHANGED <<phase, guestVars, retired>>

AllReady == \A g \in Guests : ready[g]

\* The phase the head of a loop leaves for, if it does not begin a tick.
After ==
    CASE phase = "boot" /\ AllReady -> "warmup"
      [] phase = "boot" /\ ~AllReady /\ ticks = BootTickLimit -> "failed"
      [] phase = "warmup" /\ ticks = WarmupTicks -> "measure"
      [] phase = "measure" /\ ticks = MeasuredTicks -> "done"
      [] OTHER -> phase

LoopHead ==
    /\ turn = 0 /\ phase \in {"boot", "warmup", "measure"}
    /\ phase' = After
    /\ IF phase' = phase THEN turn' = 1 /\ UNCHANGED ticks
                         ELSE ticks' = 0 /\ UNCHANGED turn
    /\ UNCHANGED <<guestVars, retired>>

Exit == phase \in {"done", "failed"} /\ UNCHANGED benchVars

BenchNext == LoopHead \/ BootTurn \/ Turn \/ Fail \/ EndTick \/ Exit

BenchSpec == BenchInit /\ [][BenchNext]_benchVars

\* One thread, which runs.
FairBench == BenchSpec /\ WF_benchVars(BenchNext)

-----------------------------------------------------------------------------
\* No marker is overlooked: a guest that has printed its ready marker is ready
\* when its turn is over, and one that has printed its prompt was given the
\* command, though each came in two quanta or with more output behind it, as
\* long as no quantum printed so much that its beginning was cut off.
MarkerFound ==
    \A g \in Guests : ~flooded[g] =>
        LET all == SubSeq(Script, 1, printed[g]) IN
          /\ contains(all, Prompt) => command_sent[g]
          /\ contains(all, Ready) => ready[g]

\* The figures are those of guests that were all ready and used up the budget
\* of every measured tick, and of no other tick.
Saturated ==
    phase = "done" => retired = Population * MeasuredTicks * Budget

\* A guest that never becomes ready ends the benchmark, and does not hang it.
Ends == <>(phase \in {"done", "failed"})
=============================================================================
