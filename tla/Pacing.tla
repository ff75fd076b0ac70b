------------------------------- MODULE Pacing -------------------------------
(***************************************************************************)
(* When the worker runs quanta: the deadline next_tick of worker_main in   *)
(* src/runtime/mod.rs against a wall clock that goes on while a quantum    *)
(* runs or a message is handled, and while the thread is not scheduled.    *)
(*                                                                         *)
(* Instants are kept relative to now: due is next_tick - now.  The worker  *)
(* only asks whether next_tick + REALTIME_TICK is past, so that a deadline *)
(* missed by more than a tick counts as missed by Tick + 1.                *)
(***************************************************************************)
EXTENDS Integers, Sequences

CONSTANTS
    Tick,        \* REALTIME_TICK, in units of the wall clock
    Capacity     \* COMMAND_CAPACITY

ASSUME PacingAssumption == Tick \in Nat \ {0} /\ Capacity \in Nat \ {0}

Modes == {"realtime", "unbounded"}

\* The messages, by what they do to the loop.  "pausing" stands for those that
\* may end with a paused machine (a step, a reset, a save), "other" for those
\* that never touch it.
Message ==
    [op: {"SetPaused"}, on: BOOLEAN] \cup [op: {"SetMode"}, mode: Modes]
      \cup [op: {"pausing", "other", "Shutdown"}]

VARIABLES
    due,             \* next_tick - now
    phase,           \* where the worker is in its loop
    paused, mode,    \* of WorkerState
    inbox,           \* the bounded channel
    \* history, each in units of the wall clock and no larger than Tick + 1:
    sinceMessage,    \* since the last message was handled
    sinceQuantum,    \* since the last realtime quantum began
    sincePrevious,   \* since the one before it began
    waited           \* spent blocked in recv_timeout since the last quantum
                     \* or since the machine was set to run in realtime mode

ages == <<sinceMessage, sinceQuantum, sincePrevious>>
vars == <<due, phase, paused, mode, inbox, ages, waited>>

Age == 0 .. Tick + 1

TypeOK ==
    /\ due \in -(Tick + 1) .. Tick
    /\ phase = "running" /\ mode = "realtime" => due <= 0
    /\ phase \in {"waiting", "running", "handling", "stopped"}
    /\ paused \in BOOLEAN /\ mode \in Modes
    /\ inbox \in Seq(Message) /\ Len(inbox) <= Capacity
    /\ sinceMessage \in Age /\ sinceQuantum \in Age /\ sincePrevious \in Age
    /\ waited \in Age

Init ==
    /\ due = Tick /\ phase = "waiting"
    /\ paused = FALSE /\ mode \in Modes /\ inbox = <<>>
    /\ sinceMessage = Tick + 1
    /\ sinceQuantum = Tick + 1 /\ sincePrevious = Tick + 1 /\ waited = 0

-----------------------------------------------------------------------------
\* A message arrives from the handle.
Arrive ==
    /\ phase # "stopped" /\ Len(inbox) < Capacity
    /\ \E m \in Message : inbox' = Append(inbox, m)
    /\ UNCHANGED <<due, phase, paused, mode, ages, waited>>

Older(age) == IF age > Tick THEN age ELSE age + 1

\* The worker is blocked in recv_timeout: its deadline is still to come.
Blocked ==
    phase = "waiting" /\ ~paused /\ mode = "realtime" /\ inbox = <<>> /\ due > 0

\* The wall clock goes on, whatever the worker is doing.
Pass ==
    /\ phase # "stopped"
    /\ due' = IF due < -Tick THEN due ELSE due - 1
    /\ sinceMessage' = Older(sinceMessage)
    /\ sinceQuantum' = Older(sinceQuantum)
    /\ sincePrevious' = Older(sincePrevious)
    /\ waited' = IF Blocked THEN Older(waited) ELSE waited
    /\ UNCHANGED <<phase, paused, mode, inbox>>

StartWhen(due_enough) ==
    /\ phase = "waiting" /\ ~paused /\ inbox = <<>>
    /\ mode = "realtime" => due_enough
    /\ phase' = "running"
    /\ IF mode = "realtime"
         THEN sinceQuantum' = 0 /\ sincePrevious' = sinceQuantum
         ELSE UNCHANGED <<sinceQuantum, sincePrevious>>
    /\ waited' = 0
    /\ UNCHANGED <<due, paused, mode, inbox, sinceMessage>>

\* Mutant of StartQuantum: a deadline that was missed is never met.
StartOnTheDot == StartWhen(due = 0)

\* recv_timeout times out in realtime mode; try_recv is empty in unbounded.
StartQuantum == StartWhen(due <= 0)

\* Mutant of NextTick: every deadline that was missed is caught up with.
CatchUp == due + Tick

\* next_tick after a realtime quantum, seen from the moment it has ended.
NextTick == IF due + Tick < 0 THEN Tick ELSE due + Tick

\* The quantum has run and is published; the guest may have halted or faulted.
EndQuantum ==
    /\ phase = "running" /\ phase' = "waiting"
    /\ due' = IF mode = "realtime" THEN NextTick ELSE due
    /\ paused' \in {paused, TRUE}
    /\ UNCHANGED <<mode, inbox, ages, waited>>

\* A message is taken, however late the quantum is, and acts on the worker.
Take ==
    /\ phase = "waiting" /\ inbox # <<>>
    /\ inbox' = Tail(inbox)
    /\ LET m == Head(inbox) IN
         /\ phase' = IF m.op = "Shutdown" THEN "stopped" ELSE "handling"
         /\ CASE m.op = "SetPaused" -> paused' = m.on
              [] m.op = "pausing" -> paused' \in {paused, TRUE}
              [] OTHER -> UNCHANGED paused
         /\ mode' = IF m.op = "SetMode" THEN m.mode ELSE mode
    /\ waited' = IF paused' \/ mode' # "realtime" THEN 0 ELSE waited
    /\ UNCHANGED <<due, ages>>

HandledThen(deadline) ==
    /\ phase = "handling" /\ phase' = "waiting"
    /\ due' = deadline
    /\ sinceMessage' = 0
    /\ UNCHANGED <<paused, mode, inbox, sinceQuantum, sincePrevious, waited>>

\* Mutants of EndHandling: the deadline stands; it is pushed back by a tick.
HandledKeepingDeadline == HandledThen(due)
HandledPostponing == HandledThen(due + Tick)

\* The message is handled and published: the deadline is a tick from now.
EndHandling == HandledThen(Tick)

Worker == StartQuantum \/ EndQuantum \/ Take \/ EndHandling

Stopped == phase = "stopped" /\ UNCHANGED vars

Next == Arrive \/ Pass \/ Worker \/ Stopped

\* The clock goes on and the worker's thread is scheduled.
Spec == Init /\ [][Next]_vars /\ WF_vars(Pass) /\ WF_vars(Worker)

-----------------------------------------------------------------------------
RealtimeStarts ==
    phase = "waiting" /\ phase' = "running" /\ mode = "realtime"

\* Quanta never come in a burst: late as the thread may be, of three realtime
\* quanta in a row the last begins a whole tick or more after the first, so that
\* at most one tick that was missed is made up for.
NoBurst == [][RealtimeStarts => sincePrevious >= Tick]_vars

\* After a message no quantum begins before a whole tick has passed: one that
\* resumes the machine or sets it to realtime finds no stale deadline.
MessageRearms == [][RealtimeStarts => sinceMessage >= Tick]_vars

\* Left alone, a running machine runs on, in both modes: if from some time on
\* there are no messages and the machine is not paused, quanta never end.
QuietRunsOn ==
    <>[](phase # "stopped" /\ ~paused /\ inbox = <<>>)
      => []<>(phase = "running")

\* What README says of realtime mode: a quantum every REALTIME_TICK.  The time
\* the worker chooses to wait between two quanta is then no more than a tick.
QuantumEveryTick == waited <= Tick
=============================================================================
