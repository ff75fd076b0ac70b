---------------------------- MODULE PacingProofs ----------------------------
(* Proofs about the pacing of quanta, for ticks and channels of every size.  *)
EXTENDS Pacing, TLAPS

\* Every step keeps the types.
LEMMA TypeIsKept ==
  ASSUME TypeOK, [Next]_vars
  PROVE  TypeOK'
<1> USE PacingAssumption DEF PacingAssumption, TypeOK, Age, ages
<1>1. CASE Arrive
  <2>1. inbox' \in Seq(Message) /\ Len(inbox') <= Capacity
    BY <1>1 DEF Arrive
  <2> QED
    BY <1>1, <2>1 DEF Arrive
<1>2. CASE Pass
  BY <1>2 DEF Pass, Older
<1>3. CASE StartQuantum
  BY <1>3 DEF StartQuantum, StartWhen
<1>4. CASE EndQuantum
  <2>1. due' \in -(Tick + 1) .. Tick
    <3>1. CASE mode = "realtime"
      BY <1>4, <3>1 DEF EndQuantum, NextTick
    <3>2. CASE mode # "realtime"
      BY <1>4, <3>2 DEF EndQuantum
    <3> QED
      BY <3>1, <3>2
  <2>2. paused' \in BOOLEAN
    BY <1>4 DEF EndQuantum
  <2> QED
    BY <1>4, <2>1, <2>2 DEF EndQuantum
<1>5. CASE Take
  <2>1. /\ inbox' \in Seq(Message) /\ Len(inbox') <= Capacity
        /\ Head(inbox) \in Message
    BY <1>5 DEF Take
  <2>2. paused' \in BOOLEAN
    BY <1>5, <2>1 DEF Take, Message
  <2>3. mode' \in Modes
    BY <1>5, <2>1 DEF Take, Message
  <2> QED
    BY <1>5, <2>1, <2>2, <2>3 DEF Take
<1>6. CASE EndHandling
  BY <1>6 DEF EndHandling, HandledThen
<1>7. CASE UNCHANGED vars \/ Stopped
  BY <1>7 DEF Stopped, vars
<1> QED
  BY <1>1, <1>2, <1>3, <1>4, <1>5, <1>6, <1>7 DEF Next, Worker

\* The initial states are well typed.
LEMMA InitType ==
  ASSUME Init
  PROVE  TypeOK
<1>1. inbox \in Seq(Message) /\ Len(inbox) <= Capacity
  BY PacingAssumption DEF PacingAssumption, Init
<1>2. due \in -(Tick + 1) .. Tick
  BY PacingAssumption DEF PacingAssumption, Init
<1>3. /\ sinceMessage \in Age /\ sinceQuantum \in Age
      /\ sincePrevious \in Age /\ waited \in Age
  BY PacingAssumption DEF PacingAssumption, Init, Age
<1> QED
  BY <1>1, <1>2, <1>3 DEF Init, TypeOK

\* The types hold of every behaviour; in particular no deadline is ever
\* further off than a tick.
THEOREM TypeCorrect == Spec => []TypeOK
<1>1. Init => TypeOK
  BY InitType
<1>2. TypeOK /\ [Next]_vars => TypeOK'
  BY TypeIsKept
<1> QED
  BY <1>1, <1>2, PTL DEF Spec

-----------------------------------------------------------------------------
InRealtimeQuantum == phase = "running" /\ mode = "realtime"

\* While the worker is not in a realtime quantum, the deadline is no earlier
\* than the beginning of the last one, and a tick later than that of the one
\* before; in a quantum the first is true of the one before.
Spread ==
    IF InRealtimeQuantum
      THEN sincePrevious + due >= 0
      ELSE /\ sinceQuantum + due >= 0
           /\ sincePrevious >= Tick \/ sincePrevious + due >= Tick

\* The deadline is at least a tick later than the last message.
Rearmed == sinceMessage >= Tick \/ sinceMessage + due >= Tick

IInv == TypeOK /\ Spread /\ Rearmed

\* Every step keeps the invariant.
LEMMA InvariantIsKept ==
  ASSUME IInv, [Next]_vars
  PROVE  IInv'
<1> USE PacingAssumption DEF PacingAssumption, IInv, TypeOK, Age,
        Spread, Rearmed, InRealtimeQuantum, ages
<1>1. TypeOK'
  BY TypeIsKept
<1>2. CASE Arrive
  BY <1>1, <1>2 DEF Arrive
<1>3. CASE Pass
  BY <1>1, <1>3 DEF Pass, Older
<1>4. CASE StartQuantum
  BY <1>1, <1>4 DEF StartQuantum, StartWhen
<1>5. CASE EndQuantum
  BY <1>1, <1>5 DEF EndQuantum, NextTick
<1>6. CASE Take
  <2>1. phase = "waiting" /\ phase' # "running" /\ UNCHANGED <<due, ages>>
    BY <1>6 DEF Take
  <2> QED
    BY <1>1, <2>1
<1>7. CASE EndHandling
  BY <1>1, <1>7 DEF EndHandling, HandledThen
<1>8. CASE UNCHANGED vars \/ Stopped
  BY <1>8 DEF Stopped, vars
<1> QED
  BY <1>2, <1>3, <1>4, <1>5, <1>6, <1>7, <1>8 DEF Next, Worker

\* The invariant holds of every behaviour.
THEOREM Inductive == Spec => []IInv
<1>1. Init => IInv
  <2> SUFFICES ASSUME Init PROVE IInv
    OBVIOUS
  <2>1. TypeOK
    BY InitType
  <2>2. Spread /\ Rearmed
    BY PacingAssumption
    DEF PacingAssumption, Init, Spread, Rearmed, InRealtimeQuantum
  <2> QED
    BY <2>1, <2>2 DEF IInv
<1>2. IInv /\ [Next]_vars => IInv'
  BY InvariantIsKept
<1> QED
  BY <1>1, <1>2, PTL DEF Spec

\* Only StartQuantum begins a quantum.
LEMMA StartsAreQuanta ==
  ASSUME TypeOK, [Next]_vars, RealtimeStarts
  PROVE  StartQuantum
  BY DEF TypeOK, RealtimeStarts, Next, Worker, Arrive, Pass, EndQuantum, Take,
     EndHandling, HandledThen, Stopped, vars

\* Of three realtime quanta in a row, the last begins a tick or more after the
\* first.
THEOREM NeverBursts == Spec => NoBurst
<1>1. IInv /\ [Next]_vars => [RealtimeStarts => sincePrevious >= Tick]_vars
  BY StartsAreQuanta, PacingAssumption
  DEF PacingAssumption, IInv, TypeOK, Age, Spread, InRealtimeQuantum,
      StartQuantum, StartWhen, RealtimeStarts
<1> QED
  BY <1>1, Inductive, PTL DEF Spec, NoBurst

\* No realtime quantum begins within a tick of a message.
THEOREM MessagesRearm == Spec => MessageRearms
<1>1. IInv /\ [Next]_vars => [RealtimeStarts => sinceMessage >= Tick]_vars
  BY StartsAreQuanta, PacingAssumption
  DEF PacingAssumption, IInv, TypeOK, Age, Rearmed, StartQuantum, StartWhen,
      RealtimeStarts
<1> QED
  BY <1>1, Inductive, PTL DEF Spec, MessageRearms
=============================================================================
