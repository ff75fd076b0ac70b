--------------------------- MODULE RuntimeProofs ---------------------------
(* Proofs about the runtime, for channels of every capacity, every set of    *)
(* profiles, disks, commands and outcomes, and any number of guest writes;   *)
(* and about the window over it, whichever widgets it has.                   *)
EXTENDS RuntimeSaves, Toolbar, TLAPS

-----------------------------------------------------------------------------
(* Types.                                                                  *)

\* The head of a channel of messages is a message, and so is each of the rest.
LEMMA HeadAndTail ==
  ASSUME messages \in Seq(Message), messages # <<>>
  PROVE  /\ Head(messages) \in Message /\ Head(messages) = messages[1]
         /\ Tail(messages) \in Seq(Message)
         /\ Len(Tail(messages)) = Len(messages) - 1
         /\ Len(messages) \in Nat \ {0}
         /\ \A i \in 1 .. Len(Tail(messages)) :
               Tail(messages)[i] = messages[i + 1]
  OBVIOUS

\* What a message carries, by its tag.
LEMMA MessageFields ==
  ASSUME NEW m \in Message
  PROVE  /\ m.op \in Switches => m.on \in BOOLEAN
         /\ m.op = "SetMode" => m.mode \in Modes
         /\ m.op = "SetTerminalMode" => m.mode \in TerminalModes
         /\ m.op = "SaveDisk" => m = SaveMessage
         /\ m.op = "Shutdown" => m \in ShutdownMessages
         /\ m \in Command =>
              m.op \in Switches \cup {"SetMode", "SetTerminalMode", "Step",
                                      "Reset", "SendUart", "ClearTerminal"}
  BY DEF Message, Command, Switches, SaveMessage, ShutdownMessages

\* A snapshot of a well-typed state is well typed.
LEMMA SnapshotType ==
  ASSUME TypeOK
  PROVE  Snapshot \in [paused: BOOLEAN, mode: Modes,
           outcome: Endings \cup {"running", "faulted"}, connected: BOOLEAN,
           terminal: [mode: TerminalModes, blank: BOOLEAN],
           error: {"none", "machine", "storage"}]
  BY DEF TypeOK, Snapshot, Error

\* Nothing the UI sends is taken for the absence of a call.
LEMMA MessageIsACall ==
  /\ NoCall \notin Message
  /\ UiCommands \cup {SaveMessage} \cup ShutdownMessages \subseteq Message
  BY RuntimeAssumption DEF RuntimeAssumption, NoCall, Message, Command,
     Switches, SaveMessage, ShutdownMessages

\* Taking a message leaves the rest of the channel.
LEMMA ReceiveType ==
  ASSUME TypeOK, NEW op, Receive(op)
  PROVE  /\ messages' \in Seq(Message) /\ Len(messages') <= Capacity
         /\ Head(messages) \in Message /\ Head(messages).op = op
         /\ worker' = "publish"
         /\ UNCHANGED <<ui, call, asked, reply, latest>>
<1>1. messages' \in Seq(Message) /\ Len(messages') <= Capacity
  BY HeadAndTail, RuntimeAssumption DEF TypeOK, Receive, RuntimeAssumption
<1> QED
  BY <1>1, HeadAndTail DEF TypeOK, Receive, uiVars

\* A run of the machine keeps the types of what it may change.
LEMMA RunMachineType ==
  ASSUME TypeOK, RunMachine
  PROVE  /\ paused' \in BOOLEAN /\ machineError' \in BOOLEAN
         /\ outcome' \in Endings \cup {"running", "faulted"}
         /\ terminal' \in [mode: TerminalModes, blank: BOOLEAN]
         /\ uart' \in [connected: BOOLEAN, unread: BOOLEAN]
         /\ block' \in Nat /\ disk' = disk /\ image' = image
<1>1. /\ paused' \in BOOLEAN /\ machineError' \in BOOLEAN
      /\ outcome' \in Endings \cup {"running", "faulted"}
  BY RuntimeAssumption DEF TypeOK, RunMachine, fault, RuntimeAssumption
<1>2. terminal' \in [mode: TerminalModes, blank: BOOLEAN]
  BY DEF TypeOK, RunMachine
<1>3. uart' \in [connected: BOOLEAN, unread: BOOLEAN]
  BY DEF TypeOK, RunMachine
<1> QED
  BY <1>1, <1>2, <1>3 DEF TypeOK, RunMachine

\* What a save does, done or failed.
LEMMA SaveEffect ==
  /\ SaveOk => /\ disk = "writable" /\ image' = block
               /\ storageError' = FALSE /\ paused' = paused
  /\ SaveErr => storageError' = TRUE /\ paused' = TRUE /\ image' = image
  BY DEF SaveOk, SaveErr

\* What a shutdown does to the disk, whether it saves or not.
LEMMA StopEffect ==
  ASSUME Stop
  PROVE  /\ SaveOk \/ SaveErr \/ UNCHANGED <<paused, storageError, image>>
         /\ messages # <<>> /\ Head(messages).op = "Shutdown"
         /\ worker = "receive" /\ worker' = "stopped"
         /\ messages' = Tail(messages)
         /\ UNCHANGED <<ui, call, asked, reply, latest, result, outcome,
                        machineError, mode, connected, uart, terminal, disk,
                        block>>
  BY DEF Stop, StopAfter, uiVars, saveOnly, profileVars

\* What a panic leaves: the channel as it is, or without the message that was
\* being handled.
LEMMA UnwindEffect ==
  ASSUME Unwind
  PROVE  /\ worker = "publish" \/ (worker = "receive" /\ (messages # <<>> \/ ~paused))
         /\ worker' = "unwound"
         /\ \/ messages' = messages
            \/ messages # <<>> /\ messages' = Tail(messages)
         /\ UNCHANGED <<ui, call, asked, reply, latest, result, paused, outcome,
                        machineError, storageError, mode, connected, uart,
                        terminal, disk, block, image>>
  BY DEF Unwind, uiVars, machineVars, profileVars, diskVars

\* Every step keeps the types.
LEMMA TypeIsKept ==
  ASSUME TypeOK, [Next]_vars
  PROVE  TypeOK'
<1> USE DEF TypeOK, Results
<1>1. CASE Call
  <2>1. call' \in Message /\ call' # NoCall
    BY <1>1, MessageIsACall DEF Call
  <2>2. asked' \in Nat
    BY <1>1 DEF Call
  <2> QED
    BY <1>1, <2>1, <2>2 DEF Call, uiOnly, machineVars, profileVars, diskVars
<1>2. CASE Send
  <2>1. messages' \in Seq(Message) /\ Len(messages') <= Capacity
    BY <1>2, RuntimeAssumption DEF Send, Deliver, RuntimeAssumption
  <2>2. ui' \in {"idle", "awaiting", "joining"}
    BY <1>2 DEF Send, Deliver, AfterSending
  <2> QED
    BY <1>2, <2>1, <2>2 DEF Send, Deliver, uiOnly, machineVars,
       profileVars, diskVars
<1>3. CASE SendFails \/ SaveReturns \/ Join
  BY <1>3 DEF SendFails, SaveReturns, Join, uiOnly, machineVars,
     profileVars, diskVars
<1>4. CASE Publish
  BY <1>4, SnapshotType DEF Publish, uiVars, machineVars, profileVars,
     diskVars
<1>5. CASE Reply
  BY <1>5 DEF Reply, uiVars, machineVars, profileVars, diskVars
<1>6. CASE Quantum
  BY <1>6, RunMachineType DEF Quantum, RunUnasked, uiVars, profileVars
<1>7. CASE HandleCommand
  <2> USE ReceiveType, MessageFields DEF ReceiveCommand, machineVars,
      profileVars, diskVars
  <2>1. CASE SetPaused
    BY <2>1 DEF SetPaused, Switches
  <2>2. CASE Step
    BY <2>2, RunMachineType DEF Step
  <2>3. CASE Reset
    <3>1. /\ paused' \in BOOLEAN /\ machineError' \in BOOLEAN
          /\ outcome' \in Endings \cup {"running", "faulted"}
          /\ block' \in Nat
      BY <2>3 DEF Reset, ResetWith, Built, fault
    <3>2. uart' \in [connected: BOOLEAN, unread: BOOLEAN]
      <4>1. [connected |-> connected, unread |-> FALSE]
              \in [connected: BOOLEAN, unread: BOOLEAN]
        OBVIOUS
      <4> QED
        BY <2>3, <4>1 DEF Reset, ResetWith, Built
    <3>3. terminal' \in [mode: TerminalModes, blank: BOOLEAN]
      BY <2>3 DEF Reset, ResetWith, Built
    <3> QED
      BY <2>3, <3>1, <3>2, <3>3 DEF Reset, ResetWith, Built
  <2>4. CASE SetMode
    BY <2>4 DEF SetMode
  <2>5. CASE SetTerminalMode
    <3>1. terminal' \in [mode: TerminalModes, blank: BOOLEAN]
      BY <2>5 DEF SetTerminalMode
    <3> QED
      BY <2>5, <3>1 DEF SetTerminalMode
  <2>6. CASE SendUart
    <3>1. uart' \in [connected: BOOLEAN, unread: BOOLEAN]
      BY <2>6 DEF SendUart
    <3> QED
      BY <2>6, <3>1 DEF SendUart
  <2>7. CASE SetUartConnected
    <3>1. connected' \in BOOLEAN
      BY <2>7 DEF SetUartConnected, Switches
    <3>2. uart' \in [connected: BOOLEAN, unread: BOOLEAN]
      BY <2>7, <3>1 DEF SetUartConnected
    <3> QED
      BY <2>7, <3>1, <3>2 DEF SetUartConnected
  <2>8. CASE ClearTerminal
    <3>1. terminal' \in [mode: TerminalModes, blank: BOOLEAN]
      BY <2>8 DEF ClearTerminal
    <3> QED
      BY <2>8, <3>1 DEF ClearTerminal
  <2> QED
    BY <1>7, <2>1, <2>2, <2>3, <2>4, <2>5, <2>6, <2>7, <2>8
    DEF HandleCommand
<1>8. CASE SaveDisk
  <2>1. /\ result' \in Results /\ paused' \in BOOLEAN
        /\ storageError' \in BOOLEAN /\ image' \in Nat
    BY <1>8 DEF SaveDisk, SaveOk, SaveErr
  <2> QED
    BY <1>8, <2>1, ReceiveType DEF SaveDisk, saveOnly, profileVars
<1>9. CASE Stop
  <2>1. /\ paused' \in BOOLEAN /\ storageError' \in BOOLEAN
        /\ image' \in Nat
    BY <1>9, StopEffect DEF SaveOk, SaveErr
  <2>2. messages' \in Seq(Message) /\ Len(messages') <= Capacity
    BY <1>9, StopEffect, HeadAndTail, RuntimeAssumption DEF RuntimeAssumption
  <2> QED
    BY <1>9, <2>1, <2>2, StopEffect
<1>10. CASE Unwind
  <2>1. messages' \in Seq(Message) /\ Len(messages') <= Capacity
    BY <1>10, UnwindEffect, HeadAndTail, RuntimeAssumption DEF RuntimeAssumption
  <2> QED
    BY <1>10, <2>1, UnwindEffect
<1>11. CASE UNCHANGED vars \/ Finished
  BY <1>11 DEF Finished, vars, uiVars, machineVars, profileVars, diskVars
<1> QED
  BY <1>1, <1>2, <1>3, <1>4, <1>5, <1>6, <1>7, <1>8, <1>9, <1>10, <1>11
  DEF Next, UiGoesOn, Worker

\* The initial states are well typed.
LEMMA InitType ==
  ASSUME Init
  PROVE  TypeOK
<1>1. mode \in Modes /\ connected \in BOOLEAN
  BY RuntimeAssumption DEF Init, Built, RuntimeAssumption
<1>2. /\ uart \in [connected: BOOLEAN, unread: BOOLEAN]
      /\ terminal \in [mode: TerminalModes, blank: BOOLEAN]
  BY <1>1 DEF Init, Built, TerminalModes
<1>3. messages \in Seq(Message) /\ Len(messages) <= Capacity
  BY RuntimeAssumption DEF Init, Built, RuntimeAssumption
<1> QED
  BY <1>1, <1>2, <1>3, RuntimeAssumption
  DEF Init, Built, TypeOK, Results, RuntimeAssumption

\* The type invariant holds of every behaviour.
THEOREM TypeCorrect == Spec => []TypeOK
<1>1. Init => TypeOK
  BY InitType
<1>2. TypeOK /\ [Next]_vars => TypeOK'
  BY TypeIsKept
<1> QED
  BY <1>1, <1>2, PTL DEF Spec

-----------------------------------------------------------------------------
(* The inductive invariant: what OneSaveInFlight and the promises need to    *)
(* know of each other.                                                       *)

\* The shutdown is the last message, and only it stops the worker.
ShutdownIsLast ==
    /\ \A i \in 1 .. Len(messages) : messages[i].op = "Shutdown" =>
         i = Len(messages) /\ ui \in {"joining", "gone"} /\ messages[i] = call
    /\ worker = "stopped" => ui \in {"joining", "gone"}
    /\ ui \in {"joining", "gone"} => call.op = "Shutdown"
    /\ ui = "gone" => WorkerGone

\* The copies of the disk, and what a save in flight may count on.
CopiesInOrder ==
    /\ image <= block
    /\ ui \in {"sending", "awaiting"} /\ call = SaveMessage => asked <= block
    /\ "ok" \in {reply, result} => asked <= image

\* The result of a save, told or not yet, is what the worker's state says.
SaveTold ==
    /\ "err" \in {reply, result} => paused /\ storageError
    /\ "ok" \in {reply, result} => ~storageError
    /\ reply = "err" => worker = "receive"

FaultRecorded == outcome = "faulted" => machineError

IInv ==
    /\ TypeOK /\ SnapshotCoherent /\ OneSaveInFlight /\ ShutdownIsLast
    /\ CopiesInOrder /\ SaveTold /\ SaveIsBarrier /\ DropSaves
    /\ UartFollowsProfile /\ FaultRecorded /\ FaultShown

-----------------------------------------------------------------------------
(* What each kind of step leaves alone.                                      *)

\* The UI thread touches neither the worker's state nor the mailbox.
LEMMA UiEffect ==
  ASSUME Call \/ UiGoesOn
  PROVE  UNCHANGED <<latest, worker, paused, outcome, machineError,
                     storageError, mode, connected, uart, terminal, disk,
                     block, image>>
  BY DEF Call, UiGoesOn, Send, Deliver, SendFails, SaveReturns, Join, uiOnly,
     machineVars, profileVars, diskVars

\* A run of the machine never makes the disk older, loses a fault's error or
\* moves what the user has set.
LEMMA RunMachineEffect ==
  ASSUME TypeOK, RunMachine
  PROVE  /\ block <= block' /\ image' = image /\ disk' = disk
         /\ FaultRecorded => FaultRecorded'
         /\ uart'.connected = uart.connected
         /\ terminal'.mode = terminal.mode
         /\ paused => paused'
<1>1. block <= block' /\ image' = image /\ disk' = disk
  BY DEF TypeOK, RunMachine
<1>2. (FaultRecorded => FaultRecorded') /\ (paused => paused')
  BY RuntimeAssumption
  DEF TypeOK, RunMachine, fault, FaultRecorded, RuntimeAssumption, Endings
<1>3. uart'.connected = uart.connected
  BY DEF TypeOK, RunMachine
<1>4. terminal'.mode = terminal.mode
  BY DEF TypeOK, RunMachine
<1> QED
  BY <1>1, <1>2, <1>3, <1>4

\* What a quantum leaves alone, and what it does to the machine (run_quantum).
LEMMA QuantumEffect ==
  ASSUME TypeOK, Quantum
  PROVE  /\ worker = "receive" /\ worker' = "publish"
         /\ ~paused /\ messages = <<>> /\ messages' = <<>>
         /\ UNCHANGED <<ui, call, asked, reply, latest, result, storageError,
                        mode, connected>>
  BY DEF Quantum, RunUnasked, uiVars, profileVars

\* A command, whichever it is: it is neither a save nor a shutdown, answers
\* nothing, and leaves the file, the kind of disk and the save's error alone.
LEMMA CommandEffect ==
  ASSUME TypeOK, HandleCommand
  PROVE  /\ worker = "receive" /\ worker' = "publish"
         /\ messages # <<>> /\ messages' = Tail(messages)
         /\ Head(messages).op \notin {"SaveDisk", "Shutdown"}
         /\ UNCHANGED <<ui, call, asked, reply, latest, result, storageError,
                        disk, image>>
         /\ block <= block'
         /\ UartFollowsProfile => UartFollowsProfile'
         /\ FaultRecorded => FaultRecorded'
<1> USE DEF ReceiveCommand, Receive, uiVars, machineVars, profileVars,
        diskVars, UartFollowsProfile, FaultRecorded
<1>1. CASE SetPaused
  BY <1>1 DEF SetPaused, TypeOK
<1>2. CASE Step
  BY <1>2, RunMachineEffect DEF Step, TypeOK
<1>3. CASE Reset
  BY <1>3 DEF Reset, ResetWith, Built, fault, TypeOK
<1>4. CASE SetMode \/ SetTerminalMode \/ ClearTerminal
  BY <1>4 DEF SetMode, SetTerminalMode, ClearTerminal, TypeOK
<1>5. CASE SendUart
  <2>1. uart'.connected = uart.connected
    BY <1>5 DEF SendUart, TypeOK
  <2> QED
    BY <1>5, <2>1 DEF SendUart, TypeOK
<1>6. CASE SetUartConnected
  <2>1. uart'.connected = connected'
    BY <1>6 DEF SetUartConnected
  <2> QED
    BY <1>6, <2>1 DEF SetUartConnected, TypeOK
<1> QED
  BY <1>1, <1>2, <1>3, <1>4, <1>5, <1>6 DEF HandleCommand

\* What SaveDisk's arm leaves for the answer, done or failed.
LEMMA SaveDiskEffect ==
  ASSUME SaveDisk
  PROVE  /\ worker = "receive" /\ worker' = "publish"
         /\ messages # <<>> /\ messages' = Tail(messages)
         /\ Head(messages).op = "SaveDisk"
         /\ \/ SaveOk /\ result' = "ok"
            \/ SaveErr /\ result' = "err"
         /\ UNCHANGED <<ui, call, asked, reply, latest, outcome, machineError,
                        mode, connected, uart, terminal, disk, block>>
  BY DEF SaveDisk, Receive, uiVars, saveOnly, profileVars

-----------------------------------------------------------------------------
(* The parts of the invariant, one lemma each.                               *)

\* The worker's turns, as every proof below splits them.
LEMMA StepKinds ==
  ASSUME [Next]_vars
  PROVE  \/ Call \/ Send \/ SendFails \/ SaveReturns \/ Join
         \/ Publish \/ Reply \/ Quantum \/ HandleCommand
         \/ SaveDisk \/ Stop \/ Unwind
         \/ UNCHANGED <<ui, call, asked, messages, reply, latest, worker,
                        result, paused, outcome, machineError, storageError,
                        mode, connected, uart, terminal, disk, block, image>>
  BY DEF Next, UiGoesOn, Worker, Finished, vars, uiVars, machineVars,
     profileVars, diskVars

\* The mailbox stays coherent: only Publish leads to where it matters, and
\* what the worker does next leaves it there.
LEMMA KeepsSnapshotCoherent ==
  ASSUME IInv, [Next]_vars
  PROVE  SnapshotCoherent'
<1> USE DEF IInv, SnapshotCoherent
<1>1. CASE Call \/ Send \/ SendFails \/ SaveReturns \/ Join
  BY <1>1, UiEffect DEF UiGoesOn, Snapshot, Error
<1>2. CASE Publish
  BY <1>2 DEF Publish, Snapshot, Error, machineVars, profileVars
<1>3. CASE Reply
  BY <1>3 DEF Reply, Snapshot, Error, machineVars, profileVars
<1>4. CASE Quantum \/ HandleCommand \/ SaveDisk \/ Stop
  BY <1>4, QuantumEffect, CommandEffect, SaveDiskEffect, StopEffect
<1>5. CASE Unwind
  BY <1>5 DEF Unwind
<1> QED
  BY <1>1, <1>2, <1>3, <1>4, <1>5, StepKinds DEF Snapshot, Error

\* The rest of a channel keeps the place of its last message.
LEMMA RestKeepsLast ==
  ASSUME TypeOK, messages # <<>>, messages' = Tail(messages),
         NEW i \in 1 .. Len(messages')
  PROVE  /\ i + 1 \in 1 .. Len(messages) /\ messages'[i] = messages[i + 1]
         /\ i + 1 = Len(messages) => i = Len(messages')
<1> DEFINE n == Len(messages)
           m == Len(messages')
<1>1. m = n - 1 /\ n \in Nat \ {0} /\ messages'[i] = messages[i + 1]
  BY HeadAndTail DEF TypeOK
<1>2. i \in 1 .. m
  OBVIOUS
<1> HIDE DEF n, m
<1>3. i + 1 \in 1 .. n /\ (i + 1 = n => i = m)
  BY <1>1, <1>2
<1> QED
  BY <1>1, <1>3 DEF n, m

\* The shutdown that stops the worker is the only message there is.
LEMMA StopIsLast ==
  ASSUME IInv, Stop
  PROVE  /\ messages' = <<>> /\ ui = "joining" /\ call = Head(messages)
<1>1. /\ messages \in Seq(Message) /\ messages # <<>> /\ messages' = Tail(messages)
      /\ Head(messages) = messages[1] /\ messages[1].op = "Shutdown"
      /\ Len(messages) \in Nat \ {0}
  BY StopEffect, HeadAndTail DEF IInv, TypeOK
<1>2. 1 \in 1 .. Len(messages)
  BY <1>1
<1>3. Len(messages) = 1 /\ ui = "joining" /\ messages[1] = call
  BY <1>1, <1>2, StopEffect DEF IInv, ShutdownIsLast, WorkerGone
<1>4. messages' = <<>>
  BY <1>1, <1>3
<1> QED
  BY <1>1, <1>3, <1>4

\* A save stays alone and in one place: nothing can be sent behind it.
LEMMA KeepsOneSaveInFlight ==
  ASSUME IInv, [Next]_vars
  PROVE  OneSaveInFlight'
<1> USE DEF IInv, OneSaveInFlight
<1>1. CASE Call
  BY <1>1 DEF Call, uiOnly
<1>2. CASE Send
  <2>1. /\ messages' = Append(messages, call) /\ ui = "sending"
        /\ messages \in Seq(Message) /\ call \in Message
        /\ UNCHANGED <<call, reply, result, worker>>
        /\ reply = "none" /\ result = "none" /\ worker # "reply"
    BY <1>2 DEF Send, Deliver, uiOnly, TypeOK
  <2>2. \A i \in 1 .. Len(messages') :
           messages'[i] = IF i <= Len(messages) THEN messages[i] ELSE call
    BY <2>1
  <2>3. Len(messages') = Len(messages) + 1 /\ Len(messages) \in Nat
    BY <2>1
  <2>4. ui' = "awaiting" <=> call.op = "SaveDisk"
    BY <1>2 DEF Send, Deliver, AfterSending
  <2>5. ui' = "awaiting" => call' = SaveMessage
    BY <2>1, <2>4, MessageFields
  <2> QED
    BY <2>1, <2>2, <2>3, <2>4, <2>5
<1>3. CASE SendFails \/ Join
  BY <1>3 DEF SendFails, Join, uiOnly
<1>4. CASE SaveReturns
  BY <1>4 DEF SaveReturns, ReplyDropped, WorkerGone, uiOnly
<1>5. CASE Publish \/ Reply
  BY <1>5 DEF Publish, Reply, uiVars, TypeOK, Results
<1>6. CASE Quantum
  BY <1>6, QuantumEffect
<1>7. CASE HandleCommand \/ SaveDisk
  <2>1. /\ worker = "receive" /\ worker' = "publish"
        /\ messages # <<>> /\ messages' = Tail(messages)
        /\ UNCHANGED <<ui, call, reply>>
    BY <1>7, CommandEffect, SaveDiskEffect
  <2>2. /\ Len(messages') = Len(messages) - 1 /\ Len(messages) \in Nat \ {0}
        /\ \A i \in 1 .. Len(messages') : messages'[i] = messages[i + 1]
        /\ Head(messages) = messages[1]
    BY <2>1, HeadAndTail DEF TypeOK
  <2>3. \A i \in 1 .. Len(messages') : messages'[i].op = "SaveDisk" =>
          /\ i = Len(messages') /\ ui' = "awaiting"
          /\ reply' = "none" /\ result = "none"
    <3> SUFFICES ASSUME NEW i \in 1 .. Len(messages'),
                        messages[i + 1].op = "SaveDisk"
                 PROVE  /\ i = Len(messages') /\ ui' = "awaiting"
                        /\ reply' = "none" /\ result = "none"
      BY <2>2
    <3>1. i + 1 \in 1 .. Len(messages)
      BY <2>2
    <3>2. /\ i + 1 = Len(messages) /\ ui = "awaiting"
          /\ reply = "none" /\ result = "none"
      BY <3>1
    <3>3. i = Len(messages')
      BY <2>2, <3>2
    <3> QED
      BY <2>1, <3>2, <3>3
  <2>4. CASE HandleCommand
    BY <2>1, <2>3, <2>4, CommandEffect
  <2>5. CASE SaveDisk
    <3>1. Len(messages) = 1 /\ ui = "awaiting" /\ reply = "none"
      BY <2>2, <2>5, SaveDiskEffect
    <3>2. messages' = <<>> /\ result' # "none"
      BY <2>1, <2>5, <3>1, SaveDiskEffect DEF TypeOK
    <3>3. 1 .. Len(messages') = {}
      BY <2>2, <3>1
    <3> QED
      BY <2>1, <3>1, <3>2, <3>3
  <2> QED
    BY <1>7, <2>4, <2>5
<1>8. CASE Stop
  <2>1. 1 .. Len(messages') = {}
    BY <1>8, StopIsLast
  <2> QED
    BY <1>8, <2>1, StopEffect, StopIsLast
<1>9. CASE Unwind
  <2> SUFFICES ASSUME messages # <<>>, messages' = Tail(messages)
               PROVE  OneSaveInFlight'
    BY <1>9, UnwindEffect
  <2>1. \A i \in 1 .. Len(messages') : messages'[i].op = "SaveDisk" =>
          i = Len(messages') /\ ui = "awaiting" /\ reply = "none" /\ result = "none"
    BY RestKeepsLast
  <2> QED
    BY <1>9, <2>1, UnwindEffect
<1> QED
  BY <1>1, <1>2, <1>3, <1>4, <1>5, <1>6, <1>7, <1>8, <1>9, StepKinds

\* Nothing is ever behind a shutdown, which comes from the last call.
LEMMA KeepsShutdownIsLast ==
  ASSUME IInv, [Next]_vars
  PROVE  ShutdownIsLast'
<1> USE DEF IInv, ShutdownIsLast, WorkerGone
<1>1. CASE Call
  BY <1>1 DEF Call, uiOnly
<1>2. CASE Send
  <2>1. /\ messages' = Append(messages, call) /\ ui = "sending"
        /\ messages \in Seq(Message) /\ call \in Message
        /\ UNCHANGED <<call, worker>>
        /\ worker \notin {"stopped", "unwound"}
    BY <1>2 DEF Send, Deliver, uiOnly, TypeOK
  <2>2. \A i \in 1 .. Len(messages') :
           messages'[i] = IF i <= Len(messages) THEN messages[i] ELSE call
    BY <2>1
  <2>3. Len(messages') = Len(messages) + 1 /\ Len(messages) \in Nat
    BY <2>1
  <2>4. (call.op = "Shutdown" <=> ui' = "joining") /\ ui' # "gone"
    BY <1>2 DEF Send, Deliver, AfterSending
  <2> QED
    BY <2>1, <2>2, <2>3, <2>4
<1>3. CASE SendFails \/ SaveReturns \/ Join
  BY <1>3 DEF SendFails, SaveReturns, Join, uiOnly
<1>4. CASE Publish \/ Reply
  BY <1>4 DEF Publish, Reply, uiVars
<1>5. CASE Quantum
  BY <1>5, QuantumEffect
<1>6. CASE HandleCommand \/ SaveDisk
  <2>1. /\ worker = "receive" /\ worker' = "publish"
        /\ messages # <<>> /\ messages' = Tail(messages)
        /\ UNCHANGED <<ui, call>>
    BY <1>6, CommandEffect, SaveDiskEffect
  <2>2. /\ Len(messages') = Len(messages) - 1 /\ Len(messages) \in Nat \ {0}
        /\ \A i \in 1 .. Len(messages') : messages'[i] = messages[i + 1]
    BY <2>1, HeadAndTail DEF TypeOK
  <2> SUFFICES ASSUME NEW i \in 1 .. Len(messages'),
                      messages[i + 1].op = "Shutdown"
               PROVE  /\ i = Len(messages') /\ ui' \in {"joining", "gone"}
                      /\ messages[i + 1] = call'
    BY <2>1, <2>2
  <2>3. i + 1 \in 1 .. Len(messages)
    BY <2>2
  <2>4. /\ i + 1 = Len(messages) /\ ui \in {"joining", "gone"}
        /\ messages[i + 1] = call
    BY <2>3
  <2>5. i = Len(messages')
    BY <2>2, <2>4
  <2> QED
    BY <2>1, <2>4, <2>5
<1>7. CASE Stop
  <2>1. 1 .. Len(messages') = {}
    BY <1>7, StopIsLast
  <2> QED
    BY <1>7, <2>1, StopEffect, StopIsLast
<1>8. CASE Unwind
  <2>1. CASE messages' = messages
    BY <1>8, <2>1, UnwindEffect
  <2>2. CASE messages # <<>> /\ messages' = Tail(messages)
    <3>1. \A i \in 1 .. Len(messages') : messages'[i].op = "Shutdown" =>
            i = Len(messages') /\ ui \in {"joining", "gone"} /\ messages'[i] = call
      BY <2>2, RestKeepsLast
    <3> QED
      BY <1>8, <3>1, UnwindEffect
  <2> QED
    BY <1>8, <2>1, <2>2, UnwindEffect
<1> QED
  BY <1>1, <1>2, <1>3, <1>4, <1>5, <1>6, <1>7, <1>8, StepKinds

\* The file stays behind the device, and what was asked for stays in it.
LEMMA KeepsCopiesInOrder ==
  ASSUME IInv, [Next]_vars
  PROVE  CopiesInOrder'
<1> USE DEF IInv, CopiesInOrder
<1>0. asked \in Nat /\ block \in Nat /\ image \in Nat
  BY DEF TypeOK
<1>1. CASE Call
  BY <1>0, <1>1 DEF Call, uiOnly, diskVars, OneSaveInFlight
<1>2. CASE Send \/ SendFails \/ SaveReturns \/ Join
  BY <1>0, <1>2 DEF Send, Deliver, SendFails, SaveReturns, Join, uiOnly,
     diskVars, AfterSending
<1>3. CASE Publish \/ Reply
  BY <1>0, <1>3 DEF Publish, Reply, uiVars, diskVars
<1>4. CASE Quantum
  <2>1. RunMachine
    BY <1>4 DEF Quantum, RunUnasked
  <2>2. block' \in Nat /\ image' = image
    BY <2>1, RunMachineType
  <2> QED
    BY <1>0, <1>4, <2>1, <2>2, RunMachineEffect, QuantumEffect
<1>5. CASE HandleCommand
  <2>1. block' \in Nat
    BY TypeIsKept DEF TypeOK
  <2> QED
    BY <1>0, <1>5, <2>1, CommandEffect
<1>6. CASE SaveDisk
  <2>1. Head(messages) = messages[1] /\ 1 \in 1 .. Len(messages)
    BY <1>6, SaveDiskEffect, HeadAndTail DEF TypeOK
  <2>2. ui = "awaiting" /\ call = SaveMessage /\ reply = "none"
    BY <1>6, <2>1, SaveDiskEffect DEF OneSaveInFlight
  <2> QED
    BY <1>0, <1>6, <2>2, SaveDiskEffect, SaveEffect
<1>7. CASE Stop
  BY <1>0, <1>7, StopEffect, StopIsLast, SaveEffect DEF ShutdownIsLast, OneSaveInFlight
<1>8. CASE Unwind
  BY <1>0, <1>8, UnwindEffect
<1> QED
  BY <1>1, <1>2, <1>3, <1>4, <1>5, <1>6, <1>7, <1>8, StepKinds

\* The result that is about to be told stays true of the worker's state.
LEMMA KeepsSaveTold ==
  ASSUME IInv, [Next]_vars
  PROVE  SaveTold'
<1> USE DEF IInv, SaveTold
<1>1. CASE Call \/ Send \/ SendFails \/ Join
  BY <1>1, UiEffect DEF UiGoesOn, Call, Send, Deliver, SendFails, Join
<1>2. CASE SaveReturns
  BY <1>2, UiEffect DEF UiGoesOn, SaveReturns
<1>3. CASE Publish
  BY <1>3 DEF Publish, machineVars
<1>4. CASE Reply
  BY <1>4 DEF Reply, machineVars
<1>5. CASE Quantum
  BY <1>5, QuantumEffect DEF OneSaveInFlight
<1>6. CASE HandleCommand
  BY <1>6, CommandEffect DEF OneSaveInFlight
<1>7. CASE SaveDisk
  <2>1. Head(messages) = messages[1] /\ 1 \in 1 .. Len(messages)
    BY <1>7, SaveDiskEffect, HeadAndTail DEF TypeOK
  <2>2. reply = "none"
    BY <1>7, <2>1, SaveDiskEffect DEF OneSaveInFlight
  <2> QED
    BY <1>7, <2>2, SaveDiskEffect, SaveEffect
<1>8. CASE Stop
  BY <1>8, StopEffect DEF OneSaveInFlight
<1>9. CASE Unwind
  BY <1>9, UnwindEffect DEF OneSaveInFlight
<1> QED
  BY <1>1, <1>2, <1>3, <1>4, <1>5, <1>6, <1>7, <1>8, <1>9, StepKinds

\* While an answer waits, nothing that the user has set can change.
LEMMA KeepsSaveIsBarrier ==
  ASSUME IInv, [Next]_vars
  PROVE  SaveIsBarrier'
<1> USE DEF IInv, SaveIsBarrier
<1>1. CASE Call \/ Send \/ SendFails \/ SaveReturns \/ Join
  BY <1>1, UiEffect DEF UiGoesOn, Call, Send, Deliver, SendFails, SaveReturns,
     Join, OneSaveInFlight
<1>2. CASE Publish
  <2>1. UNCHANGED <<messages, reply, mode, connected, terminal>>
    BY <1>2 DEF Publish, profileVars
  <2>2. /\ latest'.mode = mode /\ latest'.connected = connected
        /\ latest'.terminal = terminal
        /\ ~storageError => latest'.error # "storage"
    BY <1>2 DEF Publish, Snapshot, Error, UartFollowsProfile
  <2> QED
    BY <2>1, <2>2 DEF SaveTold
<1>3. CASE Reply
  <2>1. /\ reply' = result /\ messages = <<>>
        /\ UNCHANGED <<messages, latest, mode, connected, terminal>>
    BY <1>3 DEF Reply, profileVars, OneSaveInFlight
  <2>2. /\ latest.mode = mode /\ latest.connected = connected
        /\ latest.terminal = terminal
        /\ ~storageError => latest.error # "storage"
    BY <1>3 DEF Reply, SnapshotCoherent, Snapshot, Error, UartFollowsProfile
  <2> QED
    BY <2>1, <2>2 DEF SaveTold
<1>4. CASE Quantum
  <2>1. terminal'.mode = terminal.mode
    BY <1>4, RunMachineEffect DEF Quantum, RunUnasked
  <2> QED
    BY <1>4, <2>1, QuantumEffect
<1>5. CASE HandleCommand
  BY <1>5, CommandEffect
<1>6. CASE SaveDisk
  <2>1. Head(messages) = messages[1] /\ 1 \in 1 .. Len(messages)
    BY <1>6, SaveDiskEffect, HeadAndTail DEF TypeOK
  <2> QED
    BY <1>6, <2>1, SaveDiskEffect DEF OneSaveInFlight
<1>7. CASE Stop
  BY <1>7, StopEffect
<1>8. CASE Unwind
  BY <1>8, UnwindEffect
<1> QED
  BY <1>1, <1>2, <1>3, <1>4, <1>5, <1>6, <1>7, <1>8, StepKinds

\* The worker stops only through Stop, which has saved.
LEMMA KeepsDropSaves ==
  ASSUME IInv, [Next]_vars
  PROVE  DropSaves'
<1> USE DEF IInv, DropSaves
<1>1. CASE Call
  BY <1>1, UiEffect DEF Call, ShutdownIsLast
<1>2. CASE Send \/ SendFails \/ SaveReturns \/ Join
  BY <1>2, UiEffect DEF UiGoesOn, Send, Deliver, SendFails, SaveReturns, Join
<1>3. CASE Publish \/ Reply \/ Unwind
  BY <1>3 DEF Publish, Reply, Unwind
<1>4. CASE Quantum \/ HandleCommand \/ SaveDisk
  BY <1>4, QuantumEffect, CommandEffect, SaveDiskEffect
<1>5. CASE Stop
  <2>1. call = Head(messages) /\ call' = call
    BY <1>5, StopEffect, StopIsLast
  <2>2. (call.save /\ disk = "writable") => SaveOk \/ SaveErr
    BY <1>5, <2>1 DEF Stop, StopAfter
  <2> QED
    BY <1>5, <2>1, <2>2, StopEffect, SaveEffect
<1> QED
  BY <1>1, <1>2, <1>3, <1>4, <1>5, StepKinds

\* The UART's line stays with the profile, and a fault with its error.
LEMMA KeepsUartAndFaults ==
  ASSUME IInv, [Next]_vars
  PROVE  UartFollowsProfile' /\ FaultRecorded' /\ FaultShown'
<1> USE DEF IInv, UartFollowsProfile, FaultRecorded
<1>1. CASE Call \/ Send \/ SendFails \/ SaveReturns \/ Join
  BY <1>1, UiEffect DEF UiGoesOn, FaultShown
<1>2. CASE Publish
  <2>1. UNCHANGED <<uart, connected, outcome, machineError>>
    BY <1>2 DEF Publish, machineVars, profileVars
  <2>2. latest'.outcome = outcome
        /\ (machineError => latest'.error = "machine")
    BY <1>2 DEF Publish, Snapshot, Error
  <2> QED
    BY <2>1, <2>2 DEF FaultShown
<1>3. CASE Reply \/ Unwind
  BY <1>3 DEF Reply, Unwind, machineVars, profileVars, FaultShown
<1>4. CASE Quantum
  BY <1>4, QuantumEffect, RunMachineEffect
  DEF Quantum, RunUnasked, FaultShown
<1>5. CASE HandleCommand
  BY <1>5, CommandEffect DEF FaultShown
<1>6. CASE SaveDisk \/ Stop
  BY <1>6, SaveDiskEffect, StopEffect DEF FaultShown
<1> QED
  BY <1>1, <1>2, <1>3, <1>4, <1>5, <1>6, StepKinds DEF FaultShown

-----------------------------------------------------------------------------
(* The theorems.                                                             *)

\* The invariant holds of every behaviour.
THEOREM Inductive == Spec => []IInv
<1>1. Init => IInv
  <2> SUFFICES ASSUME Init PROVE IInv
    OBVIOUS
  <2>1. TypeOK
    BY InitType
  <2>2. 1 .. Len(messages) = {}
    BY DEF Init, Built
  <2>3. OneSaveInFlight /\ ShutdownIsLast
    BY <2>2 DEF Init, Built, OneSaveInFlight, ShutdownIsLast, WorkerGone
  <2>4. CopiesInOrder /\ SaveTold /\ SaveIsBarrier
    BY DEF Init, Built, CopiesInOrder, SaveTold, SaveIsBarrier
  <2>5. UartFollowsProfile
    BY DEF Init, Built, UartFollowsProfile
  <2> QED
    BY <2>1, <2>3, <2>4, <2>5
    DEF Init, Built, IInv, SnapshotCoherent, DropSaves, FaultRecorded, FaultShown
<1>2. IInv /\ [Next]_vars => IInv'
  BY TypeIsKept, KeepsSnapshotCoherent, KeepsOneSaveInFlight,
     KeepsShutdownIsLast, KeepsCopiesInOrder, KeepsSaveTold,
     KeepsSaveIsBarrier, KeepsDropSaves, KeepsUartAndFaults
  DEF IInv
<1> QED
  BY <1>1, <1>2, PTL DEF Spec

\* When the worker waits or answers a save, the mailbox shows its state.
THEOREM SnapshotAlwaysCoherent == Spec => []SnapshotCoherent
<1>1. IInv => SnapshotCoherent
  BY DEF IInv
<1> QED
  BY <1>1, Inductive, PTL

\* A save, once answered, was the last thing in the channel, and the mailbox
\* shows the settings made before it.
THEOREM SaveAlwaysBarrier == Spec => []SaveIsBarrier
<1>1. IInv => SaveIsBarrier
  BY DEF IInv
<1> QED
  BY <1>1, Inductive, PTL

\* A save that is reported as failed is in the mailbox, with the machine
\* paused.
THEOREM FailedSaveAlwaysVisible == Spec => []FailedSaveVisible
<1>1. IInv => FailedSaveVisible
  <2> SUFFICES ASSUME IInv, reply = "err"
               PROVE  paused /\ latest.paused /\ latest.error # "none"
    BY DEF FailedSaveVisible
  <2>1. paused /\ storageError /\ latest = Snapshot
    BY DEF IInv, SaveTold, SnapshotCoherent
  <2>2. Snapshot.paused = paused
    BY DEF Snapshot
  <2>3. Snapshot.error # "none"
    BY <2>1 DEF Snapshot, Error
  <2> QED
    BY <2>1, <2>2, <2>3
<1> QED
  BY <1>1, Inductive, PTL

\* A save that is reported as done holds all the guest wrote before the call.
THEOREM AcknowledgedSaveAlwaysCovers == Spec => []AcknowledgedSaveCovers
<1>1. IInv => AcknowledgedSaveCovers
  BY DEF IInv, AcknowledgedSaveCovers, CopiesInOrder
<1> QED
  BY <1>1, Inductive, PTL

\* Dropping the handle saves the disk.
THEOREM DropAlwaysSaves == Spec => []DropSaves
<1>1. IInv => DropSaves
  BY DEF IInv
<1> QED
  BY <1>1, Inductive, PTL

\* A snapshot with the faulted outcome carries the machine's error.
THEOREM FaultAlwaysShown == Spec => []FaultShown
<1>1. IInv => FaultShown
  BY DEF IInv
<1> QED
  BY <1>1, Inductive, PTL

\* Neither copy of the disk goes back, and the file is never ahead.
THEOREM DiskNeverOlder == Spec => NeverOlder
<1>1. IInv /\ IInv' /\ [Next]_vars
        => [block <= block' /\ image <= image' /\ image' <= block']_vars
  <2> SUFFICES ASSUME IInv, IInv', [Next]_vars
               PROVE  block <= block' /\ image <= image' /\ image' <= block'
    OBVIOUS
  <2>1. /\ block \in Nat /\ image \in Nat /\ image <= block
        /\ image' <= block'
    BY DEF IInv, TypeOK, CopiesInOrder
  <2>2. CASE Call \/ Send \/ SendFails \/ SaveReturns \/ Join
    BY <2>1, <2>2, UiEffect DEF UiGoesOn
  <2>3. CASE Publish \/ Reply \/ Unwind
    BY <2>1, <2>3 DEF Publish, Reply, Unwind, diskVars
  <2>4. CASE Quantum
    BY <2>1, <2>4, RunMachineEffect DEF Quantum, RunUnasked, IInv
  <2>5. CASE HandleCommand
    BY <2>1, <2>5, CommandEffect DEF IInv
  <2>6. CASE SaveDisk \/ Stop
    BY <2>1, <2>6, SaveDiskEffect, StopEffect, SaveEffect
  <2> QED
    BY <2>1, <2>2, <2>3, <2>4, <2>5, <2>6, StepKinds
<1> QED
  BY <1>1, Inductive, PTL DEF Spec, NeverOlder

\* Only the user's SetPaused(false) makes a paused machine run.
THEOREM UserAloneResumes == Spec => OnlyUserResumes
<1>1. TypeOK /\ [Next]_vars
        => [paused /\ ~paused'
              => /\ messages # <<>>
                 /\ Head(messages) = [op |-> "SetPaused", on |-> FALSE]]_vars
  <2> SUFFICES ASSUME TypeOK, [Next]_vars, paused, ~paused'
               PROVE  /\ messages # <<>>
                      /\ Head(messages) = [op |-> "SetPaused", on |-> FALSE]
    OBVIOUS
  <2>1. ~(Call \/ Send \/ SendFails \/ SaveReturns \/ Join)
    BY UiEffect DEF UiGoesOn
  <2>2. ~(Publish \/ Reply \/ Unwind \/ Quantum)
    BY QuantumEffect DEF Publish, Reply, Unwind, machineVars
  <2>3. ~(SaveDisk \/ Stop)
    BY SaveDiskEffect, StopEffect, SaveEffect
  <2>4. CASE SetPaused
    <3>1. /\ messages # <<>> /\ Head(messages) \in Message
          /\ Head(messages).op = "SetPaused" /\ ~Head(messages).on
      BY <2>4, ReceiveType DEF SetPaused, ReceiveCommand, Receive
    <3> QED
      BY <3>1 DEF Message, Command, Switches, SaveMessage, ShutdownMessages
  <2>5. CASE HandleCommand /\ ~SetPaused
    <3>1. ~Step
      BY RunMachineEffect DEF Step, machineVars
    <3>2. ~Reset
      BY DEF Reset, ResetWith, Built, fault
    <3> QED
      BY <2>5, <3>1, <3>2 DEF HandleCommand, SetMode, SetTerminalMode,
         SendUart, SetUartConnected, ClearTerminal, machineVars
  <2> QED
    BY <2>1, <2>2, <2>3, <2>4, <2>5, StepKinds
<1> QED
  BY <1>1, TypeCorrect, PTL DEF Spec, OnlyUserResumes

-----------------------------------------------------------------------------
(* The refinement: the runtime implements the save service.                  *)

\* Where the request is, by what the UI thread is doing.
LEMMA PhaseWhen ==
  /\ ui = "idle" \/ call.op \notin {"SaveDisk", "Shutdown"} => Phase = "free"
  /\ ui # "idle" /\ call.op = "SaveDisk" =>
       /\ Decided = "none" => Phase = "asked"
       /\ Decided = "ok" => Phase = "done"
       /\ Decided = "err" => Phase = "refused"
  /\ ui # "idle" /\ call.op = "Shutdown" =>
       Phase = IF ui = "gone" \/ worker = "stopped" THEN "closed" ELSE "closing"
  BY DEF Phase

\* The same after a step.
LEMMA PhaseWhenNext ==
  /\ ui' = "idle" \/ call'.op \notin {"SaveDisk", "Shutdown"} => Phase' = "free"
  /\ ui' # "idle" /\ call'.op = "SaveDisk" =>
       /\ Decided' = "none" => Phase' = "asked"
       /\ Decided' = "ok" => Phase' = "done"
       /\ Decided' = "err" => Phase' = "refused"
  /\ ui' # "idle" /\ call'.op = "Shutdown" =>
       Phase' = IF ui' = "gone" \/ worker' = "stopped" THEN "closed"
                                                        ELSE "closing"
  BY DEF Phase

\* A turn of the worker makes the disk at most one version newer.
LEMMA GuestWritesOnce ==
  ASSUME TypeOK, Quantum \/ HandleCommand
  PROVE  block' \in {block, block + 1}
<1>1. CASE Quantum
  BY <1>1 DEF Quantum, RunUnasked, RunMachine
<1>2. CASE HandleCommand
  BY <1>2 DEF HandleCommand, SetPaused, Step, Reset, ResetWith, Built, SetMode,
     SetTerminalMode, SendUart, SetUartConnected, ClearTerminal, RunMachine,
     diskVars
<1> QED
  BY <1>1, <1>2

\* A save takes effect once, between its call and its return, and the answer
\* is true of it.
THEOREM Implements == Spec => ImplementsSaveService
<1>1. Init => Service!Init
  BY PhaseWhen DEF Init, Built, Service!Init
<1>2. IInv /\ [Next]_vars => [Service!Next]_(Service!vars)
  <2> SUFFICES ASSUME IInv, [Next]_vars
               PROVE  Service!Next \/ UNCHANGED <<block, image, Phase, reply>>
    BY DEF Service!vars
  <2> USE DEF IInv
  <2>1. CASE Call
    <3>1. /\ ui = "idle" /\ ui' = "sending" /\ worker # "stopped"
          /\ reply = "none" /\ result = "none"
          /\ UNCHANGED <<block, image, reply, result, worker>>
      BY <2>1, UiEffect DEF Call, OneSaveInFlight, ShutdownIsLast
    <3>2. Phase = "free" /\ Phase' \in {"free", "asked", "closing"}
      BY <3>1, PhaseWhen, PhaseWhenNext DEF Decided
    <3> QED
      BY <3>1, <3>2 DEF Service!Next, Service!Ask, Service!Close
  <2>2. CASE Send
    <3>1. /\ ui = "sending" /\ ui' = AfterSending /\ worker # "stopped"
          /\ reply = "none" /\ result = "none"
          /\ UNCHANGED <<call, block, image, reply, result, worker>>
      BY <2>2, UiEffect DEF UiGoesOn, Send, Deliver, OneSaveInFlight,
         WorkerGone
    <3>2. Phase' = Phase
      BY <3>1, PhaseWhen, PhaseWhenNext DEF Decided, AfterSending
    <3> QED
      BY <3>1, <3>2
  <2>3. CASE SendFails
    <3>1. /\ ui = "sending" /\ worker # "stopped"
          /\ ui' = (IF call.op = "Shutdown" THEN "joining" ELSE "idle")
          /\ reply = "none" /\ result = "none"
          /\ UNCHANGED <<call, block, image, reply, result, worker>>
      BY <2>3, UiEffect DEF UiGoesOn, SendFails, OneSaveInFlight,
         ShutdownIsLast
    <3>2. Phase' = Phase \/ (Phase = "asked" /\ Phase' = "free")
      BY <3>1, PhaseWhen, PhaseWhenNext DEF Decided
    <3> QED
      BY <3>1, <3>2 DEF Service!Next, Service!Return
  <2>4. CASE SaveReturns
    <3>1. /\ ui = "awaiting" /\ ui' = "idle" /\ call.op = "SaveDisk"
          /\ reply' = "none" /\ UNCHANGED <<block, image>>
      BY <2>4, UiEffect DEF UiGoesOn, SaveReturns, OneSaveInFlight, SaveMessage
    <3>2. Decided \in {"none", "ok", "err"}
      BY DEF Decided, TypeOK, Results
    <3>3. Phase \in {"asked", "done", "refused"} /\ Phase' = "free"
      BY <3>1, <3>2, PhaseWhen, PhaseWhenNext
    <3> QED
      BY <3>1, <3>3 DEF Service!Next, Service!Return
  <2>5. CASE Join
    <3>1. /\ ui = "joining" /\ ui' = "gone" /\ call.op = "Shutdown"
          /\ UNCHANGED <<call, block, image, reply, worker>>
      BY <2>5, UiEffect DEF UiGoesOn, Join, ShutdownIsLast
    <3>2. Phase \in {"closing", "closed"} /\ Phase' = "closed"
      BY <3>1, PhaseWhen, PhaseWhenNext
    <3> QED
      BY <3>1, <3>2 DEF Service!Next, Service!Closed
  <2>6. CASE Publish \/ Unwind
    <3>1. /\ worker # "stopped" /\ worker' # "stopped"
          /\ UNCHANGED <<ui, call, block, image, reply, result>>
      BY <2>6 DEF Publish, Unwind, uiVars, diskVars
    <3>2. Phase' = Phase
      BY <3>1 DEF Phase, Decided
    <3> QED
      BY <3>1, <3>2
  <2>7. CASE Reply
    <3>1. /\ ui = "awaiting" /\ call.op = "SaveDisk"
          /\ result \in {"ok", "err"} /\ reply = "none" /\ reply' = result
          /\ UNCHANGED <<ui, call, block, image>>
      BY <2>7 DEF Reply, OneSaveInFlight, TypeOK, Results, uiVars, diskVars,
         SaveMessage
    <3>2. /\ result = "ok" => Phase = "done" /\ Phase' = "done"
          /\ result = "err" => Phase = "refused" /\ Phase' = "refused"
      BY <3>1, PhaseWhen, PhaseWhenNext DEF Decided
    <3> QED
      BY <3>1, <3>2 DEF Service!Next, Service!Answer
  <2>8. CASE Quantum \/ HandleCommand
    <3>1. /\ worker = "receive" /\ worker' = "publish"
          /\ UNCHANGED <<ui, call, image, reply, result>>
      <4>1. CASE Quantum
        BY <4>1, QuantumEffect, RunMachineEffect DEF Quantum, RunUnasked
      <4>2. CASE HandleCommand
        BY <4>2, CommandEffect
      <4> QED
        BY <2>8, <4>1, <4>2
    <3>2. Phase' = Phase
      BY <3>1 DEF Phase, Decided
    <3>3. ui # "gone"
      BY <3>1 DEF ShutdownIsLast, WorkerGone
    <3>4. Phase # "closed"
      BY <3>1, <3>3, PhaseWhen DEF OneSaveInFlight, Phase, Decided, TypeOK,
         Results
    <3> QED
      BY <2>8, <3>1, <3>2, <3>4, GuestWritesOnce
      DEF Service!Next, Service!GuestWrites
  <2>9. CASE SaveDisk
    <3>1. Head(messages) = messages[1] /\ 1 \in 1 .. Len(messages)
      BY <2>9, SaveDiskEffect, HeadAndTail DEF TypeOK
    <3>2. /\ ui = "awaiting" /\ call.op = "SaveDisk"
          /\ reply = "none" /\ result = "none"
      BY <2>9, <3>1, SaveDiskEffect DEF OneSaveInFlight, SaveMessage
    <3>3. /\ UNCHANGED <<ui, call, block, reply>>
          /\ \/ result' = "ok" /\ image' = block
             \/ result' = "err" /\ image' = image
      BY <2>9, SaveDiskEffect, SaveEffect
    <3>4. /\ Phase = "asked"
          /\ result' = "ok" => Phase' = "done"
          /\ result' = "err" => Phase' = "refused"
      BY <3>2, <3>3, PhaseWhen, PhaseWhenNext DEF Decided
    <3> QED
      BY <3>3, <3>4 DEF Service!Next, Service!TakeEffect, Service!Refuse
  <2>10. CASE Stop
    <3>1. /\ ui = "joining" /\ call.op = "Shutdown"
          /\ worker = "receive" /\ worker' = "stopped"
          /\ UNCHANGED <<ui, call, block, reply>>
          /\ image' \in {image, block}
      BY <2>10, StopEffect, StopIsLast, SaveEffect
    <3>2. Phase = "closing" /\ Phase' = "closed"
      BY <3>1, PhaseWhen, PhaseWhenNext
    <3> QED
      BY <3>1, <3>2 DEF Service!Next, Service!Closed
  <2>11. CASE UNCHANGED <<ui, call, reply, result, worker, block, image>>
    BY <2>11 DEF Phase, Decided
  <2> QED
    BY <2>1, <2>2, <2>3, <2>4, <2>5, <2>6, <2>7, <2>8, <2>9, <2>10, <2>11,
       StepKinds
<1> QED
  BY <1>1, <1>2, Inductive, PTL DEF Spec, ImplementsSaveService, Service!Spec

-----------------------------------------------------------------------------
(* The window: every toggle settles on what the user asked for last.         *)

\* The user at the window is one of the users the runtime is proved for.
THEOREM WindowImplements == WindowSpec => Spec
<1>1. WindowInit => Init
  BY DEF WindowInit
<1>2. [WindowNext]_allVars => [Next]_vars
  BY DEF WindowNext, Click, Frame, Close, WorkerStep, UiStep, Next, allVars
<1> QED
  BY <1>1, <1>2, PTL DEF WindowSpec, Spec

\* The settings a widget toggles, by the tag of the message that makes them, and
\* what such a message sets.
Settings == {"SetMode", "SetTerminalMode", "SetUartConnected"}
Carries(m, s) == IF s = "SetUartConnected" THEN m.on ELSE m.mode

\* A setting comes to be value once the messages are handled: the last of them
\* that is about it says so, or it is already and none is about it.
SettlesTo(q, s, now, value) ==
    \/ now = value /\ \A i \in 1 .. Len(q) : q[i].op # s
    \/ \E i \in 1 .. Len(q) :
         /\ q[i].op = s /\ Carries(q[i], s) = value
         /\ \A j \in 1 .. Len(q) : j > i => q[j].op # s

\* What the worker has made of a setting, and what the user wants of it.
Setting(s) == CASE s = "SetMode" -> mode
                [] s = "SetTerminalMode" -> terminal.mode
                [] s = "SetUartConnected" -> connected
Wanted(s) == CASE s = "SetMode" -> wanted.mode
               [] s = "SetTerminalMode" -> wanted.terminal
               [] s = "SetUartConnected" -> wanted.connected

\* Everything the user did and the worker has not: what is in the channel, and
\* behind it what the UI is still sending.
Pending == IF ui = "sending" THEN Append(messages, call) ELSE messages

WindowInv ==
    /\ WindowOK
    /\ ~WorkerGone =>
         \A s \in Settings : SettlesTo(Pending, s, Setting(s), Wanted(s))

\* One more message settles its own setting and leaves the others.
LEMMA SettledByOneMore ==
  ASSUME NEW q \in Seq(Message), NEW m \in Message, NEW s, NEW now, NEW value
  PROVE  /\ m.op = s => SettlesTo(Append(q, m), s, now, Carries(m, s))
         /\ m.op # s /\ SettlesTo(q, s, now, value)
              => SettlesTo(Append(q, m), s, now, value)
<1> DEFINE p == Append(q, m)
<1>1. /\ Len(q) \in Nat /\ Len(p) = Len(q) + 1 /\ p[Len(q) + 1] = m
      /\ \A i \in 1 .. Len(q) : p[i] = q[i]
  OBVIOUS
<1> HIDE DEF p
<1>2. \A i \in 1 .. Len(p) : i \in 1 .. Len(q) \/ i = Len(q) + 1
  BY <1>1
<1>3. ASSUME m.op = s PROVE SettlesTo(p, s, now, Carries(m, s))
  <2>1. Len(q) + 1 \in 1 .. Len(p) /\ \A j \in 1 .. Len(p) : ~(j > Len(q) + 1)
    BY <1>1
  <2> QED
    BY <1>1, <1>3, <2>1 DEF SettlesTo
<1>4. ASSUME m.op # s, SettlesTo(q, s, now, value)
      PROVE  SettlesTo(p, s, now, value)
  <2>1. CASE now = value /\ \A i \in 1 .. Len(q) : q[i].op # s
    BY <1>1, <1>2, <1>4, <2>1 DEF SettlesTo
  <2>2. ASSUME NEW i \in 1 .. Len(q), q[i].op = s, Carries(q[i], s) = value,
               \A j \in 1 .. Len(q) : j > i => q[j].op # s
        PROVE  SettlesTo(p, s, now, value)
    <3>1. i \in 1 .. Len(p) /\ p[i] = q[i]
      BY <1>1
    <3>2. \A j \in 1 .. Len(p) : j > i => p[j].op # s
      BY <1>1, <1>2, <1>4, <2>2
    <3> QED
      BY <2>2, <3>1, <3>2 DEF SettlesTo
  <2> QED
    BY <1>4, <2>1, <2>2 DEF SettlesTo
<1> QED
  BY <1>3, <1>4 DEF p

\* One message less: what it says of the setting is now so.
LEMMA SettledByOneLess ==
  ASSUME NEW q \in Seq(Message), q # <<>>, NEW s, NEW now, NEW then, NEW value,
         SettlesTo(q, s, now, value),
         then = IF Head(q).op = s THEN Carries(Head(q), s) ELSE now
  PROVE  SettlesTo(Tail(q), s, then, value)
<1> DEFINE p == Tail(q)
<1>1. /\ Len(q) \in Nat \ {0} /\ Len(p) = Len(q) - 1 /\ Head(q) = q[1]
      /\ \A i \in 1 .. Len(p) : p[i] = q[i + 1]
  OBVIOUS
<1> HIDE DEF p
<1>2. CASE now = value /\ \A i \in 1 .. Len(q) : q[i].op # s
  <2>1. then = value
    BY <1>1, <1>2
  <2>2. \A i \in 1 .. Len(p) : i + 1 \in 1 .. Len(q)
    BY <1>1
  <2> QED
    BY <1>1, <1>2, <2>1, <2>2 DEF SettlesTo, p
<1>3. ASSUME NEW i \in 1 .. Len(q), q[i].op = s, Carries(q[i], s) = value,
             \A j \in 1 .. Len(q) : j > i => q[j].op # s
      PROVE  SettlesTo(p, s, then, value)
  <2>1. CASE i = 1
    <3>1. then = value
      BY <1>1, <1>3, <2>1
    <3>2. \A j \in 1 .. Len(p) : j + 1 \in 1 .. Len(q) /\ j + 1 > i
      BY <1>1, <2>1
    <3> QED
      BY <1>1, <1>3, <3>1, <3>2 DEF SettlesTo
  <2>2. CASE i # 1
    <3>1. i - 1 \in 1 .. Len(p) /\ p[i - 1] = q[i]
      BY <1>1, <2>2
    <3>2. \A j \in 1 .. Len(p) : j > i - 1 => j + 1 \in 1 .. Len(q) /\ j + 1 > i
      BY <1>1
    <3>3. \A j \in 1 .. Len(p) : j > i - 1 => p[j].op # s
      BY <1>1, <1>3, <3>2
    <3> QED
      BY <1>3, <3>1, <3>3 DEF SettlesTo
  <2> QED
    BY <2>1, <2>2
<1> QED
  BY <1>2, <1>3 DEF SettlesTo, p

\* Taking the first of the pending messages leaves the rest of them.
LEMMA PendingRest ==
  ASSUME NEW q \in Seq(Message), q # <<>>, NEW m \in Message
  PROVE  /\ Append(q, m) \in Seq(Message) /\ Append(q, m) # <<>>
         /\ Head(Append(q, m)) = Head(q)
         /\ Tail(Append(q, m)) = Append(Tail(q), m)
OBVIOUS

\* What a click asks for is a message, and what is asked for last is wanted.
LEMMA WantedAfter ==
  ASSUME WindowOK, NEW m \in Message, wanted' = After(wanted, m)
  PROVE  /\ wanted' \in [mode: Modes, terminal: TerminalModes, connected: BOOLEAN]
         /\ \A s \in Settings :
              Wanted(s)' = IF m.op = s THEN Carries(m, s) ELSE Wanted(s)
<1>1. wanted \in [mode: Modes, terminal: TerminalModes, connected: BOOLEAN]
  BY DEF WindowOK
<1>2. CASE m.op = "SetMode"
  <2>1. wanted' = [wanted EXCEPT !.mode = m.mode] /\ m.mode \in Modes
    BY <1>2, MessageFields DEF After
  <2> QED
    BY <1>1, <1>2, <2>1 DEF Settings, Wanted, Carries
<1>3. CASE m.op = "SetTerminalMode"
  <2>1. wanted' = [wanted EXCEPT !.terminal = m.mode] /\ m.mode \in TerminalModes
    BY <1>3, MessageFields DEF After
  <2> QED
    BY <1>1, <1>3, <2>1 DEF Settings, Wanted, Carries
<1>4. CASE m.op = "SetUartConnected"
  <2>1. wanted' = [wanted EXCEPT !.connected = m.on] /\ m.on \in BOOLEAN
    BY <1>4, MessageFields DEF After, Switches
  <2> QED
    BY <1>1, <1>4, <2>1 DEF Settings, Wanted, Carries
<1>5. CASE m.op \notin Settings
  <2>1. wanted' = wanted
    BY <1>5 DEF After, Settings
  <2> QED
    BY <1>1, <1>5, <2>1 DEF Settings, Wanted
<1> QED
  BY <1>2, <1>3, <1>4, <1>5 DEF Settings

\* A command makes the setting it is about, and leaves the others.
LEMMA SettingsAfterCommand ==
  ASSUME TypeOK, HandleCommand
  PROVE  \A s \in Settings :
           Setting(s)' = IF Head(messages).op = s THEN Carries(Head(messages), s)
                                                  ELSE Setting(s)
<1>1. CASE SetMode
  <2>1. /\ Head(messages).op = "SetMode" /\ mode' = Head(messages).mode
        /\ UNCHANGED <<connected, terminal>>
    BY <1>1 DEF SetMode, ReceiveCommand, Receive
  <2> QED
    BY <2>1 DEF Settings, Setting, Carries
<1>2. CASE SetTerminalMode
  <2>1. /\ Head(messages).op = "SetTerminalMode"
        /\ terminal'.mode = Head(messages).mode
        /\ UNCHANGED <<mode, connected>>
    BY <1>2 DEF SetTerminalMode, ReceiveCommand, Receive, profileVars, TypeOK
  <2> QED
    BY <2>1 DEF Settings, Setting, Carries
<1>3. CASE SetUartConnected
  <2>1. /\ Head(messages).op = "SetUartConnected" /\ connected' = Head(messages).on
        /\ UNCHANGED <<mode, terminal>>
    BY <1>3 DEF SetUartConnected, ReceiveCommand, Receive
  <2> QED
    BY <2>1 DEF Settings, Setting, Carries
<1>4. CASE SetPaused \/ Step \/ Reset \/ SendUart \/ ClearTerminal
  <2>1. Head(messages).op \in {"SetPaused", "Step", "Reset", "SendUart", "ClearTerminal"}
        /\ UNCHANGED <<mode, connected>>
    BY <1>4 DEF SetPaused, Step, Reset, ResetWith, SendUart, ClearTerminal,
       ReceiveCommand, Receive, profileVars
  <2>2. terminal'.mode = terminal.mode
    <3>1. CASE Step
      BY <3>1, RunMachineEffect DEF Step
    <3>2. CASE SetPaused \/ Reset \/ SendUart \/ ClearTerminal
      BY <3>2 DEF SetPaused, Reset, ResetWith, SendUart, ClearTerminal, TypeOK
    <3> QED
      BY <1>4, <3>1, <3>2
  <2> QED
    BY <2>1, <2>2 DEF Settings, Setting
<1> QED
  BY <1>1, <1>2, <1>3, <1>4 DEF HandleCommand

\* No other step of the machine or of the handle makes a setting.
LEMMA SettingsStay ==
  ASSUME TypeOK,
         \/ Call \/ UiGoesOn \/ Publish \/ Reply \/ Quantum \/ SaveDisk
         \/ UNCHANGED vars
  PROVE  \A s \in Settings : Setting(s)' = Setting(s)
<1>1. UNCHANGED <<mode, connected>> /\ terminal'.mode = terminal.mode
  <2>1. CASE Quantum
    BY <2>1, QuantumEffect, RunMachineEffect DEF Quantum, RunUnasked
  <2>2. CASE SaveDisk
    BY <2>2, SaveDiskEffect
  <2>3. CASE Call \/ UiGoesOn
    BY <2>3, UiEffect
  <2>4. CASE Publish \/ Reply \/ UNCHANGED vars
    BY <2>4 DEF Publish, Reply, vars, profileVars
  <2> QED
    BY <2>1, <2>2, <2>3, <2>4
<1> QED
  BY <1>1 DEF Settings, Setting

\* The messages the window and the handle have pending are messages.
LEMMA PendingType ==
  ASSUME TypeOK
  PROVE  Pending \in Seq(Message) /\ (ui = "sending" => call \in Message)
BY DEF TypeOK, Pending

\* The window's own steps keep its types.
LEMMA WindowOKIsKept ==
  ASSUME TypeOK, WindowOK, [WindowNext]_allVars
  PROVE  WindowOK'
<1>1. CASE \E i \in 1 .. Len(Order) : Click(i)
  <2>1. PICK i \in 1 .. Len(Order) : Click(i)
    BY <1>1
  <2>2. /\ call' \in Message /\ wanted' = After(wanted, call')
        /\ place' = i + 1 /\ shown' = shown
    BY <2>1, MessageIsACall DEF Click, Call
  <2>3. wanted' \in [mode: Modes, terminal: TerminalModes, connected: BOOLEAN]
    BY <2>2, WantedAfter
  <2>4. Len(Order) = 9
    BY DEF Order, toolbar, terminal_panel
  <2>5. place' \in 1 .. Len(Order) + 1
    BY <2>2, <2>4
  <2> QED
    BY <2>2, <2>3, <2>5 DEF WindowOK
<1>2. CASE Frame
  <2>1. View(latest) \in [paused: BOOLEAN, mode: Modes, terminal: TerminalModes,
                          connected: BOOLEAN]
    BY DEF TypeOK, View, Modes, TerminalModes
  <2>2. 1 \in 1 .. Len(Order) + 1
    BY DEF Order, toolbar, terminal_panel
  <2> QED
    BY <1>2, <2>1, <2>2 DEF Frame, WindowOK
<1>3. CASE UNCHANGED windowVars
  BY <1>3 DEF windowVars, WindowOK
<1> QED
  BY <1>1, <1>2, <1>3 DEF WindowNext, Close, WorkerStep, UiStep, allVars

\* What a step leaves pending, by its kind.
LEMMA WindowInvIsKept ==
  ASSUME TypeOK, WindowInv, [WindowNext]_allVars
  PROVE  WindowInv'
<1>1. WindowOK /\ WindowOK'
  BY WindowOKIsKept DEF WindowInv
<1> SUFFICES ASSUME ~WorkerGone'
             PROVE  \A s \in Settings :
                      SettlesTo(Pending', s, Setting(s)', Wanted(s)')
  BY <1>1 DEF WindowInv
<1>2. ASSUME Call, wanted' = After(wanted, call')
      PROVE  \A s \in Settings :
               SettlesTo(Pending', s, Setting(s)', Wanted(s)')
  <2>1. /\ call' \in Message /\ messages \in Seq(Message)
        /\ Pending = messages /\ Pending' = Append(messages, call')
        /\ UNCHANGED worker
    BY <1>2, MessageIsACall DEF Call, Pending, uiOnly, TypeOK
  <2> SUFFICES ASSUME NEW s \in Settings
               PROVE  SettlesTo(Pending', s, Setting(s)', Wanted(s)')
    OBVIOUS
  <2>2. /\ Setting(s)' = Setting(s)
        /\ Wanted(s)' = IF call'.op = s THEN Carries(call', s) ELSE Wanted(s)
    BY <1>1, <1>2, <2>1, SettingsStay, WantedAfter
  <2>3. SettlesTo(messages, s, Setting(s), Wanted(s))
    BY <2>1 DEF WindowInv, WorkerGone
  <2> QED
    BY <2>1, <2>2, <2>3, SettledByOneMore
<1>3. ASSUME HandleCommand \/ SaveDisk, UNCHANGED wanted
      PROVE  \A s \in Settings :
               SettlesTo(Pending', s, Setting(s)', Wanted(s)')
  <2>1. /\ messages # <<>> /\ messages \in Seq(Message) /\ ~WorkerGone
        /\ messages' = Tail(messages) /\ UNCHANGED <<ui, call>>
    BY <1>3, CommandEffect, SaveDiskEffect DEF TypeOK, WorkerGone
  <2>2. Pending # <<>> /\ Pending \in Seq(Message)
        /\ Head(Pending) = Head(messages) /\ Pending' = Tail(Pending)
    BY <2>1, PendingType, PendingRest DEF Pending
  <2> SUFFICES ASSUME NEW s \in Settings
               PROVE  SettlesTo(Pending', s, Setting(s)', Wanted(s)')
    OBVIOUS
  <2>3. Setting(s)' = IF Head(Pending).op = s THEN Carries(Head(Pending), s)
                                              ELSE Setting(s)
    <3>1. CASE HandleCommand
      BY <2>2, <3>1, SettingsAfterCommand
    <3>2. CASE SaveDisk
      BY <2>2, <3>2, SettingsStay, SaveDiskEffect DEF Settings
    <3> QED
      BY <1>3, <3>1, <3>2
  <2>4. SettlesTo(Pending, s, Setting(s), Wanted(s)) /\ Wanted(s)' = Wanted(s)
    BY <1>3, <2>1 DEF WindowInv, Wanted
  <2> QED
    BY <2>2, <2>3, <2>4, SettledByOneLess
<1>4. ASSUME \/ Send \/ SaveReturns \/ Join \/ Publish \/ Reply \/ Quantum
             \/ UNCHANGED vars,
             UNCHANGED wanted
      PROVE  \A s \in Settings :
               SettlesTo(Pending', s, Setting(s)', Wanted(s)')
  <2>1. Pending' = Pending /\ ~WorkerGone
    <3>1. CASE Send
      <4>1. /\ ui = "sending" /\ ui' # "sending" /\ UNCHANGED worker
            /\ messages' = Append(messages, call)
        BY <3>1 DEF Send, Deliver, AfterSending, uiOnly
      <4> QED
        BY <4>1 DEF Pending, WorkerGone
    <3>2. CASE SaveReturns \/ Join
      BY <3>2 DEF SaveReturns, Join, Pending, WorkerGone, uiOnly
    <3>3. CASE Publish \/ Reply \/ Quantum \/ UNCHANGED vars
      BY <3>3 DEF Publish, Reply, Quantum, RunUnasked, Pending, WorkerGone,
         vars, uiVars
    <3> QED
      BY <1>4, <3>1, <3>2, <3>3
  <2>2. \A s \in Settings : Setting(s)' = Setting(s) /\ Wanted(s)' = Wanted(s)
    BY <1>4, SettingsStay DEF UiGoesOn, Wanted
  <2> QED
    BY <2>1, <2>2 DEF WindowInv
<1>5. ~SendFails /\ ~Stop /\ ~Unwind
  BY StopEffect DEF SendFails, Unwind, WorkerGone, uiOnly
<1>6. CASE \E i \in 1 .. Len(Order) : Click(i)
  BY <1>2, <1>6 DEF Click
<1>7. CASE Close
  <2>1. Call /\ wanted' = wanted /\ call'.op = "Shutdown"
    BY <1>7 DEF Close, windowVars
  <2>2. wanted' = After(wanted, call')
    BY <2>1 DEF After
  <2> QED
    BY <1>2, <2>1, <2>2
<1>8. CASE WorkerStep
  BY <1>3, <1>4, <1>5, <1>8 DEF WorkerStep, windowVars, Worker
<1>9. CASE UiStep
  BY <1>4, <1>5, <1>9 DEF UiStep, windowVars, UiGoesOn
<1>10. CASE Frame \/ (Finished /\ UNCHANGED windowVars) \/ UNCHANGED allVars
  BY <1>4, <1>10 DEF Frame, Finished, windowVars, allVars
<1> QED
  BY <1>6, <1>7, <1>8, <1>9, <1>10 DEF WindowNext

\* The invariant of the window, on top of that of the runtime.
THEOREM WindowInductive == WindowSpec => [](IInv /\ WindowInv)
<1>1. WindowInit => WindowInv
  <2> SUFFICES ASSUME WindowInit PROVE WindowInv
    OBVIOUS
  <2>1. /\ mode \in Modes /\ connected \in BOOLEAN /\ terminal.mode \in TerminalModes
    BY InitType DEF WindowInit, TypeOK
  <2>2. WindowOK
    <3>1. shown = [paused |-> TRUE, mode |-> "realtime", terminal |-> "ansi",
                   connected |-> FALSE]
      BY DEF WindowInit, Init, View
    <3>2. Len(Order) + 1 \in 1 .. Len(Order) + 1
      BY DEF Order, toolbar, terminal_panel
    <3> QED
      BY <2>1, <3>1, <3>2 DEF WindowInit, WindowOK, Modes, TerminalModes
  <2>3. Pending = <<>> /\ 1 .. Len(Pending) = {}
    BY DEF WindowInit, Init, Pending
  <2>4. \A s \in Settings : Setting(s) = Wanted(s)
    BY DEF WindowInit, Settings, Setting, Wanted
  <2> QED
    BY <2>2, <2>3, <2>4 DEF WindowInv, SettlesTo
<1>2. TypeOK /\ WindowInv /\ [WindowNext]_allVars => WindowInv'
  BY WindowInvIsKept
<1>3. IInv => TypeOK
  BY DEF IInv
<1> QED
  BY <1>1, <1>2, <1>3, WindowImplements, Inductive, PTL DEF WindowSpec

\* Type correctness of the window: what a frame shows and what the user wants
\* are settings the runtime has, also before there is a snapshot.
THEOREM WindowTypeCorrect == WindowSpec => []WindowOK
<1>1. WindowInv => WindowOK
  BY DEF WindowInv
<1> QED
  BY <1>1, WindowInductive, PTL

\* Once everything the user did is handled, the mailbox shows the settings of
\* the last clicks, however old the snapshots were that the toggles went by.
THEOREM SettingsAlwaysSettle == WindowSpec => []SettingsSettle
<1>1. IInv /\ WindowInv => SettingsSettle
  <2> SUFFICES ASSUME IInv, WindowInv,
                      ui = "idle", messages = <<>>, worker = "receive"
               PROVE  [mode |-> latest.mode, terminal |-> latest.terminal.mode,
                       connected |-> latest.connected] = wanted
    BY DEF SettingsSettle
  <2>1. Pending = <<>> /\ 1 .. Len(Pending) = {} /\ ~WorkerGone
    BY DEF Pending, WorkerGone
  <2>2. \A s \in Settings : Setting(s) = Wanted(s)
    BY <2>1 DEF WindowInv, SettlesTo
  <2>3. mode = wanted.mode /\ terminal.mode = wanted.terminal /\ connected = wanted.connected
    BY <2>2 DEF Settings, Setting, Wanted
  <2>4. latest.mode = mode /\ latest.terminal.mode = terminal.mode
        /\ latest.connected = connected
    BY DEF IInv, SnapshotCoherent, UartFollowsProfile, Snapshot
  <2>5. wanted \in [mode: Modes, terminal: TerminalModes, connected: BOOLEAN]
    BY DEF WindowInv, WindowOK
  <2> QED
    BY <2>3, <2>4, <2>5
<1> QED
  BY <1>1, WindowInductive, PTL
=============================================================================
