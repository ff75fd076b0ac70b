------------------------------ MODULE Runtime ------------------------------
(***************************************************************************)
(* The threaded machine runtime: a RuntimeHandle owned by the UI thread,   *)
(* the bounded channel, the latest-wins snapshot mailbox and the worker    *)
(* thread of src/runtime/mod.rs.                                           *)
(*                                                                         *)
(* One action is one turn of a thread between two points where the other   *)
(* thread can see it: taking a message and handling it, publishing a       *)
(* snapshot, answering a save, sending, receiving an answer, joining.      *)
(* Wall-clock pacing is in module Pacing; here a running worker whose      *)
(* channel is empty may run a quantum at any moment.                       *)
(* The contents of the disk are abstracted to versions: each guest write   *)
(* makes the device one version newer, and the host image is the version   *)
(* last written to it.  The steps of one write to the host file are in     *)
(* module DiskImage: seen from here it succeeds, or fails and leaves the   *)
(* image as it was.                                                        *)
(***************************************************************************)
EXTENDS Naturals, Sequences

CONSTANTS
    Capacity,    \* COMMAND_CAPACITY, the bound of the channel
    MaxWrites,   \* bound on the guest's disk writes
    Disks,       \* the kinds of disk the profile may attach
    Profiles,    \* the run mode and UART connection a profile may start with
    Outcomes,    \* how a run of the machine may end, apart from a fault
    UiCommands   \* the commands the user may give

Modes == {"realtime", "unbounded"}
TerminalModes == {"ansi", "raw"}
DiskKinds == {"none", "read_only", "writable"}
Endings == {"budget_exhausted", "waiting_for_interrupt", "halted", "panicked"}
Switches == {"SetPaused", "SetUartConnected"}

\* RuntimeCommand; the bytes of SendUart are abstracted away.
Command ==
    [op: Switches, on: BOOLEAN]
      \cup [op: {"SetMode"}, mode: Modes]
      \cup [op: {"SetTerminalMode"}, mode: TerminalModes]
      \cup [op: {"Step", "Reset", "SendUart", "ClearTerminal"}]

\* WorkerMessage, without the message that exists only in tests.
SaveMessage == [op |-> "SaveDisk"]
ShutdownMessages == [op: {"Shutdown"}, save: BOOLEAN]
Message == Command \cup {SaveMessage} \cup ShutdownMessages

ASSUME RuntimeAssumption ==
    /\ Capacity \in Nat \ {0}
    /\ MaxWrites \in Nat
    /\ Disks \subseteq DiskKinds
    /\ Profiles \subseteq [mode: Modes, connected: BOOLEAN]
    /\ Outcomes \subseteq Endings
    /\ UiCommands \subseteq Command

VARIABLES
    ui,           \* what the UI thread is doing in the handle
    call,         \* the message it is sending, or sent last
    asked,        \* history: device version when save_disk was last called
    messages,     \* the bounded channel
    reply,        \* the one-place channel a SaveDisk message carries
    latest,       \* the mailbox: the last published snapshot
    worker,       \* where the worker thread is in worker_main
    result,       \* the result of a save that is not answered yet
    paused, outcome, machineError, storageError,    \* WorkerState
    mode, connected,                                \* WorkerState.profile
    uart,         \* the UART: line connected, host bytes not read yet
    terminal,     \* the projection: its mode, and whether it is blank
    disk,         \* kind of the attached disk
    block,        \* version of the bytes in the block device
    image         \* version of the bytes in the host file

uiVars == <<ui, call, asked>>
machineVars == <<paused, outcome, machineError>>
profileVars == <<mode, connected>>
diskVars == <<disk, block, image>>
vars == <<uiVars, messages, reply, latest, worker, result, machineVars,
          storageError, profileVars, uart, terminal, diskVars>>

NoSnapshot == [op |-> "no snapshot"]
NoCall == [op |-> "no call"]

Results == {"none", "ok", "err"}

\* Mutant of Error: a storage error hides a machine error.
StorageErrorFirst == IF storageError THEN "storage"
                     ELSE IF machineError THEN "machine" ELSE "none"

\* Error messages are abstracted to their origin.
Error == IF machineError THEN "machine"
         ELSE IF storageError THEN "storage" ELSE "none"

\* What publish copies out of the worker's state.
Snapshot ==
    [paused |-> paused, mode |-> mode, outcome |-> outcome,
     connected |-> uart.connected, terminal |-> terminal, error |-> Error]

TypeOK ==
    /\ ui \in {"idle", "sending", "awaiting", "joining", "gone"}
    /\ call \in Message \cup {NoCall} /\ (ui # "idle" => call # NoCall)
    /\ asked \in Nat
    /\ messages \in Seq(Message) /\ Len(messages) <= Capacity
    /\ reply \in Results
    /\ latest \in {NoSnapshot} \cup
         [paused: BOOLEAN, mode: Modes,
          outcome: Endings \cup {"running", "faulted"}, connected: BOOLEAN,
          terminal: [mode: TerminalModes, blank: BOOLEAN],
          error: {"none", "machine", "storage"}]
    /\ worker \in {"publish", "reply", "receive", "stopped", "unwound"}
    /\ result \in Results
    /\ paused \in BOOLEAN /\ machineError \in BOOLEAN
    /\ outcome \in Endings \cup {"running", "faulted"}
    /\ storageError \in BOOLEAN
    /\ mode \in Modes /\ connected \in BOOLEAN
    /\ uart \in [connected: BOOLEAN, unread: BOOLEAN]
    /\ terminal \in [mode: TerminalModes, blank: BOOLEAN]
    /\ disk \in DiskKinds
    /\ block \in Nat /\ image \in Nat

-----------------------------------------------------------------------------
(* RuntimeHandle::spawn and the state worker_main starts in.               *)

\* MachineInstance::build, as far as the worker looks at the machine later: a
\* new UART with its line as the profile says.
Built(line) == [connected |-> line, unread |-> FALSE]

Init ==
    /\ ui = "idle" /\ call = NoCall /\ asked = 0
    /\ messages = <<>> /\ reply = "none" /\ latest = NoSnapshot
    /\ worker = "publish" /\ result = "none"
    /\ paused = FALSE /\ outcome = "running"
    /\ machineError = FALSE /\ storageError = FALSE
    /\ \E p \in Profiles : mode = p.mode /\ connected = p.connected
    /\ uart = Built(connected)
    /\ terminal = [mode |-> "ansi", blank |-> TRUE]
    /\ disk \in Disks /\ block = 0 /\ image = 0

-----------------------------------------------------------------------------
(* The UI thread, inside RuntimeHandle.                                    *)

WorkerGone == worker \in {"stopped", "unwound"}

uiOnly == <<latest, worker, machineVars, storageError, profileVars, uart,
            terminal, diskVars>>

\* command, save_disk, and stop (stop_without_save or the handle's Drop).
Call ==
    /\ ui = "idle"
    /\ call' \in UiCommands \cup {SaveMessage} \cup ShutdownMessages
    /\ ui' = "sending"
    /\ asked' = IF call' = SaveMessage THEN block ELSE asked
    /\ UNCHANGED <<messages, reply, result, uiOnly>>

\* What the UI thread does once its message is in the channel.
AfterSending == CASE call.op = "SaveDisk" -> "awaiting"
                  [] call.op = "Shutdown" -> "joining"
                  [] OTHER -> "idle"

Deliver ==
    /\ ui = "sending" /\ ~WorkerGone
    /\ messages' = Append(messages, call)
    /\ ui' = AfterSending
    /\ UNCHANGED <<call, asked, reply, result, uiOnly>>

\* Mutant of Send: the channel has no bound.
SendUnbounded == Deliver

\* The message fits in the channel.
Send == Len(messages) < Capacity /\ Deliver

\* The receiver is gone: WorkerStopped, which stop ignores.
SendFails ==
    /\ ui = "sending" /\ WorkerGone
    /\ ui' = IF call.op = "Shutdown" THEN "joining" ELSE "idle"
    /\ UNCHANGED <<call, asked, messages, reply, result, uiOnly>>

\* The reply's sender is gone: the worker dropped it with the message it was
\* handling or the result it had not sent, and none is left in the channel.
ReplyDropped ==
    WorkerGone /\ \A i \in 1 .. Len(messages) : messages[i].op # "SaveDisk"

\* save_disk takes its answer, or learns that no answer will come.
SaveReturns ==
    /\ ui = "awaiting"
    /\ reply # "none" \/ ReplyDropped
    /\ ui' = "idle" /\ reply' = "none" /\ result' = "none"
    /\ UNCHANGED <<call, asked, messages, uiOnly>>

Join ==
    /\ ui = "joining" /\ WorkerGone
    /\ ui' = "gone"
    /\ UNCHANGED <<call, asked, messages, reply, result, uiOnly>>

-----------------------------------------------------------------------------
(* The worker thread: worker_main and what it calls.                       *)

Publish ==
    /\ worker = "publish"
    /\ latest' = Snapshot
    /\ worker' = IF result = "none" THEN "receive" ELSE "reply"
    /\ UNCHANGED <<uiVars, messages, reply, result, machineVars, storageError,
                   profileVars, uart, terminal, diskVars>>

\* reply.send in SaveDisk's arm, after the publication.
Reply ==
    /\ worker = "reply"
    /\ reply' = result /\ result' = "none" /\ worker' = "receive"
    /\ UNCHANGED <<uiVars, messages, latest, machineVars, storageError,
                   profileVars, uart, terminal, diskVars>>

\* The worker takes a message with this tag; handling it ends in a publish.
Receive(op) ==
    /\ worker = "receive" /\ messages # <<>> /\ Head(messages).op = op
    /\ messages' = Tail(messages)
    /\ worker' = "publish"
    /\ UNCHANGED <<uiVars, reply, latest>>

\* A command answers nothing.
ReceiveCommand(op) == Receive(op) /\ UNCHANGED <<result, storageError>>

fault == machineError' = TRUE /\ outcome' = "faulted" /\ paused' = TRUE

\* run_quantum_with_budget: the machine runs, the outcome is summarised and
\* the UART drained into the terminal.  What the guest does is its own choice:
\* it may write its disk, print, and read the bytes the host sent.
RunMachine ==
    /\ \/ \E o \in Outcomes :
            /\ outcome' = o
            /\ paused' = (paused \/ o \in {"halted", "panicked"})
            /\ UNCHANGED machineError
       \/ fault
    /\ \/ UNCHANGED block
       \/ disk = "writable" /\ block < MaxWrites /\ block' = block + 1
    /\ terminal' \in {terminal, [terminal EXCEPT !.blank = FALSE]}
    /\ uart' \in {uart, [uart EXCEPT !.unread = FALSE]}
    /\ UNCHANGED <<disk, image>>

RunUnasked ==
    /\ worker = "receive" /\ ~paused
    /\ RunMachine
    /\ worker' = "publish"
    /\ UNCHANGED <<uiVars, messages, reply, latest, result, storageError,
                   profileVars>>

\* Mutant of Quantum: a due quantum goes before a waiting message.
QuantumFirst == RunUnasked

\* run_quantum: in realtime mode when its tick has come, in unbounded mode at
\* once, and in both only when the channel is empty.
Quantum == messages = <<>> /\ RunUnasked

SetPaused ==
    /\ ReceiveCommand("SetPaused")
    /\ paused' = Head(messages).on
    /\ UNCHANGED <<outcome, machineError, profileVars, uart, terminal,
                   diskVars>>

Step ==
    /\ ReceiveCommand("Step")
    /\ IF paused THEN RunMachine
                 ELSE UNCHANGED <<machineVars, uart, terminal, diskVars>>
    /\ UNCHANGED profileVars

ResetWith(line, bytes, pausing) ==
    /\ ReceiveCommand("Reset")
    /\ \/ /\ outcome' = "running" /\ machineError' = FALSE /\ paused' = pausing
          /\ uart' = Built(line)
          /\ terminal' = [terminal EXCEPT !.blank = TRUE]
          /\ block' = bytes
       \/ fault /\ UNCHANGED <<uart, terminal, block>>
    /\ UNCHANGED <<profileVars, disk, image>>

\* Mutants of Reset: the disk is read again from the host file; the UART comes
\* back connected; the machine starts running.
ResetFromImage == ResetWith(connected, image, paused)
ResetConnects == ResetWith(TRUE, block, paused)
ResetResumes == ResetWith(connected, block, FALSE)

\* The machine is rebuilt around the device's own bytes and the profile as the
\* commands left it; the build may fail, and then the old machine stays.
Reset == ResetWith(connected, block, paused)

SetMode ==
    /\ ReceiveCommand("SetMode")
    /\ mode' = Head(messages).mode
    /\ UNCHANGED <<machineVars, connected, uart, terminal, diskVars>>

SetTerminalMode ==
    /\ ReceiveCommand("SetTerminalMode")
    /\ terminal' = [terminal EXCEPT !.mode = Head(messages).mode]
    /\ UNCHANGED <<machineVars, profileVars, uart, diskVars>>

\* The UART decides whether it takes the bytes.
SendUart ==
    /\ ReceiveCommand("SendUart")
    /\ uart' \in {uart, [uart EXCEPT !.unread = TRUE]}
    /\ UNCHANGED <<machineVars, profileVars, terminal, diskVars>>

\* A UART that is disconnected may drop the bytes that were not read.
SetUartConnected ==
    /\ ReceiveCommand("SetUartConnected")
    /\ connected' = Head(messages).on
    /\ uart' \in [connected: {connected'}, unread: {FALSE, uart.unread}]
    /\ UNCHANGED <<machineVars, mode, terminal, diskVars>>

ClearTerminal ==
    /\ ReceiveCommand("ClearTerminal")
    /\ terminal' = [terminal EXCEPT !.blank = TRUE]
    /\ UNCHANGED <<machineVars, profileVars, uart, diskVars>>

\* Mutant of SaveOk: a paused machine is taken to be saved already.
SaveOkTrustsPause ==
    /\ disk = "writable"
    /\ image' = (IF paused THEN image ELSE block)
    /\ storageError' = FALSE /\ UNCHANGED paused

\* save_disk on the worker.  Without a disk, or with a read-only one, it is an
\* error; writing the host file may fail as well.
SaveOk ==
    /\ disk = "writable"
    /\ image' = block /\ storageError' = FALSE /\ UNCHANGED paused

\* Mutant of SaveErr: the machine goes on after a failed save.
SaveErrRunsOn == storageError' = TRUE /\ UNCHANGED <<paused, image>>

SaveErr == storageError' = TRUE /\ paused' = TRUE /\ UNCHANGED image

saveOnly == <<outcome, machineError, profileVars, uart, terminal, disk, block>>

\* Mutants of SaveDisk: it answers before it publishes; a failed save is
\* reported as done; a failed save is not answered; no snapshot is published.
SaveAnswersFirst ==
    /\ worker = "receive" /\ messages # <<>> /\ Head(messages).op = "SaveDisk"
    /\ messages' = Tail(messages) /\ worker' = "publish"
    /\ \/ SaveOk /\ reply' = "ok"
       \/ SaveErr /\ reply' = "err"
    /\ UNCHANGED <<uiVars, latest, result, saveOnly>>
SaveIgnoresErrors ==
    /\ Receive("SaveDisk")
    /\ SaveOk \/ SaveErr
    /\ result' = "ok" /\ UNCHANGED saveOnly
SaveForgetsErrors ==
    /\ Receive("SaveDisk")
    /\ \/ SaveOk /\ result' = "ok"
       \/ SaveErr /\ UNCHANGED result
    /\ UNCHANGED saveOnly
SaveUnpublished ==
    /\ worker = "receive" /\ messages # <<>> /\ Head(messages).op = "SaveDisk"
    /\ messages' = Tail(messages) /\ worker' = "reply"
    /\ \/ SaveOk /\ result' = "ok"
       \/ SaveErr /\ result' = "err"
    /\ UNCHANGED <<uiVars, latest, reply, saveOnly>>

SaveDisk ==
    /\ Receive("SaveDisk")
    /\ \/ SaveOk /\ result' = "ok"
       \/ SaveErr /\ result' = "err"
    /\ UNCHANGED saveOnly

StopAfter(saving) ==
    /\ worker = "receive" /\ messages # <<>> /\ Head(messages).op = "Shutdown"
    /\ IF saving THEN SaveOk \/ SaveErr
                 ELSE UNCHANGED <<paused, storageError, image>>
    /\ messages' = Tail(messages) /\ worker' = "stopped"
    /\ UNCHANGED <<uiVars, reply, latest, result, saveOnly>>

\* Mutant of Stop: a machine that is paused is taken to be saved already.
StopTrustsPause ==
    StopAfter(Head(messages).save /\ disk = "writable" /\ ~paused)

\* Shutdown's arm: it saves when asked to and when there is a disk it may
\* write, reports an error to standard error only, and publishes nothing.
Stop == StopAfter(Head(messages).save /\ disk = "writable")

\* A panic of the machine, or of one of the worker's expects, unwinds the
\* thread: while it publishes; while it handles a message, which is dropped; or
\* in a quantum, during which messages may have come.  Its end of the channel is
\* dropped, and a result it has not sent; but the channel lives on with the
\* handle's sender, and what is in it stays.
Unwind ==
    /\ \/ worker = "publish" /\ UNCHANGED messages
       \/ worker = "receive" /\ messages # <<>> /\ messages' = Tail(messages)
       \/ worker = "receive" /\ ~paused /\ UNCHANGED messages
    /\ worker' = "unwound"
    /\ UNCHANGED <<uiVars, reply, latest, result, machineVars, storageError,
                   profileVars, uart, terminal, diskVars>>

-----------------------------------------------------------------------------
HandleCommand ==
    \/ SetPaused \/ Step \/ Reset \/ SetMode \/ SetTerminalMode
    \/ SendUart \/ SetUartConnected \/ ClearTerminal

Worker ==
    Publish \/ Reply \/ Quantum \/ HandleCommand \/ SaveDisk \/ Stop \/ Unwind

\* A call that was made goes on by itself.
UiGoesOn == Send \/ SendFails \/ SaveReturns \/ Join

\* A save was in the channel, behind another message or a last snapshot, when
\* the worker unwound: its reply's sender is in there still, and save_disk
\* waits for it with no one to take the message.
Stranded ==
    /\ ui = "awaiting" /\ worker = "unwound"
    /\ \E i \in 1 .. Len(messages) : messages[i].op = "SaveDisk"

\* Nothing is left to happen: the handle is dropped and the worker joined, or
\* the UI thread is stranded.
Finished ==
    /\ \/ ui = "gone" /\ WorkerGone
       \/ Stranded
    /\ UNCHANGED vars

Next == Call \/ UiGoesOn \/ Worker \/ Finished

Spec == Init /\ [][Next]_vars

\* The worker's thread is scheduled, and so is the UI's while it is inside a
\* call; nothing obliges the user to make one.
FairSpec == Spec /\ WF_vars(Worker) /\ WF_vars(UiGoesOn)

-----------------------------------------------------------------------------
(* What the runtime promises.                                              *)

\* Whenever the worker is about to wait for a message or to answer a save, the
\* mailbox holds what its state is now: no handler, no quantum and no save
\* leaves a change the UI could not see (publish at the end of every turn).
SnapshotCoherent == worker \in {"receive", "reply"} => latest = Snapshot

\* There is at most one save at a time, and it is in one place: in the channel,
\* behind every command, and for good if the worker has unwound; in the worker's
\* hands, with nothing behind it; or answered.  Whoever waits for an answer has
\* asked for one.
OneSaveInFlight ==
    /\ \A i \in 1 .. Len(messages) : messages[i].op = "SaveDisk" =>
         /\ i = Len(messages) /\ ui = "awaiting"
         /\ reply = "none" /\ result = "none"
    /\ ui = "awaiting" => call = SaveMessage
    /\ ui # "awaiting" => reply = "none" /\ result = "none"
    /\ reply # "none" => result = "none" /\ messages = <<>>
    /\ result # "none" =>
         messages = <<>> /\ worker \in {"publish", "reply", "unwound"}
    /\ worker = "reply" => result # "none"

\* save_disk is a barrier: when its answer is there, every message sent before
\* was handled and the mailbox already shows what they and the save left: the
\* settings the user made, and no storage error if the save is reported done.
SaveIsBarrier ==
    reply # "none" =>
        /\ messages = <<>>
        /\ latest.mode = mode /\ latest.connected = connected
        /\ latest.terminal.mode = terminal.mode
        /\ (reply = "ok" => latest.error # "storage")

\* A save that is reported as failed has paused the machine, and the UI that
\* learns of it finds the paused machine and an error in the mailbox, whatever
\* the worker did in between.
FailedSaveVisible ==
    reply = "err" => paused /\ latest.paused /\ latest.error # "none"

\* A save that is reported as done put into the host file everything the guest
\* had written when save_disk was called, though commands sent before, among
\* them resets, were handled in between.
AcknowledgedSaveCovers ==
    reply = "ok" => asked <= image /\ image <= block

\* Dropping the handle loses nothing: once the worker has stopped for a
\* shutdown that asks for a save, the file holds the device's last version,
\* unless there is no writable disk or writing it failed.
DropSaves ==
    (worker = "stopped" /\ call = [op |-> "Shutdown", save |-> TRUE]
       /\ disk = "writable" /\ ~storageError) => image = block

\* Neither copy of the disk ever goes back to an older version, and the file
\* is never ahead of the device: not by a reset, a failed save or a shutdown.
NeverOlder == [][block <= block' /\ image <= image' /\ image' <= block']_vars

\* The UART's line is as the profile in the worker says, so that a reset
\* rebuilds it as the user left it.
UartFollowsProfile == uart.connected = connected

\* A fault is in plain sight: a snapshot with the faulted outcome carries the
\* machine's error, even if a save failed before or after it.
FaultShown ==
    latest # NoSnapshot /\ latest.outcome = "faulted"
      => latest.error = "machine"

\* A paused machine starts running only because the user said so: not by a
\* reset, a step, a change of mode or a save that succeeds.
OnlyUserResumes ==
    [][paused /\ ~paused'
         => /\ messages # <<>>
            /\ Head(messages) = [op |-> "SetPaused", on |-> FALSE]]_vars

\* Calls return: command, save_disk and stop, though the channel is full, the
\* worker fails, or both threads wait for each other.  The one call that may
\* block for ever is a save that was still queued when the worker unwound.
UiReturns == ui # "idle" ~> (ui \in {"idle", "gone"} \/ Stranded)

\* A pause that was accepted is seen in the mailbox, however long the machine
\* could run: messages go before quanta.
PauseIsShown ==
    (\E i \in 1 .. Len(messages) :
        messages[i] = [op |-> "SetPaused", on |-> TRUE])
      ~> (WorkerGone \/ (latest # NoSnapshot /\ latest.paused))
=============================================================================
