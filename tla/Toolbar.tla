------------------------------- MODULE Toolbar -------------------------------
(***************************************************************************)
(* The user at the window: src/ui.rs over module Runtime.  A frame reads   *)
(* the mailbox once and lays out its widgets from that snapshot, in their  *)
(* order, each of which the user may click once; the toggles send the      *)
(* opposite of what the snapshot says, however old it is by then.  The     *)
(* profile selector and Save profile are in module ViewModel.              *)
(***************************************************************************)
EXTENDS Runtime

CONSTANT Widgets    \* the widgets the user may use

toolbar == <<"Save disk", "Pause", "Step", "Reset", "Mode">>
terminal_panel == <<"Terminal mode", "Connect", "Clear", "Send">>
Order == toolbar \o terminal_panel

VARIABLES
    shown,     \* what the toggles need of the snapshot this frame has read
    place,     \* the place in Order of the next widget of the frame
    wanted     \* history: the settings the user has asked for last

windowVars == <<shown, place, wanted>>
allVars == <<vars, windowVars>>

ASSUME ToolbarAssumption == Widgets \subseteq {Order[i] : i \in 1 .. Len(Order)}

\* What the widgets take from a snapshot, and what stands in if there is none.
View(snapshot) ==
    IF snapshot = NoSnapshot
    THEN [paused |-> TRUE, mode |-> "realtime", terminal |-> "ansi", connected |-> FALSE]
    ELSE [paused |-> snapshot.paused, mode |-> snapshot.mode,
          terminal |-> snapshot.terminal.mode, connected |-> snapshot.connected]

WindowOK ==
    /\ shown \in [paused: BOOLEAN, mode: Modes, terminal: TerminalModes, connected: BOOLEAN]
    /\ place \in 1 .. Len(Order) + 1
    /\ wanted \in [mode: Modes, terminal: TerminalModes, connected: BOOLEAN]

WindowInit ==
    /\ Init
    /\ shown = View(latest) /\ place = Len(Order) + 1
    /\ wanted = [mode |-> mode, terminal |-> terminal.mode, connected |-> connected]

-----------------------------------------------------------------------------
Other(pair, x) == CHOOSE y \in pair : y # x

\* Send, or Enter, with a line that is not empty; an empty one sends nothing.
submit_uart == [op |-> "SendUart"]

\* The message a click on a widget of the terminal sends.
TerminalRequest(widget) ==
    CASE widget = "Terminal mode" ->
           [op |-> "SetTerminalMode", mode |-> Other(TerminalModes, shown.terminal)]
      [] widget = "Connect" -> [op |-> "SetUartConnected", on |-> ~shown.connected]
      [] widget = "Clear" -> [op |-> "ClearTerminal"]
      [] widget = "Send" -> submit_uart

\* The message a click on a widget sends.
Requested(widget) ==
    CASE widget = "Save disk" -> SaveMessage
      [] widget = "Pause" -> [op |-> "SetPaused", on |-> ~shown.paused]
      [] widget = "Step" -> [op |-> "Step"]
      [] widget = "Reset" -> [op |-> "Reset"]
      [] widget = "Mode" -> [op |-> "SetMode", mode |-> Other(Modes, shown.mode)]
      [] OTHER -> TerminalRequest(widget)

\* can_save_disk.
Enabled(widget) == widget = "Save disk" => disk = "writable"

\* The settings after a message, if it is handled.
After(settings, message) ==
    CASE message.op = "SetMode" -> [settings EXCEPT !.mode = message.mode]
      [] message.op = "SetTerminalMode" -> [settings EXCEPT !.terminal = message.mode]
      [] message.op = "SetUartConnected" -> [settings EXCEPT !.connected = message.on]
      [] OTHER -> settings

Click(i) ==
    /\ place <= i /\ Order[i] \in Widgets /\ Enabled(Order[i])
    /\ Call /\ call' = Requested(Order[i])
    /\ place' = i + 1
    /\ wanted' = After(wanted, call')
    /\ UNCHANGED shown

\* The next frame, 50 ms later or when there is input.
Frame ==
    /\ ui = "idle"
    /\ shown' = View(latest) /\ place' = 1
    /\ UNCHANGED <<vars, wanted>>

\* The window is closed, or another profile was opened.
Close == Call /\ call'.op = "Shutdown" /\ UNCHANGED windowVars

WorkerStep == Worker /\ UNCHANGED windowVars
UiStep == UiGoesOn /\ UNCHANGED windowVars

WindowNext ==
    \/ \E i \in 1 .. Len(Order) : Click(i)
    \/ Frame \/ Close \/ WorkerStep \/ UiStep
    \/ Finished /\ UNCHANGED windowVars

WindowSpec == WindowInit /\ [][WindowNext]_allVars

\* The threads are scheduled, and frames are drawn.
FairWindow ==
    WindowSpec /\ WF_allVars(WorkerStep) /\ WF_allVars(UiStep) /\ WF_allVars(Frame)

-----------------------------------------------------------------------------
\* When everything the user did is handled, the mailbox shows the settings of
\* the last clicks: the toggles work though commands are queued, the machine is
\* reset, halts or fails, and the snapshots they were computed from are old.
SettingsSettle ==
    ui = "idle" /\ messages = <<>> /\ worker = "receive" =>
        [mode |-> latest.mode, terminal |-> latest.terminal.mode,
         connected |-> latest.connected] = wanted

\* A machine that is paused, by the user, by its own end, a fault or a failed
\* save, is shown as paused, unless it is resumed before.
StopIsShown == paused ~> (~paused \/ WorkerGone \/ shown.paused)
=============================================================================
