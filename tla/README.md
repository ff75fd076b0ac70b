# Compukter Playground in TLA+

This directory specifies and verifies the Compukter Playground: a desktop
program that runs RV32 virtual machines described by TOML profiles, shows
their UART terminal, and stores their disks in image files. The specifications
are translated from the Rust and C sources; every definition that models code
is listed with its file and lines in `PROJECT.json` (`map`).

Paths below are those of the repository.

## The system

| Component | Source | State | Operations |
|---|---|---|---|
| Runtime handle | `src/runtime/mod.rs` 113-223 | sender, mailbox, join handle | `spawn`, `command`, `save_disk`, `snapshot`, `stop_without_save`, drop |
| Worker | `src/runtime/mod.rs` 321-569 | profile, machine, terminal, `paused`, `outcome`, two errors, `next_tick` | the loop, eight commands, save, shutdown, `run_quantum`, `publish` |
| Snapshot mailbox | `src/runtime/mod.rs` 86-111 | the latest snapshot, behind a mutex | `publish`, `current`, `wait_for` |
| Disk image | `src/disk_image.rs` | the image file, temporary files, `TEMP_SEQUENCE` | `load`, `persist_atomic`, `replace_file` |
| View model | `src/view_model.rs` | catalog, path, profile, one runtime handle, status | `open_profile`, `select_profile`, `save_profile`, `save_disk`, `command` |
| Terminal | `src/terminal.rs` | vt100 parser, bounded raw history, mode | `push_guest_bytes`, `set_mode`, `clear`, `snapshot` |
| Profile | `src/profile.rs` | none in memory; the TOML file | `load`, `save`, `validate` |
| Catalog | `src/profile_catalog.rs` | a sorted list of profile files | `scan`, `startup_entry`, `find` |
| User interface | `src/ui.rs` | the view model, the UART input line | a frame every 50 ms that reads a snapshot and turns clicks into calls |
| Echo firmware | `firmware/uart-echo/main.c` | a ring buffer with two indices | `firmware_main`, `machine_trap` |
| NuttX port | `firmware/nuttx/overlay/` | interrupt masks | start-up, interrupt dispatch, timer |
| Scale benchmark | `src/bin/scale-bench.rs` | guests, their boot output | boot, warm-up, measured ticks |
| Compukter-VM | not in the repository | the machine, UART, PLIC, block device | `run`, `advance_time`, `inject_rx`, `drain_tx`, `bytes` |

How they interact: the UI thread calls the view model; the view model owns one
`RuntimeHandle` (and, during a switch, a second). A handle talks to its worker
thread through a bounded channel of messages; the worker talks back through
the mailbox, which keeps only the newest snapshot, and, for a save, through a
one-place reply channel inside the message. The worker alone owns the machine,
drains its UART into the terminal, and writes the disk image. Every machine of
the process shares `TEMP_SEQUENCE`.

What is hard, and what makes each component correct:

* Two threads that wait for each other (a full channel, a reply, a join), with
  a worker that may panic at almost any turn. Calls must return, and one kind
  may not: a save that is queued behind such a panic. An answered save must be
  true, complete, and already visible in the mailbox.
* The machine pauses by itself (halt, panic, fault, failed save). Nothing but
  the user may resume it, and what the user sees must be what is.
* A deadline that is moved by quanta, by messages and by a late scheduler. No
  burst of quanta, no stale deadline, no machine that stops for good.
* A host that fails or loses power between two system calls of a save, and
  several savers of one file. The image must be whole at every moment, and no
  saver may touch another's temporary file.
* Two machines that live side by side while a profile is switched, perhaps on
  one image. No write that the switch's save has stored may be undone.
* A sleeper and a publisher that share a mutex, with deadlines and poisoning. No
  wake-up may be lost and every wait must end.
* A user who clicks on what an old snapshot said. What was clicked last must be
  what is set in the end.
* A directory and files the user may change at any moment, and an address map
  with ends that may wrap around. The first profile is always the same one, and
  an accepted UART shares its addresses with nobody.
* Bytes in pieces: the raw history must be the end of the stream that the
  screen shows, the echo firmware must lose nothing that it accepted, and the
  benchmark must find its markers.

## Modules

| Module | What it is | Extended by |
|---|---|---|
| `Runtime` | the handle, the channel, the mailbox and the worker | `RuntimeSaves`, `MCRuntimeCommands`, `Toolbar` |
| `SaveService` | abstract: what saving promises to the user | instantiated by `RuntimeSaves` |
| `RuntimeSaves` | the refinement mapping from `Runtime` to `SaveService` | `MCRuntimeSave`, `RuntimeProofs` |
| `Toolbar` | composition: the user at the window, over `Runtime` | `MCToolbar`, `RuntimeProofs` |
| `RuntimeProofs` | theorems about `Runtime`, the refinement and the window | |
| `Mailbox` | the mailbox from within: mutex, condition variable, `wait_for` | `MCMailbox`, `MailboxProofs` |
| `Pacing` | `next_tick` against the wall clock | `MCPacing`, `PacingProofs` |
| `AtomicFile` | abstract: what replacing a file promises | instantiated by `DiskImage` |
| `DiskImage` | `persist_atomic` and `MachineProfile::save` by system calls | `MCDiskImage`, `DiskImageProofs` |
| `Profile` | what `validate` accepts, and the address map | `Catalog` |
| `Catalog` | start-up: the directory, the startup entry, opening a profile | `MCCatalog`, `CatalogProofs` |
| `ViewModel` | opening profiles, with two live machines | `MCViewModel`, `ViewModelProofs` |
| `Terminal` | `drain_uart` and the terminal projection | `MCTerminal`, `OutputProofs` |
| `EchoPipe` | abstract: what the echo firmware promises to the host | instantiated by `UartEcho` |
| `UartEcho` | the echo firmware and its devices | `MCUartEcho`, `UartEchoProofs` |
| `ScaleBoot` | the benchmark's boot, warm-up and measurement | `MCScaleBoot`, `OutputProofs` |

Each `MC` module only gives values to constants. A definition whose comment
begins with *Mutant of* is a plausible bug in that operation; it is not part of
the specification, and shows that the property named for it in `PROJECT.json`
can fail.

### Runtime

`ui` and `call` say where the UI thread is inside `command`, `save_disk` or
`stop`. `messages`, `reply` and `latest` are the channel, the reply channel and
the mailbox. `worker` is the place in `worker_main`: about to publish, to
answer, or to receive; stopped; or unwound by a panic. `result` is an answer
that is computed and not sent. The rest is `WorkerState` and the devices as far
as the worker looks at them. One action is one turn of a thread between two
points where the other can see it, so that handling a message and publishing
the snapshot are two steps, as are publishing and answering.

The guest is a choice: any allowed outcome, a fault, disk writes, output,
input read. The disk is its version: every guest write adds one, a save copies
the device's version into `image`. A reset rebuilds the machine around the
device's bytes or fails and leaves the old machine faulted, as lines 440-452
do. `asked` is a history variable that remembers the device's version when
`save_disk` was called.

When the worker panics (`Unwind`), its receiver is dropped with the message it
was handling and the result it had not sent, and the channel stays: the handle's
own sender keeps it. crossbeam-channel, which is external and pinned to 0.5.16 in
`Cargo.lock`, documents that `send` fails from then on, and documents no discarding of
what is queued, so `messages` keeps it. A reply's sender may be in there. `save_disk` therefore learns that no answer
will come only if no save is left in the channel (`ReplyDropped`); a save that
was queued behind the message that made the worker panic, or arrived in the quantum
or before the publication that did, is never taken and never dropped, and its
caller waits in `recv` for ever. `Stranded` names that state, and `UiReturns`
says that it is the only one in which a call hangs. A library that discards
the queue would remove `Stranded` and change nothing else.

`SaveService` has a device, an image, the place of the caller's request and
the answer. Its saves take effect at one moment between call and return.
`RuntimeSaves` reads the request's place off `ui`, `worker`, `reply` and
`result`, and `ImplementsSaveService` is checked and proved. When the worker
unwinds, the caller learns at most that it is gone: the save may have been done.

### Toolbar

A frame of `src/ui.rs` reads the mailbox once (`Frame`) and lays out its widgets
in the order of `Order`; each may be clicked once (`Click`), and sends what
`Requested` says. The toggles are computed from `shown`, the snapshot of this
frame, which is older than whatever the worker does meanwhile. A click that
blocks, on a full channel or a save, holds the frame, because the next widget
waits for `ui = "idle"`. `wanted` is a history: the settings of the last clicks.
The profile selector is `Select` of `Catalog`, Save profile is `SaveProfile` of
`ViewModel`.

Two clicks on Run before a snapshot shows the first send the same command twice,
so a machine that stopped in between is resumed before its stop was on the
screen. `StopIsShown` excuses this: what it says is that a machine that stays
paused is shown.

### Mailbox

`Runtime` treats the mailbox as one variable. Here a stretch of code that holds
the mutex is one step; publishing is storing and then notifying, and `wait_for`
is looking, sleeping, being woken (by a notification, the deadline, or for no
reason) and looking again. Both assertions of `wait_for` panic with the mutex
held, which poisons it for everybody. The snapshot is its revision and a
predicate is the set of the revisions that satisfy it. `value` is not raised
after `MaxRevision`: a worker that has paused publishes nothing more.

### Pacing

`due` is `next_tick - now`. Instants in the past are counted up to
`Tick + 1`, which is all the code can tell apart. The clock (`Pass`) goes on in
every phase, so a quantum or a message may take any time. The histories
`sinceMessage`, `sinceQuantum`, `sincePrevious` and `waited` measure what the
properties speak of.

### DiskImage

One action per system call of `persist_atomic`, and `Fail` for any of them.
`MachineProfile::save` is the same without the copy of the permissions and
without a sequence number, and it is called by one thread of a process only. A
`scenario` says which of the two saves, how often, and which process each thread
belongs to. A
thread's bytes are written as the thread itself. `durable` is what a power
failure brings back: the directory reaches the disk when the host likes, and a
file that was not synchronised may be torn. `Restart` gives a process any id
that is not in use, sets its sequence back to 0, and turns its temporary files
into left-overs; a removal that fails leaves one too. `removed` remembers that the user has deleted the image.

`CopyPermissions` is two system calls, `metadata` and `set_permissions`, in one
step: only the first reads something that others change, and the second changes
the thread's own file alone, which nobody else looks at before the rename. A
failure or a kill between them is one before both.
`PermissionsKept` speaks of the temporary files as well as of the image, so that
copying the permissions after writing the bytes would break it.

`AtomicFile` is what savers and readers may rely on: a content that is replaced
at once when a call returns Ok, that a refused or killed call leaves alone, and
that a power failure can only take back to an earlier whole one. Nothing in it
speaks of temporary files. `Place` reads a call's place off its next system call:
a call that is about to remove its file can only return an error.

### Profile and Catalog

`Profile` is a pure module: `Valid` is `validate`, conjunct by conjunct, over an
address space, an address map and register sizes that are constants.
`ProfileAssumption` says only that the map's own constants do not overflow.
`UartAddresses`, `RamAddresses` and `DeviceAddresses` say where things lie; the
UART's wrap around as addresses do, so that the property can fail.

`Catalog` reads the directory entry by entry in any order, sorts, picks the
startup entry, and opens profiles. `unseen` is what is not read yet; an error in
the middle leaves no catalog, and `StartupChoice` says that nothing is chosen
before all was seen. `Sorted` says what sorting returns: the
ascending arrangement of the names that were found. The files belong to the user: what an entry
is and what a file says is chosen when it is read. A name is its place in the
alphabet.

### ViewModel

`open_profile` is the steps `Open`, `SaveBefore`, `Reload`, `Spawn`,
`StopPrevious`, and `Fail` between them. The machine behind a handle is its
profile, its bytes, whether it is paused and whether its worker lives; its
worker's turns are in `Runtime`, and here a save is one step; a call that is
`Stranded` there is a behaviour that stops here. The bytes of a
disk are the set of guest writes they hold, which makes "lost" and "undone"
statements about sets. `late` is what the old machine writes after the switch's
own save, and `excused` what nobody promised to keep: late writes, once the switch
has succeeded (a switch that fails loses nothing, and `Fail` clears `late`), the
writes of a worker that panicked, and those of a machine whose last save failed. The UI never opens the active profile
again; the view model allows it, and so does the module.

### Terminal

`parser` is the sequence of bytes the vt100 parser was given, of which its
screen is a function. `Pushed` is the arithmetic of `push_guest_bytes`.

### UartEcho

The main program and the trap handler are two threads of control that share
the ring; the handler runs to its end once entered. `index` is the loop variable
of `uart_queue`. One step is what lies
between two accesses to a device, because the host acts between quanta and a
quantum may end after any instruction. The 16550 has two bounded buffers and a
level-triggered line; the PLIC has one source, masked while it is claimed.
Indices are words that wrap at `Word`.

`EchoPipe` has the two directions of the UART and a queue between them. That the
queue loses a byte only when it is full is its point: it holds however the ring
is indexed, and nothing else says that a place is not wasted.

### ScaleBoot

A loop's head, a guest's turn and a tick's end are steps of the one thread. A
marker is two tokens and the 4096 bytes that are kept are `Keep` tokens, so that
a marker may come in two pieces, be followed by other output, or be cut off.
`Prints` lets a guest print its script in any pieces; `flooded` remembers a
quantum that printed so much that a marker before it may be gone, which is the
only excuse `MarkerFound` allows. A quantum that ends with its budget exhausted
is taken to have retired that budget.

## Runs

| Run | Properties | Bounds and why they suffice |
|---|---|---|
| `runtime_save` | types; a save is a barrier; a failed save is visible; an answered save is complete; dropping saves; no older bytes; the save service | channel of 2: a command in front of a save, and a full channel; 2 writes: one before and one after the call; all disks |
| `runtime_commands` | the mailbox is coherent; a fault is shown; only the user resumes | every command; channel of 1, because a command acts alone and order is free; no writable disk, so that saves fail |
| `toolbar` | the settings settle; calls return, but for a save queued behind a panic; a pause is shown; a stop is shown | four widgets: two toggles, the reset that rebuilds what they set, and the save that blocks and may fail; the others are further toggles, or are in `runtime_commands`; channel of 1: the UI blocks on a full one, and a save in it can be behind a panic of a quantum or a publication |
| `mailbox` | no lost wake-up; every wait ends | two callers, so that one poisons the other; three revisions; predicates for the last revision, for one that is hidden by the next, and for none |
| `pacing` | types; no burst; a message re-arms; a quiet machine runs on | a tick of 3 units: on time, late by less, late by more; channel of 2 |
| `pacing_every_tick` | README's quantum every 50 ms: violated | as `pacing` |
| `disk_image` | the image is whole; temporary files are owned and hold the right bytes; they and the image have the image's permissions; an atomic file | one process of two threads that save a disk twice; two processes that save it, or a profile, once each, so that sequence numbers coincide; three ids for two processes, so that ids come back; the threads and the ids are interchangeable |
| `view_model` | types; only late writes are lost; the shown profile runs; nothing is undone | two profile files, two images that they may share, three writes: one saved, one late in the old machine, one in the new |
| `uart_echo` | echo in order; the banner first; no sleep on work; the ring drains; the echo pipe | ring of 2, words of 4: indices wrap in every second round; six bytes of input overrun the ring, the UART's buffer and the wrap |
| `terminal` | the history is the newest | history of 3, pieces of up to 4: shorter, equal and longer |
| `profiles` | the startup choice; the UART is alone | three names with the default in the middle; an address space of 32 with a UART of 2 at every place, RAM from none to too much, and gaps between devices as small as the UART |
| `scale_boot` | markers are found; the figures are of saturated guests; the benchmark ends | two guests, of which one may be ready first; 3 tokens kept of a script of 9, up to 4 printed at once; 4 boot ticks, in which a guest can just get ready or not |

Deadlock is checked in all runs but `uart_echo`, where a host without more
input and a sleeping hart may rightly stop. `Runtime` and `Pacing` end in a
state that is named (`Finished`, which includes `Stranded`, and `Stopped`).

Fairness. `toolbar` assumes that the two threads are scheduled (`WorkerStep` and
`UiStep`) and that frames are drawn while the UI thread is free, because each
frame asks for the next one 50 ms later (`Frame`); not that the user ever
clicks. `mailbox` assumes that threads are scheduled and that the clock passes
every deadline; not that anything more is published. `scale_boot` assumes that
its one thread runs, and that `run` returns, which its budget bounds. `pacing` assumes that the
clock goes on and the worker is scheduled. `uart_echo` assumes that the hart
executes and that the worker drains the UART, which it does after every
quantum. Nothing assumes that a guest, the host or the user does anything.

### What the code does and README does not say

`README.md` lines 127-128 give realtime mode one quantum every 50 ms. The loop
re-arms the deadline after each message it handles (`src/runtime/mod.rs` 428,
and 396 after a save). Each message postpones the next quantum by up to a
tick, and messages less than 50 ms apart postpone it for as long as they come:
`pacing_every_tick` shows the shortest such run.

## Proofs

The theorems hold for all values of the constants within the named
assumptions, one for each module. Those give the constants their types and
exclude empty capacities. Beyond that they say: a profile's path and a thread
are not the values that stand for none; the constants of the address map lie
inside the address space (`ProfileAssumption`); there are more process ids than
processes, and a profile is saved by one thread of a process only, the UI's
(`DiskImageAssumption`); the ring's size divides the word of its indices and is
smaller, as 256 and 2^32 are, and the banner fits into the ring
(`UartEchoAssumption`); the widgets are in the order of the frame
(`ToolbarAssumption`); a marker is two tokens (`ScaleBootAssumption`). The
sources' constants and the compiler see to all of them. That a profile file
names its own image, or that two profiles name different ones, is assumed
nowhere.

*RuntimeProofs.* `TypeCorrect` comes first. The promises about saves are not
inductive alone: that an answered save was preceded by everything sent before
it needs that nothing can be sent behind a save (`OneSaveInFlight`), which needs
that the UI thread is inside the call, and shutting down needs that nothing is
behind a shutdown (`ShutdownIsLast`), also when the worker has unwound and left
it in the channel. That the bytes are all there needs
`CopiesInOrder`, which carries the version from call to result to answer, and
that a failure is visible needs `SaveTold`, which ties an unsent result to
`paused` and `storageError`. `FaultRecorded` ties the faulted outcome to its
error. `IInv` joins these; `Inductive` proves it, with a lemma for each part
that splits on the actions. From it follow the six invariants, the two action
properties and `Implements`: each step of the runtime is a step of
`SaveService` or none.

The window comes on top. `WindowImplements` says that the composition of
`Toolbar` with `Runtime` is a behaviour of `Runtime`, so that all of the above
holds with a user at the window, and `IInv` may be used in what follows.
`SettingsSettle` speaks of the moment when everything is handled; to get there,
`WindowInv` says for each setting what will become of it: either it is what the
user wants and no pending message is about it, or the last pending message that
is about it brings what the user wants (`SettlesTo`). Pending is what is in the
channel and, behind it, what the UI is still sending. One more message
(`SettledByOneMore`) and one less (`SettledByOneLess`) keep that, a reset keeps
the settings of the machine it rebuilds, and once nothing is pending the
mailbox shows the worker's settings because it is coherent.

*PacingProofs.* `IInv` says that a deadline is never nearer than the age of the
last message allows, and never nearer than the two last quanta allow; this is
what `NoBurst` and `MessageRearms` need when a quantum begins.

*OutputProofs, the terminal.* Dropping from a concatenation is worked out in six lemmas
about sequences; `PushedIsNewest` says that pushing a piece onto the newest
bytes of a stream leaves the newest bytes of the longer stream. The raw history
is then an invariant for every capacity and every size of a piece.

*OutputProofs, the benchmark.* `MarkerFound` needs to know what is kept: the
newest tokens of what the guest has printed (`KeptOf`), which a quantum's output
and the cut to 4096 bytes preserve (`DrainedKeeps`). A marker that begins in
front of what this quantum printed was there before or ends in it, and then its
beginning is still kept (`MarkerIsKept`), unless the quantum printed more than
fits behind it. `Measured` counts the budgets of the measured ticks turn by turn,
which needs that no guest is less than ready once the boot is over.

*CatalogProofs.* From `checked_add` the UART's registers do not wrap around
(`UartDoesNotWrap`), so its addresses are an interval, and an address that it
shares with a device contradicts `ranges_overlap`. `AcceptedUartIsAlone` is that
fact about `validate`, for every address map; `UartAlwaysAlone` carries it to
the running machine, whose profile was accepted when it was opened. For
`StartupAlwaysChosen` the invariant remembers that the first choice was made from
a catalog in order, of a directory seen whole; what is first in it is then below all the others.

*UartEchoProofs.* The indices are the lengths of the two streams, as far as a
word holds them (`Counted`), and what is not sent has its byte at its number's
remainder by the ring's size (`InPlace`). For this to survive a push, the
difference of the wrapped indices must be the number of bytes that wait
(`UsedIsWaiting`, from `Distance`), and two bytes less than a ring apart must have
different places (`OtherPlace`), also where the word wraps, which is where the
ring's size has to divide it (`PlaceInRing`). That leaves the interleaving:
`OneAtATime` says that the handler runs only once the main program sleeps, so
that `BannerQueued` can be read off the main program alone, and `IerFollowsRing`
that the transmit interrupt is on exactly while bytes wait, outside of the step
that sets it. From these follow `EchoInOrder`, `BannerFirst` and `NoSleepingWork`. For
`ImplementsPipe` the ring's contents are what the stream of pushed bytes has
behind the sent ones (`ContentsAreBehind`), so that a push appends to the queue
(`PushAppends`), and a send takes its first (`SendTakesFirst`).

*MailboxProofs.* `NoLostWakeup` is inductive with the types: a caller falls
asleep only on a snapshot that does not satisfy it, and a new snapshot leaves
the worker about to notify everybody.

*DiskImageProofs.* Two threads at work have different temporary names
(`NamesApart`): in different processes the ids differ (`Counted`), in one process
a number that a name holds is below the sequence (`Numbered`), which only grows
until the process is replaced and its threads with it; a profile is saved by one
thread of a process. So nobody but its owner touches a file between `create_new`
and `rename`, and `Held` says what its owner has done to it by then: its own
bytes, and synchronised before the rename. `Whole` and `Kept` say the same of
what the rename makes of the image, in memory and on the disk; `Kept` also that
no file with a thread's bytes has another mode (`Private`). With these,
`Implements` takes the steps one by one: `rename` is the replacement, and takes
place with the call's return; all calls before it are invisible; a power failure
finds nothing to tear.

*ViewModelProofs.* `NothingUndone` needs that whoever may write an image already
has all that is in it (`Ahead`). The new machine has, because it starts from what
the disk holds at that moment (`Fresh`): its bytes were read after the save, or
there was nothing to save, and until the spawn nobody else writes. Before the old
machine is replaced its writes are stored, late or excused (`Stored`), and its
replacement excuses the late ones; with that,
`Accounted`, which is `OnlyLateWritesLost` in the midst of a call too, survives
the replacement.

Only model-checked is liveness (`UiReturns`, `PauseIsShown`, `StopIsShown`,
`WaitEnds`, `Ends`, `QuietRunsOn`, `RingDrains`), which is out of the prover's
reach, and the absence of deadlocks, which speaks of `ENABLED`. Every invariant,
every action property and every refinement that the passing runs check is
proved. The types of `Mailbox`, `DiskImage`, `Terminal`, `UartEcho`, `Toolbar`
(`WindowOK`) and `ScaleBoot` (`BenchOK`) are proved and are part of no run;
`UartFollowsProfile` and `OneSaveInFlight` are parts of the proved `IInv`.

## Not modelled

* The NuttX port (`firmware/nuttx/overlay/`). Its interrupt dispatch calls
  `riscv_doirq`, and its masks are moved by drivers; both are in a NuttX tree
  that is not in this repository. Whether a handler switches context between
  claim and complete decides what there is to say.
* In the user interface: layout, style, and the formatting of registers,
  statistics and raw bytes. In the benchmark: clock readings, percentiles,
  `/proc`, the printed line.
* In the profile: the TOML text, and the conversion of the backend to the
  virtual machine's configuration. `validate` does not keep RAM clear of the PLIC
  (only of the control block, which lies above it), and nothing in the
  repository says it does; no property speaks of it.
* Build scripts, link scripts and start-up code are straight lines. The virtual
  machine is another project. `MutateDisk` serves tests. The Windows replacement
  of a file is taken to be as atomic as `rename`.

## Plan

1. Done: the modules and proofs above.
2. Done: the proofs about the firmware, the catalog, the window and the
   benchmark.
3. Done: the abstract specifications of saving, of the file and of the echo, and
   the proofs that `Runtime`, `DiskImage` and `UartEcho` implement them.
4. Composition: `ViewModel` with a worker that follows `SaveService` step by
   step in the place of its one-step save.
