----------------------------- MODULE ViewModel -----------------------------
(***************************************************************************)
(* Opening profiles: PlaygroundViewModel of src/view_model.rs, step by     *)
(* step, while the machines it has spawned run in their own threads.  A    *)
(* switch saves the active machine's disk, reads the new disk again,       *)
(* spawns the new machine beside the old one and then stops the old one.   *)
(* The worker behind a RuntimeHandle is module Runtime; here it handles a  *)
(* save in one step.  The contents of a disk are the set of the guest      *)
(* writes that it holds.                                                   *)
(***************************************************************************)
EXTENDS Naturals

CONSTANTS
    Paths,      \* the profile files of the catalog
    Images,     \* the disk image files
    Profiles,   \* what a profile file may say about the disk
    MaxWrites   \* bound on the guests' disk writes

None == [none |-> TRUE]

ASSUME ViewModelAssumption ==
    /\ None \notin Paths
    /\ Profiles \subseteq [disk: {"none"}]
         \cup [disk: {"writable", "read_only"}, image: Images]
    /\ Profiles # {} /\ MaxWrites \in Nat

VARIABLES
    files,      \* the profile each profile file holds
    images,     \* the writes each image file holds
    path, profile, runtime,    \* PlaygroundViewModel
    step,       \* the next step of the call the UI thread is in
    prepared,   \* PreparedLaunch of open_profile
    previous,   \* the machine that was replaced and is not stopped yet
    writes,     \* history: how many writes there were
    excused,    \* history: writes nobody promised to keep
    late        \* history: writes that a switch will lose if it succeeds

diskFiles == <<files, images>>
fields == <<path, profile, runtime>>
launch == <<prepared, previous>>
history == <<writes, excused, late>>
vars == <<diskFiles, fields, step, launch, history>>

Write == 1 .. MaxWrites

\* A RuntimeHandle and the machine behind it, whose worker may have panicked.
Machine == [profile: Profiles, bytes: SUBSET Write, paused: BOOLEAN, alive: BOOLEAN]
Launch == [path: Paths, profile: Profiles, bytes: SUBSET Write]

TypeOK ==
    /\ files \in [Paths -> Profiles] /\ images \in [Images -> SUBSET Write]
    /\ path \in Paths \cup {None} /\ profile \in Profiles \cup {None}
    /\ {runtime, previous} \subseteq Machine \cup {None}
    /\ step \in {"idle", "save", "reload", "spawn", "stop", "closed"}
    /\ prepared \in Launch \cup {None}
    /\ prepared # None <=> step \in {"save", "reload", "spawn"}
    /\ previous # None <=> step = "stop"
    /\ writes \in 0 .. MaxWrites /\ excused \cup late \subseteq 1 .. writes
    /\ late # {} => step \in {"reload", "spawn"}

\* PlaygroundViewModel::default; from_profiles_dir then opens a profile.
Init ==
    /\ files \in [Paths -> Profiles] /\ images = [i \in Images |-> {}]
    /\ path = None /\ profile = None /\ runtime = None
    /\ step = "idle" /\ prepared = None /\ previous = None
    /\ writes = 0 /\ excused = {} /\ late = {}

Writable(p) == p # None /\ p.disk = "writable"

\* The bytes of the image a profile names, if it names one.
Loaded(p) == IF p.disk = "none" THEN {} ELSE images[p.image]

-----------------------------------------------------------------------------
(* open_profile.                                                           *)

\* The call returns, with an error or without one.
Return == step' = "idle" /\ prepared' = None

\* Mutant of NeedsSave: the new profile decides, not the active one.
NewNeedsSave(new) == Writable(new) /\ runtime # None

\* The active profile has a disk that it may write.
NeedsSave(new) == Writable(profile)

\* select_profile and PreparedLaunch::load.  A profile, a firmware or an image
\* that cannot be read ends the call here, and nothing has changed.
Open(p) ==
    /\ step = "idle"
    /\ prepared' = [path |-> p, profile |-> files[p], bytes |-> Loaded(files[p])]
    /\ step' = IF NeedsSave(files[p]) THEN "save" ELSE "spawn"
    /\ UNCHANGED <<diskFiles, fields, previous, history>>

\* The worker of a handle writes the disk back.
Store(machine) ==
    /\ machine.alive /\ Writable(machine.profile)
    /\ images' = [images EXCEPT ![machine.profile.image] = machine.bytes]

\* RuntimeHandle::save_disk of the active machine succeeds.
SaveOk == Store(runtime) /\ UNCHANGED <<files, fields>>

\* It fails: the worker pauses the machine, or is gone.
SaveErr ==
    /\ runtime' = [runtime EXCEPT !.paused = @ \/ runtime.alive]
    /\ UNCHANGED <<diskFiles, path, profile>>

SaveBefore ==
    /\ step = "save"
    /\ \/ SaveOk /\ step' = "reload" /\ UNCHANGED prepared
       \/ SaveErr /\ Return
    /\ UNCHANGED <<previous, history>>

\* reload_disk.
Reload ==
    /\ step = "reload"
    /\ prepared' = [prepared EXCEPT !.bytes = Loaded(prepared.profile)]
    /\ step' = "spawn"
    /\ UNCHANGED <<diskFiles, fields, previous, history>>

New == [profile |-> prepared.profile, bytes |-> prepared.bytes,
        paused |-> FALSE, alive |-> TRUE]

\* Mutant of Fail: the fields of the new profile are set before the spawn.
FailHalfway ==
    /\ step \in {"reload", "spawn"}
    /\ path' = prepared.path /\ profile' = prepared.profile
    /\ Return /\ late' = {}
    /\ UNCHANGED <<diskFiles, runtime, previous, writes, excused>>

\* reload_disk or RuntimeHandle::spawn returns an error: the old machine stays,
\* and what it has written meanwhile is its to keep.
Fail ==
    /\ step \in {"reload", "spawn"}
    /\ Return /\ late' = {}
    /\ UNCHANGED <<diskFiles, fields, previous, writes, excused>>

\* RuntimeHandle::spawn, and the fields, which only this thread reads.
Spawn ==
    /\ step = "spawn"
    /\ runtime' = New /\ previous' = runtime
    /\ path' = prepared.path /\ profile' = prepared.profile
    /\ prepared' = None
    /\ step' = IF runtime = None THEN "idle" ELSE "stop"
    /\ excused' = excused \cup late /\ late' = {}
    /\ UNCHANGED <<diskFiles, writes>>

\* Mutants of StopPrevious: the old handle is dropped, and its Drop saves; the
\* old machine is left running.
DropPrevious ==
    /\ step = "stop" /\ step' = "idle" /\ previous' = None
    /\ Store(previous) \/ UNCHANGED images
    /\ UNCHANGED <<files, fields, prepared, history>>
LeavePrevious ==
    /\ step = "stop" /\ step' = "idle"
    /\ UNCHANGED <<diskFiles, fields, launch, history>>

\* stop_without_save, which joins the old worker.
StopPrevious ==
    /\ step = "stop"
    /\ previous' = None /\ step' = "idle"
    /\ UNCHANGED <<diskFiles, fields, prepared, history>>

-----------------------------------------------------------------------------
(* The other calls.                                                        *)

\* save_profile; without an open profile, or when writing fails, no change.
SaveProfile ==
    /\ step = "idle" /\ path # None
    /\ files' = [files EXCEPT ![path] = profile]
    /\ UNCHANGED <<images, fields, step, launch, history>>

SaveDisk ==
    /\ step = "idle" /\ runtime # None
    /\ SaveOk \/ SaveErr
    /\ UNCHANGED <<step, launch, history>>

\* command, of which only the effect on paused matters here.
Command ==
    /\ step = "idle" /\ runtime # None /\ runtime.alive
    /\ \E on \in BOOLEAN : runtime' = [runtime EXCEPT !.paused = on]
    /\ UNCHANGED <<diskFiles, path, profile, step, launch, history>>

\* The window closes: the view model is dropped, and its handle with it, which
\* saves a writable disk; an error of that save is only printed.
Close ==
    /\ step = "idle" /\ runtime # None
    /\ step' = "closed" /\ runtime' = None
    /\ \/ Store(runtime) /\ UNCHANGED excused
       \/ UNCHANGED images /\ excused' = IF Writable(profile)
                                        THEN excused \cup runtime.bytes
                                        ELSE excused
    /\ UNCHANGED <<files, path, profile, launch, writes, late>>

-----------------------------------------------------------------------------
(* The machines, and the user's editor.                                    *)

\* The guest of a running machine with a writable disk writes it.  What it
\* writes after the switch's save was handled is nobody's concern if, and only
\* if, the switch succeeds.
GuestOf(machine) ==
    /\ machine # None /\ machine.alive /\ ~machine.paused
    /\ machine.profile.disk = "writable" /\ writes < MaxWrites
    /\ writes' = writes + 1
    /\ UNCHANGED <<diskFiles, path, profile, step, prepared>>

GuestWrites ==
    /\ GuestOf(runtime)
    /\ runtime' = [runtime EXCEPT !.bytes = @ \cup {writes'}]
    /\ late' = IF step \in {"reload", "spawn"} THEN late \cup {writes'} ELSE late
    /\ UNCHANGED <<previous, excused>>

PreviousWrites ==
    /\ GuestOf(previous)
    /\ previous' = [previous EXCEPT !.bytes = @ \cup {writes'}]
    /\ excused' = excused \cup {writes'}
    /\ UNCHANGED <<runtime, late>>

\* The active machine's worker panics, and what it has not saved is gone.
WorkerPanics ==
    /\ runtime # None /\ runtime.alive
    /\ runtime' = [runtime EXCEPT !.alive = FALSE]
    /\ excused' = excused \cup runtime.bytes
    /\ UNCHANGED <<diskFiles, path, profile, step, launch, writes, late>>

UserEdits ==
    /\ \E p \in Paths, new \in Profiles : files' = [files EXCEPT ![p] = new]
    /\ UNCHANGED <<images, fields, step, launch, history>>

OpenProfile ==
    \/ \E p \in Paths : Open(p)
    \/ SaveBefore \/ Reload \/ Fail \/ Spawn \/ StopPrevious

Next ==
    \/ OpenProfile \/ SaveProfile \/ SaveDisk \/ Command \/ Close
    \/ GuestWrites \/ PreviousWrites \/ WorkerPanics \/ UserEdits

Spec == Init /\ [][Next]_vars

-----------------------------------------------------------------------------
\* What an image file holds is never taken back: not by opening its profile
\* again, nor by another profile with the same image, nor by the machine that
\* was replaced, whose bytes are older than the new machine's.
NothingUndone == [][\A i \in Images : images[i] \subseteq images'[i]]_vars

\* Every write of a guest is in an image file or in the active machine, which
\* will be saved, unless it came after the own save of a switch that succeeded,
\* its machine panicked, or the save at the end failed: switching loses nothing
\* else, and a switch that fails loses nothing at all.
OnlyLateWritesLost ==
    step \in {"idle", "closed"} =>
        \A w \in (1 .. writes) \ excused :
            \/ \E i \in Images : w \in images[i]
            \/ runtime # None /\ w \in runtime.bytes

\* The profile and the path that are shown are those of the machine that runs:
\* a switch that fails half-way leaves all three as they were.
ShownProfileRuns ==
    /\ runtime # None => runtime.profile = profile
    /\ path = None <=> profile = None
    /\ step # "closed" => (runtime = None <=> profile = None)
=============================================================================
