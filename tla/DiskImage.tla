----------------------------- MODULE DiskImage -----------------------------
(***************************************************************************)
(* Replacing a file of the host: persist_atomic of src/disk_image.rs and   *)
(* MachineProfile::save of src/profile.rs, system call by system call, by  *)
(* several threads of several processes that save to the same file.        *)
(* Every call may fail; a process may be killed and its id given out       *)
(* again; the power may fail, and then a file that was not synchronised    *)
(* may be torn and the last renames may be undone.                         *)
(***************************************************************************)
EXTENDS Naturals, FiniteSets

CONSTANTS
    Processes, Threads,    \* the processes, and the threads that save
    Pids,                  \* the ids the host gives to processes
    MaxSequence,           \* bound on the disk saves of one process
    Scenarios              \* what is saved, by whom, and how often

ASSUME DiskImageAssumption ==
    /\ IsFiniteSet(Processes) /\ IsFiniteSet(Pids)
    /\ Cardinality(Processes) < Cardinality(Pids)
    /\ MaxSequence \in Nat \ {0}
    /\ Scenarios \subseteq [file: {"disk", "profile"}, saves: 1 .. MaxSequence,
                           process: [Threads -> Processes]]
    /\ \A s \in Scenarios, t, u \in Threads :
         s.file = "profile" /\ s.process[t] = s.process[u] => t = u
    /\ {"first", "torn", "missing", "leftover"} \cap Threads = {}

VARIABLES
    scenario,    \* the file that is saved: a disk image by the worker threads,
                 \* or a profile by the only thread of its process that does so
    image,       \* that file
    durable,     \* what it is after a power failure
    temps,       \* the temporary files next to it
    pid,         \* std::process::id of each process
    sequence,    \* TEMP_SEQUENCE of each process
    pc,          \* the next system call of each thread
    name,        \* the name of its temporary file
    removed      \* history: the user has deleted the image

files == <<image, durable, temps>>
vars == <<scenario, files, pid, sequence, pc, name, removed>>

\* A thread saves its own bytes, which are written here as the thread.
File == [bytes: Threads \cup {"first", "torn"}, synced: BOOLEAN,
         mode: {"users", "default"}]
Missing == [bytes |-> "missing"]

\* What a killed process or a failed removal has left behind, whatever it holds.
Leftover == [bytes |-> "leftover"]

Names == Pids \X (0 .. MaxSequence - 1)
NoName == <<>>

Steps == {"create", "permissions", "write", "sync", "rename"}

Running == {scenario.process[t] : t \in Threads}

TypeOK ==
    /\ scenario \in Scenarios
    /\ {image, durable} \subseteq File \cup {Missing}
    /\ temps \in [Names -> File \cup {Missing, Leftover}]
    /\ pid \in [Running -> Pids] /\ sequence \in [Running -> 0 .. MaxSequence]
    /\ pc \in [Threads -> Steps \cup {"idle", "remove"}]
    /\ name \in [Threads -> Names \cup {NoName}]
    /\ \A t \in Threads : name[t] = NoName <=> pc[t] = "idle"
    /\ removed \in BOOLEAN

Distinct(ids) == \A p, q \in Running : ids[p] = ids[q] => p = q

Init ==
    /\ scenario \in Scenarios
    /\ image = [bytes |-> "first", synced |-> TRUE, mode |-> "users"]
    /\ durable = image /\ temps = [n \in Names |-> Missing]
    /\ pid \in [Running -> Pids] /\ Distinct(pid)
    /\ sequence = [p \in Running |-> 0]
    /\ pc = [t \in Threads |-> "idle"] /\ name = [t \in Threads |-> NoName]
    /\ removed = FALSE

-----------------------------------------------------------------------------
(* persist_atomic, and save.                                               *)

\* Mutant of TempName: without the sequence number.
NameByPid(p) == <<pid[p], 0>>

\* The temporary name holds the process id and, for a disk, TEMP_SEQUENCE,
\* which stays 0 for a profile.
TempName(p) == <<pid[p], sequence[p]>>

\* The call is past validate_capacity or validate, which refuse some bytes and
\* some profiles and leave everything as it is.
Begin(t) ==
    LET p == scenario.process[t] IN
      /\ pc[t] = "idle"
      /\ pc' = [pc EXCEPT ![t] = "create"]
      /\ name' = [name EXCEPT ![t] = TempName(p)]
      /\ IF scenario.file = "profile" THEN UNCHANGED sequence
         ELSE sequence[p] < scenario.saves /\ sequence' = [sequence EXCEPT ![p] = @ + 1]
      /\ UNCHANGED <<scenario, files, pid, removed>>

\* The system call is done, and the next one is step.
Goto(t, step) ==
    /\ pc' = [pc EXCEPT ![t] = step]
    /\ UNCHANGED <<scenario, name, pid, sequence>>

Return(t) ==
    /\ pc' = [pc EXCEPT ![t] = "idle"] /\ name' = [name EXCEPT ![t] = NoName]
    /\ UNCHANGED <<scenario, pid, sequence>>

\* The thread's file becomes f, if it still has its name.
Change(t, f) ==
    /\ temps' = IF temps[name[t]] = Missing THEN temps
                ELSE [temps EXCEPT ![name[t]] = f]
    /\ UNCHANGED <<image, durable>>

\* Mutant of Fail: the directory is synchronised after the rename, and that fails.
FailBehindRename(t) ==
    /\ pc[t] \in Steps
    /\ IF pc[t] = "rename" THEN image' = temps[name[t]] ELSE UNCHANGED image
    /\ Goto(t, "remove") /\ UNCHANGED <<durable, temps, removed>>

\* A system call fails: the closure returns, and the temporary file goes.
Fail(t) ==
    /\ pc[t] \in Steps
    /\ Goto(t, "remove") /\ UNCHANGED <<files, removed>>

\* create_new: there must be no such file.
Create(t) ==
    /\ pc[t] = "create" /\ temps[name[t]] = Missing
    /\ temps' = [temps EXCEPT ![name[t]] =
                   [bytes |-> "torn", synced |-> FALSE, mode |-> "default"]]
    /\ UNCHANGED <<image, durable>>
    /\ Goto(t, IF scenario.file = "disk" THEN "permissions" ELSE "write")
    /\ UNCHANGED removed

\* Mutant of CopyPermissions: the file keeps the mode it was created with.
SkipPermissions(t) ==
    /\ pc[t] = "permissions"
    /\ Goto(t, "write") /\ UNCHANGED <<files, removed>>

\* metadata and set_permissions, of a disk only; an image that is not there
\* has none to copy.  The two are one step: only the first reads what others
\* change, and the second changes the thread's own file alone.
CopyPermissions(t) ==
    /\ pc[t] = "permissions"
    /\ IF image = Missing THEN UNCHANGED files
       ELSE Change(t, [temps[name[t]] EXCEPT !.mode = image.mode])
    /\ Goto(t, "write") /\ UNCHANGED removed

WriteThen(t, step) ==
    /\ pc[t] = "write"
    /\ Change(t, [temps[name[t]] EXCEPT !.bytes = t])
    /\ Goto(t, step) /\ UNCHANGED removed

\* Mutant of Write: no sync_all before the rename.
WriteUnsynced(t) == WriteThen(t, "rename")

\* Mutant of Write: write, which may stop half-way, for write_all.
WriteSome(t) ==
    /\ pc[t] = "write"
    /\ Goto(t, "sync") /\ UNCHANGED <<files, removed>>

\* write_all; a write that stops half-way is Fail, the file being torn still.
Write(t) == WriteThen(t, "sync")

Sync(t) ==
    /\ pc[t] = "sync"
    /\ Change(t, [temps[name[t]] EXCEPT !.synced = TRUE])
    /\ Goto(t, "rename") /\ UNCHANGED removed

\* replace_file, or rename.
Rename(t) ==
    /\ pc[t] = "rename" /\ temps[name[t]] # Missing
    /\ image' = temps[name[t]] /\ UNCHANGED durable
    /\ temps' = [temps EXCEPT ![name[t]] = Missing]
    /\ Return(t) /\ UNCHANGED removed

\* remove_file, whose own error is ignored: also of a file that was there
\* before, when it was create_new that failed.
Remove(t) ==
    /\ pc[t] = "remove"
    /\ \/ Change(t, Missing)
       \/ temps[name[t]] # Missing /\ Change(t, Leftover)
    /\ Return(t) /\ UNCHANGED removed

-----------------------------------------------------------------------------
(* What else happens to the files.                                         *)

ThreadsOf(p) == {t \in Threads : scenario.process[t] = p}

\* Processes ps start again, with any ids that are not in use, and their
\* threads with them; the temporary files these had made stay.
Restart(ps) ==
    LET ts == UNION {ThreadsOf(p) : p \in ps} IN
      /\ pid' \in [Running -> Pids] /\ Distinct(pid')
      /\ \A p \in Running \ ps : pid'[p] = pid[p]
      /\ sequence' = [p \in Running |-> IF p \in ps THEN 0 ELSE sequence[p]]
      /\ pc' = [t \in Threads |-> IF t \in ts THEN "idle" ELSE pc[t]]
      /\ name' = [t \in Threads |-> IF t \in ts THEN NoName ELSE name[t]]
      /\ temps' = [n \in Names |->
                     IF temps[n] # Missing /\ \E t \in ts : name[t] = n
                     THEN Leftover ELSE temps[n]]
      /\ UNCHANGED <<scenario, removed>>

Kill(p) == Restart({p}) /\ UNCHANGED <<image, durable>>

\* The directory reaches the disk, which persist_atomic does not wait for.
HostSyncs ==
    /\ durable' = image
    /\ UNCHANGED <<scenario, image, temps, pid, sequence, pc, name, removed>>

\* What a power failure may leave of a file.
Remains(f) ==
    IF f = Missing \/ f.synced THEN {f}
    ELSE {[f EXCEPT !.synced = TRUE, !.bytes = b] : b \in {f.bytes, "torn"}}

\* The temporary files are still there, which is the worst of what may happen.
PowerFails ==
    /\ image' \in Remains(durable) /\ durable' = image'
    /\ Restart(Running)

UserDeletes ==
    /\ image # Missing /\ image' = Missing
    /\ removed' = TRUE
    /\ UNCHANGED <<scenario, durable, temps, pid, sequence, pc, name>>

Persist(t) ==
    \/ Begin(t) \/ Create(t) \/ CopyPermissions(t) \/ Write(t) \/ Sync(t)
    \/ Rename(t) \/ Remove(t) \/ Fail(t)

Next ==
    \/ \E t \in Threads : Persist(t)
    \/ \E p \in Running : Kill(p)
    \/ HostSyncs \/ PowerFails \/ UserDeletes

Spec == Init /\ [][Next]_vars

-----------------------------------------------------------------------------
\* Whoever reads the image finds a whole one, at every moment and after every
\* power failure: never the bytes of a save that is half done.
WholeImage == image.bytes # "torn"

\* A thread's temporary file is its own from create_new to rename: no other
\* thread, of its process or of another, writes to its name, renames it or
\* removes it, though process ids are used again and though a thread removes
\* a file of its name that it has not created.
TempIsOwn ==
    \A t \in Threads : pc[t] \in Steps \ {"create"} =>
        /\ temps[name[t]] \notin {Missing, Leftover}
        /\ \A u \in Threads \ {t} : name[u] # name[t]

\* What is renamed over the image is the file this very call has written, all
\* of it, and it is on the disk: so a call that returns Ok has saved its bytes.
RenamesOwnBytes ==
    \A t \in Threads : pc[t] = "rename" =>
        temps[name[t]].bytes = t /\ temps[name[t]].synced

\* Saving a disk leaves the permissions of the file as they were, and no file
\* that holds what is being saved has others, not even the temporary one of a
\* save that then fails; unless the image was deleted and made again.
PermissionsKept ==
    scenario.file = "disk" /\ ~removed =>
        /\ image.mode = "users"
        /\ \A n \in Names : temps[n].bytes \in Threads => temps[n].mode = "users"

\* Where a save is, for its caller, when step is next.
Place(step) ==
    CASE step = "idle" -> "none"
      [] step = "remove" -> "refused"
      [] OTHER -> "open"

Calls == [t \in Threads |-> Place(pc[t])]

Atomic == INSTANCE AtomicFile
            WITH Clients <- Threads, content <- image.bytes,
                 durable <- durable.bytes, calls <- Calls

\* The system calls of all savers together are an atomic file: the content
\* changes only when a call returns Ok, to that call's own, and a power
\* failure brings back a whole content that was there before.
ImplementsAtomicFile == Atomic!Spec
=============================================================================
