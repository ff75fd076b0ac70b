--------------------------- MODULE ViewModelProofs ---------------------------
(* Switching profiles undoes no write and loses late ones only, for any       *)
(* profiles, any images they share and any number of writes.                  *)
EXTENDS ViewModel, TLAPS

\* What is in some image file.
OnDisk == UNION {images[i] : i \in Images}

\* A machine that may write an image has all that the image holds.
Ahead ==
    runtime # None /\ Writable(runtime.profile) =>
        images[runtime.profile.image] \subseteq runtime.bytes

\* What the next machine starts from is what its image holds.
Fresh == step = "spawn" => prepared.bytes = Loaded(prepared.profile)

\* Before the active machine is replaced its writes are in an image, but for
\* those that are late or excused; if it may not write there are no late ones.
Stored ==
    runtime # None =>
        /\ ~Writable(runtime.profile) => runtime.bytes \subseteq OnDisk \cup excused
        /\ step \in {"reload", "spawn"} =>
             runtime.bytes \subseteq OnDisk \cup excused \cup late

\* OnlyLateWritesLost, during the calls as well.
Accounted ==
    1 .. writes \subseteq
        OnDisk \cup excused \cup (IF runtime = None THEN {} ELSE runtime.bytes)

\* A save that is due has a machine to save, and nothing holds a write that was
\* not made yet.
Past ==
    /\ step = "save" => runtime # None
    /\ \A i \in Images : images[i] \subseteq 1 .. writes
    /\ runtime # None => runtime.bytes \subseteq 1 .. writes
    /\ prepared # None => prepared.bytes \subseteq 1 .. writes

IInv ==
    /\ TypeOK /\ ShownProfileRuns /\ Past
    /\ Ahead /\ Fresh /\ Stored /\ Accounted

-----------------------------------------------------------------------------
\* The records of the module are told from None by their fields.
LEMMA NotNone ==
    /\ \A p \in Profiles : p # None
    /\ \A m \in Machine : m # None
    /\ \A l \in Launch : l # None
<1>1. \A p \in Profiles : "disk" \in DOMAIN p
  BY ViewModelAssumption
<1>2. \A m \in Machine : "bytes" \in DOMAIN m
  BY DEF Machine
<1>3. \A l \in Launch : "bytes" \in DOMAIN l
  BY DEF Launch
<1>4. "disk" \notin DOMAIN None /\ "bytes" \notin DOMAIN None
  BY DEF None
<1> QED
  BY <1>1, <1>2, <1>3, <1>4

\* A profile that names an image names one of the image files.
LEMMA ProfileTypes ==
    ASSUME NEW p \in Profiles
    PROVE  /\ p.disk \in {"none", "writable", "read_only"}
           /\ p.disk # "none" => p.image \in Images
           /\ Writable(p) <=> p.disk = "writable"
BY ViewModelAssumption, NotNone DEF Writable

\* The machine and the launch, as far as they are there.
LEMMA Types ==
    ASSUME IInv
    PROVE  /\ images \in [Images -> SUBSET Write]
           /\ runtime # None =>
                /\ runtime \in Machine /\ runtime.profile \in Profiles
                /\ runtime.bytes \subseteq Write /\ runtime.profile = profile
           /\ previous # None => previous \in Machine
           /\ prepared # None =>
                /\ prepared \in Launch /\ prepared.profile \in Profiles
                /\ prepared.bytes \subseteq Write /\ prepared.path \in Paths
           /\ prepared # None <=> step \in {"save", "reload", "spawn"}
           /\ previous # None <=> step = "stop"
           /\ writes \in 0 .. MaxWrites /\ MaxWrites \in Nat
           /\ excused \subseteq 1 .. writes /\ late \subseteq 1 .. writes
BY ViewModelAssumption DEF IInv, TypeOK, Machine, Launch, ShownProfileRuns

\* What a profile is loaded with is in an image.
LEMMA LoadedOnDisk ==
    ASSUME NEW p \in Profiles, images \in [Images -> SUBSET Write]
    PROVE  Loaded(p) \subseteq Write /\ Loaded(p) \subseteq OnDisk
BY ProfileTypes DEF Loaded, OnDisk

\* It holds when the program starts.
LEMMA InitIInv == Init => IInv
<1> SUFFICES ASSUME Init PROVE IInv
  OBVIOUS
<1>1. TypeOK
  BY ViewModelAssumption DEF Init, TypeOK, Write
<1>2. ShownProfileRuns /\ Past /\ Ahead /\ Fresh /\ Stored
  BY DEF Init, ShownProfileRuns, Past, Ahead, Fresh, Stored
<1>3. Accounted
  BY DEF Init, Accounted
<1> QED
  BY <1>1, <1>2, <1>3 DEF IInv

-----------------------------------------------------------------------------
\* Storing the active machine's bytes adds them to what is on the disk, and
\* takes nothing away.
LEMMA StoreAdds ==
    ASSUME IInv, runtime # None, Store(runtime)
    PROVE  /\ images' \in [Images -> SUBSET Write]
           /\ \A i \in Images : images[i] \subseteq images'[i]
           /\ OnDisk \subseteq OnDisk' /\ runtime.bytes \subseteq OnDisk'
           /\ images'[runtime.profile.image] = runtime.bytes
<1>1. Writable(runtime.profile) /\ runtime.profile.image \in Images
  BY Types, ProfileTypes DEF Store
<1>2. images' = [images EXCEPT ![runtime.profile.image] = runtime.bytes]
  BY DEF Store
<1>3. images[runtime.profile.image] \subseteq runtime.bytes
  BY <1>1 DEF IInv, Ahead
<1>4. images' \in [Images -> SUBSET Write]
  BY <1>1, <1>2, Types
<1>5. \A i \in Images : images[i] \subseteq images'[i]
  BY <1>2, <1>3, Types
<1>6. images'[runtime.profile.image] = runtime.bytes
  BY <1>1, <1>2, Types
<1> QED
  BY <1>1, <1>4, <1>5, <1>6 DEF OnDisk

\* A step that leaves the images and the machine's profile and bytes alone.
LEMMA Quiet ==
    ASSUME IInv, TypeOK', UNCHANGED <<images, path, profile, writes>>,
           excused \subseteq excused',
           step' \in {"reload", "spawn"} => late \subseteq late',
           runtime = None => runtime' = None,
           runtime # None =>
             /\ runtime' # None
             /\ runtime'.profile = runtime.profile /\ runtime'.bytes = runtime.bytes,
           step = "closed" <=> step' = "closed", Fresh',
           step' = "save" => runtime # None,
           prepared' # None => prepared'.bytes \subseteq 1 .. writes,
           step' \in {"reload", "spawn"} /\ runtime # None =>
             ~Writable(runtime.profile) \/ step \in {"reload", "spawn"}
    PROVE  IInv'
<1> USE DEF IInv
<1>1. ShownProfileRuns'
  BY DEF ShownProfileRuns
<1>2. Past' /\ Ahead'
  BY DEF Past, Ahead
<1>3. OnDisk' = OnDisk
  BY DEF OnDisk
<1>4. Stored'
  BY <1>3 DEF Stored
<1>5. Accounted'
  BY <1>3 DEF Accounted
<1> QED
  BY <1>1, <1>2, <1>4, <1>5

\* A step that stores the active machine's bytes, and keeps the machine.
LEMMA Saved ==
    ASSUME IInv, TypeOK', runtime # None, Store(runtime),
           UNCHANGED <<path, profile, runtime, history>>,
           step # "closed", step' # "closed", step' # "save", Fresh',
           prepared' # None => prepared'.bytes \subseteq 1 .. writes
    PROVE  IInv'
<1> USE DEF IInv, history
<1>1. ShownProfileRuns'
  BY DEF ShownProfileRuns
<1>2. Writable(runtime.profile) /\ runtime.profile.image \in Images
      /\ images' = [images EXCEPT ![runtime.profile.image] = runtime.bytes]
  BY Types, ProfileTypes DEF Store
<1>3. Past'
  BY <1>2, Types DEF Past
<1>4. Ahead'
  BY StoreAdds DEF Ahead
<1>5. Stored' /\ Accounted'
  BY StoreAdds DEF Stored, Accounted
<1> QED
  BY <1>1, <1>3, <1>4, <1>5

-----------------------------------------------------------------------------
(* open_profile.                                                           *)

\* Loading a profile: without a save to do, nothing is lost by going on.
LEMMA OpenIInv ==
    ASSUME IInv, NEW p \in Paths, Open(p)
    PROVE  IInv'
<1> USE DEF Open, NeedsSave, diskFiles, fields, history
<1>1. files[p] \in Profiles /\ prepared' \in Launch
  BY Types, LoadedOnDisk DEF IInv, TypeOK, Launch
<1>2. TypeOK'
  BY <1>1, NotNone DEF IInv, TypeOK
<1>3. Fresh'
  BY DEF Fresh, Loaded
<1>4. /\ runtime # None /\ step' = "spawn" => ~Writable(runtime.profile)
      /\ step' = "save" => runtime # None
  BY Types DEF IInv, ShownProfileRuns, Writable
<1>5. prepared'.bytes \subseteq 1 .. writes
  BY <1>1, ProfileTypes DEF Loaded, IInv, Past
<1> QED
  BY <1>2, <1>3, <1>4, <1>5, Quiet

\* A save that fails pauses the machine at most.
LEMMA SaveErrKeeps ==
    ASSUME IInv, runtime # None, SaveErr
    PROVE  /\ runtime' \in Machine /\ runtime' # None
           /\ runtime'.profile = runtime.profile /\ runtime'.bytes = runtime.bytes
<1>1. runtime \in Machine
  BY Types
<1>2. /\ runtime' \in Machine /\ runtime'.profile = runtime.profile
      /\ runtime'.bytes = runtime.bytes
  BY <1>1 DEF SaveErr, Machine
<1> QED
  BY <1>2, NotNone

\* The active machine's disk is saved, or saving fails and ends the call.
LEMMA SaveBeforeIInv ==
    ASSUME IInv, SaveBefore
    PROVE  IInv'
<1> USE DEF SaveBefore, history, launch, diskFiles, fields
<1>1. runtime # None /\ prepared # None
  BY Types DEF IInv, Past
<1>2. CASE SaveOk /\ step' = "reload" /\ UNCHANGED prepared
  <2>1. images' \in [Images -> SUBSET Write] /\ Store(runtime)
    BY <1>1, <1>2, StoreAdds DEF SaveOk
  <2>2. TypeOK'
    BY <1>2, <2>1 DEF IInv, TypeOK, SaveOk
  <2>3. Fresh'
    BY <1>2 DEF Fresh
  <2> QED
    BY <1>1, <1>2, <2>1, <2>2, <2>3, Saved DEF SaveOk, IInv, Past
<1>3. CASE SaveErr /\ Return
  <2>1. TypeOK'
    BY <1>1, <1>3, SaveErrKeeps DEF IInv, TypeOK, SaveErr, Return
  <2>2. Fresh'
    BY <1>3 DEF Fresh, Return
  <2> QED
    BY <1>1, <1>3, <2>1, <2>2, SaveErrKeeps, Quiet DEF SaveErr, Return
<1> QED
  BY <1>2, <1>3

\* The new disk is read again.
LEMMA ReloadIInv ==
    ASSUME IInv, Reload
    PROVE  IInv'
<1> USE DEF Reload, history, diskFiles, fields
<1>1. prepared # None /\ prepared \in Launch /\ prepared.profile \in Profiles
      /\ images \in [Images -> SUBSET Write]
  BY Types
<1>2. prepared' \in Launch /\ prepared'.bytes = Loaded(prepared.profile)
      /\ prepared'.profile = prepared.profile
  BY <1>1, LoadedOnDisk DEF Launch
<1>3. TypeOK'
  BY <1>1, <1>2, NotNone DEF IInv, TypeOK
<1>4. Fresh'
  BY <1>2 DEF Fresh, Loaded
<1>5. prepared'.bytes \subseteq 1 .. writes
  BY <1>1, <1>2, ProfileTypes DEF Loaded, IInv, Past
<1> QED
  BY <1>3, <1>4, <1>5, Quiet

\* An error half-way leaves the active machine as it is.
LEMMA FailIInv ==
    ASSUME IInv, Fail
    PROVE  IInv'
<1> USE DEF Fail, Return, history, diskFiles, fields
<1>1. TypeOK'
  BY DEF IInv, TypeOK
<1>2. Fresh'
  BY DEF Fresh
<1> QED
  BY <1>1, <1>2, Quiet

\* The new machine takes the place of the old one, whose writes are stored.
LEMMA SpawnIInv ==
    ASSUME IInv, Spawn
    PROVE  IInv'
<1> USE DEF Spawn, New, history, diskFiles
<1>1. /\ prepared # None /\ prepared \in Launch /\ prepared.profile \in Profiles
      /\ prepared.bytes \subseteq Write /\ prepared.path \in Paths
      /\ images \in [Images -> SUBSET Write]
  BY Types
<1>2. /\ runtime' \in Machine /\ runtime'.profile = prepared.profile
      /\ runtime'.bytes = prepared.bytes
  BY <1>1 DEF Machine
<1>3. ShownProfileRuns'
  <2>1. runtime' # None /\ path' # None /\ profile' # None
    BY <1>1, <1>2, NotNone, ViewModelAssumption
  <2>2. runtime'.profile = profile'
    BY <1>2
  <2> QED
    BY <2>1, <2>2 DEF ShownProfileRuns
<1>4. TypeOK'
  BY <1>1, <1>2, NotNone DEF IInv, TypeOK
<1>5. prepared.bytes = Loaded(prepared.profile)
  BY DEF IInv, Fresh
<1>6. OnDisk' = OnDisk
  BY DEF OnDisk
<1>7. Past' /\ Fresh'
  BY <1>1, <1>2 DEF IInv, Past, Fresh
<1>8. Ahead'
  BY <1>1, <1>2, <1>5, ProfileTypes DEF Ahead, Loaded
<1>9. Stored'
  BY <1>1, <1>2, <1>5, <1>6, LoadedOnDisk DEF Stored
<1>10. Accounted'
  BY <1>6 DEF IInv, Accounted, Stored
<1> QED
  BY <1>3, <1>4, <1>7, <1>8, <1>9, <1>10 DEF IInv

\* The machine that was replaced is stopped.
LEMMA StopPreviousIInv ==
    ASSUME IInv, StopPrevious
    PROVE  IInv'
<1> USE DEF StopPrevious, history, diskFiles, fields
<1>1. TypeOK'
  BY Types DEF IInv, TypeOK
<1>2. Fresh'
  BY DEF Fresh
<1> QED
  BY <1>1, <1>2, Types, Quiet

-----------------------------------------------------------------------------
(* The other calls.                                                        *)

\* Writing the profile file, from the UI or from the user's editor: the profile
\* that is open was read before.
LEMMA FilesIInv ==
    ASSUME IInv, files' \in [Paths -> Profiles],
           UNCHANGED <<images, fields, step, launch, history>>
    PROVE  IInv'
<1> USE DEF launch, history, fields
<1>1. TypeOK'
  BY DEF IInv, TypeOK
<1>2. Fresh'
  BY DEF IInv, Fresh, Loaded
<1> QED
  BY <1>1, <1>2, Types, Quiet DEF IInv, Past

\* A save that the user asked for.
LEMMA SaveDiskIInv ==
    ASSUME IInv, SaveDisk
    PROVE  IInv'
<1> USE DEF SaveDisk, history, launch, diskFiles, fields
<1>1. Fresh' /\ prepared = None
  BY Types DEF Fresh
<1>2. CASE SaveOk
  <2>1. images' \in [Images -> SUBSET Write] /\ Store(runtime)
    BY <1>2, StoreAdds DEF SaveOk
  <2>2. TypeOK'
    BY <1>2, <2>1 DEF IInv, TypeOK, SaveOk
  <2> QED
    BY <1>1, <1>2, <2>1, <2>2, Saved DEF SaveOk
<1>3. CASE SaveErr
  <2>1. TypeOK'
    BY <1>3, SaveErrKeeps DEF IInv, TypeOK, SaveErr
  <2> QED
    BY <1>1, <1>3, <2>1, SaveErrKeeps, Quiet DEF SaveErr
<1> QED
  BY <1>2, <1>3 DEF SaveDisk

\* Pausing the machine, or letting it run.
LEMMA CommandIInv ==
    ASSUME IInv, Command
    PROVE  IInv'
<1> USE DEF Command, history, launch, diskFiles
<1>1. runtime \in Machine
  BY Types
<1>2. /\ runtime' \in Machine /\ runtime'.profile = runtime.profile
      /\ runtime'.bytes = runtime.bytes
  BY <1>1 DEF Machine
<1>3. runtime' # None
  BY <1>2, NotNone
<1>4. TypeOK'
  BY <1>2 DEF IInv, TypeOK
<1>5. Fresh' /\ prepared = None
  BY Types DEF Fresh
<1> QED
  BY <1>2, <1>3, <1>4, <1>5, Quiet

\* At the end the machine's writes are stored, or they are excused.
LEMMA CloseIInv ==
    ASSUME IInv, Close
    PROVE  IInv'
<1> USE DEF Close, launch
<1>1. /\ runtime # None /\ prepared = None /\ previous = None
      /\ runtime.profile = profile /\ runtime.bytes \subseteq 1 .. writes
  BY Types DEF IInv, Past
<1>2. /\ images' \in [Images -> SUBSET Write]
      /\ \A i \in Images : images'[i] \subseteq 1 .. writes
      /\ OnDisk \subseteq OnDisk'
  <2>1. CASE Store(runtime)
    <3>1. Writable(runtime.profile) /\ runtime.profile.image \in Images
          /\ images' = [images EXCEPT ![runtime.profile.image] = runtime.bytes]
      BY <1>1, <2>1, Types, ProfileTypes DEF Store
    <3>2. \A i \in Images : images'[i] \subseteq 1 .. writes
      BY <1>1, <3>1, Types DEF IInv, Past
    <3> QED
      BY <1>1, <2>1, <3>2, StoreAdds
  <2>2. CASE UNCHANGED images
    BY <2>2, Types DEF IInv, Past, OnDisk
  <2> QED
    BY <2>1, <2>2
<1>3. /\ excused \subseteq excused' /\ excused' \subseteq 1 .. writes
      /\ runtime.bytes \subseteq OnDisk' \cup excused'
  <2>1. CASE Store(runtime) /\ UNCHANGED excused
    BY <1>1, <2>1, Types, StoreAdds
  <2>2. CASE UNCHANGED images /\ Writable(profile)
             /\ excused' = excused \cup runtime.bytes
    BY <1>1, <2>2, Types
  <2>3. CASE UNCHANGED <<images, excused>> /\ ~Writable(profile)
    BY <1>1, <1>2, <2>3, Types DEF IInv, Stored
  <2> QED
    BY <2>1, <2>2, <2>3
<1>4. TypeOK'
  BY <1>1, <1>2, <1>3, Types DEF IInv, TypeOK
<1>5. ShownProfileRuns' /\ Ahead' /\ Stored' /\ Fresh'
  BY DEF IInv, ShownProfileRuns, Ahead, Stored, Fresh
<1>6. Past'
  BY <1>1, <1>2 DEF Past
<1>7. Accounted'
  BY <1>2, <1>3 DEF IInv, Accounted
<1> QED
  BY <1>4, <1>5, <1>6, <1>7 DEF IInv

-----------------------------------------------------------------------------
(* The machines.                                                           *)

\* A write of the active machine is in its bytes, which the next save stores.
LEMMA GuestWritesIInv ==
    ASSUME IInv, GuestWrites
    PROVE  IInv'
<1> USE DEF GuestWrites, GuestOf, diskFiles
<1>1. /\ runtime # None /\ runtime \in Machine /\ runtime.profile = profile
      /\ runtime.profile \in Profiles /\ runtime.bytes \subseteq Write
      /\ runtime.bytes \subseteq 1 .. writes
  BY Types DEF IInv, Past
<1>2. /\ writes' = writes + 1 /\ writes \in Nat /\ writes' \in Write
      /\ 1 .. writes' = 1 .. writes \cup {writes'} /\ writes' \in 0 .. MaxWrites
  BY Types DEF Write
<1>3. /\ runtime' \in Machine /\ runtime'.profile = runtime.profile
      /\ runtime'.bytes = runtime.bytes \cup {writes'}
  BY <1>1, <1>2 DEF Machine
<1>4. runtime' # None /\ Writable(runtime'.profile)
  BY <1>1, <1>3, NotNone, ProfileTypes
<1>5. late' \subseteq late \cup {writes'} /\ excused' = excused
  OBVIOUS
<1>6. TypeOK'
  BY <1>2, <1>3, <1>5, Types DEF IInv, TypeOK
<1>7. ShownProfileRuns'
  BY <1>1, <1>3, <1>4 DEF IInv, ShownProfileRuns
<1>8. OnDisk' = OnDisk
  BY DEF OnDisk
<1>9. Past' /\ Fresh'
  <2>1. /\ \A i \in Images : images[i] \subseteq 1 .. writes'
        /\ runtime'.bytes \subseteq 1 .. writes'
        /\ prepared # None => prepared.bytes \subseteq 1 .. writes'
    BY <1>1, <1>2, <1>3 DEF IInv, Past
  <2>2. Past'
    BY <1>4, <2>1 DEF Past
  <2>3. Fresh'
    BY DEF IInv, Fresh, Loaded
  <2> QED
    BY <2>2, <2>3
<1>10. Ahead'
  <2>1. images[runtime.profile.image] \subseteq runtime.bytes
    BY <1>1, <1>3, <1>4 DEF IInv, Ahead
  <2> QED
    BY <1>3, <2>1 DEF Ahead
<1>11. Stored'
  BY <1>1, <1>3, <1>4, <1>8 DEF IInv, Stored
<1>12. Accounted'
  BY <1>1, <1>2, <1>3, <1>4, <1>5, <1>8 DEF IInv, Accounted
<1> QED
  BY <1>6, <1>7, <1>9, <1>10, <1>11, <1>12 DEF IInv

\* A write of the machine that was replaced is lost, and it comes late.
LEMMA PreviousWritesIInv ==
    ASSUME IInv, PreviousWrites
    PROVE  IInv'
<1> USE DEF PreviousWrites, GuestOf, diskFiles
<1>1. previous # None /\ previous \in Machine
  BY Types
<1>2. /\ writes' = writes + 1 /\ writes \in Nat /\ writes' \in Write
      /\ 1 .. writes' = 1 .. writes \cup {writes'} /\ writes' \in 0 .. MaxWrites
  BY Types DEF Write
<1>3. previous' \in Machine /\ previous' # None
  BY <1>1, <1>2, NotNone DEF Machine
<1>4. TypeOK'
  BY <1>1, <1>2, <1>3, Types DEF IInv, TypeOK
<1>5. OnDisk' = OnDisk
  BY DEF OnDisk
<1>6. ShownProfileRuns' /\ Ahead' /\ Fresh'
  BY DEF IInv, ShownProfileRuns, Ahead, Fresh, Loaded
<1>7. Past'
  BY <1>2 DEF IInv, Past
<1>8. Stored' /\ Accounted'
  BY <1>2, <1>5 DEF IInv, Stored, Accounted
<1> QED
  BY <1>4, <1>6, <1>7, <1>8 DEF IInv

\* What a machine held whose worker panics is excused.
LEMMA WorkerPanicsIInv ==
    ASSUME IInv, WorkerPanics
    PROVE  IInv'
<1> USE DEF WorkerPanics, launch, diskFiles
<1>1. runtime \in Machine /\ runtime.bytes \subseteq 1 .. writes
  BY Types DEF IInv, Past
<1>2. /\ runtime' \in Machine /\ runtime'.profile = runtime.profile
      /\ runtime'.bytes = runtime.bytes
  BY <1>1 DEF Machine
<1>3. runtime' # None
  BY <1>2, NotNone
<1>4. TypeOK'
  BY <1>1, <1>2, Types DEF IInv, TypeOK
<1>5. Fresh'
  BY DEF IInv, Fresh, Loaded
<1> QED
  BY <1>2, <1>3, <1>4, <1>5, Types, Quiet DEF IInv, Past

-----------------------------------------------------------------------------
\* Every step preserves the invariant.
LEMMA NextIInv ==
    ASSUME IInv, [Next]_vars
    PROVE  IInv'
<1>1. CASE OpenProfile
  BY <1>1, OpenIInv, SaveBeforeIInv, ReloadIInv, FailIInv, SpawnIInv,
     StopPreviousIInv DEF OpenProfile
<1>2. CASE SaveProfile
  <2>1. files' \in [Paths -> Profiles]
    BY <1>2 DEF SaveProfile, IInv, TypeOK, ShownProfileRuns
  <2> QED
    BY <1>2, <2>1, FilesIInv DEF SaveProfile
<1>3. CASE UserEdits
  <2>1. files' \in [Paths -> Profiles]
    BY <1>3 DEF UserEdits, IInv, TypeOK
  <2> QED
    BY <1>3, <2>1, FilesIInv DEF UserEdits
<1>4. CASE UNCHANGED vars
  BY <1>4, FilesIInv DEF vars, diskFiles, IInv, TypeOK
<1> QED
  BY <1>1, <1>2, <1>3, <1>4, SaveDiskIInv, CommandIInv, CloseIInv,
     GuestWritesIInv, PreviousWritesIInv, WorkerPanicsIInv DEF Next

\* The inductive invariant of the view model.
THEOREM Inductive == Spec => []IInv
BY InitIInv, NextIInv, PTL DEF Spec

\* Type correctness: a launch exists exactly during a switch, and a replaced
\* machine exactly until it is stopped.
THEOREM TypeCorrect == Spec => []TypeOK
BY Inductive, PTL DEF IInv

\* open_profile shows the profile of the machine that runs, whatever fails.
THEOREM ShownAlwaysRuns == Spec => []ShownProfileRuns
BY Inductive, PTL DEF IInv

\* Switching loses no write but those that came after its save.
THEOREM LateWritesAloneLost == Spec => []OnlyLateWritesLost
<1>1. IInv => OnlyLateWritesLost
  BY DEF IInv, Accounted, OnlyLateWritesLost, OnDisk
<1> QED
  BY <1>1, Inductive, PTL

\* No save, of a switch or of another call, takes back what an image holds.
THEOREM NothingEverUndone == Spec => NothingUndone
<1>1. IInv /\ [Next]_vars => [\A i \in Images : images[i] \subseteq images'[i]]_vars
  <2> SUFFICES ASSUME IInv, Next
               PROVE  \A i \in Images : images[i] \subseteq images'[i]
    OBVIOUS
  <2>1. CASE UNCHANGED images
    BY <2>1
  <2>2. CASE runtime # None /\ Store(runtime)
    BY <2>2, StoreAdds
  <2>3. CASE OpenProfile
    <3>1. SaveBefore => UNCHANGED images \/ (runtime # None /\ Store(runtime))
      BY DEF SaveBefore, SaveOk, SaveErr, diskFiles, IInv, Past
    <3> QED
      BY <2>1, <2>2, <2>3, <3>1 DEF OpenProfile, Open, Reload, Fail, Spawn,
         StopPrevious, diskFiles
  <2>4. CASE SaveDisk
    BY <2>1, <2>2, <2>4 DEF SaveDisk, SaveOk, SaveErr, diskFiles
  <2>5. CASE Close
    BY <2>1, <2>2, <2>5 DEF Close
  <2>6. SaveProfile \/ Command \/ GuestWrites \/ PreviousWrites
        \/ WorkerPanics \/ UserEdits => UNCHANGED images
    BY DEF SaveProfile, Command, GuestWrites, PreviousWrites, GuestOf,
       WorkerPanics, UserEdits, diskFiles
  <2> QED
    BY <2>1, <2>3, <2>4, <2>5, <2>6 DEF Next
<1> QED
  BY <1>1, Inductive, PTL DEF Spec, NothingUndone
=============================================================================
