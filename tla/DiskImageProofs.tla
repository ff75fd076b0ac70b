--------------------------- MODULE DiskImageProofs ---------------------------
(* A save's temporary file is its own and the image is whole, for any number  *)
(* of processes and threads, whatever fails and whoever is killed.            *)
EXTENDS DiskImage, TLAPS

Writing == {"permissions", "write", "sync", "rename"}
Copied == {"write", "sync", "rename"}

\* Process ids are not shared, and the only save of a profile in its process
\* leaves the sequence alone.
Counted ==
    /\ Distinct(pid)
    /\ scenario.file = "profile" => \A p \in Running : sequence[p] = 0

\* A temporary name holds the id of its process, and a number that was used up.
Numbered ==
    \A t \in Threads : pc[t] # "idle" =>
        /\ name[t][1] = pid[scenario.process[t]]
        /\ scenario.file = "disk" => name[t][2] < sequence[scenario.process[t]]

NamesApart ==
    \A t, u \in Threads :
        t # u /\ pc[t] # "idle" /\ pc[u] # "idle" => name[t] # name[u]

\* From create_new to rename there is a file, with what was done to it so far.
Held ==
    \A t \in Threads : pc[t] \in Writing =>
        /\ temps[name[t]] \in File
        /\ pc[t] \in {"sync", "rename"} => temps[name[t]].bytes = t
        /\ pc[t] = "rename" => temps[name[t]].synced

Whole ==
    \A f \in {image, durable} : f # Missing => f.synced /\ f.bytes # "torn"

\* What a thread saves is in no file of another mode than the image's.
Private(f) == f.bytes \in Threads => f.mode = "users"

\* As long as a disk's image is not deleted, it keeps its mode on the disk too,
\* and so does every file that is past the copy of the permissions or was.
Kept ==
    scenario.file = "disk" /\ ~removed =>
        /\ \A f \in {image, durable} : f # Missing /\ f.mode = "users"
        /\ \A t \in Threads : pc[t] \in Copied => temps[name[t]].mode = "users"
        /\ \A n \in Names : Private(temps[n])

IInv == TypeOK /\ Counted /\ Numbered /\ NamesApart /\ Held /\ Whole /\ Kept

-----------------------------------------------------------------------------
\* A file is neither missing nor a leftover.
LEMMA FileIsThere ==
    ASSUME NEW f \in File
    PROVE  f # Missing /\ f # Leftover
<1>1. f.bytes \in Threads \cup {"first", "torn"}
  BY DEF File
<1>2. f.bytes # "missing" /\ f.bytes # "leftover"
  BY <1>1, DiskImageAssumption
<1> QED
  BY <1>2 DEF Missing, Leftover

\* What has not been written yet, or was left behind, is no thread's bytes.
LEMMA NobodysBytes ==
    ASSUME NEW f, f \in {Missing, Leftover} \/ f.bytes = "torn"
    PROVE  Private(f)
<1>1. f.bytes \in {"missing", "leftover", "torn"}
  BY DEF Missing, Leftover
<1> QED
  BY <1>1, DiskImageAssumption DEF Private

\* What a scenario may say.
LEMMA ScenarioTypes ==
    ASSUME TypeOK
    PROVE  /\ scenario.file \in {"disk", "profile"}
           /\ scenario.saves \in 1 .. MaxSequence
           /\ scenario.process \in [Threads -> Processes]
           /\ \A t \in Threads : scenario.process[t] \in Running
           /\ MaxSequence \in Nat \ {0}
BY DiskImageAssumption DEF TypeOK, Running

\* It holds at first, when nobody saves.
LEMMA InitIInv == Init => IInv
<1> SUFFICES ASSUME Init PROVE IInv
  OBVIOUS
<1>1. scenario \in Scenarios /\ scenario.process \in [Threads -> Processes]
      /\ MaxSequence \in Nat \ {0}
  BY DiskImageAssumption DEF Init
<1>2. image \in File /\ durable \in File
  BY DEF Init, File
<1>3. TypeOK
  <2>1. sequence \in [Running -> 0 .. MaxSequence]
    BY <1>1 DEF Init
  <2>2. temps \in [Names -> File \cup {Missing, Leftover}]
    BY DEF Init
  <2>3. /\ pc \in [Threads -> Steps \cup {"idle", "remove"}]
        /\ name \in [Threads -> Names \cup {NoName}]
        /\ \A t \in Threads : name[t] = NoName <=> pc[t] = "idle"
    BY DEF Init
  <2> QED
    BY <1>1, <1>2, <2>1, <2>2, <2>3 DEF Init, TypeOK
<1>4. Whole
  BY DEF Init, Whole
<1>5. Kept
  <2>1. image # Missing
    BY <1>2, FileIsThere
  <2>2. \A n \in Names : Private(temps[n])
    BY NobodysBytes DEF Init
  <2> QED
    BY <2>1, <2>2 DEF Init, Kept, Copied
<1> QED
  BY <1>1, <1>3, <1>4, <1>5 DEF Init, IInv, Counted, Numbered, NamesApart, Held, Writing

-----------------------------------------------------------------------------
\* A system call that makes of the thread's own temporary file what its next
\* step expects disturbs nobody.
LEMMA OwnFile ==
    ASSUME IInv, NEW t \in Threads, pc[t] # "idle",
           NEW step \in Steps \cup {"remove"}, Goto(t, step),
           NEW f \in File \cup {Missing, Leftover},
           temps' = [temps EXCEPT ![name[t]] = f],
           UNCHANGED <<image, durable, removed>>,
           step \in Writing =>
             /\ f \in File
             /\ step \in {"sync", "rename"} => f.bytes = t
             /\ step = "rename" => f.synced,
           scenario.file = "disk" /\ ~removed =>
             Private(f) /\ (step \in Copied => f.mode = "users")
    PROVE  IInv'
<1> USE DEF IInv, Goto
<1>1. name[t] \in Names /\ name' = name /\ scenario' = scenario
      /\ pid' = pid /\ sequence' = sequence
  BY DEF TypeOK, NoName
<1>2. pc \in [Threads -> Steps \cup {"idle", "remove"}]
      /\ temps \in [Names -> File \cup {Missing, Leftover}]
  BY DEF TypeOK
<1>3. TypeOK'
  BY <1>1, <1>2 DEF TypeOK, Running, Steps
<1>4. Counted'
  BY <1>1 DEF Counted, Distinct, Running
<1>5. \A u \in Threads : pc'[u] # "idle" => pc[u] # "idle"
  BY <1>2
<1>6. Numbered' /\ NamesApart'
  BY <1>1, <1>5 DEF Numbered, NamesApart
<1>7. Held'
  <2> SUFFICES ASSUME NEW u \in Threads, pc'[u] \in Writing
               PROVE  /\ temps'[name[u]] \in File
                      /\ pc'[u] \in {"sync", "rename"} => temps'[name[u]].bytes = u
                      /\ pc'[u] = "rename" => temps'[name[u]].synced
    BY <1>1 DEF Held
  <2>1. CASE u = t
    <3>1. temps'[name[u]] = f /\ pc'[u] = step
      BY <2>1, <1>1, <1>2
    <3> QED
      BY <3>1, <2>1
  <2>2. CASE u # t
    <3>1. pc'[u] = pc[u] /\ pc[u] # "idle"
      BY <2>2, <1>2 DEF Writing
    <3>2. name[u] # name[t] /\ name[u] \in Names
      BY <2>2, <3>1 DEF NamesApart, TypeOK, NoName
    <3>3. temps'[name[u]] = temps[name[u]]
      BY <3>2, <1>2
    <3> QED
      BY <3>1, <3>3 DEF Held
  <2> QED
    BY <2>1, <2>2
<1>8. Whole'
  BY DEF Whole
<1>9. Kept'
  <2>0. scenario.file = "disk" /\ ~removed => \A n \in Names : Private(temps'[n])
    <3> SUFFICES ASSUME scenario.file = "disk", ~removed, NEW n \in Names
                 PROVE  Private(temps'[n])
      OBVIOUS
    <3>1. CASE n = name[t]
      BY <3>1, <1>2
    <3>2. CASE n # name[t]
      BY <3>2, <1>2 DEF Kept
    <3> QED
      BY <3>1, <3>2
  <2> SUFFICES ASSUME scenario.file = "disk", ~removed,
                      NEW u \in Threads, pc'[u] \in Copied
               PROVE  temps'[name[u]].mode = "users"
    BY <1>1, <2>0 DEF Kept, Private
  <2>1. CASE u = t
    BY <2>1, <1>1, <1>2
  <2>2. CASE u # t
    <3>1. pc'[u] = pc[u] /\ pc[u] # "idle"
      BY <2>2, <1>2 DEF Copied
    <3>2. name[u] # name[t] /\ name[u] \in Names
      BY <2>2, <3>1 DEF NamesApart, TypeOK, NoName
    <3> QED
      BY <3>1, <3>2, <1>2 DEF Kept
  <2> QED
    BY <2>1, <2>2
<1> QED
  BY <1>3, <1>4, <1>6, <1>7, <1>8, <1>9

\* A save that ends leaves its name behind, and an image that is whole.
LEMMA Leaves ==
    ASSUME IInv, NEW t \in Threads, pc[t] # "idle", Return(t),
           NEW f \in File \cup {Missing, Leftover},
           temps' = [temps EXCEPT ![name[t]] = f],
           image' \in File \cup {Missing},
           image' # Missing => image'.synced /\ image'.bytes # "torn",
           scenario.file = "disk" /\ ~removed =>
             Private(f) /\ image' # Missing /\ image'.mode = "users",
           UNCHANGED <<durable, removed>>
    PROVE  IInv'
<1> USE DEF IInv, Return
<1>1. scenario' = scenario /\ pid' = pid /\ sequence' = sequence
  OBVIOUS
<1>2. /\ pc \in [Threads -> Steps \cup {"idle", "remove"}]
      /\ name \in [Threads -> Names \cup {NoName}]
      /\ name[t] \in Names
      /\ temps \in [Names -> File \cup {Missing, Leftover}]
  BY DEF TypeOK
<1>3. \A u \in Threads : pc'[u] # "idle" =>
        u # t /\ pc'[u] = pc[u] /\ name'[u] = name[u] /\ name[u] # name[t]
  BY <1>2 DEF NamesApart
<1>4. TypeOK'
  <2>1. \A u \in Threads : name'[u] = NoName <=> pc'[u] = "idle"
    BY <1>2 DEF TypeOK
  <2>2. /\ pc' \in [Threads -> Steps \cup {"idle", "remove"}]
        /\ name' \in [Threads -> Names \cup {NoName}]
        /\ temps' \in [Names -> File \cup {Missing, Leftover}]
    BY <1>2
  <2> QED
    BY <1>1, <2>1, <2>2 DEF TypeOK, Running
<1>5. Counted'
  BY <1>1 DEF Counted, Distinct, Running
<1>6. Numbered' /\ NamesApart'
  BY <1>1, <1>3 DEF Numbered, NamesApart
<1>7. Held'
  <2> SUFFICES ASSUME NEW u \in Threads, pc'[u] \in Writing
               PROVE  /\ temps'[name'[u]] \in File
                      /\ pc'[u] \in {"sync", "rename"} => temps'[name'[u]].bytes = u
                      /\ pc'[u] = "rename" => temps'[name'[u]].synced
    BY DEF Held
  <2>1. /\ pc'[u] = pc[u] /\ name'[u] = name[u] /\ name[u] # name[t]
        /\ name[u] \in Names
    BY <1>3, <1>2 DEF TypeOK, Writing
  <2>2. temps'[name'[u]] = temps[name[u]]
    BY <2>1, <1>2
  <2> QED
    BY <2>1, <2>2 DEF Held
<1>8. Whole'
  BY DEF Whole
<1>9. Kept'
  <2>0. scenario.file = "disk" /\ ~removed => \A n \in Names : Private(temps'[n])
    <3> SUFFICES ASSUME scenario.file = "disk", ~removed, NEW n \in Names
                 PROVE  Private(temps'[n])
      OBVIOUS
    <3>1. CASE n = name[t]
      BY <3>1, <1>2
    <3>2. CASE n # name[t]
      BY <3>2, <1>2 DEF Kept
    <3> QED
      BY <3>1, <3>2
  <2> SUFFICES ASSUME scenario.file = "disk", ~removed,
                      NEW u \in Threads, pc'[u] \in Copied
               PROVE  temps'[name'[u]].mode = "users"
    BY <1>1, <2>0 DEF Kept, Private
  <2>1. /\ pc'[u] = pc[u] /\ name'[u] = name[u] /\ name[u] # name[t]
        /\ name[u] \in Names
    BY <1>3, <1>2 DEF TypeOK, Copied
  <2> QED
    BY <2>1, <1>2 DEF Kept
<1> QED
  BY <1>4, <1>5, <1>6, <1>7, <1>8, <1>9

-----------------------------------------------------------------------------
\* The name a save begins with is new: another process has another id, and the
\* saves of this one have used smaller numbers.
LEMMA BeginIsApart ==
    ASSUME IInv, NEW t \in Threads, NEW u \in Threads, u # t, pc[u] # "idle"
    PROVE  name[u] # TempName(scenario.process[t])
<1> USE DEF IInv
<1>1. name[u][1] = pid[scenario.process[u]]
  BY DEF Numbered
<1>2. CASE scenario.process[u] # scenario.process[t]
  <2>1. pid[scenario.process[u]] # pid[scenario.process[t]]
    BY <1>2, ScenarioTypes DEF Counted, Distinct
  <2> QED
    BY <1>1, <2>1 DEF TempName
<1>3. CASE scenario.process[u] = scenario.process[t]
  <2>1. scenario.file = "disk"
    BY <1>3, ScenarioTypes, DiskImageAssumption DEF TypeOK
  <2>2. name[u][2] < sequence[scenario.process[t]]
    BY <2>1, <1>3 DEF Numbered
  <2>3. sequence[scenario.process[t]] \in Nat
    BY ScenarioTypes DEF TypeOK
  <2> QED
    BY <2>2, <2>3 DEF TempName
<1> QED
  BY <1>2, <1>3

\* A save begins.
LEMMA BeginIInv ==
    ASSUME IInv, NEW t \in Threads, Begin(t)
    PROVE  IInv'
<1> DEFINE p == scenario.process[t]
<1> USE DEF IInv, Begin
<1>1. /\ scenario' = scenario /\ pid' = pid /\ temps' = temps
      /\ pc[t] = "idle" /\ p \in Running
  BY ScenarioTypes DEF files
<1>2. /\ pc \in [Threads -> Steps \cup {"idle", "remove"}]
      /\ name \in [Threads -> Names \cup {NoName}]
      /\ sequence \in [Running -> 0 .. MaxSequence]
      /\ pid \in [Running -> Pids]
  BY DEF TypeOK
<1>3. MaxSequence \in Nat \ {0} /\ scenario.saves \in 1 .. MaxSequence
  BY ScenarioTypes
<1>4. sequence[p] \in 0 .. MaxSequence - 1
  BY <1>1, <1>2, <1>3, ScenarioTypes DEF Counted
<1>5. TempName(p) \in Names
  BY <1>1, <1>2, <1>4 DEF TempName, Names
<1>6. /\ \A q \in Running : sequence[q] <= sequence'[q]
      /\ scenario.file = "disk" => sequence'[p] = sequence[p] + 1
      /\ sequence' \in [Running -> 0 .. MaxSequence]
  <2>1. CASE scenario.file = "profile"
    BY <2>1, <1>2
  <2>2. CASE scenario.file = "disk"
    BY <2>2, <1>1, <1>2, <1>3, <1>4
  <2> QED
    BY <2>1, <2>2, ScenarioTypes
<1>7. TempName(p) # NoName
  BY DEF TempName, NoName
<1>8. TypeOK'
  <2>1. /\ pc' \in [Threads -> Steps \cup {"idle", "remove"}]
        /\ name' \in [Threads -> Names \cup {NoName}]
    BY <1>2, <1>5 DEF Steps
  <2>2. \A u \in Threads : name'[u] = NoName <=> pc'[u] = "idle"
    BY <1>2, <1>7 DEF TypeOK
  <2> QED
    BY <1>1, <1>6, <2>1, <2>2 DEF TypeOK, Running, files
<1>9. Counted'
  BY <1>1 DEF Counted, Distinct, Running
<1>10. \A u \in Threads : u # t => pc'[u] = pc[u] /\ name'[u] = name[u]
  BY <1>2
<1>11. pc'[t] = "create" /\ name'[t] = TempName(p)
  BY <1>2
<1>12. Numbered'
  <2> SUFFICES ASSUME NEW u \in Threads, pc'[u] # "idle"
               PROVE  /\ name'[u][1] = pid[scenario.process[u]]
                      /\ scenario.file = "disk" =>
                           name'[u][2] < sequence'[scenario.process[u]]
    BY <1>1 DEF Numbered
  <2>1. CASE u = t
    BY <2>1, <1>4, <1>6, <1>11 DEF TempName
  <2>2. CASE u # t
    <3>1. /\ name'[u] = name[u]
          /\ name[u][1] = pid[scenario.process[u]]
          /\ scenario.file = "disk" => name[u][2] < sequence[scenario.process[u]]
      BY <2>2, <1>10 DEF Numbered
    <3>2. scenario.process[u] \in Running /\ name[u] \in Names
      BY <2>2, <1>10, <1>2, ScenarioTypes DEF TypeOK
    <3>3. /\ name[u][2] \in Nat /\ sequence[scenario.process[u]] \in Nat
          /\ sequence'[scenario.process[u]] \in Nat
      BY <3>2, <1>2, <1>6 DEF Names
    <3> QED
      BY <3>1, <3>2, <3>3, <1>6
  <2> QED
    BY <2>1, <2>2
<1>13. NamesApart'
  BY <1>10, <1>11, BeginIsApart DEF NamesApart
<1>14. Held'
  BY <1>1, <1>10, <1>11 DEF Held, Writing
<1>15. Whole' /\ Kept'
  BY <1>1, <1>10, <1>11 DEF Whole, Kept, Copied, files
<1> QED
  BY <1>8, <1>9, <1>12, <1>13, <1>14, <1>15

-----------------------------------------------------------------------------
\* Processes that start again leave the others' names and files alone.
LEMMA RestartIInv ==
    ASSUME IInv, NEW ps \in SUBSET Running, Restart(ps),
           {image', durable'} \subseteq {image, durable}, Whole'
    PROVE  IInv'
<1> DEFINE ts == UNION {ThreadsOf(p) : p \in ps}
<1> USE DEF IInv
<1>1. /\ scenario' = scenario /\ removed' = removed
      /\ pid' \in [Running -> Pids] /\ Distinct(pid')
      /\ \A p \in Running \ ps : pid'[p] = pid[p]
      /\ sequence' = [p \in Running |-> IF p \in ps THEN 0 ELSE sequence[p]]
      /\ pc' = [t \in Threads |-> IF t \in ts THEN "idle" ELSE pc[t]]
      /\ name' = [t \in Threads |-> IF t \in ts THEN NoName ELSE name[t]]
      /\ temps' = [n \in Names |->
                     IF temps[n] # Missing /\ \E t \in ts : name[t] = n
                     THEN Leftover ELSE temps[n]]
  BY DEF Restart
<1>2. /\ pc \in [Threads -> Steps \cup {"idle", "remove"}]
      /\ name \in [Threads -> Names \cup {NoName}]
      /\ temps \in [Names -> File \cup {Missing, Leftover}]
      /\ sequence \in [Running -> 0 .. MaxSequence]
      /\ \A t \in Threads : name[t] = NoName <=> pc[t] = "idle"
  BY DEF TypeOK
<1>3. \A t \in Threads : t \in ts <=> scenario.process[t] \in ps
  BY DEF ThreadsOf
<1>4. \A t \in Threads : pc'[t] # "idle" =>
        /\ pc'[t] = pc[t] /\ name'[t] = name[t] /\ t \notin ts
        /\ scenario.process[t] \in Running \ ps
  BY <1>1, <1>3, ScenarioTypes
<1>5. TypeOK'
  <2>1. sequence' \in [Running -> 0 .. MaxSequence]
    BY <1>1, <1>2, ScenarioTypes
  <2>2. /\ pc' \in [Threads -> Steps \cup {"idle", "remove"}]
        /\ name' \in [Threads -> Names \cup {NoName}]
        /\ \A t \in Threads : name'[t] = NoName <=> pc'[t] = "idle"
    BY <1>1, <1>2
  <2>3. temps' \in [Names -> File \cup {Missing, Leftover}]
    BY <1>1, <1>2
  <2> QED
    BY <1>1, <2>1, <2>2, <2>3 DEF TypeOK, Running
<1>6. Counted'
  BY <1>1 DEF Counted, Distinct, Running
<1>7. Numbered'
  <2> SUFFICES ASSUME NEW t \in Threads, pc'[t] # "idle"
               PROVE  /\ name'[t][1] = pid'[scenario.process[t]]
                      /\ scenario.file = "disk" =>
                           name'[t][2] < sequence'[scenario.process[t]]
    BY <1>1 DEF Numbered
  <2>1. /\ pid'[scenario.process[t]] = pid[scenario.process[t]]
        /\ sequence'[scenario.process[t]] = sequence[scenario.process[t]]
    BY <1>1, <1>4
  <2> QED
    BY <2>1, <1>4 DEF Numbered
<1>8. NamesApart'
  BY <1>4 DEF NamesApart
<1>9. \A t \in Threads : pc'[t] # "idle" => temps'[name'[t]] = temps[name[t]]
  <2> SUFFICES ASSUME NEW t \in Threads, pc'[t] # "idle"
               PROVE  temps'[name'[t]] = temps[name[t]]
    OBVIOUS
  <2>1. name'[t] = name[t] /\ t \notin ts /\ pc[t] # "idle" /\ name[t] \in Names
    BY <1>2, <1>4
  <2>2. ts \subseteq Threads
    BY DEF ThreadsOf
  <2>3. \A u \in ts : name[u] # name[t]
    BY <2>1, <2>2, <1>2 DEF NamesApart
  <2> QED
    BY <1>1, <2>1, <2>3
<1>10. Held'
  BY <1>4, <1>9 DEF Held, Writing
<1>11. Kept'
  <2>1. ASSUME NEW n \in Names, scenario.file = "disk", ~removed
        PROVE  Private(temps'[n])
    <3>1. temps'[n] = Leftover \/ temps'[n] = temps[n]
      BY <1>1
    <3>2. Private(temps[n]) /\ Private(Leftover)
      BY <2>1, NobodysBytes DEF Kept
    <3> QED
      BY <3>1, <3>2
  <2> QED
    BY <1>1, <1>4, <1>9, <2>1 DEF Kept, Copied, Private
<1> QED
  BY <1>5, <1>6, <1>7, <1>8, <1>10, <1>11

-----------------------------------------------------------------------------
\* What a thread has written to its file is still a file.
LEMMA Changed ==
    ASSUME IInv, NEW t \in Threads, pc[t] \in Writing, NEW f, Change(t, f)
    PROVE  /\ temps' = [temps EXCEPT ![name[t]] = f]
           /\ image' = image /\ durable' = durable
           /\ temps[name[t]] \in File
<1>1. temps[name[t]] \in File
  BY DEF IInv, Held
<1> QED
  BY <1>1, FileIsThere DEF Change

\* Each system call of a save.
LEMMA PersistIInv ==
    ASSUME IInv, NEW t \in Threads, Persist(t)
    PROVE  IInv'
<1>1. /\ name[t] \in Names \cup {NoName} /\ (name[t] = NoName <=> pc[t] = "idle")
      /\ temps \in [Names -> File \cup {Missing, Leftover}]
      /\ image \in File \cup {Missing}
      /\ image # Missing => image.synced /\ image.bytes # "torn"
  BY DEF IInv, TypeOK, Whole
<1>2. CASE Begin(t)
  BY <1>2, BeginIInv
<1>3. CASE Create(t)
  <2> DEFINE f == [bytes |-> "torn", synced |-> FALSE, mode |-> "default"]
             step == IF scenario.file = "disk" THEN "permissions" ELSE "write"
  <2>1. f \in File
    BY DEF File
  <2>2. /\ pc[t] # "idle" /\ Goto(t, step) /\ temps' = [temps EXCEPT ![name[t]] = f]
        /\ UNCHANGED <<image, durable, removed>>
    BY <1>3 DEF Create
  <2>3. /\ step \in Steps \cup {"remove"} /\ step \notin {"sync", "rename"}
        /\ scenario.file = "disk" => step \notin Copied
    BY DEF Steps, Copied
  <2>4. Private(f)
    BY NobodysBytes
  <2> HIDE DEF f, step
  <2> QED
    BY <2>1, <2>2, <2>3, <2>4, OwnFile
<1>4. CASE CopyPermissions(t)
  <2>0. pc[t] \in Writing /\ pc[t] # "idle"
    BY <1>4 DEF CopyPermissions, Writing
  <2>1. temps[name[t]] \in File
    BY <2>0 DEF IInv, Held
  <2> DEFINE f == IF image = Missing THEN temps[name[t]]
                  ELSE [temps[name[t]] EXCEPT !.mode = image.mode]
  <2>2. f \in File /\ (image # Missing => f.mode = image.mode)
    BY <1>1, <2>1 DEF File
  <2>5. scenario.file = "disk" /\ ~removed => f.mode = "users"
    BY <2>2 DEF IInv, Kept
  <2>3. temps' = [temps EXCEPT ![name[t]] = f] /\ UNCHANGED <<image, durable, removed>>
    BY <1>1, <1>4, <2>0, Changed DEF CopyPermissions, files
  <2>4. Goto(t, "write") /\ "write" \in Steps \cup {"remove"}
    BY <1>4 DEF CopyPermissions, Steps
  <2> HIDE DEF f
  <2> QED
    BY <2>0, <2>2, <2>3, <2>4, <2>5, OwnFile DEF Private
<1>5. CASE Write(t)
  <2>0. pc[t] \in Writing /\ pc[t] # "idle"
    BY <1>5 DEF Write, WriteThen, Writing
  <2> DEFINE f == [temps[name[t]] EXCEPT !.bytes = t]
  <2>1. /\ temps' = [temps EXCEPT ![name[t]] = f] /\ UNCHANGED <<image, durable, removed>>
        /\ temps[name[t]] \in File
    BY <1>5, <2>0, Changed DEF Write, WriteThen
  <2>2. f \in File /\ f.bytes = t /\ f.mode = temps[name[t]].mode
    BY <2>1 DEF File
  <2>4. scenario.file = "disk" /\ ~removed => f.mode = "users"
    BY <1>5, <2>2 DEF IInv, Kept, Copied, Write, WriteThen
  <2>3. Goto(t, "sync") /\ "sync" \in Steps \cup {"remove"}
    BY <1>5 DEF Write, WriteThen, Steps
  <2> HIDE DEF f
  <2> QED
    BY <2>0, <2>1, <2>2, <2>3, <2>4, OwnFile DEF Private
<1>6. CASE Sync(t)
  <2>0. pc[t] \in Writing /\ pc[t] # "idle" /\ pc[t] = "sync"
    BY <1>6 DEF Sync, Writing
  <2> DEFINE f == [temps[name[t]] EXCEPT !.synced = TRUE]
  <2>1. /\ temps' = [temps EXCEPT ![name[t]] = f] /\ UNCHANGED <<image, durable, removed>>
        /\ temps[name[t]] \in File /\ temps[name[t]].bytes = t
    BY <1>6, <2>0, Changed DEF Sync, IInv, Held
  <2>2. f \in File /\ f.bytes = t /\ f.synced /\ f.mode = temps[name[t]].mode
    BY <2>1 DEF File
  <2>4. scenario.file = "disk" /\ ~removed => f.mode = "users"
    BY <2>0, <2>2 DEF IInv, Kept, Copied
  <2>3. Goto(t, "rename") /\ "rename" \in Steps \cup {"remove"}
    BY <1>6 DEF Sync, Steps
  <2> HIDE DEF f
  <2> QED
    BY <2>0, <2>1, <2>2, <2>3, <2>4, OwnFile DEF Private
<1>7. CASE Rename(t)
  <2>1. pc[t] = "rename" /\ pc[t] \in Writing
    BY <1>7 DEF Rename, Writing
  <2>2. /\ temps[name[t]] \in File /\ temps[name[t]].bytes = t
        /\ temps[name[t]].synced
    BY <2>1 DEF IInv, Held
  <2>3. t # "torn" /\ temps[name[t]] # Missing
    BY <2>2, FileIsThere, DiskImageAssumption
  <2>4. scenario.file = "disk" /\ ~removed => temps[name[t]].mode = "users"
    BY <2>1 DEF IInv, Kept, Copied
  <2>5. Private(Missing)
    BY NobodysBytes
  <2> QED
    BY <1>7, <2>1, <2>2, <2>3, <2>4, <2>5, Leaves DEF Rename
<1>8. CASE Remove(t)
  <2>1. pc[t] # "idle" /\ Return(t) /\ UNCHANGED <<image, durable, removed>>
    BY <1>8 DEF Remove, Change
  <2>2. \E f \in File \cup {Missing, Leftover} :
          temps' = [temps EXCEPT ![name[t]] = f] /\ Private(f)
    <3>1. name[t] \in Names
      BY <1>1, <2>1
    <3>2. PICK f \in {Missing, Leftover} : Change(t, f)
      BY <1>8 DEF Remove
    <3>5. Private(f) /\ Private(Missing)
      BY NobodysBytes
    <3>3. CASE temps[name[t]] = Missing
      <4>1. temps' = [temps EXCEPT ![name[t]] = Missing]
        BY <1>1, <3>1, <3>2, <3>3 DEF Change
      <4> QED
        BY <4>1, <3>5
    <3>4. CASE temps[name[t]] # Missing
      BY <3>2, <3>4, <3>5 DEF Change
    <3> QED
      BY <3>3, <3>4
  <2>3. scenario.file = "disk" /\ ~removed => image # Missing /\ image.mode = "users"
    BY DEF IInv, Kept
  <2> QED
    BY <1>1, <2>1, <2>2, <2>3, Leaves
<1>9. CASE Fail(t)
  <2>1. pc[t] # "idle" /\ name[t] \in Names
    BY <1>1, <1>9 DEF Fail, Steps
  <2>2. temps' = [temps EXCEPT ![name[t]] = temps[name[t]]]
        /\ temps[name[t]] \in File \cup {Missing, Leftover}
    BY <1>1, <1>9, <2>1 DEF Fail, files
  <2>3. Goto(t, "remove") /\ "remove" \notin Writing \cup Copied
        /\ UNCHANGED <<image, durable, removed>>
    BY <1>9 DEF Fail, files, Writing, Copied
  <2>4. scenario.file = "disk" /\ ~removed => Private(temps[name[t]])
    BY <2>1 DEF IInv, Kept
  <2> QED
    BY <2>1, <2>2, <2>3, <2>4, OwnFile
<1> QED
  BY <1>2, <1>3, <1>4, <1>5, <1>6, <1>7, <1>8, <1>9 DEF Persist

\* A synchronised file is the same after a power failure.
LEMMA PowerFailsIInv ==
    ASSUME IInv, PowerFails
    PROVE  IInv'
<1>1. durable \in File \cup {Missing} /\ (durable # Missing => durable.synced)
  BY DEF IInv, TypeOK, Whole
<1>2. Remains(durable) = {durable}
  BY <1>1 DEF Remains
<1>3. image' = durable /\ durable' = durable
  BY <1>2 DEF PowerFails
<1>4. Whole'
  BY <1>3 DEF IInv, Whole
<1> QED
  BY <1>3, <1>4, RestartIInv DEF PowerFails

\* What happens to the image alone.
LEMMA OthersIInv ==
    ASSUME IInv, HostSyncs \/ UserDeletes \/ UNCHANGED vars
    PROVE  IInv'
<1> USE DEF IInv
<1>1. UNCHANGED <<scenario, temps, pid, sequence, pc, name>>
  BY DEF HostSyncs, UserDeletes, vars, files
<1>2. /\ {image', durable'} \subseteq {image, durable, Missing}
      /\ removed' \in BOOLEAN
  BY DEF HostSyncs, UserDeletes, vars, files, TypeOK
<1>3. TypeOK'
  BY <1>1, <1>2 DEF TypeOK, Running
<1>4. Counted' /\ Numbered' /\ NamesApart' /\ Held'
  BY <1>1 DEF Counted, Distinct, Running, Numbered, NamesApart, Held
<1>5. Whole'
  BY <1>2 DEF Whole
<1>6. Kept'
  BY <1>1 DEF Kept, HostSyncs, UserDeletes, vars, files
<1> QED
  BY <1>3, <1>4, <1>5, <1>6

-----------------------------------------------------------------------------
\* The inductive invariant: names are apart because ids are, and because a
\* process numbers its saves; so each save's file is as the save has left it.
THEOREM Inductive == Spec => []IInv
<1>1. Init => IInv
  BY InitIInv
<1>2. IInv /\ [Next]_vars => IInv'
  <2> SUFFICES ASSUME IInv, [Next]_vars PROVE IInv'
    OBVIOUS
  <2>1. ASSUME NEW t \in Threads, Persist(t) PROVE IInv'
    BY <2>1, PersistIInv
  <2>2. ASSUME NEW p \in Running, Kill(p) PROVE IInv'
    <3>1. Whole' /\ {image', durable'} \subseteq {image, durable}
      BY <2>2 DEF Kill, IInv, Whole
    <3> QED
      BY <2>2, <3>1, RestartIInv DEF Kill
  <2> QED
    BY <2>1, <2>2, PowerFailsIInv, OthersIInv DEF Next
<1> QED
  BY <1>1, <1>2, PTL DEF Spec

\* Every variable has its type, for any number of processes and threads.
THEOREM TypeCorrect == Spec => []TypeOK
<1>1. IInv => TypeOK
  BY DEF IInv
<1> QED
  BY <1>1, Inductive, PTL

\* A temporary file belongs to one save from its creation to its renaming.
THEOREM TempAlwaysOwn == Spec => []TempIsOwn
<1>1. IInv => TempIsOwn
  <2> SUFFICES ASSUME IInv, NEW t \in Threads, pc[t] \in Steps \ {"create"}
               PROVE  /\ temps[name[t]] \notin {Missing, Leftover}
                      /\ \A u \in Threads \ {t} : name[u] # name[t]
    BY DEF TempIsOwn
  <2>1. pc[t] \in Writing /\ pc[t] # "idle" /\ name[t] # NoName
    BY DEF Steps, Writing, IInv, TypeOK
  <2>2. temps[name[t]] \notin {Missing, Leftover}
    BY <2>1, FileIsThere DEF IInv, Held
  <2>3. ASSUME NEW u \in Threads \ {t} PROVE name[u] # name[t]
    BY <2>1 DEF IInv, TypeOK, NamesApart
  <2> QED
    BY <2>2, <2>3
<1> QED
  BY <1>1, Inductive, PTL

\* What is renamed is the save's own file, whole and on the disk.
THEOREM AlwaysRenamesOwnBytes == Spec => []RenamesOwnBytes
<1>1. IInv => RenamesOwnBytes
  BY DEF IInv, Held, RenamesOwnBytes, Writing
<1> QED
  BY <1>1, Inductive, PTL

\* Nobody ever finds a torn image, whatever fails and whenever.
THEOREM ImageAlwaysWhole == Spec => []WholeImage
<1>1. IInv => WholeImage
  <2> SUFFICES ASSUME IInv PROVE image.bytes # "torn"
    BY DEF WholeImage
  <2>1. CASE image = Missing
    BY <2>1 DEF Missing
  <2>2. CASE image # Missing
    BY <2>2 DEF IInv, Whole
  <2> QED
    BY <2>1, <2>2
<1> QED
  BY <1>1, Inductive, PTL

\* A disk's image keeps its permissions through every save and failure, until
\* the user deletes it.
THEOREM PermissionsAlwaysKept == Spec => []PermissionsKept
<1>1. IInv => PermissionsKept
  BY DEF IInv, Kept, Private, PermissionsKept
<1> QED
  BY <1>1, Inductive, PTL

-----------------------------------------------------------------------------
(* The atomic file that the system calls implement.                        *)

\* A thread that goes on to its next step, and what its caller sees of it.
LEMMA CallGoesOn ==
    ASSUME TypeOK, NEW t \in Threads, NEW step, pc' = [pc EXCEPT ![t] = step]
    PROVE  /\ Calls' = [Calls EXCEPT ![t] = Place(step)]
           /\ Calls[t] = Place(pc[t])
           /\ Place(step) = Place(pc[t]) => Calls' = Calls
<1>1. pc \in [Threads -> Steps \cup {"idle", "remove"}]
  BY DEF TypeOK
<1>2. Calls' = [u \in Threads |-> Place(pc'[u])]
  BY DEF Calls, Place
<1>3. \A u \in Threads : pc'[u] = IF u = t THEN step ELSE pc[u]
  BY <1>1
<1>4. Calls = [u \in Threads |-> Place(pc[u])]
  BY DEF Calls
<1> QED
  BY <1>2, <1>3, <1>4

\* A killed thread's call is gone, and nobody else's.
LEMMA CallsAfterRestart ==
    ASSUME NEW ps \in SUBSET Running, Restart(ps)
    PROVE  \E ts \in SUBSET Threads :
             /\ Calls' = [t \in Threads |-> IF t \in ts THEN "none" ELSE Calls[t]]
             /\ ps = Running => ts = Threads
<1> DEFINE ts == UNION {ThreadsOf(p) : p \in ps}
<1>1. ts \in SUBSET Threads /\ (ps = Running => ts = Threads)
  BY DEF ThreadsOf, Running
<1>2. pc' = [t \in Threads |-> IF t \in ts THEN "idle" ELSE pc[t]]
  BY DEF Restart
<1> HIDE DEF ts
<1>3. Calls' = [t \in Threads |-> IF t \in ts THEN "none" ELSE Calls[t]]
  BY <1>2 DEF Calls, Place
<1> QED
  BY <1>1, <1>3

\* Each system call is a step of the atomic file or none.
LEMMA PersistImplements ==
    ASSUME IInv, NEW t \in Threads, Persist(t)
    PROVE  [Atomic!Next]_Atomic!vars
<1> USE DEF Atomic!vars
<1>1. TypeOK
  BY DEF IInv
<1>2. CASE Begin(t)
  <2>1. Calls' = [Calls EXCEPT ![t] = "open"] /\ Calls[t] = "none"
    <3>1. pc' = [pc EXCEPT ![t] = "create"] /\ pc[t] = "idle"
      BY <1>2 DEF Begin
    <3>2. Place("create") = "open" /\ Place("idle") = "none"
      BY DEF Place
    <3> QED
      BY <1>1, <3>1, <3>2, CallGoesOn
  <2>2. Atomic!Save(t)
    BY <1>2, <2>1 DEF Begin, files, Atomic!Save, Atomic!Call
  <2> QED
    BY <2>2 DEF Atomic!Next
<1>3. CASE Create(t) \/ CopyPermissions(t) \/ Write(t) \/ Sync(t)
  <2>1. PICK step \in Steps : pc[t] \in Steps /\ pc' = [pc EXCEPT ![t] = step]
    BY <1>3 DEF Create, CopyPermissions, Write, WriteThen, Sync, Goto, Steps
  <2>2. Calls' = Calls
    BY <1>1, <2>1, CallGoesOn DEF Place, Steps
  <2>3. UNCHANGED <<image, durable>>
    BY <1>3 DEF Create, CopyPermissions, Write, WriteThen, Sync, Change, files
  <2> QED
    BY <2>2, <2>3
<1>4. CASE Rename(t)
  <2>1. Calls' = [Calls EXCEPT ![t] = "none"] /\ Calls[t] = "open"
    BY <1>1, <1>4, CallGoesOn DEF Rename, Return, Place
  <2>2. image'.bytes = t /\ UNCHANGED durable
    BY <1>4 DEF Rename, IInv, Held, Writing
  <2>3. Atomic!Replace(t)
    BY <2>1, <2>2 DEF Atomic!Replace, Atomic!Call
  <2> QED
    BY <2>3 DEF Atomic!Next
<1>5. CASE Fail(t)
  <2>1. Calls' = [Calls EXCEPT ![t] = "refused"] /\ Calls[t] = "open"
    BY <1>1, <1>5, CallGoesOn DEF Fail, Goto, Place, Steps
  <2>2. Atomic!Refuse(t)
    BY <1>5, <2>1 DEF Fail, files, Atomic!Refuse, Atomic!Call
  <2> QED
    BY <2>2 DEF Atomic!Next
<1>6. CASE Remove(t)
  <2>1. Calls' = [Calls EXCEPT ![t] = "none"] /\ Calls[t] = "refused"
    BY <1>1, <1>6, CallGoesOn DEF Remove, Return, Place
  <2>2. UNCHANGED <<image, durable>>
    BY <1>6 DEF Remove, Change
  <2>3. Atomic!Fail(t)
    BY <2>1, <2>2 DEF Atomic!Fail, Atomic!Call
  <2> QED
    BY <2>3 DEF Atomic!Next
<1> QED
  BY <1>2, <1>3, <1>4, <1>5, <1>6 DEF Persist

\* The system calls of any number of savers, with all their failures, implement
\* one file whose content is replaced at once or not at all.
THEOREM Implements == Spec => ImplementsAtomicFile
<1>1. Init => Atomic!Init
  BY DEF Init, Calls, Place, Atomic!Init
<1>2. IInv /\ [Next]_vars => [Atomic!Next]_Atomic!vars
  <2> SUFFICES ASSUME IInv, [Next]_vars PROVE [Atomic!Next]_Atomic!vars
    OBVIOUS
  <2>1. ASSUME NEW t \in Threads, Persist(t) PROVE [Atomic!Next]_Atomic!vars
    BY <2>1, PersistImplements
  <2>2. ASSUME NEW p \in Running, Kill(p) PROVE [Atomic!Next]_Atomic!vars
    <3>1. PICK ts \in SUBSET Threads :
            Calls' = [t \in Threads |-> IF t \in ts THEN "none" ELSE Calls[t]]
      BY <2>2, CallsAfterRestart DEF Kill
    <3>2. Atomic!Kill(ts)
      BY <2>2, <3>1 DEF Kill, Atomic!Kill
    <3> QED
      BY <3>2 DEF Atomic!Next
  <2>3. CASE HostSyncs
    BY <2>3 DEF HostSyncs, Calls, Atomic!Next, Atomic!HostSyncs
  <2>4. CASE PowerFails
    <3>1. Calls' = [t \in Threads |-> "none"]
      BY <2>4, CallsAfterRestart DEF PowerFails
    <3>2. Remains(durable) = {durable}
      BY DEF IInv, Whole, Remains
    <3>3. Atomic!PowerFails
      BY <2>4, <3>1, <3>2 DEF PowerFails, Atomic!PowerFails
    <3> QED
      BY <3>3 DEF Atomic!Next
  <2>5. CASE UserDeletes
    BY <2>5 DEF UserDeletes, Missing, Calls, Atomic!Next, Atomic!UserDeletes
  <2>6. CASE UNCHANGED vars
    BY <2>6 DEF vars, files, Calls, Atomic!vars
  <2> QED
    BY <2>1, <2>2, <2>3, <2>4, <2>5, <2>6 DEF Next
<1> QED
  BY <1>1, <1>2, Inductive, PTL DEF Spec, ImplementsAtomicFile, Atomic!Spec
=============================================================================
