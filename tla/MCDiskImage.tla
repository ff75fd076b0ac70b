---------------------------- MODULE MCDiskImage ----------------------------
(* Two worker threads of one process save a disk twice each; two processes  *)
(* save it once each; two processes save the same profile.  Each process    *)
(* may be killed and get an id that was used before.                        *)
EXTENDS DiskImage, TLC

CONSTANTS p1, p2, t1, t2, i1, i2, i3

Both == [t \in Threads |-> p1]
OneEach == {(t1 :> p1) @@ (t2 :> p2), (t1 :> p2) @@ (t2 :> p1)}

SomeScenarios ==
    [file: {"disk"}, saves: {2}, process: {Both}]
      \cup [file: {"disk", "profile"}, saves: {1}, process: OneEach]

\* Ids are only compared, and every scenario is there for either thread.
Symmetry == Permutations({t1, t2}) \cup Permutations(Pids)
=============================================================================
