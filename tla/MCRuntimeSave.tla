--------------------------- MODULE MCRuntimeSave ---------------------------
(* Runtime with the commands that bear on the disk, and every kind of disk. *)
EXTENDS RuntimeSaves

SaveCommands ==
    [op: {"SetPaused"}, on: BOOLEAN] \cup [op: {"Step", "Reset"}]
OneProfile == {[mode |-> "unbounded", connected |-> TRUE]}
=============================================================================
