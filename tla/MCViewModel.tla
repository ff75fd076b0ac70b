---------------------------- MODULE MCViewModel ----------------------------
(* Two profile files, which may share a disk image. *)
EXTENDS ViewModel, TLC

CONSTANTS p1, p2, shared, other

SomeProfiles ==
    {[disk |-> "none"], [disk |-> "read_only", image |-> shared],
     [disk |-> "writable", image |-> shared], [disk |-> "writable", image |-> other]}

Symmetry == Permutations({p1, p2})
=============================================================================
