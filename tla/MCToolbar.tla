----------------------------- MODULE MCToolbar -----------------------------
(* A machine with a disk, and a user who clicks in any frame. *)
EXTENDS Toolbar

OneProfile == {[mode |-> "unbounded", connected |-> TRUE]}
=============================================================================
