----------------------------- MODULE MCMailbox -----------------------------
(* A caller that waits for the last snapshot, or for one that later ones hide. *)
EXTENDS Mailbox

SomePredicates == {{2}, {2, 3}, {3}, {}}
=============================================================================
