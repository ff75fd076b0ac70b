---------------------------- MODULE SaveService ----------------------------
(***************************************************************************)
(* What the runtime promises the user about the disk: a guest that writes  *)
(* a device, a host file, and one caller who saves the first into the      *)
(* second.  A save takes effect at one moment between the call and its     *)
(* return, or not at all; closing may save once more, and is the end.      *)
(***************************************************************************)
EXTENDS Naturals

VARIABLES
    device,    \* version of the bytes in the device
    image,     \* version of the bytes in the host file
    phase,     \* where the caller's request is
    answer     \* what the caller is being told

vars == <<device, image, phase, answer>>

Init ==
    /\ device \in Nat /\ image = device
    /\ phase = "free" /\ answer = "none"

GuestWrites ==
    /\ phase # "closed"
    /\ device' = device + 1
    /\ UNCHANGED <<image, phase, answer>>

Ask ==
    /\ phase = "free"
    /\ phase' = "asked"
    /\ UNCHANGED <<device, image, answer>>

TakeEffect ==
    /\ phase = "asked"
    /\ phase' = "done" /\ image' = device
    /\ UNCHANGED <<device, answer>>

Refuse ==
    /\ phase = "asked"
    /\ phase' = "refused"
    /\ UNCHANGED <<device, image, answer>>

\* Only a save that took effect is reported as done, and only a refused one
\* as failed.
Answer ==
    /\ \/ phase = "done" /\ answer' = "ok"
       \/ phase = "refused" /\ answer' = "err"
    /\ answer = "none"
    /\ UNCHANGED <<device, image, phase>>

\* Without an answer, the caller learns that the service is gone, and cannot
\* tell whether the save took effect.
Return ==
    /\ phase \in {"asked", "done", "refused"}
    /\ phase' = "free" /\ answer' = "none"
    /\ UNCHANGED <<device, image>>

Close ==
    /\ phase = "free"
    /\ phase' = "closing"
    /\ UNCHANGED <<device, image, answer>>

Closed ==
    /\ phase = "closing"
    /\ phase' = "closed"
    /\ image' \in {image, device}
    /\ UNCHANGED <<device, answer>>

Next ==
    GuestWrites \/ Ask \/ TakeEffect \/ Refuse \/ Answer \/ Return
      \/ Close \/ Closed

Spec == Init /\ [][Next]_vars
=============================================================================
