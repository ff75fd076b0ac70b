---------------------------- MODULE RuntimeSaves ----------------------------
(* The runtime implements the save service: where the caller's request is    *)
(* can be read off the UI thread, the worker and the result between them.    *)
EXTENDS Runtime

\* What the worker made of the save the UI is waiting for.
Decided == IF reply # "none" THEN reply ELSE result

Phase ==
    CASE ui = "idle" \/ call.op \notin {"SaveDisk", "Shutdown"} -> "free"
      [] ui # "idle" /\ call.op = "SaveDisk" ->
           [none |-> "asked", ok |-> "done", err |-> "refused"][Decided]
      [] ui # "idle" /\ call.op = "Shutdown" ->
           IF ui = "gone" \/ worker = "stopped" THEN "closed" ELSE "closing"

Service == INSTANCE SaveService
             WITH device <- block, phase <- Phase, answer <- reply

\* Every step of the runtime is a step of the save service or none: a save
\* takes effect once, between save_disk's call and its return, on the bytes
\* the device holds then, and the answer tells the truth about it.
ImplementsSaveService == Service!Spec
=============================================================================
