----------------------------- MODULE AtomicFile -----------------------------
(***************************************************************************)
(* What replacing a file promises to those who save and to those who read: *)
(* at every moment there is one whole content in the file, that of the     *)
(* last call which returned Ok; a call that is refused, or killed, has     *)
(* changed nothing; and a power failure brings back a content the file has *)
(* had.  Nothing is said of how it is done.                                *)
(***************************************************************************)
CONSTANT Clients    \* those who save; each has its own content

VARIABLES
    content,    \* what a reader finds
    durable,    \* what a reader would find after a power failure
    calls       \* where each client's call is

vars == <<content, durable, calls>>

Init ==
    /\ content = "first" /\ durable = content
    /\ calls = [c \in Clients |-> "none"]

\* The call of client c goes from one place to another.
Call(c, from, to) == calls[c] = from /\ calls' = [calls EXCEPT ![c] = to]

Save(c) == Call(c, "none", "open") /\ UNCHANGED <<content, durable>>

\* The call returns Ok, and its content is in the file.
Replace(c) ==
    /\ Call(c, "open", "none")
    /\ content' = c /\ UNCHANGED durable

\* From here on the call can only fail.
Refuse(c) == Call(c, "open", "refused") /\ UNCHANGED <<content, durable>>

\* The call returns an error, and has changed nothing.
Fail(c) == Call(c, "refused", "none") /\ UNCHANGED <<content, durable>>

\* The clients cs are killed.
Kill(cs) ==
    /\ calls' = [c \in Clients |-> IF c \in cs THEN "none" ELSE calls[c]]
    /\ UNCHANGED <<content, durable>>

HostSyncs == durable' = content /\ UNCHANGED <<content, calls>>

PowerFails ==
    /\ content' = durable /\ UNCHANGED durable
    /\ calls' = [c \in Clients |-> "none"]

UserDeletes == content' = "missing" /\ UNCHANGED <<durable, calls>>

Next ==
    \/ \E c \in Clients : Save(c) \/ Replace(c) \/ Refuse(c) \/ Fail(c)
    \/ \E cs \in SUBSET Clients : Kill(cs)
    \/ HostSyncs \/ PowerFails \/ UserDeletes

Spec == Init /\ [][Next]_vars
=============================================================================
