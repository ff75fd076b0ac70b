------------------------------- MODULE Mailbox -------------------------------
(***************************************************************************)
(* The snapshot mailbox of src/runtime/mod.rs from within: the mutex and   *)
(* the condition variable of LatestSnapshot, with callers of wait_for that *)
(* sleep until a snapshot satisfies them or a deadline has passed.  Each   *)
(* stretch that holds the mutex is one step, for it holds nothing else and *)
(* waits for nothing.  A panic that holds the mutex poisons it.            *)
(***************************************************************************)
EXTENDS Naturals

CONSTANTS
    Waiters,        \* threads that call wait_for
    MaxRevision,    \* bound on the published snapshots
    Predicates      \* the revisions a call may be satisfied with

ASSUME MailboxAssumption ==
    MaxRevision \in Nat /\ Predicates \subseteq SUBSET (1 .. MaxRevision)

VARIABLES
    value,       \* the revision of the snapshot; 0 as long as there is none
    poisoned,    \* the mutex
    worker,      \* where the worker is in LatestSnapshot::publish
    pc,          \* where each caller is in wait_for
    predicate,   \* what it waits for
    late         \* its deadline has passed

mailbox == <<value, poisoned>>
callers == <<pc, predicate, late>>
vars == <<mailbox, worker, callers>>

TypeOK ==
    /\ value \in 0 .. MaxRevision /\ poisoned \in BOOLEAN
    /\ worker \in {"set", "notify", "unwound"}
    /\ pc \in [Waiters -> {"idle", "lock", "asleep", "awake", "timed_out", "panicked"}]
    /\ predicate \in [Waiters -> Predicates] /\ late \in [Waiters -> BOOLEAN]

Init ==
    /\ value = 0 /\ poisoned = FALSE /\ worker = "set"
    /\ pc = [w \in Waiters |-> "idle"] /\ late = [w \in Waiters |-> FALSE]
    /\ predicate \in [Waiters -> Predicates]

-----------------------------------------------------------------------------
(* LatestSnapshot::publish, in the worker.                                 *)

NotifyAll == [w \in Waiters |-> IF pc[w] = "asleep" THEN "awake" ELSE pc[w]]

\* The snapshot is stored, and the mutex let go.
Set ==
    /\ worker = "set" /\ ~poisoned /\ value < MaxRevision
    /\ value' = value + 1 /\ worker' = "notify"
    /\ UNCHANGED <<poisoned, callers>>

Notify ==
    /\ worker = "notify"
    /\ pc' = NotifyAll /\ worker' = "set"
    /\ UNCHANGED <<mailbox, predicate, late>>

\* expect: the worker's thread unwinds.
SetPanics ==
    /\ worker = "set" /\ poisoned
    /\ worker' = "unwound"
    /\ UNCHANGED <<mailbox, callers>>

-----------------------------------------------------------------------------
(* RuntimeHandle::wait_for.                                                *)

Call(w) ==
    /\ pc[w] = "idle"
    /\ pc' = [pc EXCEPT ![w] = "lock"] /\ late' = [late EXCEPT ![w] = FALSE]
    /\ \E p \in Predicates : predicate' = [predicate EXCEPT ![w] = p]
    /\ UNCHANGED <<mailbox, worker>>

Goto(w, place) == pc' = [pc EXCEPT ![w] = place] /\ UNCHANGED <<worker, predicate, late>>

\* A panic in the caller, which holds the mutex, or has found it poisoned.
Panic(w) == Goto(w, "panicked") /\ poisoned' = TRUE /\ UNCHANGED value

\* The mutex is taken, at first or when the sleep is over: the predicate is
\* looked at, then the deadline.
Look(w) ==
    /\ pc[w] \in {"lock", "awake"} /\ ~poisoned
    /\ CASE value \in predicate[w] -> Goto(w, "idle") /\ UNCHANGED mailbox
         [] value \notin predicate[w] /\ ~late[w] ->
              Goto(w, "asleep") /\ UNCHANGED mailbox
         [] OTHER -> Panic(w)

LookPanics(w) ==
    pc[w] \in {"lock", "awake", "timed_out"} /\ poisoned /\ Panic(w)

\* Mutant of TimesOut: wait for wait_timeout.
NeverTimesOut(w) == FALSE

\* wait_timeout comes back, with the mutex still to be taken.
TimesOut(w) ==
    /\ pc[w] = "asleep" /\ late[w]
    /\ Goto(w, "timed_out") /\ UNCHANGED mailbox

\* The time-out is asserted away before the predicate is looked at again.
TimedOutPanics(w) == pc[w] = "timed_out" /\ ~poisoned /\ Panic(w)

\* A condition variable may wake a thread for no reason.
WakesByChance(w) ==
    /\ pc[w] = "asleep"
    /\ Goto(w, "awake") /\ UNCHANGED mailbox

\* The deadline of a call passes.
Pass(w) ==
    /\ pc[w] \notin {"idle", "panicked"} /\ ~late[w]
    /\ late' = [late EXCEPT ![w] = TRUE]
    /\ UNCHANGED <<mailbox, worker, pc, predicate>>

\* Mutant of Worker: the callers are notified before the snapshot is there.
NotifiesFirst ==
    \/ worker = "set" /\ ~poisoned /\ value < MaxRevision /\ worker' = "notify"
         /\ pc' = NotifyAll /\ UNCHANGED <<mailbox, predicate, late>>
    \/ worker = "notify" /\ worker' = "set" /\ value' = value + 1
         /\ UNCHANGED <<poisoned, callers>>

Worker == Set \/ Notify \/ SetPanics

\* What a caller does by itself, once it has called.
WaitFor(w) == Look(w) \/ LookPanics(w) \/ TimesOut(w) \/ TimedOutPanics(w)

\* Whoever has panicked, or has nothing more to publish, is done.
Over ==
    /\ worker = "unwound" \/ (worker = "set" /\ ~poisoned /\ value = MaxRevision)
    /\ \A w \in Waiters : pc[w] \in {"idle", "panicked"}
    /\ UNCHANGED vars

Next ==
    \/ Worker \/ Over
    \/ \E w \in Waiters : Call(w) \/ WaitFor(w) \/ WakesByChance(w) \/ Pass(w)

Spec == Init /\ [][Next]_vars

\* The threads are scheduled and the clock goes on.
FairSpec ==
    /\ Spec /\ WF_vars(Worker)
    /\ \A w \in Waiters : WF_vars(WaitFor(w)) /\ WF_vars(Pass(w))

-----------------------------------------------------------------------------
\* No wake-up is lost: whoever sleeps though the snapshot in the mailbox would
\* satisfy it is about to be notified.
NoLostWakeup ==
    \A w \in Waiters :
        pc[w] = "asleep" /\ value \in predicate[w] => worker = "notify"

\* Every wait ends, whatever is published or not, and whoever panics.
WaitEnds == \A w \in Waiters : pc[w] = "lock" ~> pc[w] \in {"idle", "panicked"}
=============================================================================
