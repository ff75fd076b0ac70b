---------------------------- MODULE MailboxProofs ----------------------------
(* No wake-up is lost, for any number of callers and whatever they wait for. *)
EXTENDS Mailbox, TLAPS

\* Every variable has its type.
THEOREM TypeCorrect == Spec => []TypeOK
<1>1. Init => TypeOK
  <2>1. 0 \in 0 .. MaxRevision
    BY MailboxAssumption
  <2> QED
    BY <2>1, Zenon DEF Init, TypeOK
<1>2. TypeOK /\ [Next]_vars => TypeOK'
  <2> USE DEF TypeOK
  <2> SUFFICES ASSUME TypeOK, [Next]_vars PROVE TypeOK'
    OBVIOUS
  <2>1. CASE Set
    BY <2>1, MailboxAssumption DEF Set, callers
  <2>2. CASE Notify \/ SetPanics
    BY <2>2 DEF Notify, SetPanics, NotifyAll, callers, mailbox
  <2>3. ASSUME NEW w \in Waiters, Call(w) PROVE TypeOK'
    BY <2>3 DEF Call, mailbox
  <2>4. ASSUME NEW w \in Waiters, Look(w) PROVE TypeOK'
    BY <2>4 DEF Look, Goto, Panic, mailbox
  <2>5. ASSUME NEW w \in Waiters,
               LookPanics(w) \/ TimesOut(w) \/ TimedOutPanics(w) \/ WakesByChance(w)
        PROVE  TypeOK'
    BY <2>5 DEF LookPanics, TimesOut, TimedOutPanics, WakesByChance, Goto, Panic,
                mailbox
  <2>6. ASSUME NEW w \in Waiters, Pass(w) PROVE TypeOK'
    BY <2>6 DEF Pass, mailbox
  <2>7. CASE Over \/ UNCHANGED vars
    BY <2>7 DEF Over, vars, callers, mailbox
  <2> QED
    BY <2>1, <2>2, <2>3, <2>4, <2>5, <2>6, <2>7 DEF Next, Worker, WaitFor
<1> QED
  BY <1>1, <1>2, PTL DEF Spec

-----------------------------------------------------------------------------
\* A caller goes to sleep only on a snapshot that does not satisfy it, and a
\* new snapshot is followed by a notification of all who sleep.
THEOREM NoWakeupLost == Spec => []NoLostWakeup
<1>1. Init => NoLostWakeup
  BY DEF Init, NoLostWakeup
<1>2. TypeOK /\ NoLostWakeup /\ [Next]_vars => NoLostWakeup'
  <2> SUFFICES ASSUME TypeOK, NoLostWakeup, [Next]_vars,
                      NEW v \in Waiters,
                      pc'[v] = "asleep", value' \in predicate'[v]
               PROVE  worker' = "notify"
    BY DEF NoLostWakeup
  <2> USE DEF TypeOK, NoLostWakeup
  <2>1. CASE Set
    BY <2>1 DEF Set
  <2>2. CASE Notify
    BY <2>2 DEF Notify, NotifyAll
  <2>3. CASE SetPanics
    BY <2>3 DEF SetPanics, callers, mailbox
  <2>4. ASSUME NEW w \in Waiters, Call(w) PROVE worker' = "notify"
    BY <2>4 DEF Call, mailbox
  <2>5. ASSUME NEW w \in Waiters, Look(w) PROVE worker' = "notify"
    BY <2>5 DEF Look, Goto, Panic, mailbox
  <2>6. ASSUME NEW w \in Waiters,
               LookPanics(w) \/ TimesOut(w) \/ TimedOutPanics(w) \/ WakesByChance(w)
        PROVE  worker' = "notify"
    BY <2>6 DEF LookPanics, TimesOut, TimedOutPanics, WakesByChance, Goto, Panic,
                mailbox
  <2>7. ASSUME NEW w \in Waiters, Pass(w) PROVE worker' = "notify"
    BY <2>7 DEF Pass, mailbox
  <2>8. CASE Over \/ UNCHANGED vars
    BY <2>8 DEF Over, vars, callers, mailbox
  <2> QED
    BY <2>1, <2>2, <2>3, <2>4, <2>5, <2>6, <2>7, <2>8 DEF Next, Worker, WaitFor
<1> QED
  BY <1>1, <1>2, TypeCorrect, PTL DEF Spec
=============================================================================
