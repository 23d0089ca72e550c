--------------------------- MODULE SchedulerProofs ---------------------------
(***************************************************************************)
(* Proofs about Scheduler: its safety invariants hold for every number of  *)
(* threads, every set of user processes, messages and interrupt sources.   *)
(***************************************************************************)
EXTENDS Scheduler, TLAPS

-----------------------------------------------------------------------------
(* Queues of thread ids. *)

In(q, u) == \E i \in DOMAIN q : q[i] = u
Distinct(q) == \A i, j \in DOMAIN q : q[i] = q[j] => i = j

(* enqueue_ready adds its thread at the back and nothing else. *)
LEMMA AppendFacts ==
  ASSUME NEW S, NEW q \in Seq(S), NEW t \in S
  PROVE  /\ Append(q, t) \in Seq(S)
         /\ \A u : In(Append(q, t), u) <=> (In(q, u) \/ u = t)
         /\ Distinct(q) /\ ~ In(q, t) => Distinct(Append(q, t))
<1>1. /\ Append(q, t) \in Seq(S)
      /\ DOMAIN q = 1..Len(q)
      /\ Len(q) \in Nat
      /\ DOMAIN Append(q, t) = 1..(Len(q) + 1)
      /\ \A i \in 1..Len(q) : Append(q, t)[i] = q[i]
      /\ Append(q, t)[Len(q) + 1] = t
  OBVIOUS
<1>2. \A u : In(Append(q, t), u) <=> (In(q, u) \/ u = t)
  BY <1>1 DEF In
<1>3. Distinct(q) /\ ~ In(q, t) => Distinct(Append(q, t))
  BY <1>1 DEF In, Distinct
<1> QED
  BY <1>1, <1>2, <1>3, Zenon

(* enqueue_ready_front adds its thread at the front and nothing else. *)
LEMMA FrontFacts ==
  ASSUME NEW S, NEW q \in Seq(S), NEW t \in S
  PROVE  /\ <<t>> \o q \in Seq(S)
         /\ \A u : In(<<t>> \o q, u) <=> (In(q, u) \/ u = t)
         /\ Distinct(q) /\ ~ In(q, t) => Distinct(<<t>> \o q)
<1>1. /\ <<t>> \o q \in Seq(S)
      /\ DOMAIN q = 1..Len(q)
      /\ Len(q) \in Nat
      /\ DOMAIN (<<t>> \o q) = 1..(Len(q) + 1)
      /\ (<<t>> \o q)[1] = t
      /\ \A i \in 2..(Len(q) + 1) : (<<t>> \o q)[i] = q[i - 1]
  OBVIOUS
<1>2. \A u : In(<<t>> \o q, u) <=> (In(q, u) \/ u = t)
  <2> SUFFICES ASSUME NEW u PROVE In(<<t>> \o q, u) <=> (In(q, u) \/ u = t)
    BY Zenon
  <2>1. In(q, u) => In(<<t>> \o q, u)
    <3> SUFFICES ASSUME NEW i \in 1..Len(q), q[i] = u PROVE In(<<t>> \o q, u)
      BY <1>1, Zenon DEF In
    <3>1. i + 1 \in DOMAIN (<<t>> \o q) /\ (<<t>> \o q)[i + 1] = u
      BY <1>1
    <3> QED BY <3>1, Zenon DEF In
  <2>2. In(<<t>> \o q, t)
    BY <1>1 DEF In
  <2>3. In(<<t>> \o q, u) => In(q, u) \/ u = t
    BY <1>1 DEF In
  <2> QED BY <2>1, <2>2, <2>3, Zenon
<1>3. Distinct(q) /\ ~ In(q, t) => Distinct(<<t>> \o q)
  BY <1>1 DEF In, Distinct
<1> QED
  BY <1>1, <1>2, <1>3, Zenon

(* Popping the front removes the head and nothing else. *)
LEMMA TailFacts ==
  ASSUME NEW S, NEW q \in Seq(S), q # <<>>, Distinct(q)
  PROVE  /\ Head(q) \in S
         /\ In(q, Head(q))
         /\ Tail(q) \in Seq(S)
         /\ \A u : In(Tail(q), u) <=> (In(q, u) /\ u # Head(q))
         /\ Distinct(Tail(q))
<1>1. /\ Len(q) \in Nat \ {0}
      /\ DOMAIN q = 1..Len(q)
      /\ Head(q) = q[1]
      /\ Tail(q) \in Seq(S)
      /\ DOMAIN Tail(q) = 1..(Len(q) - 1)
      /\ \A i \in 1..(Len(q) - 1) : Tail(q)[i] = q[i + 1]
  OBVIOUS
<1>2. Head(q) \in S /\ In(q, Head(q))
  BY <1>1 DEF In
<1>3. \A u : In(Tail(q), u) <=> (In(q, u) /\ u # Head(q))
  <2> SUFFICES ASSUME NEW u
               PROVE  In(Tail(q), u) <=> (In(q, u) /\ u # Head(q))
    BY Zenon
  <2>1. In(Tail(q), u) => In(q, u) /\ u # Head(q)
    BY <1>1 DEF In, Distinct
  <2>2. In(q, u) /\ u # Head(q) => In(Tail(q), u)
    <3> SUFFICES ASSUME NEW i \in 1..Len(q), q[i] = u, u # q[1]
                 PROVE  In(Tail(q), u)
      BY <1>1, Zenon DEF In
    <3>1. i - 1 \in 1..(Len(q) - 1) /\ Tail(q)[i - 1] = u
      BY <1>1
    <3> QED BY <1>1, <3>1, Zenon DEF In
  <2> QED BY <2>1, <2>2, Zenon
<1>4. Distinct(Tail(q))
  BY <1>1 DEF Distinct
<1> QED
  BY <1>1, <1>2, <1>3, <1>4, Zenon

-----------------------------------------------------------------------------
(* The inductive invariant: the invariants of Scheduler, and three facts   *)
(* they need.                                                              *)

(* Ids not yet allocated are in no table. *)
FreshIds == \A t \in threadTable : t < nextId

(* The trap setup that schedule() and enter_idle leave stays right until   *)
(* the next switch, so the window, wfi and the return to user mode find it *)
(* as TrapRouting asks.                                                    *)
TrapInv ==
  /\ mode \in {"window", "idle", "wfi", "woken"} => stvec = "kernel"
  /\ mode = "user" \/ (mode = "kernel" /\ current \in UserThreads) =>
       /\ stvec = "user"
       /\ context = current
       /\ ttf = [kernelSp |-> current, userRegs |-> current]

(* The queue has no duplicates, and holds the live Ready threads. *)
QueueInv ==
  /\ mode # "panic"
  /\ Distinct(readyQueue)
  /\ \A t \in Tid : In(readyQueue, t) <=> (t \in threadTable /\ state[t] = "Ready")

IInv ==
  /\ TypeOK
  /\ FreshIds
  /\ QueueInv
  /\ OneRunning
  /\ NoLostWakeup
  /\ NoSleepWithWork
  /\ TrapInv

(* The part of the inductive invariant about the queue is QueueExact. *)
LEMMA QueueInvExact == QueueInv <=> QueueExact
BY Zenon DEF QueueInv, QueueExact, Distinct, In, InQueue

(* Ids are integers, and no thread has the id of the idle thread. *)
LEMMA TidFacts ==
  /\ Tid \subseteq Nat \ {0}
  /\ Idle \notin Tid
  /\ Null \notin Tid
  /\ Idle # Null
BY ConstantsAssumption DEF Tid, Idle, Null

(* kernel_main's state before the first thread satisfies the invariant. *)
THEOREM InitIInv == Init => IInv
<1> SUFFICES ASSUME Init PROVE IInv
  BY Zenon
<1> USE DEF Init
<1>1. TypeOK
  BY ConstantsAssumption DEF TypeOK, ThreadState, Mode, Tid
<1>2. QueueInv
  BY DEF QueueInv, Distinct, In
<1>3. FreshIds /\ OneRunning /\ NoLostWakeup /\ NoSleepWithWork /\ TrapInv
  BY Zenon DEF FreshIds, OneRunning, ThreadRuns, NoLostWakeup, NoSleepWithWork, TrapInv
<1> QED
  BY <1>1, <1>2, <1>3, Zenon DEF IInv

-----------------------------------------------------------------------------
(* A message that is delivered, or a thread that is woken, leaves the data *)
(* of ThreadManager as the invariant asks; the callers only say what mode  *)
(* the hart is in.                                                         *)

(* Delivering a message keeps the inboxes well typed. *)
LEMMA DeliverType ==
  ASSUME TypeOK, NEW t \in Tid, NEW msg \in Message, Deliver(t, msg)
  PROVE  inbox' \in [Tid -> Seq(Message)]
BY DEF TypeOK, Deliver

(* What wake_thread does to the states and to the queue. *)
LEMMA WakeThreadFacts ==
  ASSUME TypeOK, QueueInv, NEW t \in Tid, WakeThread(t), threadTable' = threadTable
  PROVE  /\ state' \in [Tid \cup {Idle} -> ThreadState]
         /\ readyQueue' \in Seq(Tid)
         /\ Distinct(readyQueue')
         /\ \A u \in Tid : In(readyQueue', u) <=> (u \in threadTable' /\ state'[u] = "Ready")
         /\ \A u \in Tid : state'[u] = "Running" <=> state[u] = "Running"
         /\ \A u \in Tid : state'[u] = "Blocked" <=> (state[u] = "Blocked" /\ ~ (u = t /\ Wakes(t)))
<1>1. CASE Wakes(t)
  <2>1. ~ In(readyQueue, t)
    BY <1>1, Zenon DEF QueueInv, Wakes
  <2>2. state' = [state EXCEPT ![t] = "Ready"] /\ readyQueue' = Append(readyQueue, t)
    BY <1>1, Zenon DEF WakeThread, EnqueueReady
  <2>3. readyQueue \in Seq(Tid) /\ state \in [Tid \cup {Idle} -> ThreadState]
    BY Zenon DEF TypeOK
  <2>4. /\ readyQueue' \in Seq(Tid)
        /\ \A u : In(readyQueue', u) <=> (In(readyQueue, u) \/ u = t)
        /\ Distinct(readyQueue')
    BY <2>1, <2>2, <2>3, AppendFacts, Zenon DEF QueueInv
  <2> QED
    BY <1>1, <2>2, <2>3, <2>4, Zenon DEF QueueInv, Wakes, ThreadState
<1>2. CASE ~ Wakes(t)
  BY <1>2, Zenon DEF WakeThread, TypeOK, QueueInv
<1> QED
  BY <1>1, <1>2, Zenon

-----------------------------------------------------------------------------
(* One lemma for each operation that moves a thread. *)

(* Thread::new and add give the new thread an id nobody has. *)
LEMMA SpawnIInv == IInv /\ Spawn => IInv'
<1> SUFFICES ASSUME IInv, Spawn PROVE IInv'
  BY Zenon
<1> USE DEF IInv
<1>1. nextId \in Tid /\ nextId \notin threadTable /\ nextId \in Nat
  BY ConstantsAssumption DEF Spawn, TypeOK, FreshIds, Tid
<1>2. ~ In(readyQueue, nextId) /\ readyQueue \in Seq(Tid)
  BY <1>1, Zenon DEF QueueInv, TypeOK
<1>3. /\ readyQueue' \in Seq(Tid)
      /\ \A u : In(readyQueue', u) <=> (In(readyQueue, u) \/ u = nextId)
      /\ Distinct(readyQueue')
  BY <1>1, <1>2, AppendFacts, Zenon DEF QueueInv, Spawn, EnqueueReady
<1>4. TypeOK'
  BY <1>1, <1>3, ConstantsAssumption DEF TypeOK, Spawn, trapVars, ThreadState, Tid
<1>5. FreshIds'
  BY <1>1, TidFacts DEF FreshIds, Spawn, TypeOK, Tid
<1>6. QueueInv'
  BY <1>1, <1>3, TidFacts, Zenon DEF QueueInv, Spawn, TypeOK
<1>7. OneRunning'
  BY <1>1, TidFacts DEF OneRunning, ThreadRuns, Spawn, TypeOK, InCode
<1>8. NoLostWakeup'
  BY <1>1, TidFacts, Zenon DEF NoLostWakeup, Spawn, TypeOK
<1>9. NoSleepWithWork' /\ TrapInv'
  BY Zenon DEF NoSleepWithWork, TrapInv, Spawn, trapVars, InCode
<1> QED
  BY <1>4, <1>5, <1>6, <1>7, <1>8, <1>9, Zenon

(* send_message_urgent enqueues sender and woken target once each. *)
LEMMA SendMessageUrgentIInv ==
  ASSUME IInv, NEW t \in Tid, NEW msg \in Message, SendMessageUrgent(t, msg)
  PROVE  IInv'
<1> USE DEF IInv
<1>1. /\ current \in threadTable /\ current \in Tid
      /\ state[current] = "Running" /\ current \notin receiving
      /\ threadTable \subseteq Tid
      /\ state \in [Tid \cup {Idle} -> ThreadState]
      /\ readyQueue \in Seq(Tid)
      /\ ~ In(readyQueue, current)
  BY Zenon DEF SendMessageUrgent, InCode, OneRunning, ThreadRuns, TypeOK, QueueInv
<1>2. state' \in [Tid \cup {Idle} -> ThreadState]
  BY <1>1, Zenon DEF SendMessageUrgent, ThreadState
<1>3. \A u \in Tid : state'[u] = IF u = current \/ (u = t /\ Wakes(t)) THEN "Ready" ELSE state[u]
  BY <1>1, Zenon DEF SendMessageUrgent
<1>4. /\ readyQueue' \in Seq(Tid)
      /\ Distinct(readyQueue')
      /\ \A u : In(readyQueue', u) <=> (In(readyQueue, u) \/ u = current \/ (u = t /\ Wakes(t)))
  <2> DEFINE q == IF Wakes(t) THEN <<t>> \o readyQueue ELSE readyQueue
  <2>1. readyQueue' = Append(q, current)
    BY Zenon DEF SendMessageUrgent, EnqueueReady, EnqueueReadyFront
  <2>2. Wakes(t) => ~ In(readyQueue, t) /\ t # current
    BY <1>1, Zenon DEF QueueInv, Wakes
  <2>3. /\ q \in Seq(Tid)
        /\ Distinct(q)
        /\ \A u : In(q, u) <=> (In(readyQueue, u) \/ (u = t /\ Wakes(t)))
    <3>1. CASE Wakes(t)
      BY <3>1, <1>1, <2>2, FrontFacts, Zenon DEF QueueInv
    <3>2. CASE ~ Wakes(t)
      BY <3>2, <1>1, Zenon DEF QueueInv
    <3> QED BY <3>1, <3>2, Zenon
  <2> HIDE DEF q
  <2>4. ~ In(q, current)
    BY <1>1, <2>2, <2>3, Zenon
  <2> QED
    BY <1>1, <2>1, <2>3, <2>4, AppendFacts
<1>5. TypeOK'
  BY <1>2, <1>4, DeliverType, Zenon DEF TypeOK, SendMessageUrgent, trapVars, Mode
<1>6. FreshIds'
  BY Zenon DEF FreshIds, SendMessageUrgent
<1>7. QueueInv'
  BY <1>1, <1>3, <1>4, Zenon DEF QueueInv, SendMessageUrgent, Wakes
<1>8. OneRunning'
  BY <1>1, <1>3, Zenon DEF OneRunning, ThreadRuns, SendMessageUrgent, InCode
<1>9. NoLostWakeup'
  BY <1>1, <1>3, Zenon DEF NoLostWakeup, SendMessageUrgent, Deliver, Wakes, TypeOK
<1>10. NoSleepWithWork' /\ TrapInv'
  BY Zenon DEF NoSleepWithWork, TrapInv, SendMessageUrgent, trapVars
<1> QED
  BY <1>5, <1>6, <1>7, <1>8, <1>9, <1>10, Zenon

(* The running thread is in no queue, so re-enqueueing it keeps the queue  *)
(* exact.                                                                  *)
LEMMA RequeueIInv ==
  ASSUME IInv, mode \in {"kernel", "requeue"}, Requeue, trapVars' = trapVars
  PROVE  IInv'
<1> USE DEF IInv
<1>1. /\ current \in threadTable /\ current \in Tid
      /\ state[current] = "Running"
      /\ threadTable \subseteq Tid
      /\ state \in [Tid \cup {Idle} -> ThreadState]
      /\ readyQueue \in Seq(Tid)
      /\ ~ In(readyQueue, current)
  BY Zenon DEF OneRunning, ThreadRuns, TypeOK, QueueInv
<1>2. /\ readyQueue' \in Seq(Tid)
      /\ \A u : In(readyQueue', u) <=> (In(readyQueue, u) \/ u = current)
      /\ Distinct(readyQueue')
  BY <1>1, AppendFacts, Zenon DEF QueueInv, Requeue, EnqueueReady
<1>3. \A u \in Tid : state'[u] = IF u = current THEN "Ready" ELSE state[u]
  BY <1>1, Zenon DEF Requeue
<1>4. TypeOK'
  BY <1>1, <1>2, Zenon DEF TypeOK, Requeue, trapVars, ThreadState, Mode
<1>5. FreshIds'
  BY Zenon DEF FreshIds, Requeue
<1>6. QueueInv'
  BY <1>1, <1>2, <1>3, Zenon DEF QueueInv, Requeue
<1>7. OneRunning'
  BY <1>1, <1>3, Zenon DEF OneRunning, ThreadRuns, Requeue
<1>8. NoLostWakeup'
  BY <1>1, <1>3, Zenon DEF NoLostWakeup, Requeue
<1>9. NoSleepWithWork' /\ TrapInv'
  BY Zenon DEF NoSleepWithWork, TrapInv, Requeue, trapVars
<1> QED
  BY <1>4, <1>5, <1>6, <1>7, <1>8, <1>9, Zenon

(* A thread that blocks is in no queue.  If it blocks in receive_message,  *)
(* its inbox is empty.                                                     *)
LEMMA BlockIInv ==
  ASSUME IInv, mode = "kernel", Block,
         \/ current \notin receiving /\ receiving' = receiving
         \/ inbox[current] = <<>> /\ receiving' = receiving \cup {current}
  PROVE  IInv'
<1> USE DEF IInv
<1>1. /\ current \in threadTable /\ current \in Tid
      /\ state[current] = "Running"
      /\ threadTable \subseteq Tid
      /\ state \in [Tid \cup {Idle} -> ThreadState]
  BY Zenon DEF OneRunning, ThreadRuns, TypeOK
<1>2. \A u \in Tid : state'[u] = IF u = current THEN "Blocked" ELSE state[u]
  BY <1>1, Zenon DEF Block
<1>3. TypeOK'
  BY <1>1, Zenon DEF TypeOK, Block, trapVars, ThreadState, Mode
<1>4. FreshIds' /\ QueueInv'
  BY <1>1, <1>2, Zenon DEF FreshIds, QueueInv, Block
<1>5. OneRunning'
  BY <1>1, <1>2, Zenon DEF OneRunning, ThreadRuns, Block
<1>6. NoLostWakeup'
  BY <1>1, <1>2, Zenon DEF NoLostWakeup, Block
<1>7. NoSleepWithWork' /\ TrapInv'
  BY Zenon DEF NoSleepWithWork, TrapInv, Block, trapVars
<1> QED
  BY <1>3, <1>4, <1>5, <1>6, <1>7, Zenon

(* receive_message sleeps only on an empty inbox. *)
LEMMA ReceiveMessageIInv == IInv /\ ReceiveMessage => IInv'
<1> SUFFICES ASSUME IInv, ReceiveMessage PROVE IInv'
  BY Zenon
<1>1. CASE inbox[current] = <<>>
  BY <1>1, BlockIInv, Zenon DEF ReceiveMessage
<1>2. CASE inbox[current] # <<>>
  <2> USE DEF IInv
  <2>1. current \in threadTable /\ current \in Tid /\ inbox[current] \in Seq(Message)
    BY Zenon DEF ReceiveMessage, OneRunning, ThreadRuns, TypeOK
  <2>2. Tail(inbox[current]) \in Seq(Message)
    BY <1>2, <2>1
  <2>3. TypeOK'
    BY <1>2, <2>1, <2>2, ZenonT(30) DEF TypeOK, ReceiveMessage, trapVars
  <2>4. FreshIds' /\ QueueInv' /\ OneRunning'
    BY <1>2 DEF FreshIds, QueueInv, OneRunning, ThreadRuns, ReceiveMessage
  <2>5. NoLostWakeup'
    BY <1>2, <2>1 DEF NoLostWakeup, ReceiveMessage, TypeOK
  <2>6. NoSleepWithWork' /\ TrapInv'
    BY <1>2, Zenon DEF NoSleepWithWork, TrapInv, ReceiveMessage, trapVars
  <2> QED
    BY <2>3, <2>4, <2>5, <2>6, Zenon
<1> QED
  BY <1>1, <1>2, Zenon

(* exit leaves no trace of the thread in the queue. *)
LEMMA ExitIInv == IInv /\ Exit => IInv'
<1> SUFFICES ASSUME IInv, Exit PROVE IInv'
  BY Zenon
<1> USE DEF IInv
<1>1. /\ current \in threadTable /\ current \in Tid
      /\ state[current] = "Running"
      /\ threadTable \subseteq Tid
  BY Zenon DEF Exit, InCode, OneRunning, ThreadRuns, TypeOK
<1>2. TypeOK'
  BY <1>1 DEF TypeOK, Exit, trapVars, Mode
<1>3. FreshIds' /\ QueueInv'
  BY <1>1, Zenon DEF FreshIds, QueueInv, Exit
<1>4. OneRunning' /\ NoLostWakeup'
  BY <1>1, Zenon DEF OneRunning, ThreadRuns, NoLostWakeup, Exit, InCode, TypeOK
<1>5. NoSleepWithWork' /\ TrapInv'
  BY Zenon DEF NoSleepWithWork, TrapInv, Exit, trapVars
<1> QED
  BY <1>2, <1>3, <1>4, <1>5, Zenon

(* The head of the queue is a live thread, so the expect of schedule()     *)
(* never fails; nobody else is Running.                                    *)
LEMMA ScheduleIInv == IInv /\ Schedule => IInv'
<1> SUFFICES ASSUME IInv, Schedule PROVE IInv'
  BY Zenon
<1> USE DEF IInv
<1> DEFINE next == Head(readyQueue)
<1>1. readyQueue \in Seq(Tid) /\ readyQueue # <<>> /\ Distinct(readyQueue)
  BY Zenon DEF Schedule, TypeOK, QueueInv
<1>2. /\ next \in Tid
      /\ In(readyQueue, next)
      /\ Tail(readyQueue) \in Seq(Tid)
      /\ \A u : In(Tail(readyQueue), u) <=> (In(readyQueue, u) /\ u # next)
      /\ Distinct(Tail(readyQueue))
  BY <1>1, TailFacts, Zenon
<1>3. next \in threadTable /\ state[next] = "Ready"
  BY <1>2, Zenon DEF QueueInv
<1> HIDE DEF next
<1>4. /\ readyQueue' = Tail(readyQueue)
      /\ state' = [state EXCEPT ![next] = "Running"]
      /\ current' = next
      /\ TrapSetup(next)
      /\ mode' = "kernel"
      /\ UNCHANGED <<threadTable, nextId, inbox, receiving, pending, entered>>
  BY <1>3, Zenon DEF Schedule, next
<1>5. threadTable \subseteq Tid /\ state \in [Tid \cup {Idle} -> ThreadState]
  BY Zenon DEF TypeOK
<1>6. \A u \in Tid : state'[u] = IF u = next THEN "Running" ELSE state[u]
  BY <1>2, <1>4, <1>5, Zenon
<1>7. TypeOK'
  <2>1. /\ stvec' \in {"user", "kernel"}
        /\ ttf' \in [kernelSp : Tid \cup {Null}, userRegs : Tid \cup {Null}]
        /\ context' \in Tid \cup {Null}
    BY <1>2, <1>4 DEF TrapSetup, TypeOK
  <2> QED
    BY <2>1, <1>2, <1>4, Zenon DEF TypeOK, ThreadState, Mode
<1>8. FreshIds' /\ QueueInv'
  BY <1>2, <1>3, <1>4, <1>6 DEF FreshIds, QueueInv
<1>9. OneRunning'
  BY <1>3, <1>4, <1>5, <1>6, Zenon DEF OneRunning, ThreadRuns, Schedule
<1>10. NoLostWakeup'
  BY <1>4, <1>5, <1>6, Zenon DEF NoLostWakeup
<1>11. NoSleepWithWork' /\ TrapInv'
  BY <1>4, Zenon DEF NoSleepWithWork, TrapInv, TrapSetup
<1> QED
  BY <1>7, <1>8, <1>9, <1>10, <1>11, Zenon

(* The idle loop is entered with an empty queue. *)
LEMMA EnterIdleIInv == IInv /\ EnterIdle => IInv'
<1> SUFFICES ASSUME IInv, EnterIdle PROVE IInv'
  BY Zenon
<1> USE DEF IInv
<1>1. /\ threadTable \subseteq Tid
      /\ \A u \in Tid : state'[u] = state[u]
  BY TidFacts, Zenon DEF EnterIdle, TypeOK
<1>2. TypeOK'
  BY Zenon DEF TypeOK, EnterIdle, ThreadState, Mode
<1>3. FreshIds' /\ QueueInv'
  BY <1>1, Zenon DEF FreshIds, QueueInv, EnterIdle
<1>4. OneRunning' /\ NoLostWakeup'
  BY <1>1, Zenon DEF OneRunning, ThreadRuns, NoLostWakeup, EnterIdle
<1>5. NoSleepWithWork' /\ TrapInv'
  BY Zenon DEF NoSleepWithWork, TrapInv, EnterIdle
<1> QED
  BY <1>2, <1>3, <1>4, <1>5, Zenon

-----------------------------------------------------------------------------
(* Messages and wake-ups, sent by the running thread or by a handler.      *)

(* What the sender must leave alone for the invariant to survive a         *)
(* delivery: the hart stays in, or moves between, modes in which the same  *)
(* thread runs, and does not stay in the idle loop before schedule_if_ready. *)
LEMMA WakeThreadIInv ==
  ASSUME IInv, NEW t \in Tid, WakeThread(t),
         \/ inbox' = inbox
         \/ \E msg \in Message : Deliver(t, msg),
         UNCHANGED <<threadTable, nextId, receiving, current>>,
         ThreadRuns' = ThreadRuns,
         mode' \in Mode \ {"panic", "idle", "wfi"},
         pending' \subseteq Irqs,
         stvec' \in {"user", "kernel"},
         ttf' \in [kernelSp : Tid \cup {Null}, userRegs : Tid \cup {Null}],
         context' \in Tid \cup {Null},
         entered' \subseteq UserThreads,
         TrapInv'
  PROVE  IInv'
<1> USE DEF IInv
<1>1. /\ state' \in [Tid \cup {Idle} -> ThreadState]
      /\ readyQueue' \in Seq(Tid)
      /\ Distinct(readyQueue')
      /\ \A u \in Tid : In(readyQueue', u) <=> (u \in threadTable' /\ state'[u] = "Ready")
      /\ \A u \in Tid : state'[u] = "Running" <=> state[u] = "Running"
      /\ \A u \in Tid : state'[u] = "Blocked" <=> (state[u] = "Blocked" /\ ~ (u = t /\ Wakes(t)))
  BY WakeThreadFacts, Zenon
<1>2. inbox' \in [Tid -> Seq(Message)]
  BY DeliverType, Zenon DEF TypeOK
<1>3. TypeOK'
  BY <1>1, <1>2, Zenon DEF TypeOK
<1>4. FreshIds' /\ QueueInv'
  BY <1>1, Zenon DEF FreshIds, QueueInv
<1>5. OneRunning'
  BY <1>1, Zenon DEF OneRunning, TypeOK
<1>6. NoLostWakeup'
  <2> SUFFICES ASSUME NEW u \in threadTable \cap receiving, state'[u] = "Blocked"
               PROVE  inbox'[u] = <<>>
    BY Zenon DEF NoLostWakeup
  <2>1. u \in Tid /\ state[u] = "Blocked" /\ ~ (u = t /\ Wakes(t))
    BY <1>1, Zenon DEF TypeOK
  <2>2. inbox[u] = <<>> /\ u # t
    BY <2>1, Zenon DEF NoLostWakeup, Wakes
  <2> QED
    BY <2>1, <2>2, Zenon DEF Deliver, TypeOK
<1>7. NoSleepWithWork'
  BY Zenon DEF NoSleepWithWork
<1> QED
  BY <1>3, <1>4, <1>5, <1>6, <1>7, Zenon

(* send_message from a thread preserves the invariant. *)
LEMMA ThreadSendsIInv ==
  ASSUME IInv, NEW t \in Tid, NEW d \in Payload, ThreadSends(t, d)
  PROVE  IInv'
<1>1. [sender |-> current, data |-> d] \in Message
  BY Zenon DEF IInv, ThreadSends, InCode, OneRunning, ThreadRuns, TypeOK, Message
<1> QED
  BY <1>1, WakeThreadIInv, Zenon
     DEF ThreadSends, SendMessage, InCode, IInv, TypeOK, trapVars, TrapInv, Mode, ThreadRuns

(* wake_thread from a thread preserves the invariant. *)
LEMMA ThreadWakesIInv ==
  ASSUME IInv, NEW t \in Tid, ThreadWakes(t)
  PROVE  IInv'
BY WakeThreadIInv, Zenon
   DEF ThreadWakes, InCode, IInv, TypeOK, trapVars, TrapInv, Mode, ThreadRuns

(* A trap keeps the running thread, and routes the next trap as before.    *)
LEMMA TakeInterruptFacts ==
  ASSUME IInv, NEW i \in Irqs, TakeInterrupt(i)
  PROVE  /\ ThreadRuns' = ThreadRuns
         /\ mode' \in Mode \ {"panic", "idle", "wfi"}
         /\ pending' \subseteq Irqs
         /\ ttf' \in [kernelSp : Tid \cup {Null}, userRegs : Tid \cup {Null}]
         /\ TrapInv'
<1> USE DEF IInv
<1>1. /\ mode' \in {"woken", "requeue", "user"}
      /\ mode' = "woken" <=> mode \in {"idle", "wfi"}
      /\ mode' = "requeue" <=> mode = "window"
      /\ mode' = "user" <=> mode = "user"
  BY Zenon DEF TakeInterrupt, InterruptsOpen, TrapReturn
<1>2. ThreadRuns' = ThreadRuns /\ mode' \in Mode \ {"panic", "idle", "wfi"}
  BY <1>1 DEF TakeInterrupt, InterruptsOpen, ThreadRuns, Mode
<1>3. pending' \subseteq Irqs
  BY Zenon DEF TakeInterrupt, TypeOK
<1>4. ttf' \in [kernelSp : Tid \cup {Null}, userRegs : Tid \cup {Null}]
  BY Zenon DEF TakeInterrupt, TypeOK, OneRunning, ThreadRuns
<1>5. TrapInv'
  BY <1>1 DEF TakeInterrupt, InterruptsOpen, TrapInv, TypeOK
<1> QED
  BY <1>2, <1>3, <1>4, <1>5, Zenon

(* A trap and whatever its handler sends or wakes preserve it. *)
LEMMA InterruptIInv == IInv /\ Interrupt => IInv'
<1> SUFFICES ASSUME IInv, NEW i \in Irqs,
                    \/ \E t \in Tid, d \in Payload : HandlerSends(i, t, d)
                    \/ \E t \in Tid : HandlerWakes(i, t)
                    \/ HandlerReturns(i)
             PROVE  IInv'
  BY Zenon DEF Interrupt
<1>1. TakeInterrupt(i)
  BY Zenon DEF HandlerSends, HandlerWakes, HandlerReturns
<1>2. /\ ThreadRuns' = ThreadRuns
      /\ mode' \in Mode \ {"panic", "idle", "wfi"}
      /\ pending' \subseteq Irqs
      /\ ttf' \in [kernelSp : Tid \cup {Null}, userRegs : Tid \cup {Null}]
      /\ TrapInv'
  BY <1>1, TakeInterruptFacts, Zenon
<1>3. /\ UNCHANGED <<threadTable, nextId, receiving, current>>
      /\ stvec' \in {"user", "kernel"}
      /\ context' \in Tid \cup {Null}
      /\ entered' \subseteq UserThreads
  BY <1>1, Zenon DEF TakeInterrupt, IInv, TypeOK
<1>4. ASSUME NEW t \in Tid, NEW d \in Payload, HandlerSends(i, t, d)
      PROVE  IInv'
  <2>1. [sender |-> Idle, data |-> d] \in Message
    BY Zenon DEF Message
  <2> QED
    BY <1>2, <1>3, <1>4, <2>1, WakeThreadIInv, Zenon DEF HandlerSends, SendMessage
<1>5. ASSUME NEW t \in Tid, HandlerWakes(i, t)
      PROVE  IInv'
  BY <1>2, <1>3, <1>5, WakeThreadIInv, Zenon DEF HandlerWakes
<1>6. ASSUME HandlerReturns(i)
      PROVE  IInv'
  BY <1>2, <1>3, <1>6, Zenon
     DEF HandlerReturns, IInv, TypeOK, FreshIds, QueueInv, OneRunning, NoLostWakeup, NoSleepWithWork
<1> QED
  BY <1>4, <1>5, <1>6, Zenon

-----------------------------------------------------------------------------
(* Steps that leave the scheduler's data alone: the idle loop, a device    *)
(* that raises its line, the window of yield_now and the ways in and out   *)
(* of user mode.                                                           *)
LEMMA ModeStepIInv ==
  ASSUME IInv,
         \/ StartScheduler \/ Wfi \/ ScheduleIfReady
         \/ EnterProcess \/ Ecall \/ ReturnToUser
         \/ \E i \in Irqs : RaiseIrq(i)
         \/ InCode /\ mode' = "window" /\ stvec' = "kernel"
            /\ UNCHANGED <<threadVars, current, pending, ttf, context, entered>>
  PROVE  IInv'
<1> USE DEF IInv
<1>1. UNCHANGED <<threadTable, nextId, state, readyQueue, inbox, receiving, current>>
  BY Zenon DEF StartScheduler, Wfi, ScheduleIfReady, EnterProcess, Ecall, ReturnToUser, RaiseIrq, threadVars
<1>2. /\ mode' \in Mode \ {"panic"}
      /\ ThreadRuns' <=> ThreadRuns
      /\ mode' = "idle" => readyQueue = <<>>
      /\ mode' = "wfi" => mode \in {"idle", "wfi"}
  BY Zenon DEF StartScheduler, Wfi, ScheduleIfReady, EnterProcess, Ecall, ReturnToUser, RaiseIrq,
         InCode, ThreadRuns, Mode, TypeOK, QueueInv, NoSleepWithWork
<1>3. TypeOK'
  <2>1. EnterProcess \/ Ecall => current \in Tid
    BY Zenon DEF EnterProcess, Ecall, InCode, OneRunning, ThreadRuns, TypeOK
  <2>2. /\ pending' \subseteq Irqs
        /\ stvec' \in {"user", "kernel"}
        /\ ttf' \in [kernelSp : Tid \cup {Null}, userRegs : Tid \cup {Null}]
        /\ context' \in Tid \cup {Null}
        /\ entered' \subseteq UserThreads
    BY <2>1, Zenon DEF StartScheduler, Wfi, ScheduleIfReady, EnterProcess, Ecall, ReturnToUser, RaiseIrq,
                trapVars, TypeOK
  <2> QED
    BY <1>1, <1>2, <2>2, Zenon DEF TypeOK
<1>4. FreshIds' /\ QueueInv' /\ NoLostWakeup'
  BY <1>1, <1>2, Zenon DEF FreshIds, QueueInv, NoLostWakeup
<1>5. OneRunning'
  BY <1>1, <1>2, Zenon DEF OneRunning
<1>6. NoSleepWithWork'
  BY <1>1, <1>2, Zenon DEF NoSleepWithWork
<1>7. TrapInv'
  <2>1. CASE EnterProcess
    <3>1. /\ ttf = [kernelSp |-> current, userRegs |-> current]
          /\ ttf' = [ttf EXCEPT !.kernelSp = current]
      BY <2>1, Zenon DEF EnterProcess, InCode, TrapInv
    <3>2. ttf' = ttf
      BY <3>1
    <3> QED BY <2>1, <3>1, <3>2, Zenon DEF EnterProcess, TrapInv
  <2>2. CASE Ecall
    <3>1. /\ ttf = [kernelSp |-> current, userRegs |-> current]
          /\ ttf' = [ttf EXCEPT !.userRegs = current]
      BY <2>2, Zenon DEF Ecall, TrapInv
    <3>2. ttf' = ttf
      BY <3>1
    <3> QED BY <2>2, <3>1, <3>2, Zenon DEF Ecall, TrapInv
  <2>3. CASE ReturnToUser
    BY <2>3, Zenon DEF ReturnToUser, InCode, TrapInv, trapVars, TypeOK
  <2>4. CASE ~ EnterProcess /\ ~ Ecall /\ ~ ReturnToUser
    BY <2>4, Zenon DEF StartScheduler, Wfi, ScheduleIfReady, RaiseIrq, trapVars, TrapInv
  <2> QED BY <2>1, <2>2, <2>3, <2>4, Zenon
<1> QED
  BY <1>3, <1>4, <1>5, <1>6, <1>7, Zenon

(* yield_now, with or without the window, preserves the invariant. *)
LEMMA YieldNowIInv == IInv /\ YieldNow => IInv'
BY RequeueIInv, ModeStepIInv, Zenon DEF YieldNow, InCode

(* send_message_urgent of the general client preserves it. *)
LEMMA ThreadSendsUrgentIInv ==
  ASSUME IInv, NEW t \in Tid, NEW d \in Payload, ThreadSendsUrgent(t, d)
  PROVE  IInv'
<1>1. [sender |-> current, data |-> d] \in Message
  BY Zenon DEF IInv, ThreadSendsUrgent, SendMessageUrgent, InCode, OneRunning, ThreadRuns, TypeOK, Message
<1> QED
  BY <1>1, SendMessageUrgentIInv, Zenon DEF ThreadSendsUrgent

(* Every step of the scheduler, of its threads, handlers and devices       *)
(* preserves the inductive invariant.                                      *)
THEOREM NextIInv == IInv /\ [Next]_vars => IInv'
<1> SUFFICES ASSUME IInv, [Next]_vars PROVE IInv'
  BY Zenon
<1>1. CASE Spawn
  BY <1>1, SpawnIInv, Zenon
<1>2. ASSUME NEW t \in Tid, NEW d \in Payload, ThreadSends(t, d) \/ ThreadSendsUrgent(t, d)
      PROVE  IInv'
  BY <1>2, ThreadSendsIInv, ThreadSendsUrgentIInv, Zenon
<1>3. ASSUME NEW t \in Tid, ThreadWakes(t)
      PROVE  IInv'
  BY <1>3, ThreadWakesIInv, Zenon
<1>4. CASE YieldNow
  BY <1>4, YieldNowIInv, Zenon
<1>5. CASE YieldRequeue
  BY <1>5, RequeueIInv, Zenon DEF YieldRequeue
<1>6. CASE BlockNow
  BY <1>6, BlockIInv, Zenon DEF BlockNow, InCode
<1>7. CASE ReceiveMessage
  BY <1>7, ReceiveMessageIInv, Zenon
<1>8. CASE Exit
  BY <1>8, ExitIInv, Zenon
<1>9. CASE Schedule
  BY <1>9, ScheduleIInv, Zenon
<1>10. CASE EnterIdle
  BY <1>10, EnterIdleIInv, Zenon
<1>11. CASE Interrupt
  BY <1>11, InterruptIInv, Zenon
<1>12. CASE StartScheduler \/ Wfi \/ ScheduleIfReady \/ EnterProcess \/ Ecall \/ ReturnToUser
            \/ \E i \in Irqs : RaiseIrq(i)
  BY <1>12, ModeStepIInv, Zenon
<1>13. CASE UNCHANGED vars
  BY <1>13 DEF vars, threadVars, trapVars, IInv, TypeOK, FreshIds, QueueInv, OneRunning, ThreadRuns,
               NoLostWakeup, NoSleepWithWork, TrapInv
<1> QED
  BY <1>1, <1>2, <1>3, <1>4, <1>5, <1>6, <1>7, <1>8, <1>9, <1>10, <1>11, <1>12, <1>13, Zenon DEF Next

(* Every reachable state satisfies the inductive invariant. *)
THEOREM SpecIInv == Spec => []IInv
BY InitIInv, NextIInv, PTL DEF Spec

-----------------------------------------------------------------------------
(* The theorems, for every number of threads. *)

(* Type correctness of ThreadManager's and the trap path's state. *)
THEOREM TypeCorrect == Spec => []TypeOK
<1>1. IInv => TypeOK
  BY Zenon DEF IInv
<1> QED
  BY <1>1, SpecIInv, PTL

(* The ready queue is always exactly the set of live Ready threads, each   *)
(* once, and schedule() never panics.                                      *)
THEOREM QueueIsExact == Spec => []QueueExact
<1>1. IInv => QueueExact
  BY QueueInvExact, Zenon DEF IInv
<1> QED
  BY <1>1, SpecIInv, PTL

(* CURRENT_THREAD is live and is the one thread in state Running. *)
THEOREM OneThreadRuns == Spec => []OneRunning
<1>1. IInv => OneRunning
  BY Zenon DEF IInv
<1> QED
  BY <1>1, SpecIInv, PTL

(* receive_message never sleeps on a non-empty inbox. *)
THEOREM WakeupsAreNotLost == Spec => []NoLostWakeup
<1>1. IInv => NoLostWakeup
  BY Zenon DEF IInv
<1> QED
  BY <1>1, SpecIInv, PTL

(* The idle loop never waits while a thread is ready. *)
THEOREM IdleOnlyWithoutWork == Spec => []NoSleepWithWork
<1>1. IInv => NoSleepWithWork
  BY Zenon DEF IInv
<1> QED
  BY <1>1, SpecIInv, PTL

(* A trap always finds the vector, frame and context of the code it        *)
(* interrupts.                                                             *)
THEOREM TrapsAreRouted == Spec => []TrapRouting
<1>1. IInv => TrapRouting
  BY Zenon DEF IInv, TrapInv, TrapRouting
<1> QED
  BY <1>1, SpecIInv, PTL

-----------------------------------------------------------------------------
(* Order in the ready queue. *)

KeepsOrder(q, r) ==
  \A i, j \in DOMAIN q, k, l \in DOMAIN r :
    i < j /\ r[k] = q[i] /\ r[l] = q[j] => k < l

(* A queue without duplicates in which the entries of q moved by a fixed   *)
(* distance keeps their order.                                             *)
LEMMA ShiftKeepsOrder ==
  ASSUME NEW S, NEW q \in Seq(S), NEW r \in Seq(S), Distinct(r), NEW n \in Int,
         \A i \in DOMAIN q : i + n \in DOMAIN r => r[i + n] = q[i],
         \A i \in DOMAIN q : i + n \notin DOMAIN r => ~ In(r, q[i])
  PROVE  KeepsOrder(q, r)
<1> SUFFICES ASSUME NEW i \in DOMAIN q, NEW j \in DOMAIN q,
                    NEW k \in DOMAIN r, NEW l \in DOMAIN r,
                    i < j, r[k] = q[i], r[l] = q[j]
             PROVE  k < l
  BY Zenon DEF KeepsOrder
<1>1. i + n \in DOMAIN r /\ j + n \in DOMAIN r
  BY Zenon DEF In
<1>2. k = i + n /\ l = j + n
  BY <1>1, Zenon DEF Distinct
<1>3. i \in Int /\ j \in Int
  OBVIOUS
<1>4. i + n < j + n
  BY <1>3
<1> QED
  BY <1>2, <1>4, Zenon

(* enqueue_ready keeps the order of the waiting threads. *)
LEMMA AppendKeepsOrder ==
  ASSUME NEW S, NEW q \in Seq(S), NEW t \in S, Distinct(Append(q, t))
  PROVE  KeepsOrder(q, Append(q, t))
<1>1. /\ Append(q, t) \in Seq(S)
      /\ \A i \in DOMAIN q : i + 0 \in DOMAIN Append(q, t) /\ Append(q, t)[i + 0] = q[i]
  OBVIOUS
<1> QED
  BY <1>1, ShiftKeepsOrder, 0 \in Int, Zenon

(* dequeue_ready keeps the order of the waiting threads. *)
LEMMA TailKeepsOrder ==
  ASSUME NEW S, NEW q \in Seq(S), q # <<>>, Distinct(q)
  PROVE  KeepsOrder(q, Tail(q))
<1>1. Tail(q) \in Seq(S) /\ Distinct(Tail(q)) /\ ~ In(Tail(q), Head(q))
  BY TailFacts, Zenon
<1>2. \A i \in DOMAIN q : i + (-1) \in DOMAIN Tail(q) => Tail(q)[i + (-1)] = q[i]
  OBVIOUS
<1>3. \A i \in DOMAIN q : i + (-1) \notin DOMAIN Tail(q) => q[i] = Head(q)
  OBVIOUS
<1> QED
  BY <1>1, <1>2, <1>3, ShiftKeepsOrder, -1 \in Int, Zenon

(* An urgent send keeps the order of the waiting threads. *)
LEMMA FrontAppendKeepsOrder ==
  ASSUME NEW S, NEW q \in Seq(S), NEW t \in S, NEW u \in S,
         Distinct(Append(<<t>> \o q, u))
  PROVE  KeepsOrder(q, Append(<<t>> \o q, u))
<1>1. /\ <<t>> \o q \in Seq(S)
      /\ \A i \in DOMAIN q : i + 1 \in DOMAIN (<<t>> \o q) /\ (<<t>> \o q)[i + 1] = q[i]
  OBVIOUS
<1>2. /\ Append(<<t>> \o q, u) \in Seq(S)
      /\ \A i \in DOMAIN (<<t>> \o q) : i \in DOMAIN Append(<<t>> \o q, u)
                                      /\ Append(<<t>> \o q, u)[i] = (<<t>> \o q)[i]
  BY <1>1
<1>3. \A i \in DOMAIN q : i + 1 \in DOMAIN Append(<<t>> \o q, u)
                         /\ Append(<<t>> \o q, u)[i + 1] = q[i]
  BY <1>1, <1>2, Zenon
<1> QED
  BY <1>2, <1>3, ShiftKeepsOrder, 1 \in Int, Zenon

(* A step that leaves the queue alone keeps its order. *)
LEMMA SameKeepsOrder ==
  ASSUME NEW S, NEW q \in Seq(S), Distinct(q)
  PROVE  KeepsOrder(q, q)
<1>1. \A i \in DOMAIN q : i + 0 \in DOMAIN q /\ q[i + 0] = q[i]
  OBVIOUS
<1> QED
  BY <1>1, ShiftKeepsOrder, 0 \in Int, Zenon

(* How a step may change the ready queue. *)
LEMMA QueueSteps ==
  ASSUME IInv, [Next]_vars
  PROVE  \/ readyQueue' = readyQueue
         \/ \E t \in Tid : readyQueue' = Append(readyQueue, t)
         \/ \E t, u \in Tid : readyQueue' = Append(<<t>> \o readyQueue, u)
         \/ readyQueue # <<>> /\ readyQueue' = Tail(readyQueue)
<1>1. CASE Spawn
  <2>1. nextId \in Tid
    BY <1>1, ConstantsAssumption DEF Spawn, IInv, TypeOK, Tid
  <2> QED BY <1>1, <2>1, Zenon DEF Spawn, EnqueueReady
<1>2. ASSUME NEW t \in Tid, WakeThread(t)
      PROVE  readyQueue' = readyQueue \/ readyQueue' = Append(readyQueue, t)
  BY <1>2, Zenon DEF WakeThread, EnqueueReady
<1>3. ASSUME NEW t \in Tid, NEW d \in Payload, ThreadSendsUrgent(t, d)
      PROVE  \/ \E u \in Tid : readyQueue' = Append(readyQueue, u)
             \/ \E v, u \in Tid : readyQueue' = Append(<<v>> \o readyQueue, u)
  <2>1. current \in Tid
    BY <1>3, Zenon DEF ThreadSendsUrgent, SendMessageUrgent, InCode, IInv, OneRunning, ThreadRuns, TypeOK
  <2> QED
    BY <1>3, <2>1, Zenon DEF ThreadSendsUrgent, SendMessageUrgent, EnqueueReady, EnqueueReadyFront
<1>4. CASE YieldNow \/ YieldRequeue
  <2>1. current \in Tid
    BY <1>4, Zenon DEF YieldNow, YieldRequeue, InCode, IInv, OneRunning, ThreadRuns, TypeOK
  <2> QED
    BY <1>4, <2>1, Zenon DEF YieldNow, YieldRequeue, Requeue, EnqueueReady, threadVars
<1>5. CASE Schedule
  BY <1>5, Zenon DEF Schedule
<1>6. CASE \/ UNCHANGED vars \/ BlockNow \/ ReceiveMessage \/ Exit \/ EnterIdle \/ Wfi
           \/ ScheduleIfReady \/ StartScheduler \/ EnterProcess \/ Ecall \/ ReturnToUser
           \/ \E i \in Irqs : RaiseIrq(i) \/ HandlerReturns(i)
  BY <1>6, Zenon DEF vars, threadVars, BlockNow, Block, ReceiveMessage, Exit, EnterIdle, Wfi, ScheduleIfReady,
              StartScheduler, EnterProcess, Ecall, ReturnToUser, RaiseIrq, HandlerReturns
<1>7. CASE \/ \E t \in Tid, d \in Payload : ThreadSends(t, d)
           \/ \E t \in Tid : ThreadWakes(t)
           \/ \E i \in Irqs, t \in Tid : HandlerWakes(i, t) \/ \E d \in Payload : HandlerSends(i, t, d)
  BY <1>7, <1>2, Zenon DEF ThreadSends, ThreadWakes, HandlerWakes, HandlerSends, SendMessage
<1> QED
  BY <1>1, <1>3, <1>4, <1>5, <1>6, <1>7, Zenon DEF Next, Interrupt

(* No step lets a waiting thread pass another in the ready queue. *)
THEOREM OrderIsKept == Spec => NoOvertaking
<1>1. IInv /\ IInv' /\ [Next]_vars => KeepsOrder(readyQueue, readyQueue')
  <2> SUFFICES ASSUME IInv, IInv', [Next]_vars PROVE KeepsOrder(readyQueue, readyQueue')
    BY Zenon
  <2>1. /\ readyQueue \in Seq(Tid) /\ Distinct(readyQueue)
        /\ Distinct(readyQueue')
    BY Zenon DEF IInv, TypeOK, QueueInv
  <2> QED
    BY <2>1, QueueSteps, SameKeepsOrder, AppendKeepsOrder, FrontAppendKeepsOrder, TailKeepsOrder, Zenon
<1>2. KeepsOrder(readyQueue, readyQueue') =>
        [\A i, j \in DOMAIN readyQueue, k, l \in DOMAIN readyQueue' :
           /\ i < j
           /\ readyQueue'[k] = readyQueue[i]
           /\ readyQueue'[l] = readyQueue[j]
           => k < l]_vars
  BY Zenon DEF KeepsOrder
<1> QED
  BY <1>1, <1>2, SpecIInv, PTL DEF Spec, NoOvertaking
=============================================================================
