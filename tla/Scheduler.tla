------------------------------ MODULE Scheduler ------------------------------
(***************************************************************************)
(* The kernel-thread scheduler of nano-os: src/thread.rs, the idle thread  *)
(* (kthread/idle.rs), the two trap paths that run interrupt handlers       *)
(* (kernel_trap.rs, trap.rs) and the entry to user mode                    *)
(* (process_trampoline.rs).                                                *)
(*                                                                         *)
(* One hart, no preemption: kernel code runs with interrupts off.  An      *)
(* interrupt handler runs only                                             *)
(*   - in the idle loop                       (mode "idle" and "wfi"),     *)
(*   - in the window yield_impl opens         (mode "window"),             *)
(*   - while a user program runs in U-mode    (mode "user").               *)
(* A step of this module is therefore a stretch of kernel code between two *)
(* points where something else may intervene.                              *)
(*                                                                         *)
(* Next lets every thread call every operation in any order, so what is    *)
(* shown of Spec holds whatever the threads do.  Modules that model the    *)
(* program of particular threads extend this one and use its operators.    *)
(***************************************************************************)
EXTENDS Integers, Sequences

CONSTANTS
  MaxThreads,   \* bound: the largest thread id ever allocated
  UserThreads,  \* ids whose Thread.process is Some: user processes
  Payload,      \* what Message.data may point to
  Irqs,         \* interrupt sources wired to the PLIC
  MaxInbox      \* bound on an inbox, in the general client Next

ASSUME ConstantsAssumption ==
  /\ MaxThreads \in Nat \ {0}
  /\ UserThreads \subseteq 1..MaxThreads
  /\ MaxInbox \in Nat

Idle == 0          \* the idle thread's id; it is in no table and in no queue
Null == -1         \* CURRENT_THREAD and the context pointer before start_scheduler
Tid == 1..MaxThreads

ThreadState == {"Running", "Ready", "Blocked"}

Message == [sender : Tid \cup {Idle}, data : Payload]

(* Where the hart is. *)
Mode == {"boot",      \* kernel_main, before start_scheduler
         "kernel",    \* the current thread's kernel code
         "window",    \* yield_impl between csrs and csrc of sstatus.SIE
         "requeue",   \* yield_impl after the window
         "schedule",  \* schedule()
         "idle",      \* idle loop: interrupts just enabled, wfi comes next
         "wfi",       \* idle loop: stalled in wfi
         "woken",     \* idle loop after wfi: schedule_if_ready comes next
         "user",      \* the current thread's program, in U-mode
         "panic"}     \* schedule()'s expect has failed

VARIABLES
  threadTable,  \* ids in ThreadManager::thread_table
  nextId,       \* ThreadManager::next_id
  state,        \* Thread::state, by id
  readyQueue,   \* ThreadManager::ready_queue
  inbox,        \* Thread::inbox, by id
  receiving,    \* threads whose saved context is in receive_message's loop
  current,      \* CURRENT_THREAD
  mode,         \* where the hart is
  pending,      \* interrupt sources pending in the PLIC; sip.SEIP = (pending # {})
  stvec,        \* "user" for trap_entry, "kernel" for kernel_trap_entry (and sscratch with it)
  ttf,          \* whose values the TrampolineTrapFrame holds
  context,      \* process::Context::current
  entered       \* user threads that have been through enter_process

threadVars == <<threadTable, nextId, state, readyQueue, inbox, receiving>>
trapVars   == <<stvec, ttf, context, entered>>
vars == <<threadVars, current, mode, pending, trapVars>>

Init ==
  /\ threadTable = {}
  /\ nextId = 1
  /\ state = [t \in Tid \cup {Idle} |-> "Ready"]
  /\ readyQueue = <<>>
  /\ inbox = [t \in Tid |-> <<>>]
  /\ receiving = {}
  /\ current = Null
  /\ mode = "boot"
  /\ pending = {}
  /\ stvec = "kernel"
  /\ ttf = [kernelSp |-> Null, userRegs |-> Null]
  /\ context = Null
  /\ entered = {}

-----------------------------------------------------------------------------
(* The ready queue. *)

EnqueueReady(q, t) == Append(q, t)
EnqueueReadyFront(q, t) == <<t>> \o q

(* The current thread is in its own kernel code, outside receive_message. *)
InCode == mode = "kernel" /\ current \notin receiving

(* Thread::new followed by add; kernel_main does it before the scheduler   *)
(* runs, block_init's thread while it runs.                                *)
Spawn ==
  /\ mode = "boot" \/ InCode
  /\ nextId <= MaxThreads
  /\ nextId' = nextId + 1
  /\ threadTable' = threadTable \cup {nextId}
  /\ state' = [state EXCEPT ![nextId] = "Ready"]
  /\ inbox' = [inbox EXCEPT ![nextId] = <<>>]
  /\ readyQueue' = EnqueueReady(readyQueue, nextId)
  /\ UNCHANGED <<receiving, current, mode, pending, trapVars>>

StartScheduler ==
  /\ mode = "boot"
  /\ mode' = "schedule"
  /\ UNCHANGED <<threadVars, current, pending, trapVars>>

-----------------------------------------------------------------------------
(* Messages and wake-ups.  These three change the scheduler's data only:   *)
(* a thread or an interrupt handler is running, and keeps running.         *)

Wakes(t) == t \in threadTable /\ state[t] = "Blocked"

Deliver(t, msg) ==
  inbox' = IF t \in threadTable THEN [inbox EXCEPT ![t] = Append(@, msg)] ELSE inbox

(* Faulty variant: the target is enqueued whatever its state. *)
WakeThreadUnchecked(t) ==
  IF t \in threadTable
  THEN /\ state' = [state EXCEPT ![t] = "Ready"]
       /\ readyQueue' = EnqueueReady(readyQueue, t)
  ELSE UNCHANGED <<state, readyQueue>>

WakeThread(t) ==
  IF Wakes(t)
  THEN /\ state' = [state EXCEPT ![t] = "Ready"]
       /\ readyQueue' = EnqueueReady(readyQueue, t)
  ELSE UNCHANGED <<state, readyQueue>>

(* Faulty variant: the message is left in the inbox of a sleeping thread. *)
SendMessageNoWake(t, msg) == Deliver(t, msg) /\ UNCHANGED <<state, readyQueue>>

SendMessage(t, msg) == Deliver(t, msg) /\ WakeThread(t)

(* Faulty variant: a target that already waits is moved to the front. *)
SendMessageUrgentMoving(t, msg) ==
  /\ InCode
  /\ Deliver(t, msg)
  /\ state' = [u \in DOMAIN state |->
                 IF u = current \/ (u = t /\ Wakes(t)) THEN "Ready" ELSE state[u]]
  /\ LET others == SelectSeq(readyQueue, LAMBDA u : u # t) IN
       readyQueue' = EnqueueReady(IF t \in threadTable \ {current}
                                  THEN EnqueueReadyFront(others, t)
                                  ELSE readyQueue, current)
  /\ mode' = "schedule"
  /\ UNCHANGED <<threadTable, nextId, receiving, current, pending, trapVars>>

(* send_message_urgent: deliver, put a woken target in front, go to the    *)
(* back of the queue and schedule.                                         *)
SendMessageUrgent(t, msg) ==
  /\ InCode
  /\ Deliver(t, msg)
  /\ state' = [u \in DOMAIN state |->
                 IF u = current \/ (u = t /\ Wakes(t)) THEN "Ready" ELSE state[u]]
  /\ readyQueue' = EnqueueReady(IF Wakes(t) THEN EnqueueReadyFront(readyQueue, t)
                                            ELSE readyQueue, current)
  /\ mode' = "schedule"
  /\ UNCHANGED <<threadTable, nextId, receiving, current, pending, trapVars>>

-----------------------------------------------------------------------------
(* Giving up the CPU. *)

(* Faulty variant: the yielding thread goes back to the front. *)
RequeueFront ==
  /\ state' = [state EXCEPT ![current] = "Ready"]
  /\ readyQueue' = EnqueueReadyFront(readyQueue, current)
  /\ mode' = "schedule"
  /\ UNCHANGED <<threadTable, nextId, inbox, receiving, current, pending>>

(* The tail of yield_impl: mark the thread Ready, re-enqueue it, schedule. *)
Requeue ==
  /\ state' = [state EXCEPT ![current] = "Ready"]
  /\ readyQueue' = EnqueueReady(readyQueue, current)
  /\ mode' = "schedule"
  /\ UNCHANGED <<threadTable, nextId, inbox, receiving, current, pending>>

(* Faulty variant: no window for pending interrupts. *)
YieldNowNoWindow ==
  /\ InCode
  /\ Requeue
  /\ UNCHANGED trapVars

(* yield_now.  If an interrupt is pending, traps are routed to             *)
(* kernel_trap_entry and interrupts are enabled before the thread is       *)
(* re-enqueued: it is still Running when the handler runs.                 *)
YieldNow ==
  /\ InCode
  /\ \/ pending = {} /\ Requeue /\ UNCHANGED trapVars
     \/ /\ pending # {}
        /\ mode' = "window"
        /\ stvec' = "kernel"
        /\ UNCHANGED <<threadVars, current, pending, ttf, context, entered>>

YieldRequeue ==
  /\ mode = "requeue"
  /\ Requeue
  /\ UNCHANGED trapVars

(* block_now: the thread stays off the queue until somebody wakes it. *)
Block ==
  /\ state' = [state EXCEPT ![current] = "Blocked"]
  /\ mode' = "schedule"
  /\ UNCHANGED <<threadTable, nextId, readyQueue, inbox, current, pending, trapVars>>

BlockNow ==
  /\ InCode
  /\ Block
  /\ UNCHANGED receiving

(* receive_message: take the oldest message, or block and look again when  *)
(* resumed.                                                                *)
ReceiveMessage ==
  /\ mode = "kernel"
  /\ IF inbox[current] # <<>>
     THEN /\ inbox' = [inbox EXCEPT ![current] = Tail(@)]
          /\ receiving' = receiving \ {current}
          /\ UNCHANGED <<threadTable, nextId, state, readyQueue, current, mode, pending, trapVars>>
     ELSE /\ receiving' = receiving \cup {current}
          /\ Block

(* Faulty variant: the thread stays in the table. *)
ExitKeepsThread ==
  /\ InCode
  /\ mode' = "schedule"
  /\ UNCHANGED <<threadVars, current, pending, trapVars>>

(* exit: the thread and its inbox are dropped from the table. *)
Exit ==
  /\ InCode
  /\ threadTable' = threadTable \ {current}
  /\ inbox' = [inbox EXCEPT ![current] = <<>>]
  /\ mode' = "schedule"
  /\ UNCHANGED <<nextId, state, readyQueue, receiving, current, pending, trapVars>>

-----------------------------------------------------------------------------
(* schedule(): run the head of the ready queue, or the idle thread. *)

(* Faulty variant: the trampoline frame keeps another process's t0 and sp. *)
TrapSetupNoRestore(t) ==
  IF t \in UserThreads
  THEN /\ stvec' = "user"
       /\ ttf' = [ttf EXCEPT !.kernelSp = t]
       /\ context' = t
  ELSE stvec' = "kernel" /\ UNCHANGED <<ttf, context>>

(* What schedule() sets up for traps before it resumes thread t. *)
TrapSetup(t) ==
  IF t \in UserThreads
  THEN /\ stvec' = "user"
       /\ ttf' = [kernelSp |-> t, userRegs |-> t]
       /\ context' = t
  ELSE stvec' = "kernel" /\ UNCHANGED <<ttf, context>>

Schedule ==
  /\ mode = "schedule"
  /\ readyQueue # <<>>
  /\ LET next == Head(readyQueue) IN
       /\ readyQueue' = Tail(readyQueue)
       /\ IF next \in threadTable
          THEN /\ state' = [state EXCEPT ![next] = "Running"]
               /\ current' = next
               /\ TrapSetup(next)
               /\ mode' = "kernel"
          ELSE mode' = "panic" /\ UNCHANGED <<state, current, stvec, ttf, context>>
  /\ UNCHANGED <<threadTable, nextId, inbox, receiving, pending, entered>>

EnterIdle ==
  /\ mode = "schedule"
  /\ readyQueue = <<>>
  /\ state' = [state EXCEPT ![Idle] = "Running"]
  /\ current' = Idle
  /\ stvec' = "kernel"
  /\ mode' = "idle"
  /\ UNCHANGED <<threadTable, nextId, readyQueue, inbox, receiving, pending, ttf, context, entered>>

(* The idle loop executes wfi: nothing was pending when it was enabled. *)
Wfi ==
  /\ mode = "idle"
  /\ pending = {}
  /\ mode' = "wfi"
  /\ UNCHANGED <<threadVars, current, pending, trapVars>>

(* Faulty variant: the idle loop yields as a thread would. *)
ScheduleIfReadyYields ==
  /\ mode = "woken"
  /\ Requeue
  /\ UNCHANGED trapVars

ScheduleIfReady ==
  /\ mode = "woken"
  /\ mode' = IF readyQueue # <<>> THEN "schedule" ELSE "idle"
  /\ UNCHANGED <<threadVars, current, pending, trapVars>>

-----------------------------------------------------------------------------
(* Interrupts. *)

(* A device raises its interrupt line; it may do so at any time. *)
RaiseIrq(i) ==
  /\ i \notin pending
  /\ pending' = pending \cup {i}
  /\ UNCHANGED <<threadVars, current, mode, trapVars>>

InterruptsOpen == mode \in {"window", "idle", "wfi", "user"}

(* Faulty variant: the interrupted wfi is executed again. *)
TrapReturnToWfi ==
  CASE mode \in {"idle", "wfi"} -> "wfi"
    [] mode = "window"          -> "requeue"
    [] OTHER                    -> mode

(* Where the trap path returns to.  kernel_trap_entry returns with SIE     *)
(* clear, and kernel_trap_handler steps over a wfi it interrupted, so the  *)
(* idle loop goes on to schedule_if_ready; trap_entry returns to the user  *)
(* program.                                                                *)
TrapReturn ==
  CASE mode \in {"idle", "wfi"} -> "woken"
    [] mode = "window"          -> "requeue"
    [] OTHER                    -> mode

(* A trap into dispatch_irq, which claims and completes one source.  The   *)
(* device's handler is what the action is conjoined with: it changes state,*)
(* readyQueue and inbox.  A trap from U-mode passes through trap_entry,    *)
(* which stores the program's t0 and sp in the TrampolineTrapFrame.        *)
TakeInterrupt(i) ==
  /\ InterruptsOpen
  /\ i \in pending
  /\ pending' = pending \ {i}
  /\ mode' = TrapReturn
  /\ ttf' = IF mode = "user" THEN [ttf EXCEPT !.userRegs = current] ELSE ttf
  /\ UNCHANGED <<threadTable, nextId, receiving, current, stvec, context, entered>>

-----------------------------------------------------------------------------
(* User mode. *)

EnterProcess ==
  /\ InCode
  /\ current \in UserThreads \ entered
  /\ context' = current
  /\ ttf' = [ttf EXCEPT !.kernelSp = current]
  /\ stvec' = "user"
  /\ entered' = entered \cup {current}
  /\ mode' = "user"
  /\ UNCHANGED <<threadVars, current, pending>>

(* An ecall: trap_entry saves the registers and syscall::handle runs as    *)
(* the thread's kernel code.                                               *)
Ecall ==
  /\ mode = "user"
  /\ mode' = "kernel"
  /\ ttf' = [ttf EXCEPT !.userRegs = current]
  /\ UNCHANGED <<threadVars, current, pending, stvec, context, entered>>

(* The tail of trap_entry: t0 and sp are reloaded from the frame. *)
ReturnToUser ==
  /\ InCode
  /\ current \in entered
  /\ mode' = "user"
  /\ UNCHANGED <<threadVars, current, pending, trapVars>>

-----------------------------------------------------------------------------
(* The most general client: threads and handlers call whatever they like,  *)
(* inboxes holding at most MaxInbox messages.                              *)

Room(t) == t \in threadTable => Len(inbox[t]) < MaxInbox

ThreadSends(t, d) ==
  /\ InCode
  /\ Room(t)
  /\ SendMessage(t, [sender |-> current, data |-> d])
  /\ UNCHANGED <<threadTable, nextId, receiving, current, mode, pending, trapVars>>

ThreadWakes(t) ==
  /\ InCode
  /\ WakeThread(t)
  /\ UNCHANGED <<threadTable, nextId, inbox, receiving, current, mode, pending, trapVars>>

ThreadSendsUrgent(t, d) ==
  /\ Room(t)
  /\ SendMessageUrgent(t, [sender |-> current, data |-> d])

(* Handlers: a completion message (send_read_completion), a wake-up        *)
(* (notify_tx_ready), or neither.                                          *)
HandlerSends(i, t, d) ==
  TakeInterrupt(i) /\ Room(t) /\ SendMessage(t, [sender |-> Idle, data |-> d])

HandlerWakes(i, t) ==
  TakeInterrupt(i) /\ WakeThread(t) /\ UNCHANGED inbox

HandlerReturns(i) ==
  TakeInterrupt(i) /\ UNCHANGED <<state, readyQueue, inbox>>

Interrupt ==
  \E i \in Irqs :
    \/ \E t \in Tid, d \in Payload : HandlerSends(i, t, d)
    \/ \E t \in Tid : HandlerWakes(i, t)
    \/ HandlerReturns(i)

Next ==
  \/ Spawn
  \/ StartScheduler
  \/ \E t \in Tid, d \in Payload : ThreadSends(t, d) \/ ThreadSendsUrgent(t, d)
  \/ \E t \in Tid : ThreadWakes(t)
  \/ YieldNow
  \/ YieldRequeue
  \/ BlockNow
  \/ ReceiveMessage
  \/ Exit
  \/ Schedule
  \/ EnterIdle
  \/ Wfi
  \/ ScheduleIfReady
  \/ \E i \in Irqs : RaiseIrq(i)
  \/ Interrupt
  \/ EnterProcess
  \/ Ecall
  \/ ReturnToUser

Spec == Init /\ [][Next]_vars

(* Fairness.  The hart does not stop in kernel code, a pending interrupt   *)
(* is taken where interrupts are open, and a running thread does not keep  *)
(* the CPU for ever: the loop of every kernel thread contains a call that  *)
(* gives it up.  Nothing is assumed of user programs or of devices.        *)
GivesUpCpu ==
  /\ \/ YieldNow
     \/ BlockNow
     \/ ReceiveMessage
     \/ Exit
     \/ \E t \in Tid, d \in Payload : ThreadSendsUrgent(t, d)
  /\ mode' # "kernel"

KernelProceeds ==
  \/ StartScheduler
  \/ current \in receiving /\ ReceiveMessage
  \/ YieldRequeue
  \/ Schedule
  \/ EnterIdle
  \/ ScheduleIfReady
  \/ Interrupt

FairSpec == Spec /\ WF_vars(GivesUpCpu) /\ WF_vars(KernelProceeds)

-----------------------------------------------------------------------------
(* Properties. *)

InQueue(t) == \E i \in DOMAIN readyQueue : readyQueue[i] = t

(* A thread of the table is executing (or its user program is). *)
ThreadRuns == mode \in {"kernel", "window", "requeue", "user"}

(* Type invariant: every variable of ThreadManager, of the trap setup and  *)
(* of the hart holds a value of its Rust type; the idle thread's id is     *)
(* never put in the ready queue.                                           *)
TypeOK ==
  /\ threadTable \subseteq Tid
  /\ nextId \in 1..(MaxThreads + 1)
  /\ state \in [Tid \cup {Idle} -> ThreadState]
  /\ readyQueue \in Seq(Tid)
  /\ inbox \in [Tid -> Seq(Message)]
  /\ receiving \subseteq Tid
  /\ current \in Tid \cup {Idle, Null}
  /\ mode \in Mode
  /\ pending \subseteq Irqs
  /\ stvec \in {"user", "kernel"}
  /\ ttf \in [kernelSp : Tid \cup {Null}, userRegs : Tid \cup {Null}]
  /\ context \in Tid \cup {Null}
  /\ entered \subseteq UserThreads

(* The ready queue holds exactly the live threads in state Ready, each     *)
(* once, whatever mixture of yields, wake-ups from handlers, urgent sends  *)
(* and exits led here; so schedule() never fails with "Thread in ready     *)
(* queue not found" and never resumes a thread twice.                      *)
QueueExact ==
  /\ mode # "panic"
  /\ \A i, j \in DOMAIN readyQueue : readyQueue[i] = readyQueue[j] => i = j
  /\ \A t \in Tid : InQueue(t) <=> (t \in threadTable /\ state[t] = "Ready")

(* CURRENT_THREAD is a live thread whenever thread code runs, and it alone *)
(* is in state Running: no step leaves another thread marked Running, and  *)
(* no code runs on behalf of a thread that has exited.                     *)
OneRunning ==
  /\ ThreadRuns => current \in threadTable
  /\ \A t \in threadTable : state[t] = "Running" <=> (ThreadRuns /\ current = t)

(* A thread blocked in receive_message has nothing in its inbox: a message *)
(* sent by a thread or by a handler between its test of the inbox and its  *)
(* going to sleep is never left behind.                                    *)
NoLostWakeup ==
  \A t \in threadTable \cap receiving : state[t] = "Blocked" => inbox[t] = <<>>

(* The idle thread is never about to wait, or waiting, in wfi while a      *)
(* thread is ready: an interrupt that makes a thread ready just before wfi *)
(* does not leave it asleep until the next interrupt.                      *)
NoSleepWithWork == mode \in {"idle", "wfi"} => readyQueue = <<>>

(* Whenever an interrupt can be taken, the trap vector is the one for the  *)
(* mode the hart is in, and in user mode the trampoline frame and the      *)
(* process context are those of the running process, whatever other        *)
(* processes trapped, blocked or opened a window since it last ran.        *)
TrapRouting ==
  /\ mode \in {"window", "idle", "wfi"} => stvec = "kernel"
  /\ mode = "user" =>
       /\ stvec = "user"
       /\ context = current
       /\ ttf = [kernelSp |-> current, userRegs |-> current]

(* No step reverses the order of two threads that wait in the ready queue: *)
(* an urgent send, or a wake-up from a handler, inserts at one of the ends *)
(* and never lets a waiting thread pass another.                           *)
NoOvertaking ==
  [][\A i, j \in DOMAIN readyQueue, k, l \in DOMAIN readyQueue' :
       /\ i < j
       /\ readyQueue'[k] = readyQueue[i]
       /\ readyQueue'[l] = readyQueue[j]
       => k < l]_vars

(* Every thread that is in the ready queue gets the CPU: the urgent sends  *)
(* of the others, each of which puts a thread in front of it, cannot       *)
(* starve it.  (Under FairSpec, for kernel threads.)                       *)
ReadyRuns == \A t \in Tid : InQueue(t) ~> (ThreadRuns /\ current = t)

(* kthread/user_process.rs says that user processes run as kernel threads, *)
(* "enabling preemptive scheduling of user-mode code": a user program does *)
(* not keep the CPU for ever while another thread is ready.                *)
UserCodePreempted ==
  \A t \in Tid : InQueue(t) ~> (mode # "user" \/ ~ InQueue(t))

(* A thread that sleeps in receive_message comes out of it once a message  *)
(* is in its inbox.                                                        *)
MessageTaken ==
  \A t \in Tid : (t \in receiving /\ inbox[t] # <<>>) ~> t \notin receiving

=============================================================================
