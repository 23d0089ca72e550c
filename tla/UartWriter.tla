----------------------------- MODULE UartWriter -----------------------------
(***************************************************************************)
(* Console output: the writer thread and the transmit pump                 *)
(* (kthread/uart_writer.rs), the ring between them                         *)
(* (collections/spsc_ring.rs), the UART's interrupt handler                *)
(* (drivers/uart.rs) and the threads that print.                           *)
(*                                                                         *)
(* The writer thread fills the ring and sleeps when it is full; the ring   *)
(* is emptied into the UART's FIFO by the interrupt handler and, at the    *)
(* end of each message, by the writer itself.  The threads run on          *)
(* Scheduler; the 16550 UART is external.                                  *)
(***************************************************************************)
EXTENDS Scheduler, SpscRing

CONSTANTS
  FifoSize,   \* TX_FIFO_SIZE
  MaxWrites   \* bound: messages per printing thread

Writer   == 1
Printers == 2..MaxThreads
UartIrq  == "uart"
LF == "lf"
CR == "cr"

(* The bytes of the messages. *)
Bytes == (UNION {{d[i] : i \in DOMAIN d} : d \in Payload}) \cup {CR, LF}

ASSUME UartAssumption ==
  /\ Payload \subseteq Seq(Bytes)
  /\ UserThreads = {}
  /\ UartIrq \in Irqs
  /\ FifoSize \in Nat \ {0}
  /\ MaxWrites \in Nat

VARIABLES
  ring,       \* TX_RING
  waiting,    \* WAITING_FOR_SPACE
  available,  \* BUFFER_SPACE_AVAILABLE
  pc,         \* where the writer thread continues
  rest,       \* write_data: the part of the message not looked at
  slice,      \* push_slice_blocking: the bytes still to push
  fifo,       \* bytes in the UART's transmit FIFO; LSR.THRE = (fifo = 0)
  ier,        \* the THRE bit of the interrupt enable register
  threIrq,    \* the UART's transmitter-empty condition, until IIR is read
  writes,     \* by printer: messages sent
  received,   \* history: the bytes of all messages received by the writer
  out         \* history: the bytes written to the FIFO

pumpVars   == <<ring, fifo, ier, threIrq, out>>
waitVars   == <<waiting, available>>
writerVars == <<pc, rest, slice, received>>
uartVars   == <<pumpVars, waitVars, writerVars, writes>>
uvars      == <<vars, uartVars>>

UInit ==
  /\ Init
  /\ ring = NewRing
  /\ waiting = FALSE /\ available = FALSE
  /\ pc = "receive"
  /\ rest = <<>> /\ slice = <<>>
  /\ fifo = 0 /\ ier = FALSE /\ threIrq = FALSE
  /\ writes = [t \in Printers |-> 0]
  /\ received = <<>> /\ out = <<>>

-----------------------------------------------------------------------------
(* The transmit pump. *)

(* The bytes drain_ring_to_fifo's loop moves: FifoSize of them, or all. *)
Drains == Least(FifoSize, Count(ring))

(* Faulty variant: the FIFO is filled whether or not it is empty. *)
DrainRingToFifoNoWait ==
  /\ ring' = PopRing(ring, Drains)
  /\ out' = out \o PopBytes(ring, Drains)
  /\ fifo' = fifo + Drains
  /\ threIrq' = FALSE
  /\ ier' = CASE Drains < FifoSize -> FALSE [] ~ IsEmpty(ring') -> TRUE [] OTHER -> ier

(* Faulty variant: the interrupt is not enabled for the bytes left over. *)
DrainRingToFifoNoEnable ==
  /\ fifo = 0
  /\ ring' = PopRing(ring, Drains)
  /\ out' = out \o PopBytes(ring, Drains)
  /\ fifo' = Drains
  /\ threIrq' = FALSE
  /\ ier' = IF Drains < FifoSize THEN FALSE ELSE ier

(* drain_ring_to_fifo: wait for an empty FIFO, move up to FifoSize bytes.  *)
(* The interrupt is disabled if the ring ran out inside the loop, enabled  *)
(* if bytes are left after it, and left alone when the last turn emptied   *)
(* the ring.  Writing to the FIFO, and reading IIR in the handler, clear   *)
(* the transmitter-empty condition.                                        *)
DrainRingToFifo ==
  /\ fifo = 0
  /\ ring' = PopRing(ring, Drains)
  /\ out' = out \o PopBytes(ring, Drains)
  /\ fifo' = Drains
  /\ threIrq' = FALSE
  /\ ier' = CASE Drains < FifoSize -> FALSE [] ~ IsEmpty(ring') -> TRUE [] OTHER -> ier

(* enable_tx_interrupt, where nothing was written before it: a UART whose  *)
(* transmitter is already empty interrupts at once.                        *)
EnableTxInterrupt ==
  /\ ier' = TRUE
  /\ threIrq' = (threIrq \/ (~ ier /\ fifo = 0))

(* Faulty variant: the writer is signalled but left asleep. *)
NotifyTxReadyNoWake ==
  /\ DrainRingToFifo
  /\ waiting' = FALSE
  /\ available' = (waiting \/ available)
  /\ UNCHANGED <<state, readyQueue>>

(* notify_tx_ready *)
NotifyTxReady ==
  /\ DrainRingToFifo
  /\ waiting' = FALSE
  /\ IF waiting
     THEN available' = TRUE /\ WakeThread(Writer)
     ELSE UNCHANGED <<available, state, readyQueue>>

(* handle_irq: IIR reports the transmitter, or nothing that concerns it (a *)
(* received byte, or an interrupt whose cause is gone).                    *)
HandleIrq ==
  /\ TakeInterrupt(UartIrq)
  /\ IF ier /\ threIrq
     THEN NotifyTxReady
     ELSE UNCHANGED <<pumpVars, waitVars, state, readyQueue>>
  /\ UNCHANGED <<inbox, writerVars, writes>>

-----------------------------------------------------------------------------
(* The writer thread. *)

At(label) == mode = "kernel" /\ current = Writer /\ pc = label

(* writer_entry's loop, up to the call of write_data. *)
WriterReceives ==
  /\ At("receive")
  /\ ReceiveMessage
  /\ IF inbox[Writer] = <<>>
     THEN UNCHANGED writerVars
     ELSE /\ rest' = Head(inbox[Writer]).data
          /\ received' = received \o Head(inbox[Writer]).data
          /\ pc' = "chunk"
          /\ UNCHANGED slice
  /\ UNCHANGED <<pumpVars, waitVars, writes>>

(* A turn of write_data's loop: the bytes before the next newline, and CR  *)
(* LF in its place, are pushed one after the other.                        *)
WriteChunk ==
  /\ At("chunk")
  /\ rest # <<>>
  /\ \/ \E newline \in DOMAIN rest :
          /\ rest[newline] = LF
          /\ \A i \in 1..(newline - 1) : rest[i] # LF
          /\ slice' = SubSeq(rest, 1, newline - 1) \o <<CR, LF>>
          /\ rest' = SubSeq(rest, newline + 1, Len(rest))
     \/ /\ \A i \in DOMAIN rest : rest[i] # LF
        /\ slice' = rest
        /\ rest' = <<>>
  /\ pc' = "push"
  /\ UNCHANGED <<vars, pumpVars, waitVars, received, writes>>

(* The end of write_data: kick-start the pump. *)
KickStart ==
  /\ At("chunk")
  /\ rest = <<>>
  /\ DrainRingToFifo
  /\ pc' = "receive"
  /\ UNCHANGED <<vars, waitVars, rest, slice, received, writes>>

(* A turn of push_slice_blocking's loop. *)
PushSliceBlocking ==
  /\ At("push")
  /\ CASE slice = <<>> ->
            pc' = "chunk" /\ UNCHANGED <<ring, slice, ier, threIrq, waitVars>>
       [] slice # <<>> /\ Pushed(ring, slice) = 0 ->
            /\ EnableTxInterrupt
            /\ available' = FALSE
            /\ waiting' = TRUE
            /\ pc' = "wait"
            /\ UNCHANGED <<ring, slice>>
       [] OTHER ->
            /\ ring' = PushSlice(ring, slice)
            /\ slice' = SubSeq(slice, Pushed(ring, slice) + 1, Len(slice))
            /\ UNCHANGED <<pc, ier, threIrq, waitVars>>
  /\ UNCHANGED <<vars, rest, received, fifo, out, writes>>

(* Faulty variant: any wake-up ends the wait. *)
WaitForSpaceOnce ==
  /\ At("wait")
  /\ BlockNow
  /\ pc' = "push"
  /\ UNCHANGED <<rest, slice, received, pumpVars, waitVars, writes>>

(* The inner loop: block until the handler has signalled space. *)
WaitForSpace ==
  /\ At("wait")
  /\ IF available
     THEN waiting' = FALSE /\ pc' = "push" /\ UNCHANGED vars
     ELSE BlockNow /\ UNCHANGED <<pc, waiting>>
  /\ UNCHANGED <<rest, slice, received, available, pumpVars, writes>>

-----------------------------------------------------------------------------
(* The threads that print, and the hardware. *)

Prints(t) == mode = "kernel" /\ current = t

(* send_write: kprintln!, or a write to /dev/console. *)
SendWrite(t) ==
  /\ Prints(t)
  /\ writes[t] < MaxWrites
  /\ writes' = [writes EXCEPT ![t] = @ + 1]
  /\ \E data \in Payload : SendMessageUrgent(Writer, [sender |-> t, data |-> data])
  /\ UNCHANGED <<pumpVars, waitVars, writerVars>>

(* sys_write yields after each write; a thread may also exit. *)
PrinterYields(t) == Prints(t) /\ YieldNow /\ UNCHANGED uartVars
PrinterExits(t)  == Prints(t) /\ Exit /\ UNCHANGED uartVars

(* A byte leaves the FIFO. *)
UartTransmits ==
  /\ fifo > 0
  /\ fifo' = fifo - 1
  /\ threIrq' = (threIrq \/ fifo = 1)
  /\ UNCHANGED <<vars, ring, ier, out, waitVars, writerVars, writes>>

UartInterrupts ==
  /\ ier /\ threIrq
  /\ RaiseIrq(UartIrq)
  /\ UNCHANGED uartVars

(* A byte is received: an interrupt that is not about the transmitter. *)
UartReceives == RaiseIrq(UartIrq) /\ UNCHANGED uartVars

BootSpawns == mode = "boot" /\ Spawn /\ UNCHANGED uartVars
BootStarts == nextId > MaxThreads /\ StartScheduler /\ UNCHANGED uartVars

SchedulerStep ==
  /\ Schedule \/ EnterIdle \/ Wfi \/ ScheduleIfReady \/ YieldRequeue
  /\ UNCHANGED uartVars

HartStep ==
  \/ BootSpawns \/ BootStarts \/ SchedulerStep
  \/ WriterReceives \/ WriteChunk \/ KickStart \/ PushSliceBlocking \/ WaitForSpace
  \/ HandleIrq
  \/ \E t \in Printers : SendWrite(t) \/ PrinterYields(t) \/ PrinterExits(t)

UNext == HartStep \/ UartTransmits \/ UartInterrupts \/ UartReceives

USpec == UInit /\ [][UNext]_uvars

(* The hart runs, and the UART transmits and interrupts. *)
UFairSpec == USpec /\ WF_uvars(HartStep) /\ WF_uvars(UartTransmits) /\ WF_uvars(UartInterrupts)

-----------------------------------------------------------------------------
(* Properties. *)

(* The bytes that stand for a message on the line: LF is sent as CR LF. *)
Sent(byte) == IF byte = LF THEN <<CR, LF>> ELSE <<byte>>
OnTheLine(bytes) ==
  LET line[i \in 0..Len(bytes)] == IF i = 0 THEN <<>> ELSE line[i - 1] \o Sent(bytes[i])
  IN line[Len(bytes)]

(* Type invariant: in particular the indices stay inside the array and no  *)
(* more bytes are written to the FIFO than it holds.                       *)
UTypeOK ==
  /\ TypeOK
  /\ ring.head \in Index /\ ring.tail \in Index
  /\ waiting \in BOOLEAN /\ available \in BOOLEAN
  /\ pc \in {"receive", "chunk", "push", "wait"}
  /\ fifo \in 0..FifoSize
  /\ ier \in BOOLEAN /\ threIrq \in BOOLEAN
  /\ writes \in [Printers -> 0..MaxWrites]

(* What was transmitted, what the ring holds and what the writer has still *)
(* to push are, in this order, the bytes of the messages it received, with *)
(* newlines converted: nothing is lost, repeated or overtaken when the     *)
(* ring wraps, when it is full, or when handler and writer take turns at   *)
(* emptying it.                                                            *)
BytesInOrder ==
  out \o Contents(ring) \o slice \o OnTheLine(rest) = OnTheLine(received)

(* Bytes are never stranded in the ring: unless the writer thread is about *)
(* to look at it, the transmit interrupt is enabled and the UART is about  *)
(* to raise it.  Covers the drain that ends exactly at FifoSize bytes,     *)
(* which leaves the enable bit alone.                                      *)
PumpArmed ==
  ~ IsEmpty(ring) /\ pc \in {"receive", "wait"} => ier /\ (fifo > 0 \/ threIrq)

(* The handshake with the handler: the writer waits only on a full ring,   *)
(* goes on only when the handler has made room, and is not asleep when it  *)
(* has; messages that wake it in between change nothing.                   *)
SpaceHandshake ==
  /\ waiting => pc = "wait" /\ Available(ring) = 0
  /\ pc = "wait" => waiting # available
  /\ pc = "wait" /\ state[Writer] = "Blocked" => waiting

(* Everything that is printed gets out, though the writer sleeps and the   *)
(* handler runs only when some thread yields or none is ready.  (Under     *)
(* UFairSpec.)                                                             *)
OutputDrains ==
  []<>(inbox[Writer] = <<>> /\ out = OnTheLine(received) /\ fifo = 0)

=============================================================================
