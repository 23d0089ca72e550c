----------------------------- MODULE UartProofs -----------------------------
(***************************************************************************)
(* Proofs about UartWriter, for every number of threads, size of the ring  *)
(* and of the FIFO, and set of messages.                                   *)
(***************************************************************************)
EXTENDS UartWriter, SchedulerProofs, WellFoundedInduction

(* The ring's indices are computed modulo its size. *)
LEMMA ModOnce ==
  ASSUME NEW a \in Nat, a < 2 * N
  PROVE  /\ a < N => a % N = a
         /\ a >= N => a % N = a - N
         /\ a % N \in Index
BY RingAssumption DEF Index

-----------------------------------------------------------------------------
(* The ring, whatever its size, is a bounded queue. *)

Cell == Bytes \cup {Blank}

RingOK(r) == r \in [buf : [Index -> Cell], head : Index, tail : Index]

(* One slot stays empty, and Available is what is left. *)
LEMMA CountAvailable ==
  ASSUME NEW r, RingOK(r)
  PROVE  /\ Count(r) \in Index
         /\ Available(r) = N - 1 - Count(r)
         /\ IsEmpty(r) <=> Count(r) = 0
         /\ r.head >= r.tail => Count(r) = r.head - r.tail
         /\ r.head < r.tail => Count(r) = r.head + N - r.tail
<1> DEFINE a == r.head + N - r.tail
           b == r.tail + N - r.head - 1
<1>1. /\ a \in Nat /\ a < 2 * N
      /\ b \in Nat /\ b < 2 * N
  BY RingAssumption DEF RingOK, Index
<1>2. /\ a < N => a % N = a
      /\ a >= N => a % N = a - N
      /\ b < N => b % N = b
      /\ b >= N => b % N = b - N
  BY <1>1, ModOnce, Zenon
<1>3. Count(r) = a % N /\ Available(r) = b % N
  BY Zenon DEF Count, Available
<1>4. r.head \in 0..(N - 1) /\ r.tail \in 0..(N - 1)
  BY Zenon DEF RingOK, Index
<1>5. CASE r.head >= r.tail
  BY <1>2, <1>3, <1>4, <1>5, RingAssumption, SMTT(30) DEF Index, IsEmpty
<1>6. CASE r.head < r.tail
  BY <1>2, <1>3, <1>4, <1>6, RingAssumption DEF Index, IsEmpty
<1> QED
  BY <1>4, <1>5, <1>6, RingAssumption

(* push_slice copies no more than there is room for. *)
LEMMA PushedRange ==
  ASSUME NEW r, RingOK(r), NEW data \in Seq(Bytes)
  PROVE  /\ Pushed(r, data) \in 0..Len(data)
         /\ Pushed(r, data) <= N - 1 - Count(r)
         /\ data # <<>> /\ Pushed(r, data) = 0 => Available(r) = 0
BY CountAvailable, RingAssumption DEF Pushed, Least, Index

(* push_slice keeps the ring well formed and adds what it reports. *)
LEMMA PushRing ==
  ASSUME NEW r, RingOK(r), NEW data \in Seq(Bytes)
  PROVE  /\ RingOK(PushSlice(r, data))
         /\ PushSlice(r, data).tail = r.tail
         /\ PushSlice(r, data).head = (r.head + Pushed(r, data)) % N
         /\ Count(PushSlice(r, data)) = Count(r) + Pushed(r, data)
<1> DEFINE n == Pushed(r, data)
           p == PushSlice(r, data)
<1>1. n \in 0..(N - 1 - Count(r)) /\ Count(r) \in Index
  BY PushedRange, CountAvailable, RingAssumption DEF Index
<1>a. n \in 0..Len(data)
  BY PushedRange, Zenon
<1>2. /\ p = [buf |-> p.buf, head |-> p.head, tail |-> p.tail]
      /\ p.buf \in [Index -> Cell]
      /\ p.tail = r.tail
      /\ p.head = (r.head + n) % N
  <2> DEFINE Offset(i) == IF i >= r.head THEN i - r.head ELSE i + N - r.head
             buf == [i \in Index |-> IF Offset(i) < n THEN data[Offset(i) + 1] ELSE r.buf[i]]
  <2>1. p = [buf |-> buf, head |-> (r.head + n) % N, tail |-> r.tail]
    BY Zenon DEF PushSlice, RingOK
  <2>2. ASSUME NEW i \in Index PROVE buf[i] \in Cell
    BY <1>a, RingAssumption DEF Cell, RingOK, Index
  <2> QED
    BY <2>1, <2>2
<1> HIDE DEF n, p
<1>3. /\ r.head \in Nat /\ n \in Nat /\ N \in Nat
      /\ r.head + n \in Nat /\ r.head + n < 2 * N
  BY <1>1, RingAssumption DEF RingOK, Index
<1>4. /\ p.head \in Index
      /\ r.head + n < N => p.head = r.head + n
      /\ r.head + n >= N => p.head = r.head + n - N
  <2> DEFINE a == r.head + n
  <2>1. a \in Nat /\ a < 2 * N /\ p.head = a % N
    BY <1>2, <1>3, Zenon
  <2> HIDE DEF a
  <2>2. /\ a % N \in Index
        /\ a < N => a % N = a
        /\ a >= N => a % N = a - N
    BY <2>1, ModOnce, Zenon
  <2>3. /\ p.head \in Index
        /\ a < N => p.head = a
        /\ a >= N => p.head = a - N
    BY <2>1, <2>2, Zenon
  <2> QED
    BY <1>3, <2>3 DEF a
<1>5. RingOK(p)
  BY <1>2, <1>4, Zenon DEF RingOK
<1>6. Count(p) = Count(r) + n
  <2>1. /\ r.head >= r.tail => Count(r) = r.head - r.tail
        /\ r.head < r.tail => Count(r) = r.head + N - r.tail
        /\ p.head >= p.tail => Count(p) = p.head - p.tail
        /\ p.head < p.tail => Count(p) = p.head + N - p.tail
    BY <1>5, CountAvailable, Zenon
  <2>2. /\ r.head \in Int /\ 0 <= r.head /\ r.head < N
        /\ r.tail \in Int /\ 0 <= r.tail /\ r.tail < N
        /\ p.head \in Int /\ 0 <= p.head /\ p.head < N
        /\ p.tail = r.tail
    BY <1>2, <1>4, RingAssumption DEF RingOK, Index
  <2>3. /\ Count(r) \in Int /\ 0 <= Count(r)
        /\ n \in Int /\ 0 <= n /\ n <= N - 1 - Count(r)
    BY <1>1, RingAssumption DEF Index
  <2>4. /\ p.head >= r.tail => Count(p) = p.head - r.tail
        /\ p.head < r.tail => Count(p) = p.head + N - r.tail
    BY <2>1, <2>2, Zenon
  <2>5. Count(p) \in Int
    BY <1>5, CountAvailable, RingAssumption DEF Index
  <2> DEFINE h == r.head
             t == r.tail
             g == p.head
             c == Count(r)
             d == Count(p)
  <2>6. /\ h \in Int /\ t \in Int /\ c \in Int /\ n \in Int /\ g \in Int /\ d \in Int
        /\ 0 <= h /\ h < N /\ 0 <= t /\ t < N /\ 0 <= n /\ n <= N - 1 - c
    BY <2>2, <2>3, <2>5, Zenon
  <2>7. /\ h >= t => c = h - t
        /\ h < t => c = h + N - t
        /\ g >= t => d = g - t
        /\ g < t => d = g + N - t
    BY <2>1, <2>4, Zenon
  <2>8. /\ h + n < N => g = h + n
        /\ h + n >= N => g = h + n - N
    BY <1>4, Zenon
  <2> HIDE DEF h, t, g, c, d
  <2>9. d = c + n
    BY <2>6, <2>7, <2>8, RingAssumption
  <2> QED
    BY <2>9, Zenon DEF c, d
<1> QED
  BY <1>2, <1>5, <1>6, Zenon DEF n, p

(* pop keeps the ring well formed; popping everything empties it. *)
LEMMA PopKeepsRing ==
  ASSUME NEW r, RingOK(r), NEW n \in 0..Count(r)
  PROVE  /\ RingOK(PopRing(r, n))
         /\ Count(PopRing(r, n)) = Count(r) - n
<1> DEFINE p == PopRing(r, n)
<1>1. Count(r) \in Index
  BY CountAvailable, Zenon
<1>2. /\ p = [buf |-> r.buf, head |-> r.head, tail |-> p.tail]
      /\ p.buf = r.buf /\ p.head = r.head
      /\ p.tail = (r.tail + n) % N
  BY Zenon DEF PopRing, RingOK
<1>3. /\ r.tail \in Nat /\ n \in Nat /\ N \in Nat
      /\ r.tail + n \in Nat /\ r.tail + n < 2 * N
  BY <1>1, RingAssumption DEF RingOK, Index
<1>4. /\ p.tail \in Index
      /\ r.tail + n < N => p.tail = r.tail + n
      /\ r.tail + n >= N => p.tail = r.tail + n - N
  <2> DEFINE a == r.tail + n
  <2>1. a \in Nat /\ a < 2 * N /\ p.tail = a % N
    BY <1>2, <1>3, Zenon
  <2> HIDE DEF a
  <2>2. /\ a % N \in Index
        /\ a < N => a % N = a
        /\ a >= N => a % N = a - N
    BY <2>1, ModOnce, Zenon
  <2>3. /\ p.tail \in Index
        /\ a < N => p.tail = a
        /\ a >= N => p.tail = a - N
    BY <2>1, <2>2, Zenon
  <2> QED
    BY <1>3, <2>3 DEF a
<1> HIDE DEF p
<1>5. RingOK(p)
  BY <1>2, <1>4, Zenon DEF RingOK
<1>6. /\ r.head >= r.tail => Count(r) = r.head - r.tail
      /\ r.head < r.tail => Count(r) = r.head + N - r.tail
      /\ p.head >= p.tail => Count(p) = p.head - p.tail
      /\ p.head < p.tail => Count(p) = p.head + N - p.tail
  BY <1>5, CountAvailable, Zenon
<1>7. Count(p) = Count(r) - n
  <2>1. /\ r.head \in 0..(N - 1) /\ r.tail \in 0..(N - 1)
        /\ p.tail \in 0..(N - 1) /\ p.head = r.head
        /\ Count(r) \in 0..(N - 1)
    BY <1>1, <1>2, <1>4, Zenon DEF RingOK, Index
  <2>2. CASE r.head >= r.tail
    BY <1>4, <1>6, <2>1, <2>2, RingAssumption
  <2>3. CASE r.head < r.tail
    BY <1>4, <1>6, <2>1, <2>3, RingAssumption
  <2> QED
    BY <2>1, <2>2, <2>3, RingAssumption
<1> QED
  BY <1>5, <1>7, Zenon DEF p

-----------------------------------------------------------------------------
(* The inductive invariant.  PumpArmed and SpaceHandshake are not          *)
(* inductive alone: an enabled transmit interrupt must be about to come    *)
(* (Armed), and the thread the handler wakes must exist (WriterLives).     *)

Armed == ier /\ fifo = 0 => threIrq

WriterLives == pc # "receive" => Writer \in threadTable

UartTypes ==
  /\ RingOK(ring)
  /\ waiting \in BOOLEAN /\ available \in BOOLEAN
  /\ pc \in {"receive", "chunk", "push", "wait"}
  /\ rest \in Seq(Bytes) /\ slice \in Seq(Bytes)
  /\ fifo \in 0..FifoSize
  /\ ier \in BOOLEAN /\ threIrq \in BOOLEAN
  /\ writes \in [Printers -> 0..MaxWrites]

UInv ==
  /\ IInv
  /\ UartTypes
  /\ Armed
  /\ WriterLives
  /\ SpaceHandshake
  /\ PumpArmed

(* Initially nothing is printed and nobody waits. *)
LEMMA UInitUInv == UInit => UInv
<1> SUFFICES ASSUME UInit PROVE UInv
  BY Zenon
<1>1. IInv
  BY InitIInv, Zenon DEF UInit
<1>2. 0 \in Index
  BY RingAssumption DEF Index
<1>3. RingOK(ring)
  BY <1>2, Zenon DEF UInit, NewRing, RingOK, Cell
<1>4. UartTypes
  <2>1. 0 \in 0..FifoSize /\ 0 \in 0..MaxWrites
    BY UartAssumption
  <2>2. writes \in [Printers -> 0..MaxWrites]
    BY <2>1, Zenon DEF UInit
  <2>3. <<>> \in Seq(Bytes)
    OBVIOUS
  <2> QED
    BY <1>3, <2>1, <2>2, <2>3, Zenon DEF UInit, UartTypes
<1>5. IsEmpty(ring)
  BY Zenon DEF UInit, NewRing, IsEmpty
<1> QED
  BY <1>1, <1>4, <1>5, Zenon DEF UInv, UInit, Armed, WriterLives, SpaceHandshake, PumpArmed

(* A step of the scheduler or of a printing thread leaves the console's    *)
(* state alone; it neither puts the writer to sleep while it waits for     *)
(* space nor removes it.                                                   *)
LEMMA FrameUInv ==
  ASSUME UInv, IInv', uartVars' = uartVars,
         Writer \in threadTable => Writer \in threadTable',
         state'[Writer] = "Blocked" => state[Writer] = "Blocked" \/ pc # "wait"
  PROVE  UInv'
<1>1. UNCHANGED <<ring, fifo, ier, threIrq, out, waiting, available, pc, rest, slice, received, writes>>
  BY Zenon DEF uartVars, pumpVars, waitVars, writerVars
<1>2. UartTypes'
  BY <1>1, Zenon DEF UInv, UartTypes
<1>3. Armed' /\ PumpArmed' /\ WriterLives'
  BY <1>1, Zenon DEF UInv, Armed, PumpArmed, WriterLives
<1>4. SpaceHandshake'
  BY <1>1, Zenon DEF UInv, SpaceHandshake
<1> QED
  BY <1>2, <1>3, <1>4, Zenon DEF UInv

(* The thread that the handler wakes is a thread of the scheduler. *)
LEMMA WriterTid == Writer \in Tid /\ Writer \in Tid \cup {Idle}
BY ConstantsAssumption DEF Writer, Tid

(* drain_ring_to_fifo keeps the ring well formed, fills the FIFO and       *)
(* leaves the interrupt enabled whenever bytes remain.                     *)
LEMMA DrainFacts ==
  ASSUME UInv, DrainRingToFifo
  PROVE  /\ RingOK(ring)'
         /\ fifo' \in 0..FifoSize
         /\ ier' \in BOOLEAN /\ threIrq' \in BOOLEAN
         /\ Armed'
         /\ ~ IsEmpty(ring') => ier' /\ fifo' > 0
<1>1. RingOK(ring) /\ ier \in BOOLEAN
  BY Zenon DEF UInv, UartTypes
<1> DEFINE c == Count(ring)
           d == Drains
<1>2. c \in Nat /\ FifoSize \in Nat \ {0}
  BY <1>1, CountAvailable, RingAssumption, UartAssumption DEF Index
<1>3. /\ d \in 0..c /\ d \in 0..FifoSize /\ d \in Nat
      /\ d < FifoSize => d = c
      /\ d = 0 => d < FifoSize
  BY <1>2 DEF Drains, Least
<1>4. /\ RingOK(PopRing(ring, d))
      /\ Count(PopRing(ring, d)) = c - d
  BY <1>1, <1>3, PopKeepsRing, Zenon
<1>5. ring' = PopRing(ring, d) /\ fifo' = d /\ threIrq' = FALSE
  BY Zenon DEF DrainRingToFifo
<1>6. RingOK(ring')
  BY <1>4, <1>5, Zenon
<1>7. d < FifoSize => IsEmpty(ring') /\ ier' = FALSE
  <2> SUFFICES ASSUME d < FifoSize PROVE IsEmpty(ring') /\ ier' = FALSE
    BY Zenon
  <2>1. Count(ring') = 0
    BY <1>2, <1>3, <1>4, <1>5
  <2> QED
    BY <1>6, <2>1, CountAvailable, Zenon DEF DrainRingToFifo
<1>8. ~ (d < FifoSize) /\ ~ IsEmpty(ring') => ier' = TRUE
  BY Zenon DEF DrainRingToFifo
<1>9. ier' \in BOOLEAN
  BY <1>1, <1>7, <1>8, Zenon DEF DrainRingToFifo
<1> HIDE DEF d
<1>10. Armed'
  BY <1>3, <1>5, <1>7, Zenon DEF Armed
<1>11. ~ IsEmpty(ring') => ier' /\ fifo' > 0
  BY <1>3, <1>5, <1>7, <1>8
<1>12. RingOK(ring)'
  BY <1>6, Zenon DEF RingOK, Cell, Bytes
<1> QED
  BY <1>3, <1>5, <1>9, <1>10, <1>11, <1>12, Zenon

-----------------------------------------------------------------------------
(* One lemma per step. *)

(* The interrupt handler: if the writer waited for space, it is signalled  *)
(* and no longer asleep.                                                   *)
LEMMA HandleIrqUInv == UInv /\ HandleIrq => UInv'
<1> SUFFICES ASSUME UInv, HandleIrq PROVE UInv'
  BY Zenon
<1>1. TakeInterrupt(UartIrq) /\ inbox' = inbox /\ threadTable' = threadTable
  BY Zenon DEF HandleIrq, TakeInterrupt
<1>2. UNCHANGED <<pc, rest, slice, received, writes>>
  BY Zenon DEF HandleIrq, writerVars
<1>3. CASE ier /\ threIrq
  <2>1. DrainRingToFifo /\ waiting' = FALSE
    BY <1>3, Zenon DEF HandleIrq, NotifyTxReady
  <2>2. IInv'
    <3>1. \/ WakeThread(Writer)
          \/ UNCHANGED <<state, readyQueue>>
      BY <1>3, Zenon DEF HandleIrq, NotifyTxReady
    <3>2. HandlerWakes(UartIrq, Writer) \/ HandlerReturns(UartIrq)
      BY <1>1, <3>1, Zenon DEF HandlerWakes, HandlerReturns
    <3>3. Interrupt
      BY <3>2, WriterTid, UartAssumption, Zenon DEF Interrupt
    <3> QED
      BY <3>3, InterruptIInv, Zenon DEF UInv
  <2>3. /\ waiting => available' = TRUE /\ WakeThread(Writer)
        /\ ~ waiting => available' = available /\ state' = state
    BY <1>3, Zenon DEF HandleIrq, NotifyTxReady
  <2>4. UartTypes'
    <3>1. available' \in BOOLEAN
      BY <2>3, Zenon DEF UInv, UartTypes
    <3> QED
      BY <1>2, <2>1, <3>1, DrainFacts, Zenon DEF UInv, UartTypes
  <2>5. Armed' /\ PumpArmed' /\ WriterLives'
    BY <1>1, <1>2, <2>1, DrainFacts, Zenon DEF UInv, PumpArmed, WriterLives
  <2>6. SpaceHandshake'
    <3>1. CASE waiting
      <4>1. Writer \in threadTable
        BY <3>1, Zenon DEF UInv, SpaceHandshake, WriterLives
      <4>2. state'[Writer] # "Blocked"
        BY <2>3, <3>1, <4>1, WriterTid, Zenon DEF WakeThread, Wakes, UInv, IInv, TypeOK
      <4> QED
        BY <1>2, <2>1, <2>3, <3>1, <4>2, Zenon DEF SpaceHandshake
    <3>2. CASE ~ waiting
      BY <1>2, <2>1, <2>3, <3>2, Zenon DEF UInv, UartTypes, SpaceHandshake
    <3> QED
      BY <3>1, <3>2, Zenon
  <2> QED
    BY <2>2, <2>4, <2>5, <2>6, Zenon DEF UInv
<1>4. CASE ~ (ier /\ threIrq)
  <2>1. HandlerReturns(UartIrq)
    BY <1>1, <1>4, Zenon DEF HandleIrq, HandlerReturns
  <2>2. IInv'
    BY <2>1, InterruptIInv, UartAssumption, Zenon DEF UInv, Interrupt
  <2>3. uartVars' = uartVars /\ state' = state
    BY <1>2, <1>4, Zenon DEF HandleIrq, uartVars, writerVars
  <2> QED
    BY <1>1, <2>2, <2>3, FrameUInv, Zenon
<1> QED
  BY <1>3, <1>4, Zenon

(* receive_message by the writer: a message is taken, or it sleeps, but    *)
(* not for space.                                                          *)
LEMMA WriterReceivesUInv == UInv /\ WriterReceives => UInv'
<1> SUFFICES ASSUME UInv, WriterReceives PROVE UInv'
  BY Zenon
<1>1. /\ mode = "kernel" /\ current = Writer /\ pc = "receive" /\ ReceiveMessage
      /\ UNCHANGED <<ring, fifo, ier, threIrq, out, waiting, available, writes, slice>>
  BY Zenon DEF WriterReceives, At, pumpVars, waitVars, writerVars
<1>2. IInv'
  BY <1>1, ReceiveMessageIInv, Zenon DEF UInv
<1>3. Writer \in threadTable /\ threadTable' = threadTable
  BY <1>1, Zenon DEF UInv, IInv, OneRunning, ThreadRuns, ReceiveMessage, Block
<1>4. rest' \in Seq(Bytes) /\ pc' \in {"receive", "chunk"} /\ (pc' = "receive" => rest' = rest)
  <2>1. CASE inbox[Writer] = <<>>
    BY <1>1, <2>1, Zenon DEF WriterReceives, writerVars, UInv, UartTypes
  <2>2. CASE inbox[Writer] # <<>>
    <3>1. inbox[Writer] \in Seq(Message)
      BY WriterTid, Zenon DEF UInv, IInv, TypeOK
    <3>2. Head(inbox[Writer]) \in Message
      BY <2>2, <3>1
    <3>3. Head(inbox[Writer]).data \in Payload
      BY <3>2, Zenon DEF Message
    <3> QED
      BY <2>2, <3>3, UartAssumption, Zenon DEF WriterReceives
  <2> QED
    BY <2>1, <2>2, Zenon
<1>5. UartTypes'
  BY <1>1, <1>4, Zenon DEF UInv, UartTypes
<1>6. Armed' /\ WriterLives' /\ PumpArmed'
  BY <1>1, <1>3, <1>4, Zenon DEF UInv, Armed, WriterLives, PumpArmed
<1>7. SpaceHandshake'
  BY <1>1, <1>4, Zenon DEF UInv, SpaceHandshake
<1> QED
  BY <1>2, <1>5, <1>6, <1>7, Zenon DEF UInv

(* An unchanged scheduler keeps its invariant. *)
LEMMA SameIInv == IInv /\ vars' = vars => IInv'
BY NextIInv, Zenon

(* A turn of write_data's loop: what is to be pushed is a slice of bytes. *)
LEMMA WriteChunkUInv == UInv /\ WriteChunk => UInv'
<1> SUFFICES ASSUME UInv, WriteChunk PROVE UInv'
  BY Zenon
<1>1. /\ pc = "chunk" /\ pc' = "push" /\ vars' = vars
      /\ UNCHANGED <<ring, fifo, ier, threIrq, waiting, available, writes>>
  BY Zenon DEF WriteChunk, At, pumpVars, waitVars
<1>2. IInv' /\ threadTable' = threadTable
  BY <1>1, SameIInv, Zenon DEF UInv, vars, threadVars
<1>3. rest \in Seq(Bytes) /\ <<CR, LF>> \in Seq(Bytes) /\ <<>> \in Seq(Bytes)
  <2>1. CR \in Bytes /\ LF \in Bytes
    BY Zenon DEF Bytes
  <2>2. <<CR, LF>> \in Seq(Bytes) /\ <<>> \in Seq(Bytes)
    BY <2>1
  <2> QED
    BY <2>2, Zenon DEF UInv, UartTypes
<1>4. rest' \in Seq(Bytes) /\ slice' \in Seq(Bytes)
  <2>1. ASSUME NEW newline \in DOMAIN rest
        PROVE  /\ SubSeq(rest, 1, newline - 1) \in Seq(Bytes)
               /\ SubSeq(rest, newline + 1, Len(rest)) \in Seq(Bytes)
    BY <1>3
  <2>2. ASSUME NEW newline \in DOMAIN rest
        PROVE  SubSeq(rest, 1, newline - 1) \o <<CR, LF>> \in Seq(Bytes)
    BY <1>3, <2>1
  <2> QED
    BY <1>3, <2>1, <2>2, Zenon DEF WriteChunk
<1>5. UartTypes'
  BY <1>1, <1>4, Zenon DEF UInv, UartTypes
<1>6. Armed' /\ WriterLives' /\ PumpArmed'
  BY <1>1, <1>2, Zenon DEF UInv, Armed, WriterLives, PumpArmed
<1>7. SpaceHandshake'
  BY <1>1, Zenon DEF UInv, SpaceHandshake
<1> QED
  BY <1>2, <1>5, <1>6, <1>7, Zenon DEF UInv

(* The end of write_data starts the pump for what it leaves in the ring. *)
LEMMA KickStartUInv == UInv /\ KickStart => UInv'
<1> SUFFICES ASSUME UInv, KickStart PROVE UInv'
  BY Zenon
<1>1. /\ pc = "chunk" /\ pc' = "receive" /\ vars' = vars /\ DrainRingToFifo
      /\ UNCHANGED <<waiting, available, rest, slice, writes>>
  BY Zenon DEF KickStart, At, waitVars
<1>2. IInv' /\ threadTable' = threadTable
  BY <1>1, SameIInv, Zenon DEF UInv, vars, threadVars
<1>3. UartTypes'
  BY <1>1, DrainFacts, Zenon DEF UInv, UartTypes
<1>4. Armed' /\ PumpArmed' /\ WriterLives' /\ SpaceHandshake'
  BY <1>1, DrainFacts, Zenon DEF UInv, PumpArmed, WriterLives, SpaceHandshake
<1> QED
  BY <1>2, <1>3, <1>4, Zenon DEF UInv

(* A turn of push_slice_blocking: the writer waits only on a full ring,    *)
(* and with the transmit interrupt enabled.                                *)
LEMMA PushSliceBlockingUInv == UInv /\ PushSliceBlocking => UInv'
<1> SUFFICES ASSUME UInv, PushSliceBlocking PROVE UInv'
  BY Zenon
<1>1. /\ pc = "push" /\ vars' = vars
      /\ UNCHANGED <<rest, fifo, writes>>
  BY Zenon DEF PushSliceBlocking, At
<1>2. IInv' /\ threadTable' = threadTable /\ state' = state
  BY <1>1, SameIInv, Zenon DEF UInv, vars, threadVars
<1>3. RingOK(ring) /\ slice \in Seq(Bytes)
  BY Zenon DEF UInv, UartTypes
<1>4. CASE slice = <<>>
  <2>1. pc' = "chunk" /\ UNCHANGED <<ring, slice, ier, threIrq, waiting, available>>
    BY <1>4, Zenon DEF PushSliceBlocking, waitVars
  <2> QED
    BY <1>1, <1>2, <2>1, Zenon
       DEF UInv, UartTypes, Armed, WriterLives, PumpArmed, SpaceHandshake
<1>5. CASE slice # <<>> /\ Pushed(ring, slice) = 0
  <2>1. /\ EnableTxInterrupt /\ available' = FALSE /\ waiting' = TRUE /\ pc' = "wait"
        /\ UNCHANGED <<ring, slice>>
    BY <1>5, Zenon DEF PushSliceBlocking
  <2>2. Available(ring) = 0
    BY <1>3, <1>5, PushedRange, Zenon
  <2>3. ier' = TRUE /\ threIrq' \in BOOLEAN /\ Armed' /\ fifo \in Nat
    <3>1. /\ ier' = TRUE /\ threIrq' = (threIrq \/ (~ ier /\ fifo = 0))
          /\ threIrq \in BOOLEAN /\ (ier /\ fifo = 0 => threIrq) /\ fifo' = fifo
      BY <1>1, <2>1, Zenon DEF EnableTxInterrupt, UInv, UartTypes, Armed
    <3>2. threIrq' \in BOOLEAN /\ (fifo' = 0 => threIrq')
      BY <3>1, Zenon
    <3>3. fifo \in Nat
      BY UartAssumption DEF UInv, UartTypes
    <3> QED
      BY <3>1, <3>2, <3>3, Zenon DEF Armed
  <2>4. UartTypes'
    BY <1>1, <2>1, <2>3, Zenon DEF UInv, UartTypes
  <2>5. PumpArmed'
    BY <1>1, <2>3 DEF PumpArmed, Armed
  <2> QED
    BY <1>1, <1>2, <2>1, <2>2, <2>3, <2>4, <2>5, Zenon DEF UInv, WriterLives, SpaceHandshake
<1>6. CASE slice # <<>> /\ Pushed(ring, slice) # 0
  <2>1. /\ ring' = PushSlice(ring, slice)
        /\ slice' = SubSeq(slice, Pushed(ring, slice) + 1, Len(slice))
        /\ UNCHANGED <<pc, ier, threIrq, waiting, available>>
    BY <1>6, Zenon DEF PushSliceBlocking, waitVars
  <2>2. RingOK(ring')
    BY <1>3, <2>1, PushRing, Zenon
  <2>3. slice' \in Seq(Bytes)
    <3>1. Pushed(ring, slice) \in 0..Len(slice)
      BY <1>3, PushedRange, Zenon
    <3> QED
      BY <1>3, <2>1, <3>1
  <2>4. RingOK(ring)'
    BY <2>2, Zenon DEF RingOK, Cell, Bytes
  <2>5. UartTypes'
    BY <1>1, <2>1, <2>3, <2>4, Zenon DEF UInv, UartTypes
  <2> QED
    <3>1. Armed' /\ WriterLives' /\ PumpArmed'
      BY <1>1, <1>2, <2>1, Zenon DEF UInv, Armed, WriterLives, PumpArmed
    <3>2. SpaceHandshake'
      BY <1>1, <2>1, Zenon DEF UInv, SpaceHandshake
    <3> QED
      BY <1>2, <2>5, <3>1, <3>2, Zenon DEF UInv
<1> QED
  BY <1>4, <1>5, <1>6, Zenon

(* The inner loop of push_slice_blocking: the writer goes on only when it  *)
(* was signalled.                                                          *)
LEMMA WaitForSpaceUInv == UInv /\ WaitForSpace => UInv'
<1> SUFFICES ASSUME UInv, WaitForSpace PROVE UInv'
  BY Zenon
<1>1. /\ pc = "wait" /\ mode = "kernel" /\ current = Writer
      /\ UNCHANGED <<rest, slice, received, available, ring, fifo, ier, threIrq, out, writes>>
  BY Zenon DEF WaitForSpace, At, pumpVars
<1>2. CASE available
  <2>1. waiting' = FALSE /\ pc' = "push" /\ vars' = vars
    BY <1>2, Zenon DEF WaitForSpace
  <2>2. IInv' /\ threadTable' = threadTable
    BY <2>1, SameIInv, Zenon DEF UInv, vars, threadVars
  <2> QED
    BY <1>1, <2>1, <2>2, Zenon DEF UInv, UartTypes, Armed, WriterLives, PumpArmed, SpaceHandshake
<1>3. CASE ~ available
  <2>1. BlockNow /\ pc' = pc /\ waiting' = waiting
    BY <1>3, Zenon DEF WaitForSpace
  <2>2. IInv' /\ threadTable' = threadTable
    BY <2>1, BlockIInv, Zenon DEF UInv, BlockNow, Block, InCode
  <2>3. UartTypes' /\ Armed' /\ WriterLives' /\ PumpArmed'
    BY <1>1, <2>1, <2>2, Zenon DEF UInv, UartTypes, Armed, WriterLives, PumpArmed
  <2>4. waiting /\ SpaceHandshake'
    BY <1>1, <1>3, <2>1, Zenon DEF UInv, UartTypes, SpaceHandshake
  <2> QED
    BY <2>2, <2>3, <2>4, Zenon DEF UInv
<1> QED
  BY <1>2, <1>3, Zenon

(* A print wakes the writer or finds it awake; it never ends its wait. *)
LEMMA SendWriteUInv == ASSUME UInv, NEW t \in Printers, SendWrite(t) PROVE UInv'
<1>1. /\ current = t /\ writes[t] < MaxWrites
      /\ writes' = [writes EXCEPT ![t] = @ + 1]
      /\ UNCHANGED <<ring, fifo, ier, threIrq, out, waiting, available, pc, rest, slice, received>>
  BY Zenon DEF SendWrite, Prints, pumpVars, waitVars, writerVars
<1>2. PICK data \in Payload : SendMessageUrgent(Writer, [sender |-> t, data |-> data])
  BY Zenon DEF SendWrite
<1>3. [sender |-> t, data |-> data] \in Message
  BY ConstantsAssumption DEF Message, Printers, Tid
<1>4. IInv' /\ threadTable' = threadTable
  BY <1>2, <1>3, SendMessageUrgentIInv, WriterTid, Zenon DEF UInv, SendMessageUrgent
<1>5. state'[Writer] = "Blocked" => state[Writer] = "Blocked"
  BY <1>2, WriterTid, Zenon DEF SendMessageUrgent, UInv, IInv, TypeOK
<1>6. writes' \in [Printers -> 0..MaxWrites]
  BY <1>1, UartAssumption DEF UInv, UartTypes
<1>7. UartTypes'
  BY <1>1, <1>6, Zenon DEF UInv, UartTypes
<1>8. Armed' /\ PumpArmed' /\ WriterLives'
  BY <1>1, <1>4, Zenon DEF UInv, Armed, PumpArmed, WriterLives
<1>9. SpaceHandshake'
  BY <1>1, <1>5, Zenon DEF UInv, SpaceHandshake
<1> QED
  BY <1>4, <1>7, <1>8, <1>9, Zenon DEF UInv

(* Printing threads that yield or exit are not the writer. *)
LEMMA PrinterUInv ==
  ASSUME UInv, NEW t \in Printers, PrinterYields(t) \/ PrinterExits(t)
  PROVE  UInv'
<1>1. t # Writer /\ current = t /\ uartVars' = uartVars
  BY DEF PrinterYields, PrinterExits, Prints, Printers, Writer
<1>2. IInv'
  BY YieldNowIInv, ExitIInv, Zenon DEF PrinterYields, PrinterExits, UInv
<1>3. Writer \in threadTable => Writer \in threadTable'
  BY <1>1, Zenon DEF PrinterYields, PrinterExits, YieldNow, Requeue, Exit, threadVars
<1>4. state'[Writer] = state[Writer]
  BY <1>1, WriterTid, Zenon
     DEF PrinterYields, PrinterExits, YieldNow, Requeue, Exit, threadVars, UInv, IInv, TypeOK
<1> QED
  BY <1>1, <1>2, <1>3, <1>4, FrameUInv, Zenon

(* The scheduler, and the boot thread that spawns the others, put nobody   *)
(* to sleep and remove nobody.                                             *)
LEMMA SchedulerStepUInv ==
  ASSUME UInv, BootSpawns \/ BootStarts \/ SchedulerStep
  PROVE  UInv'
<1>1. uartVars' = uartVars
  BY Zenon DEF BootSpawns, BootStarts, SchedulerStep
<1>2. Spawn \/ StartScheduler \/ Schedule \/ EnterIdle \/ Wfi \/ ScheduleIfReady \/ YieldRequeue
  BY Zenon DEF BootSpawns, BootStarts, SchedulerStep
<1>3. IInv'
  BY <1>2, NextIInv, Zenon DEF UInv, Next
<1>4. threadTable \subseteq threadTable'
  BY <1>2, Zenon DEF Spawn, StartScheduler, Schedule, EnterIdle, Wfi, ScheduleIfReady, YieldRequeue,
              Requeue, threadVars
<1>5. state'[Writer] = "Blocked" => state[Writer] = "Blocked"
  <2>1. Writer \in DOMAIN state
    BY WriterTid, Zenon DEF UInv, IInv, TypeOK
  <2> QED
    BY <1>2, <2>1, Zenon DEF Spawn, StartScheduler, Schedule, EnterIdle, Wfi, ScheduleIfReady,
                      YieldRequeue, Requeue, threadVars
<1> QED
  BY <1>1, <1>3, <1>4, <1>5, FrameUInv, Zenon

(* The UART: the byte that empties the FIFO raises the condition. *)
LEMMA UartTransmitsUInv == UInv /\ UartTransmits => UInv'
<1> SUFFICES ASSUME UInv, UartTransmits PROVE UInv'
  BY Zenon
<1>1. /\ fifo \in 0..FifoSize /\ fifo > 0 /\ fifo' = fifo - 1
      /\ threIrq' = (threIrq \/ fifo = 1) /\ vars' = vars
      /\ UNCHANGED <<ring, ier, out, waiting, available, pc, rest, slice, received, writes>>
  BY Zenon DEF UInv, UartTypes, UartTransmits, waitVars, writerVars
<1>2. IInv' /\ threadTable' = threadTable /\ state' = state
  BY <1>1, SameIInv, Zenon DEF UInv, vars, threadVars
<1>3. fifo' \in 0..FifoSize /\ (fifo' = 0 <=> fifo = 1) /\ fifo' \in Nat
  BY <1>1, UartAssumption
<1>4. threIrq' \in BOOLEAN
  BY <1>1, Zenon DEF UInv, UartTypes
<1>5. UartTypes'
  BY <1>1, <1>3, <1>4, Zenon DEF UInv, UartTypes
<1>6. fifo' = 0 => threIrq'
  BY <1>1, <1>3, Zenon
<1>7. Armed' /\ WriterLives'
  BY <1>1, <1>2, <1>6, Zenon DEF UInv, Armed, WriterLives
<1>8. PumpArmed'
  <2>1. fifo' > 0 \/ threIrq'
    BY <1>3, <1>6
  <2> QED
    BY <1>1, <2>1, Zenon DEF UInv, PumpArmed
<1>9. SpaceHandshake'
  BY <1>1, <1>2, Zenon DEF UInv, SpaceHandshake
<1> QED
  BY <1>2, <1>5, <1>7, <1>8, <1>9, Zenon DEF UInv

-----------------------------------------------------------------------------
(* Every step of the console's threads, handler and hardware preserves the *)
(* inductive invariant.                                                    *)
THEOREM UNextUInv == UInv /\ [UNext]_uvars => UInv'
<1> SUFFICES ASSUME UInv, [UNext]_uvars PROVE UInv'
  BY Zenon
<1>1. CASE BootSpawns \/ BootStarts \/ SchedulerStep
  BY <1>1, SchedulerStepUInv, Zenon
<1>2. CASE WriterReceives \/ WriteChunk \/ KickStart \/ PushSliceBlocking \/ WaitForSpace
  BY <1>2, WriterReceivesUInv, WriteChunkUInv, KickStartUInv, PushSliceBlockingUInv, WaitForSpaceUInv, Zenon
<1>3. CASE HandleIrq
  BY <1>3, HandleIrqUInv, Zenon
<1>4. ASSUME NEW t \in Printers, SendWrite(t) \/ PrinterYields(t) \/ PrinterExits(t)
      PROVE  UInv'
  BY <1>4, SendWriteUInv, PrinterUInv, Zenon
<1>5. CASE UartTransmits
  BY <1>5, UartTransmitsUInv, Zenon
<1>6. CASE RaiseIrq(UartIrq) /\ UNCHANGED uartVars
  <2>1. IInv'
    BY <1>6, ModeStepIInv, UartAssumption, Zenon DEF UInv
  <2>2. UNCHANGED <<threadTable, state>>
    BY <1>6, Zenon DEF RaiseIrq, threadVars
  <2> QED
    BY <1>6, <2>1, <2>2, FrameUInv, Zenon
<1>7. CASE uvars' = uvars
  <2>1. vars' = vars /\ uartVars' = uartVars
    BY <1>7, Zenon DEF uvars
  <2>2. IInv' /\ threadTable' = threadTable /\ state' = state
    BY <2>1, SameIInv, Zenon DEF UInv, vars, threadVars
  <2> QED
    BY <2>1, <2>2, FrameUInv, Zenon
<1> QED
  BY <1>1, <1>2, <1>3, <1>4, <1>5, <1>6, <1>7, Zenon DEF UNext, HartStep, UartInterrupts, UartReceives

(* The inductive invariant holds throughout. *)
THEOREM USpecUInv == USpec => []UInv
BY UInitUInv, UNextUInv, PTL DEF USpec

(* Type correctness: the ring's indices stay inside its array, and no more *)
(* bytes are written to the FIFO than it holds.                            *)
THEOREM UartTypeCorrect == USpec => []UTypeOK
<1>1. UInv => UTypeOK
  BY Zenon DEF UInv, IInv, UartTypes, RingOK, UTypeOK
<1> QED
  BY <1>1, USpecUInv, PTL

(* Bytes in the ring are never stranded: the transmit interrupt is enabled *)
(* and about to come, or the writer is about to look.                      *)
THEOREM PumpIsArmed == USpec => []PumpArmed
<1>1. UInv => PumpArmed
  BY Zenon DEF UInv
<1> QED
  BY <1>1, USpecUInv, PTL

(* The writer sleeps only on a full ring nobody has emptied, and goes on   *)
(* only when the handler has made room.                                    *)
THEOREM SpaceIsSignalled == USpec => []SpaceHandshake
<1>1. UInv => SpaceHandshake
  BY Zenon DEF UInv
<1> QED
  BY <1>1, USpecUInv, PTL

(* The console's threads use the scheduler as its invariant allows: the    *)
(* ready queue stays exact under the writer, the printers and the handler. *)
THEOREM ConsoleQueueExact == USpec => []QueueExact
<1>1. UInv => QueueExact
  BY QueueInvExact, Zenon DEF UInv, IInv
<1> QED
  BY <1>1, USpecUInv, PTL

-----------------------------------------------------------------------------
(* Joining two sequences. *)
LEMMA JoinFacts ==
  ASSUME NEW S, NEW a \in Seq(S), NEW b \in Seq(S)
  PROVE  /\ a \o b \in Seq(S) /\ Len(a \o b) = Len(a) + Len(b)
         /\ \A i \in 1..(Len(a) + Len(b)) :
              (a \o b)[i] = IF i <= Len(a) THEN a[i] ELSE b[i - Len(a)]
OBVIOUS

(* Joining a sequence with nothing. *)
LEMMA JoinNothing ==
  ASSUME NEW S, NEW a \in Seq(S)
  PROVE  a \o <<>> = a /\ <<>> \o a = a
OBVIOUS

(* Joining three sequences in either order. *)
LEMMA JoinThree ==
  ASSUME NEW S, NEW a \in Seq(S), NEW b \in Seq(S), NEW c \in Seq(S)
  PROVE  (a \o b) \o c = a \o (b \o c)
OBVIOUS

(* A stretch of a sequence. *)
LEMMA CutFacts ==
  ASSUME NEW S, NEW a, NEW m \in Int, NEW n \in Int, \A i \in m..n : a[i] \in S
  PROVE  /\ SubSeq(a, m, n) \in Seq(S)
         /\ Len(SubSeq(a, m, n)) = IF m <= n THEN n - m + 1 ELSE 0
         /\ \A i \in 1..(n - m + 1) : SubSeq(a, m, n)[i] = a[m + i - 1]
OBVIOUS

(* The stretch of no elements. *)
LEMMA CutNothing ==
  ASSUME NEW a, NEW m \in Int, NEW n \in Int, n < m
  PROVE  SubSeq(a, m, n) = <<>>
OBVIOUS

(* A sequence is the stretch of all its elements. *)
LEMMA CutAll ==
  ASSUME NEW S, NEW a \in Seq(S)
  PROVE  SubSeq(a, 1, Len(a)) = a
OBVIOUS

(* A stretch ends in its last element. *)
LEMMA CutLast ==
  ASSUME NEW S, NEW a \in Seq(S), NEW m \in 1..Len(a), NEW n \in m..Len(a)
  PROVE  SubSeq(a, m, n) = SubSeq(a, m, n - 1) \o <<a[n]>>
OBVIOUS

(* Two stretches that meet make one. *)
LEMMA CutAndJoin ==
  ASSUME NEW S, NEW a \in Seq(S), NEW m \in 1..(Len(a) + 1),
         NEW k \in (m - 1)..Len(a), NEW n \in k..Len(a)
  PROVE  SubSeq(a, m, k) \o SubSeq(a, k + 1, n) = SubSeq(a, m, n)
OBVIOUS

-----------------------------------------------------------------------------
(* What the writer puts on the line.  OnTheLine is a recursive function of *)
(* the bytes, so its laws are proved by induction: a least position at     *)
(* which a law fails is not the first one, and the one before it does not  *)
(* fail.                                                                   *)

(* A non-empty set of natural numbers has a least element. *)
LEMMA LeastNat ==
  ASSUME NEW S \in SUBSET Nat, S # {}
  PROVE  \E x \in S : \A y \in S : x <= y
<1> DEFINE R == OpToRel(<, Nat)
<1>1. IsWellFoundedOn(R, Nat)
  BY NatLessThanWellFounded, Zenon
<1>2. PICK x \in S : \A y \in S : ~(<<y, x>> \in R)
  <2> HIDE DEF R
  <2> QED
    BY <1>1, WFMin, Zenon
<1>3. \A y \in S : ~(y < x)
  BY <1>2, Zenon DEF OpToRel
<1> QED
  BY <1>3

(* A set of natural numbers that has 0 and with every i < n also i + 1     *)
(* has every number up to n.                                               *)
LEMMA UpTo ==
  ASSUME NEW n \in Nat, NEW S, 0 \in S, \A i \in 0..(n - 1) : i \in S => i + 1 \in S
  PROVE  \A i \in 0..n : i \in S
<1>1. PICK B : B = {i \in 0..n : i \notin S}
  BY Zenon
<1>2. B \in SUBSET Nat /\ \A i \in 0..n : i \in B \/ i \in S
  BY <1>1
<1>3. SUFFICES ASSUME B # {} PROVE FALSE
  BY <1>2, Zenon
<1>4. PICK m \in B : \A j \in B : m <= j
  BY <1>2, <1>3, LeastNat, Zenon
<1>5. m \in 0..n /\ m \notin S /\ m \in Nat
  BY <1>1, <1>4
<1>6. m # 0
  BY <1>5, Zenon
<1>7. m - 1 \in 0..(n - 1) /\ m - 1 \in 0..n /\ ~(m <= m - 1) /\ (m - 1) + 1 = m
  BY <1>5, <1>6
<1>8. m - 1 \in S
  BY <1>2, <1>4, <1>7, Zenon
<1>9. (m - 1) + 1 \in S
  BY <1>7, <1>8, Zenon
<1> QED
  BY <1>5, <1>7, <1>9, Zenon

(* line is the function of OnTheLine for these bytes. *)
Line(bytes, line) ==
  /\ line \in [0..Len(bytes) -> Seq(Bytes)]
  /\ line[0] = <<>>
  /\ \A i \in 1..Len(bytes) : line[i] = line[i - 1] \o Sent(bytes[i])

(* A byte is sent as bytes. *)
LEMMA SentType == \A b \in Bytes : Sent(b) \in Seq(Bytes)
<1>1. CR \in Bytes /\ LF \in Bytes
  BY Zenon DEF Bytes
<1>2. <<CR, LF>> \in Seq(Bytes) /\ \A b \in Bytes : <<b>> \in Seq(Bytes)
  BY <1>1
<1> QED
  BY <1>2, Zenon DEF Sent

(* There is such a function. *)
LEMMA LineExists ==
  ASSUME NEW bytes \in Seq(Bytes)
  PROVE  \E line : Line(bytes, line)
<1> DEFINE n == Len(bytes)
           Upto(k, line) == /\ line \in [0..k -> Seq(Bytes)]
                            /\ line[0] = <<>>
                            /\ \A i \in 1..k : line[i] = line[i - 1] \o Sent(bytes[i])
           S == {k \in Nat : \E line : Upto(k, line)}
<1>1. n \in Nat /\ \A i \in 1..n : bytes[i] \in Bytes
  OBVIOUS
<1>2. 0 \in S
  <2>1. <<>> \in Seq(Bytes)
    OBVIOUS
  <2>2. Upto(0, [i \in 0..0 |-> <<>>])
    BY <2>1
  <2> HIDE DEF Upto
  <2> QED
    BY <2>2, Zenon
<1>3. ASSUME NEW k \in 0..(n - 1), k \in S PROVE k + 1 \in S
  <2>1. PICK g : Upto(k, g)
    BY <1>3, Zenon
  <2> HIDE DEF S
  <2>2. PICK x : x = g[k] \o Sent(bytes[k + 1])
    BY Zenon
  <2>3. x \in Seq(Bytes)
    <3>1. g[k] \in Seq(Bytes)
      BY <1>1, <2>1
    <3>2. Sent(bytes[k + 1]) \in Seq(Bytes)
      BY <1>1, SentType
    <3> QED
      BY <2>2, <3>1, <3>2
  <2>4. PICK f : f = [i \in 0..(k + 1) |-> IF i = k + 1 THEN x ELSE g[i]]
    BY Zenon
  <2>5. f \in [0..(k + 1) -> Seq(Bytes)]
    BY <1>1, <2>1, <2>3, <2>4
  <2>6. f[k + 1] = x /\ \A i \in 0..k : f[i] = g[i]
    BY <1>1, <2>4
  <2>7. f[0] = <<>>
    BY <1>1, <2>1, <2>6
  <2>8. ASSUME NEW i \in 1..(k + 1) PROVE f[i] = f[i - 1] \o Sent(bytes[i])
    <3>1. CASE i = k + 1
      <4>1. i - 1 = k /\ k \in 0..k
        BY <1>1, <3>1
      <4>2. f[i - 1] = g[k] /\ f[i] = x
        BY <2>6, <3>1, <4>1, Zenon
      <4> QED
        BY <2>2, <3>1, <4>2, Zenon
    <3>2. CASE i # k + 1
      <4>1. i \in 1..k /\ i \in 0..k /\ i - 1 \in 0..k
        BY <1>1, <3>2
      <4>2. f[i] = g[i] /\ f[i - 1] = g[i - 1]
        BY <2>6, <4>1, Zenon
      <4>3. g[i] = g[i - 1] \o Sent(bytes[i])
        BY <2>1, <4>1, Zenon
      <4> QED
        BY <4>2, <4>3, Zenon
    <3> QED
      BY <3>1, <3>2, Zenon
  <2>9. Upto(k + 1, f)
    BY <2>5, <2>7, <2>8, Zenon
  <2>10. k + 1 \in Nat
    BY <1>1
  <2> HIDE DEF Upto
  <2> QED
    BY <2>9, <2>10, Zenon DEF S
<1>4. n \in S
  <2> HIDE DEF S
  <2>1. \A i \in 0..n : i \in S
    BY <1>1, <1>2, <1>3, UpTo, Zenon
  <2> QED
    BY <1>1, <2>1
<1> QED
  BY <1>4, Zenon DEF Line

(* OnTheLine is its last value. *)
LEMMA OnTheLineValue ==
  ASSUME NEW bytes \in Seq(Bytes)
  PROVE  \E line : Line(bytes, line) /\ OnTheLine(bytes) = line[Len(bytes)]
<1> DEFINE Rec(line) == line = [i \in 0..Len(bytes) |->
                          IF i = 0 THEN <<>> ELSE line[i - 1] \o Sent(bytes[i])]
<1>1. PICK g : Line(bytes, g)
  BY LineExists, Zenon
<1>2. Rec(g)
  <2>1. DOMAIN g = 0..Len(bytes) /\ g = [i \in 0..Len(bytes) |-> g[i]]
    BY <1>1, Zenon DEF Line
  <2>2. \A i \in 0..Len(bytes) :
          g[i] = IF i = 0 THEN <<>> ELSE g[i - 1] \o Sent(bytes[i])
    <3> SUFFICES ASSUME NEW i \in 0..Len(bytes)
                 PROVE  g[i] = IF i = 0 THEN <<>> ELSE g[i - 1] \o Sent(bytes[i])
      BY Zenon
    <3>1. CASE i = 0
      BY <1>1, <3>1, Zenon DEF Line
    <3>2. CASE i # 0
      <4>1. i \in 1..Len(bytes)
        BY <3>2
      <4>2. g[i] = g[i - 1] \o Sent(bytes[i])
        BY <1>1, <4>1, Zenon DEF Line
      <4> QED
        BY <3>2, <4>2, Zenon
    <3> QED
      BY <3>1, <3>2, Zenon
  <2> QED
    BY <2>1, <2>2, Zenon
<1>3. PICK f : f = CHOOSE line : Rec(line)
  BY Zenon
<1>4. Rec(f)
  <2> HIDE DEF Rec
  <2> QED
    BY <1>2, <1>3, Zenon
<1>5. OnTheLine(bytes) = f[Len(bytes)]
  BY <1>3, Zenon DEF OnTheLine
<1>6. /\ f[0] = <<>>
      /\ \A i \in 1..Len(bytes) : f[i] = f[i - 1] \o Sent(bytes[i])
  <2>1. \A i \in 0..Len(bytes) :
          f[i] = IF i = 0 THEN <<>> ELSE f[i - 1] \o Sent(bytes[i])
    BY <1>4, Zenon
  <2> HIDE DEF Rec
  <2>2. 0 \in 0..Len(bytes) /\ \A i \in 1..Len(bytes) : i \in 0..Len(bytes) /\ i # 0
    OBVIOUS
  <2>3. f[0] = <<>>
    BY <2>1, <2>2, Zenon
  <2>4. ASSUME NEW i \in 1..Len(bytes) PROVE f[i] = f[i - 1] \o Sent(bytes[i])
    BY <2>1, <2>2, Zenon
  <2> QED
    BY <2>3, <2>4, Zenon
<1>7. DOMAIN f = 0..Len(bytes)
  BY <1>4, Zenon
<1>8. \A i \in 0..Len(bytes) : f[i] \in Seq(Bytes)
  <2> HIDE DEF Rec
  <2> DEFINE T == {i \in 0..Len(bytes) : f[i] \in Seq(Bytes)}
  <2>1. 0 \in T
    <3>1. 0 \in 0..Len(bytes) /\ <<>> \in Seq(Bytes)
      OBVIOUS
    <3> QED
      BY <1>6, <3>1, Zenon
  <2>2. ASSUME NEW i \in 0..(Len(bytes) - 1), i \in T PROVE i + 1 \in T
    <3>0. i + 1 \in 1..Len(bytes) /\ (i + 1) - 1 = i /\ i + 1 \in 0..Len(bytes)
      OBVIOUS
    <3>1. f[i + 1] = f[i] \o Sent(bytes[i + 1])
      BY <1>6, <3>0, Zenon
    <3>2. bytes[i + 1] \in Bytes /\ f[i] \in Seq(Bytes)
      BY <2>2
    <3>3. Sent(bytes[i + 1]) \in Seq(Bytes)
      BY <3>2, SentType, Zenon
    <3>4. f[i] \o Sent(bytes[i + 1]) \in Seq(Bytes)
      BY <3>2, <3>3
    <3> QED
      BY <3>0, <3>1, <3>4, Zenon
  <2> HIDE DEF T
  <2>3. \A i \in 0..Len(bytes) : i \in T
    BY <2>1, <2>2, UpTo
  <2> QED
    BY <2>3, Zenon DEF T
<1>9. f = [i \in 0..Len(bytes) |-> f[i]]
  <2>1. f = [i \in 0..Len(bytes) |->
               IF i = 0 THEN <<>> ELSE f[i - 1] \o Sent(bytes[i])]
    BY <1>4, Zenon
  <2> HIDE DEF Rec
  <2> QED
    BY <2>1, Zenon
<1>10. Line(bytes, f)
  BY <1>6, <1>8, <1>9, Zenon DEF Line
<1> QED
  BY <1>5, <1>10, Zenon


(* What is sent are bytes. *)
LEMMA OnTheLineType == \A bytes \in Seq(Bytes) : OnTheLine(bytes) \in Seq(Bytes)
<1> SUFFICES ASSUME NEW bytes \in Seq(Bytes) PROVE OnTheLine(bytes) \in Seq(Bytes)
  BY Zenon
<1>1. PICK line : Line(bytes, line) /\ OnTheLine(bytes) = line[Len(bytes)]
  BY OnTheLineValue, Zenon
<1>2. Len(bytes) \in 0..Len(bytes)
  OBVIOUS
<1> QED
  BY <1>1, <1>2, Zenon DEF Line

(* One message after another is sent as the one after the other. *)
LEMMA OnTheLineConcat ==
  ASSUME NEW s \in Seq(Bytes), NEW t \in Seq(Bytes)
  PROVE  OnTheLine(s \o t) = OnTheLine(s) \o OnTheLine(t)
<1>1. PICK m \in Nat, n \in Nat, u \in Seq(Bytes) :
        m = Len(s) /\ n = Len(t) /\ u = s \o t
  <2>1. Len(s) \in Nat /\ Len(t) \in Nat /\ s \o t \in Seq(Bytes)
    BY JoinFacts
  <2> QED
    BY <2>1, Zenon
<1>2. /\ Len(u) = m + n
      /\ \A i \in 1..m : u[i] = s[i]
      /\ \A j \in 1..n : u[m + j] = t[j]
  BY <1>1
<1>3. PICK a : Line(s, a) /\ OnTheLine(s) = a[m]
  BY <1>1, OnTheLineValue, Zenon
<1>4. PICK b : Line(t, b) /\ OnTheLine(t) = b[n]
  BY <1>1, OnTheLineValue, Zenon
<1>5. PICK c : Line(u, c) /\ OnTheLine(u) = c[m + n]
  BY <1>1, <1>2, OnTheLineValue, ZenonT(30)
<1>6. /\ a \in [0..m -> Seq(Bytes)] /\ a[0] = <<>>
      /\ \A i \in 1..m : a[i] = a[i - 1] \o Sent(s[i])
  BY <1>1, <1>3, Zenon DEF Line
<1>7. /\ b \in [0..n -> Seq(Bytes)] /\ b[0] = <<>>
      /\ \A i \in 1..n : b[i] = b[i - 1] \o Sent(t[i])
  BY <1>1, <1>4, Zenon DEF Line
<1>8. /\ c[0] = <<>>
      /\ \A i \in 1..(m + n) : c[i] = c[i - 1] \o Sent(u[i])
  BY <1>2, <1>5, Zenon DEF Line
<1>9. c[m] = a[m]
  <2> DEFINE T == {i \in 0..m : c[i] = a[i]}
  <2>1. 0 \in T
    BY <1>6, <1>8
  <2>2. ASSUME NEW i \in 0..(m - 1), i \in T PROVE i + 1 \in T
    <3>1. i + 1 \in 1..m /\ i + 1 \in 1..(m + n) /\ (i + 1) - 1 = i /\ i + 1 \in 0..m
      OBVIOUS
    <3>2. c[i + 1] = c[i] \o Sent(u[i + 1])
      BY <1>8, <3>1, Zenon
    <3>3. a[i + 1] = a[i] \o Sent(s[i + 1])
      BY <1>6, <3>1, Zenon
    <3>4. u[i + 1] = s[i + 1] /\ c[i] = a[i]
      BY <1>2, <2>2, <3>1, Zenon
    <3> QED
      BY <3>1, <3>2, <3>3, <3>4, Zenon
  <2> HIDE DEF T
  <2>3. \A i \in 0..m : i \in T
    BY <2>1, <2>2, UpTo, Zenon
  <2>4. m \in 0..m
    OBVIOUS
  <2> QED
    BY <2>3, <2>4, Zenon DEF T
<1>10. PICK x \in Seq(Bytes) : x = a[m]
  <2>1. m \in 0..m
    OBVIOUS
  <2> QED
    BY <1>6, <2>1, Zenon
<1>11. c[m + n] = x \o b[n]
  <2> DEFINE T == {j \in 0..n : c[m + j] = x \o b[j]}
  <2>1. 0 \in T
    <3>1. x \o <<>> = x /\ m + 0 = m /\ 0 \in 0..n
      OBVIOUS
    <3> QED
      BY <1>7, <1>9, <1>10, <3>1, Zenon
  <2>2. ASSUME NEW j \in 0..(n - 1), j \in T PROVE j + 1 \in T
    <3>1. /\ j + 1 \in 1..n /\ m + (j + 1) \in 1..(m + n) /\ (j + 1) - 1 = j
          /\ (m + (j + 1)) - 1 = m + j /\ j + 1 \in 0..n /\ j \in 0..n
      OBVIOUS
    <3>2. c[m + (j + 1)] = c[m + j] \o Sent(u[m + (j + 1)])
      BY <1>8, <3>1, Zenon
    <3>3. b[j + 1] = b[j] \o Sent(t[j + 1])
      BY <1>7, <3>1, Zenon
    <3>4. u[m + (j + 1)] = t[j + 1] /\ c[m + j] = x \o b[j]
      BY <1>2, <2>2, <3>1, Zenon
    <3>5. b[j] \in Seq(Bytes) /\ Sent(t[j + 1]) \in Seq(Bytes)
      <4>1. t[j + 1] \in Bytes
        BY <1>1, <3>1
      <4>2. b[j] \in Seq(Bytes)
        BY <1>7, <3>1, Zenon
      <4> QED
        BY <4>1, <4>2, SentType, Zenon
    <3>6. (x \o b[j]) \o Sent(t[j + 1]) = x \o (b[j] \o Sent(t[j + 1]))
      <4>1. PICK y \in Seq(Bytes), z \in Seq(Bytes) : y = b[j] /\ z = Sent(t[j + 1])
        BY <3>5, Zenon
      <4>2. (x \o y) \o z = x \o (y \o z)
        <5> HIDE <4>1
        <5> QED
          BY JoinThree, SMTT(30)
      <4> QED
        BY <4>1, <4>2, Zenon
    <3> QED
      BY <3>1, <3>2, <3>3, <3>4, <3>6, Zenon
  <2> HIDE DEF T
  <2>3. \A j \in 0..n : j \in T
    BY <2>1, <2>2, UpTo, Zenon
  <2>4. n \in 0..n
    OBVIOUS
  <2> QED
    BY <2>3, <2>4, Zenon DEF T
<1> QED
  BY <1>1, <1>3, <1>4, <1>5, <1>10, <1>11, Zenon

(* Without a newline, bytes are sent as they are. *)
LEMMA OnTheLinePlain ==
  ASSUME NEW s \in Seq(Bytes), \A i \in DOMAIN s : s[i] # LF
  PROVE  OnTheLine(s) = s
<1>1. PICK n \in Nat : n = Len(s) /\ \A i \in 1..n : s[i] # LF /\ s[i] \in Bytes
  OBVIOUS
<1>2. PICK a : Line(s, a) /\ OnTheLine(s) = a[n]
  BY <1>1, OnTheLineValue, Zenon
<1>3. a[0] = <<>> /\ \A i \in 1..n : a[i] = a[i - 1] \o Sent(s[i])
  BY <1>1, <1>2, Zenon DEF Line
<1> DEFINE T == {i \in 0..n : a[i] = SubSeq(s, 1, i)}
<1>4. 0 \in T
  <2>1. SubSeq(s, 1, 0) = <<>> /\ 0 \in 0..n
    BY CutNothing
  <2> QED
    BY <1>3, <2>1, Zenon
<1>5. ASSUME NEW i \in 0..(n - 1), i \in T PROVE i + 1 \in T
  <2>1. i + 1 \in 1..n /\ (i + 1) - 1 = i /\ i + 1 \in 0..n /\ 1 \in 1..n /\ i + 1 \in 1..Len(s)
    BY <1>1
  <2>2. a[i + 1] = a[i] \o <<s[i + 1]>>
    BY <1>1, <1>3, <2>1, Zenon DEF Sent
  <2>3. SubSeq(s, 1, i + 1) = SubSeq(s, 1, i) \o <<s[i + 1]>>
    <3>1. 1 \in 1..Len(s) /\ i + 1 \in 1..Len(s)
      BY <1>1, <2>1, Zenon
    <3>2. SubSeq(s, 1, i + 1) = SubSeq(s, 1, (i + 1) - 1) \o <<s[i + 1]>>
      BY <3>1, CutLast, Zenon
    <3> QED
      BY <2>1, <3>2, Zenon
  <2> QED
    BY <1>5, <2>1, <2>2, <2>3, Zenon
<1>6. n \in T
  <2> HIDE DEF T
  <2>1. \A i \in 0..n : i \in T
    BY <1>4, <1>5, UpTo, Zenon
  <2>2. n \in 0..n
    OBVIOUS
  <2> QED
    BY <2>1, <2>2, Zenon
<1>7. SubSeq(s, 1, n) = s
  BY <1>1, CutAll, Zenon
<1> QED
  BY <1>2, <1>6, <1>7, Zenon

(* A newline is sent as two bytes. *)
LEMMA OnTheLineNewline == OnTheLine(<<LF>>) = <<CR, LF>> /\ OnTheLine(<<>>) = <<>>
<1>1. <<LF>> \in Seq(Bytes) /\ <<>> \in Seq(Bytes)
  BY DEF Bytes
<1>a. PICK s \in Seq(Bytes) : s = <<LF>> /\ Len(s) = 1 /\ s[1] = LF
  BY <1>1, Zenon
<1>2. PICK a : Line(s, a) /\ OnTheLine(s) = a[1]
  BY <1>a, OnTheLineValue, Zenon
<1>3. a[0] = <<>> /\ a[1] = a[0] \o Sent(LF)
  <2>1. 1 \in 1..1 /\ 1 - 1 = 0
    OBVIOUS
  <2>2. a[0] = <<>> /\ \A i \in 1..1 : a[i] = a[i - 1] \o Sent(s[i])
    BY <1>a, <1>2, Zenon DEF Line
  <2>3. a[1] = a[1 - 1] \o Sent(s[1])
    BY <2>1, <2>2, Zenon
  <2> QED
    BY <1>a, <2>1, <2>2, <2>3, Zenon
<1>4. <<>> \o <<CR, LF>> = <<CR, LF>>
  OBVIOUS
<1>5. OnTheLine(<<LF>>) = <<CR, LF>>
  BY <1>a, <1>2, <1>3, <1>4, Zenon DEF Sent
<1>6. OnTheLine(<<>>) = <<>>
  <2>1. PICK e \in Seq(Bytes) : e = <<>> /\ Len(e) = 0
    BY <1>1, Zenon
  <2>2. \A i \in DOMAIN e : e[i] # LF
    BY <2>1
  <2>3. OnTheLine(e) = e
    BY <2>2, OnTheLinePlain, Zenon
  <2> QED
    BY <2>1, <2>3, Zenon
<1> QED
  BY <1>5, <1>6, Zenon


-----------------------------------------------------------------------------
(* The ring is a queue: what push_slice copies goes behind what it holds,  *)
(* and pop takes from the front, also when the array wraps around.         *)

(* The slot of the i-th byte. *)
LEMMA SlotFacts ==
  ASSUME NEW t \in Index, NEW i \in 1..N
  PROVE  /\ (t + i - 1) % N \in Index
         /\ t + i - 1 < N => (t + i - 1) % N = t + i - 1
         /\ t + i - 1 >= N => (t + i - 1) % N = t + i - 1 - N
<1>1. PICK a \in Nat : a = t + i - 1 /\ a < 2 * N
  BY RingAssumption DEF Index
<1>2. /\ a < N => a % N = a
      /\ a >= N => a % N = a - N
      /\ a % N \in Index
  BY <1>1, ModOnce, Zenon
<1>3. (t + i - 1) % N = a % N
  BY <1>1, Zenon
<1>4. /\ t + i - 1 < N => a < N /\ a = t + i - 1
      /\ t + i - 1 >= N => a >= N /\ a - N = t + i - 1 - N
  BY <1>1, RingAssumption DEF Index
<1> QED
  BY <1>2, <1>3, <1>4, Zenon

(* A ring holds a sequence of cells. *)
LEMMA ContentsType ==
  ASSUME NEW r, RingOK(r)
  PROVE  /\ Contents(r) \in Seq(Cell) /\ Len(Contents(r)) = Count(r)
         /\ Count(r) \in Nat /\ Count(r) < N
         /\ \A i \in 1..Count(r) : Contents(r)[i] = r.buf[(r.tail + i - 1) % N]
<1>1. PICK c \in Nat : c = Count(r) /\ c < N /\ \A i \in 1..c : i \in 1..N
  BY CountAvailable, RingAssumption DEF Index
<1>2. r.buf \in [Index -> Cell] /\ r.tail \in Index
  BY Zenon DEF RingOK
<1>3. \A i \in 1..c : (r.tail + i - 1) % N \in Index
  BY <1>1, <1>2, SlotFacts, Zenon
<1>4. Contents(r) = [i \in 1..c |-> r.buf[(r.tail + i - 1) % N]]
  BY <1>1, Zenon DEF Contents
<1>5. \A i \in 1..c : r.buf[(r.tail + i - 1) % N] \in Cell
  BY <1>2, <1>3, Zenon
<1>6. Contents(r) \in [1..c -> Cell] /\ \A i \in 1..c : Contents(r)[i] = r.buf[(r.tail + i - 1) % N]
  BY <1>4, <1>5, Zenon
<1>7. Contents(r) \in Seq(Cell) /\ Len(Contents(r)) = c
  BY <1>1, <1>6
<1> QED
  BY <1>1, <1>6, <1>7, Zenon

(* Two sequences of the same length with the same elements are equal. *)
LEMMA SameSeq ==
  ASSUME NEW S, NEW s \in Seq(S), NEW t \in Seq(S), Len(s) = Len(t),
         \A i \in 1..Len(s) : s[i] = t[i]
  PROVE  s = t
OBVIOUS

(* push_slice appends the bytes it copies. *)
LEMMA ContentsPush ==
  ASSUME NEW r, RingOK(r), NEW data \in Seq(Bytes)
  PROVE  Contents(PushSlice(r, data)) =
           Contents(r) \o SubSeq(data, 1, Pushed(r, data))
<1>1. PICK p, n, c : p = PushSlice(r, data) /\ n = Pushed(r, data) /\ c = Count(r)
  BY Zenon
<1>2. /\ n \in Nat /\ n <= Len(data) /\ n <= N - 1 - c /\ c \in Nat
      /\ RingOK(p) /\ p.tail = r.tail /\ Count(p) = c + n
  <2>1. n \in 0..Len(data) /\ n <= N - 1 - c
    BY <1>1, PushedRange, Zenon
  <2>2. RingOK(p) /\ p.tail = r.tail /\ Count(p) = c + n
    BY <1>1, PushRing, Zenon
  <2>3. c \in Nat
    BY <1>1, ContentsType, Zenon
  <2> QED
    BY <2>1, <2>2, <2>3
<1>3. \A i \in 1..n : data[i] \in Bytes /\ data[i] \in Cell
  BY <1>2 DEF Cell
<1>4. PICK d : d = SubSeq(data, 1, n)
  BY Zenon
<1>5. d \in Seq(Cell) /\ Len(d) = n /\ \A i \in 1..n : d[i] = data[i]
  <2>1. \A i \in 1..n : data[i] \in Cell
    BY <1>3, Zenon
  <2>2. /\ SubSeq(data, 1, n) \in Seq(Cell)
        /\ Len(SubSeq(data, 1, n)) = IF 1 <= n THEN n - 1 + 1 ELSE 0
        /\ \A i \in 1..(n - 1 + 1) : SubSeq(data, 1, n)[i] = data[1 + i - 1]
    BY <1>2, <2>1, CutFacts
  <2> QED
    BY <1>2, <1>4, <2>2
<1>6. PICK s : s = Contents(r)
  BY Zenon
<1>7. /\ s \in Seq(Cell) /\ Len(s) = c
      /\ \A i \in 1..c : s[i] = r.buf[(r.tail + i - 1) % N]
  BY <1>1, <1>6, ContentsType, Zenon
<1>8. PICK q : q = Contents(p)
  BY Zenon
<1>9. /\ q \in Seq(Cell) /\ Len(q) = c + n
      /\ \A i \in 1..(c + n) : q[i] = p.buf[(r.tail + i - 1) % N]
  BY <1>2, <1>8, ContentsType, Zenon
<1>10. /\ s \o d \in Seq(Cell) /\ Len(s \o d) = c + n
       /\ \A i \in 1..(c + n) : (s \o d)[i] = IF i <= c THEN s[i] ELSE d[i - c]
  BY <1>5, <1>7, JoinFacts, ZenonT(30)
<1>11. ASSUME NEW i \in 1..(c + n) PROVE q[i] = (s \o d)[i]
  <2>1. PICK head \in Int, tail \in Int :
          /\ head = r.head /\ tail = r.tail /\ 0 <= head /\ head < N /\ 0 <= tail /\ tail < N
          /\ tail \in Index
    BY RingAssumption DEF RingOK, Index
  <2>2. PICK k \in Int : k = (tail + i - 1) % N /\ k \in Index
          /\ (tail + i - 1 < N => k = tail + i - 1)
          /\ (tail + i - 1 >= N => k = tail + i - 1 - N)
    <3>1. i \in 1..N
      BY <1>2, RingAssumption
    <3>2. PICK k : k = (tail + i - 1) % N
      BY Zenon
    <3>3. /\ k \in Index
          /\ (tail + i - 1 < N => k = tail + i - 1)
          /\ (tail + i - 1 >= N => k = tail + i - 1 - N)
      BY <2>1, <3>1, <3>2, SlotFacts, Zenon
    <3>4. k \in Int
      BY <3>3 DEF Index
    <3> QED
      BY <3>2, <3>3, <3>4, Zenon
  <2>3. PICK off \in Int : off = IF k >= head THEN k - head ELSE k + N - head
    <3>1. k - head \in Int /\ k + N - head \in Int
      BY RingAssumption
    <3> QED
      BY <3>1, Zenon
  <2>4. p.buf[k] = IF off < n THEN data[off + 1] ELSE r.buf[k]
    BY <1>1, <2>1, <2>2, <2>3, Zenon DEF PushSlice
  <2>5. /\ head >= tail => c = head - tail
        /\ head < tail => c = head + N - tail
    BY <1>1, <2>1, CountAvailable, Zenon
  <2>6. /\ i <= c => ~(off < n)
        /\ i > c => off < n /\ off + 1 = i - c
    <3>1. N \in Nat /\ n \in Int /\ c \in Int /\ i \in Int /\ 1 <= i /\ i <= c + n /\ 0 <= n
      BY <1>2, RingAssumption
    <3>2. (k >= head => off = k - head) /\ (k < head => off = k + N - head)
      BY <2>3, <3>1
    <3>3. 0 <= head /\ head < N /\ 0 <= tail /\ tail < N /\ n <= N - 1 - c
      BY <1>2, <2>1, Zenon
    <3>4. /\ tail + i - 1 < N => k = tail + i - 1
          /\ tail + i - 1 >= N => k = tail + i - 1 - N
      BY <2>2, Zenon
    <3> QED
      BY <2>5, <3>1, <3>2, <3>3, <3>4
  <2>7. q[i] = p.buf[k]
    BY <1>9, <2>1, <2>2, Zenon
  <2>8. CASE i <= c
    <3>1. i \in 1..c
      BY <1>2, <2>8
    <3> QED
      BY <1>7, <1>10, <2>1, <2>2, <2>4, <2>6, <2>7, <2>8, <3>1
  <2>9. CASE i > c
    <3>1. i - c \in 1..n /\ ~(i <= c)
      BY <1>2, <2>9
    <3>2. q[i] = data[i - c]
      BY <2>4, <2>6, <2>7, <2>9, Zenon
    <3> QED
      BY <1>5, <1>10, <3>1, <3>2, Zenon
  <2>10. i <= c \/ i > c
    BY <1>2
  <2> QED
    BY <2>8, <2>9, <2>10, Zenon
<1>12. q = s \o d
  BY <1>2, <1>9, <1>10, <1>11, SameSeq, Zenon
<1> QED
  BY <1>1, <1>4, <1>6, <1>8, <1>12, Zenon


(* pop takes the first bytes and leaves the others in order. *)
LEMMA ContentsPop ==
  ASSUME NEW r, RingOK(r), NEW n \in 0..Count(r)
  PROVE  PopBytes(r, n) \o Contents(PopRing(r, n)) = Contents(r)
<1>1. PICK p, c : p = PopRing(r, n) /\ c = Count(r)
  BY Zenon
<1>2. c \in Nat /\ c < N /\ n \in 0..c
  BY <1>1, ContentsType, Zenon
<1>3. RingOK(p) /\ Count(p) = c - n
  BY <1>1, PopKeepsRing, Zenon
<1>4. p.buf = r.buf /\ p.tail = (r.tail + n) % N
  BY <1>1, Zenon DEF PopRing
<1>5. PICK s : s = Contents(r)
  BY Zenon
<1>6. /\ s \in Seq(Cell) /\ Len(s) = c
      /\ \A i \in 1..c : s[i] = r.buf[(r.tail + i - 1) % N]
  BY <1>1, <1>5, ContentsType, Zenon
<1>7. PICK q : q = Contents(p)
  BY Zenon
<1>8. /\ q \in Seq(Cell) /\ Len(q) = c - n
      /\ \A i \in 1..(c - n) : q[i] = p.buf[(p.tail + i - 1) % N]
  BY <1>3, <1>7, ContentsType, Zenon
<1>9. PICK d : d = SubSeq(s, n + 1, c)
  BY Zenon
<1>10. d \in Seq(Cell) /\ Len(d) = c - n /\ \A i \in 1..(c - n) : d[i] = s[n + i]
  <2>1. n + 1 \in Int /\ c \in Int /\ \A i \in (n + 1)..c : s[i] \in Cell
    BY <1>2, <1>6
  <2>2. /\ SubSeq(s, n + 1, c) \in Seq(Cell)
        /\ Len(SubSeq(s, n + 1, c)) = IF n + 1 <= c THEN c - (n + 1) + 1 ELSE 0
        /\ \A i \in 1..(c - (n + 1) + 1) : SubSeq(s, n + 1, c)[i] = s[(n + 1) + i - 1]
    BY <2>1, CutFacts
  <2>3. /\ c - (n + 1) + 1 = c - n /\ (~(n + 1 <= c) => c - n = 0)
        /\ \A i \in 1..(c - n) : (n + 1) + i - 1 = n + i
    BY <1>2
  <2> QED
    BY <1>9, <2>2, <2>3, Zenon
<1>11. ASSUME NEW i \in 1..(c - n) PROVE q[i] = d[i]
  <2>1. PICK t \in Int : t = r.tail /\ t \in Index /\ 0 <= t /\ t < N
    BY RingAssumption DEF RingOK, Index
  <2>2. i \in 1..N /\ n + i \in 1..N /\ n + i \in 1..c /\ n + 1 \in 1..N
        /\ n \in Nat /\ i \in Nat /\ N \in Nat
    BY <1>2, RingAssumption
  <2>3. PICK u \in Int : u = p.tail /\ u \in Index
          /\ (t + n < N => u = t + n) /\ (t + n >= N => u = t + n - N)
    <3>1. t + (n + 1) - 1 = t + n
      BY <2>2
    <3>2. /\ (t + (n + 1) - 1) % N \in Index
          /\ t + (n + 1) - 1 < N => (t + (n + 1) - 1) % N = t + (n + 1) - 1
          /\ t + (n + 1) - 1 >= N => (t + (n + 1) - 1) % N = t + (n + 1) - 1 - N
      BY <2>1, <2>2, SlotFacts, Zenon
    <3>3. /\ (t + n) % N \in Index
          /\ t + n < N => (t + n) % N = t + n
          /\ t + n >= N => (t + n) % N = t + n - N
      BY <3>1, <3>2
    <3>4. (t + n) % N \in Int
      BY <3>3 DEF Index
    <3>5. p.tail = (t + n) % N
      BY <1>4, <2>1, Zenon
    <3> QED
      BY <3>3, <3>4, <3>5, Zenon
  <2>4. PICK x \in Int : x = (u + i - 1) % N
          /\ (u + i - 1 < N => x = u + i - 1) /\ (u + i - 1 >= N => x = u + i - 1 - N)
    <3>1. /\ (u + i - 1) % N \in Index
          /\ u + i - 1 < N => (u + i - 1) % N = u + i - 1
          /\ u + i - 1 >= N => (u + i - 1) % N = u + i - 1 - N
      BY <2>2, <2>3, SlotFacts, Zenon
    <3>2. (u + i - 1) % N \in Int
      BY <3>1 DEF Index
    <3> QED
      BY <3>1, <3>2, Zenon
  <2>5. PICK y \in Int : y = (t + (n + i) - 1) % N
          /\ (t + (n + i) - 1 < N => y = t + (n + i) - 1)
          /\ (t + (n + i) - 1 >= N => y = t + (n + i) - 1 - N)
    <3>1. /\ (t + (n + i) - 1) % N \in Index
          /\ t + (n + i) - 1 < N => (t + (n + i) - 1) % N = t + (n + i) - 1
          /\ t + (n + i) - 1 >= N => (t + (n + i) - 1) % N = t + (n + i) - 1 - N
      BY <2>1, <2>2, SlotFacts, Zenon
    <3>2. (t + (n + i) - 1) % N \in Int
      BY <3>1 DEF Index
    <3> QED
      BY <3>1, <3>2, Zenon
  <2>6. x = y
    <3>1. 0 <= t /\ t < N /\ 1 <= i /\ 0 <= n /\ n + i <= c /\ c < N
      BY <1>2, <2>1, <2>2
    <3>2. /\ t + n < N => u = t + n
          /\ t + n >= N => u = t + n - N
          /\ u + i - 1 < N => x = u + i - 1
          /\ u + i - 1 >= N => x = u + i - 1 - N
          /\ t + (n + i) - 1 < N => y = t + (n + i) - 1
          /\ t + (n + i) - 1 >= N => y = t + (n + i) - 1 - N
      BY <2>3, <2>4, <2>5, Zenon
    <3> QED
      BY <1>2, <2>2, <3>1, <3>2
  <2>7. q[i] = r.buf[x]
    BY <1>4, <1>8, <2>3, <2>4, Zenon
  <2>8. d[i] = s[n + i] /\ s[n + i] = r.buf[(r.tail + (n + i) - 1) % N]
    BY <1>6, <1>10, <2>2, Zenon
  <2> QED
    BY <2>1, <2>5, <2>6, <2>7, <2>8, Zenon
<1>12. q = d
  BY <1>8, <1>10, <1>11, SameSeq, Zenon
<1>13. SubSeq(s, 1, n) \o SubSeq(s, n + 1, c) = SubSeq(s, 1, c)
  <2>1. 1 \in 1..(Len(s) + 1) /\ n \in (1 - 1)..Len(s) /\ c \in n..Len(s)
    BY <1>2, <1>6
  <2> QED
    BY <1>6, <2>1, CutAndJoin, Zenon
<1>14. SubSeq(s, 1, c) = s
  BY <1>6, CutAll, Zenon
<1> QED
  BY <1>1, <1>5, <1>7, <1>9, <1>12, <1>13, <1>14, Zenon DEF PopBytes

-----------------------------------------------------------------------------
(* The bytes in order.  BytesInOrder is not inductive alone: between two   *)
(* chunks nothing is left to push, and between two messages nothing is     *)
(* left to look at.                                                        *)
BInv ==
  /\ UInv
  /\ out \in Seq(Cell) /\ received \in Seq(Bytes)
  /\ pc \in {"receive", "chunk"} => slice = <<>>
  /\ pc = "receive" => rest = <<>>
  /\ BytesInOrder

(* Steps that leave the bytes where they are. *)
LEMMA BytesStay ==
  ASSUME BInv, UInv', UNCHANGED <<ring, out, pc, rest, slice, received>>
  PROVE  BInv'
BY Zenon DEF BInv, BytesInOrder

(* drain_ring_to_fifo moves bytes from the front of the ring to the end of *)
(* the output.                                                             *)
LEMMA DrainBytes ==
  ASSUME BInv, DrainRingToFifo
  PROVE  out' \in Seq(Cell) /\ out' \o Contents(ring') = out \o Contents(ring)
<1>1. RingOK(ring) /\ out \in Seq(Cell)
  BY Zenon DEF BInv, UInv, UartTypes
<1>2. PICK r, d : r = ring /\ d = Drains
  BY Zenon
<1>3. PICK x, y, z : x = PopBytes(r, d) /\ y = Contents(PopRing(r, d)) /\ z = Contents(r)
  BY Zenon
<1>4. d \in 0..Count(r)
  <2>1. Count(r) \in Nat /\ FifoSize \in Nat
    BY <1>1, <1>2, ContentsType, UartAssumption, Zenon
  <2> QED
    BY <1>2, <2>1 DEF Drains, Least
<1>5. x \o y = z
  BY <1>1, <1>2, <1>3, <1>4, ContentsPop, Zenon
<1>6. z \in Seq(Cell) /\ Len(z) = Count(r)
  BY <1>1, <1>2, <1>3, ContentsType, Zenon
<1>7. x \in Seq(Cell)
  <2>1. \A i \in 1..d : z[i] \in Cell
    BY <1>4, <1>6
  <2>2. 1 \in Int /\ d \in Int
    BY <1>4
  <2> QED
    BY <1>3, <2>1, <2>2, CutFacts, Zenon DEF PopBytes
<1>8. y \in Seq(Cell)
  <2>1. RingOK(PopRing(r, d))
    BY <1>1, <1>2, <1>4, PopKeepsRing, Zenon
  <2> QED
    BY <1>3, <2>1, ContentsType, Zenon
<1>9. ring' = PopRing(r, d) /\ out' = out \o x
  BY <1>2, <1>3, Zenon DEF DrainRingToFifo
<1>10. out \o x \in Seq(Cell)
  BY <1>1, <1>7, JoinFacts, Zenon
<1>11. (out \o x) \o y = out \o (x \o y)
  BY <1>1, <1>7, <1>8, JoinThree
<1> QED
  BY <1>2, <1>3, <1>5, <1>9, <1>10, <1>11, Zenon


(* Bytes are cells, and the parts of BytesInOrder are sequences of cells. *)
LEMMA SeqCell == \A s \in Seq(Bytes) : s \in Seq(Cell)
BY DEF Cell

(* Concatenation is associative. *)
LEMMA CellsAssociative ==
  \A s, t, u \in Seq(Cell) : (s \o t) \o u = s \o (t \o u)
BY JoinThree

(* The parts of the order, as sequences. *)
LEMMA BytesParts ==
  ASSUME BInv
  PROVE  /\ out \o Contents(ring) \in Seq(Cell) /\ Contents(ring) \in Seq(Cell)
         /\ out \in Seq(Cell) /\ slice \in Seq(Cell) /\ slice \in Seq(Bytes)
         /\ rest \in Seq(Bytes) /\ OnTheLine(rest) \in Seq(Cell)
         /\ received \in Seq(Bytes) /\ OnTheLine(received) \in Seq(Cell)
         /\ ((out \o Contents(ring)) \o slice) \o OnTheLine(rest) = OnTheLine(received)
<1>1. /\ out \in Seq(Cell) /\ RingOK(ring) /\ slice \in Seq(Bytes) /\ rest \in Seq(Bytes)
      /\ received \in Seq(Bytes)
  BY Zenon DEF BInv, UInv, UartTypes
<1>2. Contents(ring) \in Seq(Cell)
  BY <1>1, ContentsType, Zenon
<1>3. out \o Contents(ring) \in Seq(Cell)
  BY <1>1, <1>2, JoinFacts, Zenon
<1>4. /\ OnTheLine(rest) \in Seq(Cell) /\ OnTheLine(received) \in Seq(Cell)
      /\ slice \in Seq(Cell)
  BY <1>1, SeqCell, OnTheLineType, Zenon
<1>5. ((out \o Contents(ring)) \o slice) \o OnTheLine(rest) = OnTheLine(received)
  BY Zenon DEF BInv, BytesInOrder
<1> QED
  BY <1>1, <1>2, <1>3, <1>4, <1>5, Zenon

(* Emptying the ring into the FIFO, by the handler or by the writer. *)
LEMMA DrainBInv ==
  ASSUME BInv, UInv', DrainRingToFifo, UNCHANGED <<rest, slice, received>>,
         pc' = pc \/ (pc = "chunk" /\ rest = <<>> /\ pc' = "receive")
  PROVE  BInv'
<1>1. out' \in Seq(Cell) /\ out' \o Contents(ring') = out \o Contents(ring)
  BY DrainBytes, Zenon
<1>2. ((out' \o Contents(ring')) \o slice') \o OnTheLine(rest') = OnTheLine(received')
  BY <1>1, BytesParts, Zenon
<1>3. BytesInOrder'
  BY <1>2, Zenon DEF BytesInOrder
<1>4. received' \in Seq(Bytes)
  BY Zenon DEF BInv
<1>5. out' \in Seq(Cell) /\ Cell' = Cell
  BY <1>1, Zenon DEF Cell, Bytes
<1>6. /\ pc' \in {"receive", "chunk"} => slice' = <<>>
      /\ pc' = "receive" => rest' = <<>>
  BY Zenon DEF BInv
<1> QED
  BY <1>3, <1>4, <1>5, <1>6, Zenon DEF BInv, Cell, Bytes

(* A message is received when nothing is left of the one before. *)
LEMMA ReceiveBInv ==
  ASSUME BInv, UInv', WriterReceives
  PROVE  BInv'
<1>1. ring' = ring /\ out' = out /\ pc = "receive"
  BY Zenon DEF WriterReceives, pumpVars, At
<1>2. CASE inbox[Writer] = <<>>
  <2>1. UNCHANGED <<ring, out, pc, rest, slice, received>>
    BY <1>1, <1>2, Zenon DEF WriterReceives, writerVars
  <2> QED
    BY <2>1, BytesStay, Zenon
<1>3. CASE inbox[Writer] # <<>>
  <2>1. PICK d : d = Head(inbox[Writer]).data
    BY Zenon
  <2>2. rest' = d /\ received' = received \o d /\ pc' = "chunk" /\ slice' = slice
    BY <1>3, <2>1, Zenon DEF WriterReceives
  <2>3. d \in Seq(Bytes)
    <3>1. inbox[Writer] \in Seq(Message)
      BY WriterTid, Zenon DEF BInv, UInv, IInv, TypeOK
    <3>2. Head(inbox[Writer]) \in Message
      BY <1>3, <3>1
    <3>3. d \in Payload
      BY <2>1, <3>2, Zenon DEF Message
    <3> QED
      BY <3>3, UartAssumption, Zenon
  <2>4. slice = <<>> /\ rest = <<>>
    BY <1>1, Zenon DEF BInv
  <2>5. PICK x \in Seq(Cell), y \in Seq(Cell) :
          x = out \o Contents(ring) /\ y = OnTheLine(received)
    BY BytesParts, Zenon
  <2>6. (x \o <<>>) \o <<>> = y
    BY <2>4, <2>5, BytesParts, OnTheLineNewline, Zenon
  <2>7. x = y /\ x \o <<>> = x
    BY <2>6, JoinNothing, Zenon
  <2>8. OnTheLine(received \o d) = y \o OnTheLine(d)
    BY <2>3, <2>5, BytesParts, OnTheLineConcat, Zenon
  <2>9. ((out' \o Contents(ring')) \o slice') \o OnTheLine(rest') = OnTheLine(received')
    BY <1>1, <2>2, <2>4, <2>5, <2>7, <2>8, Zenon
  <2>10. BytesInOrder'
    BY <2>9, Zenon DEF BytesInOrder
  <2>11. received' \in Seq(Bytes)
    BY <2>2, <2>3, BytesParts, JoinFacts, Zenon
  <2> QED
    BY <1>1, <2>2, <2>4, <2>10, <2>11, Zenon DEF BInv, Cell, Bytes
<1> QED
  BY <1>2, <1>3, Zenon

(* c is pushed for s up to its first newline, and b comes after it. *)
CutsAt(s, k, c, b) ==
  /\ k \in DOMAIN s /\ s[k] = LF /\ \A i \in 1..(k - 1) : s[i] # LF
  /\ c = SubSeq(s, 1, k - 1) \o <<CR, LF>> /\ b = SubSeq(s, k + 1, Len(s))

(* What is cut off at a newline is sent as the bytes before it, CR and LF. *)
LEMMA CutAtNewline ==
  ASSUME NEW s \in Seq(Bytes), NEW k, NEW c, NEW b, CutsAt(s, k, c, b)
  PROVE  /\ c \in Seq(Bytes) /\ b \in Seq(Bytes)
         /\ OnTheLine(s) = c \o OnTheLine(b)
<1>a. PICK a : a = SubSeq(s, 1, k - 1)
  BY Zenon
<1>0. /\ k \in DOMAIN s /\ s[k] = LF /\ \A i \in 1..(k - 1) : s[i] # LF
      /\ a = SubSeq(s, 1, k - 1) /\ b = SubSeq(s, k + 1, Len(s))
      /\ c = a \o <<CR, LF>>
  BY <1>a, Zenon DEF CutsAt
<1>1. PICK n \in Nat : n = Len(s) /\ k \in 1..n
  <2>1. k \in DOMAIN s
    BY <1>0, Zenon
  <2> QED
    BY <2>1
<1>2. a \in Seq(Bytes) /\ \A i \in DOMAIN a : a[i] # LF
  <2>1. k - 1 \in Int /\ \A i \in 1..(k - 1) : s[i] \in Bytes
    BY <1>1
  <2>2. /\ SubSeq(s, 1, k - 1) \in Seq(Bytes)
        /\ Len(SubSeq(s, 1, k - 1)) = IF 1 <= k - 1 THEN (k - 1) - 1 + 1 ELSE 0
        /\ \A i \in 1..((k - 1) - 1 + 1) : SubSeq(s, 1, k - 1)[i] = s[1 + i - 1]
    BY <2>1, CutFacts
  <2>3. a \in Seq(Bytes) /\ Len(a) = k - 1 /\ \A i \in 1..(k - 1) : a[i] = s[i]
    BY <1>0, <1>1, <2>2
  <2> QED
    BY <1>0, <2>3
<1>3. b \in Seq(Bytes)
  <2>1. k + 1 \in Int /\ Len(s) \in Int /\ \A i \in (k + 1)..Len(s) : s[i] \in Bytes
    BY <1>1
  <2> QED
    BY <1>0, <2>1, CutFacts, Zenon
<1>4. <<LF>> \in Seq(Bytes) /\ <<CR, LF>> \in Seq(Bytes)
  BY DEF Bytes
<1>5. s = (a \o <<LF>>) \o b
  <2>1. SubSeq(s, 1, k) = SubSeq(s, 1, k - 1) \o <<s[k]>>
    <3>1. 1 \in 1..Len(s) /\ k \in 1..Len(s)
      BY <1>1
    <3> QED
      BY <3>1, CutLast, Zenon
  <2>2. SubSeq(s, 1, k) \o SubSeq(s, k + 1, Len(s)) = SubSeq(s, 1, Len(s))
    <3>1. 1 \in 1..(Len(s) + 1) /\ k \in (1 - 1)..Len(s) /\ Len(s) \in k..Len(s)
      BY <1>1
    <3> QED
      BY <3>1, CutAndJoin, Zenon
  <2>3. SubSeq(s, 1, Len(s)) = s
    BY CutAll, Zenon
  <2> QED
    BY <1>0, <2>1, <2>2, <2>3, Zenon
<1>6. a \o <<LF>> \in Seq(Bytes) /\ a \o <<CR, LF>> \in Seq(Bytes)
  BY <1>2, <1>4, JoinFacts, Zenon
<1>7. OnTheLine(a \o <<LF>>) = a \o <<CR, LF>>
  <2>1. OnTheLine(a \o <<LF>>) = OnTheLine(a) \o OnTheLine(<<LF>>)
    BY <1>2, <1>4, OnTheLineConcat, Zenon
  <2>2. OnTheLine(a) = a
    BY <1>2, OnTheLinePlain, Zenon
  <2> QED
    BY <2>1, <2>2, OnTheLineNewline, Zenon
<1>8. OnTheLine((a \o <<LF>>) \o b) = OnTheLine(a \o <<LF>>) \o OnTheLine(b)
  BY <1>3, <1>6, OnTheLineConcat, Zenon
<1> QED
  BY <1>0, <1>3, <1>5, <1>6, <1>7, <1>8


(* A turn of write_data's loop: a chunk of the rest becomes the slice. *)
LEMMA ChunkBInv ==
  ASSUME BInv, UInv', WriteChunk
  PROVE  BInv'
<1>1. /\ ring' = ring /\ out' = out /\ received' = received
      /\ pc = "chunk" /\ pc' = "push"
  BY Zenon DEF WriteChunk, pumpVars, At
<1>2. slice = <<>>
  BY <1>1, Zenon DEF BInv
<1>3. PICK x \in Seq(Cell) : x = out \o Contents(ring)
  BY BytesParts, Zenon
<1>4. x \o OnTheLine(rest) = OnTheLine(received)
  <2>1. (x \o <<>>) \o OnTheLine(rest) = OnTheLine(received)
    BY <1>2, <1>3, BytesParts, Zenon
  <2>2. x \o <<>> = x
    BY JoinNothing, Zenon
  <2> QED
    BY <2>1, <2>2, Zenon
<1>5. /\ slice' \in Seq(Cell) /\ OnTheLine(rest') \in Seq(Cell)
      /\ slice' \o OnTheLine(rest') = OnTheLine(rest)
  <2>1. ASSUME NEW k \in DOMAIN rest, rest[k] = LF, \A i \in 1..(k - 1) : rest[i] # LF,
               slice' = SubSeq(rest, 1, k - 1) \o <<CR, LF>>,
               rest' = SubSeq(rest, k + 1, Len(rest))
        PROVE  /\ slice' \in Seq(Cell) /\ OnTheLine(rest') \in Seq(Cell)
               /\ slice' \o OnTheLine(rest') = OnTheLine(rest)
    <3>1. PICK s \in Seq(Bytes) : s = rest
      BY BytesParts, Zenon
    <3>2. PICK c, b : c = slice' /\ b = rest'
      BY Zenon
    <3>3. CutsAt(s, k, c, b)
      BY <2>1, <3>1, <3>2, Zenon DEF CutsAt
    <3>4. /\ c \in Seq(Bytes) /\ b \in Seq(Bytes)
          /\ OnTheLine(s) = c \o OnTheLine(b)
      BY <3>3, CutAtNewline
    <3> QED
      BY <3>1, <3>2, <3>4, SeqCell, OnTheLineType, Zenon
  <2>2. ASSUME \A i \in DOMAIN rest : rest[i] # LF, slice' = rest, rest' = <<>>
        PROVE  /\ slice' \in Seq(Cell) /\ OnTheLine(rest') \in Seq(Cell)
               /\ slice' \o OnTheLine(rest') = OnTheLine(rest)
    <3>1. rest \in Seq(Bytes) /\ rest \in Seq(Cell)
      BY BytesParts, SeqCell, Zenon
    <3>2. OnTheLine(rest) = rest /\ OnTheLine(rest') = <<>>
      BY <2>2, <3>1, OnTheLinePlain, OnTheLineNewline, Zenon
    <3>3. rest \o <<>> = rest /\ <<>> \in Seq(Cell)
      BY <3>1, JoinNothing
    <3> QED
      BY <2>2, <3>1, <3>2, <3>3, Zenon
  <2> QED
    BY <2>1, <2>2, Zenon DEF WriteChunk
<1>6. (x \o slice') \o OnTheLine(rest') = x \o (slice' \o OnTheLine(rest'))
  BY <1>5, CellsAssociative, Zenon
<1>7. ((out' \o Contents(ring')) \o slice') \o OnTheLine(rest') = OnTheLine(received')
  BY <1>1, <1>3, <1>4, <1>5, <1>6, Zenon
<1>8. BytesInOrder'
  BY <1>7, Zenon DEF BytesInOrder
<1> QED
  BY <1>1, <1>8, Zenon DEF BInv, Cell, Bytes

(* A turn of push_slice_blocking's loop: the front of the slice goes to    *)
(* the back of the ring.                                                   *)
LEMMA PushBInv ==
  ASSUME BInv, UInv', PushSliceBlocking
  PROVE  BInv'
<1>1. out' = out /\ rest' = rest /\ received' = received /\ pc = "push"
  BY Zenon DEF PushSliceBlocking, At
<1>2. CASE slice = <<>> \/ Pushed(ring, slice) = 0
  <2>1. ring' = ring /\ slice' = slice /\ pc' \in {"chunk", "wait"}
        /\ (pc' = "chunk" => slice = <<>>)
    BY <1>2, Zenon DEF PushSliceBlocking
  <2>2. BytesInOrder'
    BY <1>1, <2>1, Zenon DEF BInv, BytesInOrder
  <2> QED
    BY <1>1, <2>1, <2>2, Zenon DEF BInv, Cell, Bytes
<1>3. CASE slice # <<>> /\ Pushed(ring, slice) # 0
  <2>1. PICK r, s, m : r = ring /\ s = slice /\ m = Pushed(r, s)
    BY Zenon
  <2>2. ring' = PushSlice(r, s) /\ slice' = SubSeq(s, m + 1, Len(s)) /\ pc' = pc
    BY <1>3, <2>1, Zenon DEF PushSliceBlocking
  <2>3. RingOK(r) /\ s \in Seq(Bytes)
    BY <2>1, Zenon DEF BInv, UInv, UartTypes
  <2>4. m \in 0..Len(s)
    BY <2>1, <2>3, PushedRange, Zenon
  <2>5. PICK a, b : a = SubSeq(s, 1, m) /\ b = SubSeq(s, m + 1, Len(s))
    BY Zenon
  <2>6. a \o b = s
    <3>1. 1 \in 1..(Len(s) + 1) /\ m \in (1 - 1)..Len(s) /\ Len(s) \in m..Len(s)
      BY <2>3, <2>4
    <3>2. SubSeq(s, 1, m) \o SubSeq(s, m + 1, Len(s)) = SubSeq(s, 1, Len(s))
      BY <2>3, <3>1, CutAndJoin, Zenon
    <3>3. SubSeq(s, 1, Len(s)) = s
      BY <2>3, CutAll, Zenon
    <3> QED
      BY <2>5, <3>2, <3>3, Zenon
  <2>7. a \in Seq(Cell) /\ b \in Seq(Cell)
    <3>1. /\ m \in Int /\ m + 1 \in Int /\ Len(s) \in Int
          /\ \A i \in 1..m : s[i] \in Bytes
          /\ \A i \in (m + 1)..Len(s) : s[i] \in Bytes
      BY <2>3, <2>4
    <3>2. SubSeq(s, 1, m) \in Seq(Bytes)
      BY <3>1, CutFacts
    <3>3. SubSeq(s, m + 1, Len(s)) \in Seq(Bytes)
      BY <3>1, CutFacts, Zenon
    <3> QED
      BY <2>5, <3>2, <3>3, SeqCell, ZenonT(30)
  <2>8. PICK c \in Seq(Cell), x \in Seq(Cell), y \in Seq(Cell) :
          c = Contents(r) /\ x = out /\ y = OnTheLine(rest)
    BY <2>1, BytesParts, Zenon
  <2>9. Contents(ring') = c \o a
    BY <2>1, <2>2, <2>3, <2>5, <2>8, ContentsPush, Zenon
  <2>10. (x \o (c \o a)) \o b = (x \o c) \o (a \o b)
    <3>1. x \o (c \o a) = (x \o c) \o a
      BY <2>7, CellsAssociative, ZenonT(30)
    <3>2. x \o c \in Seq(Cell)
      BY JoinFacts, Zenon
    <3>3. ((x \o c) \o a) \o b = (x \o c) \o (a \o b)
      BY <2>7, <3>2, CellsAssociative, ZenonT(30)
    <3> QED
      BY <3>1, <3>3, Zenon
  <2>11. ((x \o c) \o s) \o y = OnTheLine(received)
    BY <2>1, <2>8, BytesParts, Zenon
  <2>12. ((out' \o Contents(ring')) \o slice') \o OnTheLine(rest') = OnTheLine(received')
    BY <1>1, <2>2, <2>5, <2>6, <2>8, <2>9, <2>10, <2>11, ZenonT(30)
  <2>13. BytesInOrder'
    BY <2>12, Zenon DEF BytesInOrder
  <2> QED
    BY <1>1, <2>2, <2>13, Zenon DEF BInv, Cell, Bytes
<1> QED
  BY <1>2, <1>3, Zenon

(* Initially there are no bytes. *)
LEMMA InitBInv == ASSUME UInit PROVE BInv
<1>1. UInv
  BY UInitUInv, Zenon
<1>2. Contents(ring) = <<>>
  <2>1. RingOK(ring) /\ IsEmpty(ring)
    BY <1>1, Zenon DEF UInv, UartTypes, UInit, NewRing, IsEmpty
  <2>2. Contents(ring) \in Seq(Cell) /\ Len(Contents(ring)) = 0
    BY <2>1, ContentsType, CountAvailable, Zenon
  <2> QED
    BY <2>2
<1>3. <<>> \in Seq(Cell) /\ <<>> \in Seq(Bytes) /\ ((<<>> \o <<>>) \o <<>>) \o <<>> = <<>>
  OBVIOUS
<1>4. BytesInOrder
  BY <1>2, <1>3, OnTheLineNewline, Zenon DEF UInit, BytesInOrder
<1> QED
  BY <1>1, <1>3, <1>4, Zenon DEF BInv, UInit

(* Every step keeps the bytes in order. *)
LEMMA NextBInv == ASSUME BInv, [UNext]_uvars PROVE BInv'
<1>1. UInv'
  BY UNextUInv, Zenon DEF BInv
<1>2. ASSUME UNCHANGED uartVars PROVE BInv'
  BY <1>1, <1>2, BytesStay, Zenon DEF uartVars, pumpVars, writerVars
<1>3. CASE BootSpawns \/ BootStarts \/ SchedulerStep
  BY <1>2, <1>3, Zenon DEF BootSpawns, BootStarts, SchedulerStep
<1>4. CASE WriterReceives
  BY <1>1, <1>4, ReceiveBInv, Zenon
<1>5. CASE WriteChunk
  BY <1>1, <1>5, ChunkBInv, Zenon
<1>6. CASE KickStart
  <2>1. /\ DrainRingToFifo /\ UNCHANGED <<rest, slice, received>>
        /\ pc = "chunk" /\ rest = <<>> /\ pc' = "receive"
    BY <1>6, Zenon DEF KickStart, At
  <2> QED
    BY <1>1, <2>1, DrainBInv, Zenon
<1>7. CASE PushSliceBlocking
  BY <1>1, <1>7, PushBInv, Zenon
<1>8. CASE WaitForSpace
  <2>1. /\ UNCHANGED <<ring, out, rest, slice, received>>
        /\ pc = "wait" /\ pc' \in {"wait", "push"}
    BY <1>8, Zenon DEF WaitForSpace, At, pumpVars
  <2>2. BytesInOrder'
    BY <2>1, Zenon DEF BInv, BytesInOrder
  <2> QED
    BY <1>1, <2>1, <2>2, Zenon DEF BInv, Cell, Bytes
<1>9. CASE HandleIrq
  <2>1. UNCHANGED <<pc, rest, slice, received>>
    BY <1>9, Zenon DEF HandleIrq, writerVars
  <2>2. DrainRingToFifo \/ UNCHANGED <<ring, out>>
    BY <1>9, Zenon DEF HandleIrq, NotifyTxReady, pumpVars
  <2> QED
    BY <1>1, <2>1, <2>2, DrainBInv, BytesStay, Zenon
<1>10. ASSUME NEW t \in Printers, SendWrite(t) PROVE BInv'
  BY <1>1, <1>10, BytesStay, Zenon DEF SendWrite, pumpVars, writerVars
<1>11. ASSUME NEW t \in Printers, PrinterYields(t) \/ PrinterExits(t) PROVE BInv'
  BY <1>2, <1>11, Zenon DEF PrinterYields, PrinterExits
<1>12. CASE UartTransmits
  BY <1>1, <1>12, BytesStay, Zenon DEF UartTransmits, writerVars
<1>13. CASE UartInterrupts \/ UartReceives
  BY <1>2, <1>13, Zenon DEF UartInterrupts, UartReceives
<1>14. CASE uvars' = uvars
  BY <1>2, <1>14, Zenon DEF uvars
<1> QED
  BY <1>3, <1>4, <1>5, <1>6, <1>7, <1>8, <1>9, <1>10, <1>11, <1>12, <1>13, <1>14
     DEF UNext, HartStep

(* What was transmitted, what the ring holds and what the writer has still *)
(* to push are the bytes it received, in order and with newlines           *)
(* converted: nothing is lost, repeated or overtaken, whatever the size of *)
(* the ring and of the FIFO and however handler and writer take turns.     *)
THEOREM BytesStayInOrder == USpec => []BytesInOrder
<1>1. BInv => BytesInOrder
  BY Zenon DEF BInv
<1> QED
  BY <1>1, InitBInv, NextBInv, PTL DEF USpec


=============================================================================
