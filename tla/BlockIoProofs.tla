--------------------------- MODULE BlockIoProofs ----------------------------
(***************************************************************************)
(* Proofs about BlockIo, for every number of processes, of sectors, of     *)
(* reads and of faults: each read gets exactly one answer, and the answer  *)
(* is that of its own transfer.                                            *)
(***************************************************************************)
EXTENDS BlockIo, SchedulerProofs, FiniteSetLaws

-----------------------------------------------------------------------------
(* Counting the elements of a sequence that lie in a set. *)

CountIn(q, S) == Cardinality({i \in DOMAIN q : q[i] \in S})

(* A count is a number; it is zero exactly if no element is in the set. *)
LEMMA CountType ==
  ASSUME CountingLaws, NEW M, NEW q \in Seq(M), NEW S
  PROVE  /\ CountIn(q, S) \in Nat
         /\ IsFiniteSet({i \in DOMAIN q : q[i] \in S})
         /\ CountIn(q, S) = 0 <=> \A i \in DOMAIN q : q[i] \notin S
<1> DEFINE I == {i \in DOMAIN q : q[i] \in S}
<1>1. I \subseteq 1..Len(q) /\ Len(q) \in Nat
  OBVIOUS
<1>2. IsFiniteSet(1..Len(q))
  BY <1>1 DEF CountingLaws, CardinalityInterval
<1>3. IsFiniteSet(I)
  BY <1>1, <1>2, Zenon DEF CountingLaws, CardinalitySubset
<1>4. Cardinality(I) \in Nat /\ (Cardinality(I) = 0 <=> I = {})
  BY <1>3, Zenon DEF CountingLaws, CardinalityNat, CardinalityZero
<1> QED
  BY <1>3, <1>4, Zenon DEF CountIn

(* A count is a number. *)
LEMMA CountNat ==
  ASSUME CountingLaws, NEW M, NEW q \in Seq(M), NEW S
  PROVE  CountIn(q, S) \in Nat
BY CountType, Zenon

(* A count of zero: no element is in the set. *)
LEMMA CountZero ==
  ASSUME CountingLaws, NEW M, NEW q \in Seq(M), NEW S, CountIn(q, S) = 0
  PROVE  \A i \in DOMAIN q : q[i] \notin S
BY CountType, Zenon

(* Nothing is in the empty sequence. *)
LEMMA CountEmpty == ASSUME CountingLaws, NEW S PROVE CountIn(<<>>, S) = 0
<1>1. {i \in DOMAIN <<>> : <<>>[i] \in S} = {}
  OBVIOUS
<1> QED
  BY <1>1, Zenon DEF CountIn, CountingLaws, CardinalityZero

(* A message that is delivered is counted once. *)
LEMMA CountAppend ==
  ASSUME CountingLaws, NEW M, NEW q \in Seq(M), NEW x \in M, NEW S
  PROVE  CountIn(Append(q, x), S) = CountIn(q, S) + One(x \in S)
<1> DEFINE I == {i \in DOMAIN q : q[i] \in S}
           J == {i \in DOMAIN Append(q, x) : Append(q, x)[i] \in S}
           n == Len(q) + 1
<1>1. /\ DOMAIN q = 1..Len(q) /\ Len(q) \in Nat
      /\ DOMAIN Append(q, x) = 1..n
      /\ \A i \in 1..Len(q) : Append(q, x)[i] = q[i]
      /\ Append(q, x)[n] = x
  OBVIOUS
<1>2. IsFiniteSet(I) /\ n \notin I /\ CountIn(q, S) \in Nat
  <2>1. IsFiniteSet(I) /\ CountIn(q, S) \in Nat
    BY CountType, Zenon
  <2>2. n \notin 1..Len(q)
    BY <1>1
  <2> QED
    BY <1>1, <2>1, <2>2, Zenon
<1>3. CASE x \in S
  <2>1. J = I \cup {n}
    BY <1>1, <1>3
  <2>2. Cardinality(J) = Cardinality(I) + 1
    BY <1>2, <2>1, Zenon DEF CountingLaws, CardinalityAdd
  <2> QED
    BY <1>3, <2>2, Zenon DEF CountIn, One
<1>4. CASE x \notin S
  <2>1. J = I
    BY <1>1, <1>4
  <2>2. CountIn(Append(q, x), S) = CountIn(q, S)
    BY <2>1, Zenon DEF CountIn
  <2>3. One(x \in S) = 0
    BY <1>4, Zenon DEF One
  <2> QED
    BY <1>2, <2>2, <2>3
<1> QED
  BY <1>3, <1>4, Zenon

(* A message that is taken was counted once. *)
LEMMA CountTail ==
  ASSUME CountingLaws, NEW M, NEW q \in Seq(M), q # <<>>, NEW S
  PROVE  CountIn(q, S) = CountIn(Tail(q), S) + One(Head(q) \in S)
<1> DEFINE I == {i \in DOMAIN q : q[i] \in S}
           J == {i \in DOMAIN Tail(q) : Tail(q)[i] \in S}
           K == I \ {1}
           f == [j \in J |-> j + 1]
<1>1. /\ DOMAIN q = 1..Len(q) /\ Len(q) \in Nat \ {0}
      /\ Tail(q) \in Seq(M) /\ DOMAIN Tail(q) = 1..(Len(q) - 1)
      /\ \A i \in 1..(Len(q) - 1) : Tail(q)[i] = q[i + 1]
      /\ Head(q) = q[1]
  OBVIOUS
<1>2. IsFiniteSet(I) /\ IsFiniteSet(J) /\ Cardinality(I) \in Nat
  BY <1>1, CountType, Zenon DEF CountIn
<1>3. Cardinality(J) <= Cardinality(K)
  <2>1. IsFiniteSet(K)
    BY <1>2, Zenon DEF CountingLaws, CardinalityRemove
  <2>2. f \in [J -> K] /\ \A a, b \in J : f[a] = f[b] => a = b
    BY <1>1
  <2> HIDE DEF I, J, K, f
  <2> QED
    BY <2>1, <2>2, Zenon DEF CountingLaws, CardinalityInto
<1>4. Cardinality(K) <= Cardinality(J)
  <2>1. PICK g : g = [k \in K |-> k - 1]
    BY Zenon
  <2>2. g \in [K -> J]
    BY <1>1, <2>1
  <2>3. \A a, b \in K : g[a] = g[b] => a = b
    BY <1>1, <2>1
  <2> HIDE DEF I, J, K, f
  <2> QED
    BY <1>2, <2>2, <2>3, Zenon DEF CountingLaws, CardinalityInto
<1>5. Cardinality(K) = IF 1 \in I THEN Cardinality(I) - 1 ELSE Cardinality(I)
  BY <1>2, Zenon DEF CountingLaws, CardinalityRemove
<1>6. 1 \in I <=> Head(q) \in S
  BY <1>1
<1>7. CountIn(q, S) = Cardinality(I) /\ CountIn(Tail(q), S) = Cardinality(J)
  BY Zenon DEF CountIn
<1>8. Cardinality(I) \in Nat /\ Cardinality(J) \in Nat
  BY <1>2, Zenon DEF CountingLaws, CardinalityNat
<1> HIDE DEF I, J, K, f
<1>9. CASE Head(q) \in S
  <2>1. One(Head(q) \in S) = 1
    BY <1>9, Zenon DEF One
  <2> QED
    BY <1>3, <1>4, <1>5, <1>6, <1>7, <1>8, <1>9, <2>1
<1>10. CASE Head(q) \notin S
  <2>1. One(Head(q) \in S) = 0
    BY <1>10, Zenon DEF One
  <2> QED
    BY <1>3, <1>4, <1>5, <1>6, <1>7, <1>8, <1>10, <2>1
<1> QED
  BY <1>9, <1>10, Zenon

-----------------------------------------------------------------------------
(* The inductive invariant of BlockIo. *)

ReqOf(t)    == {m \in Message : m.data.type = "ReadRequest" /\ m.data.tid = t}
Completions == {m \in Message : m.data.type = "ReadComplete"}
Responses   == {m \in Message : m.data.type = "ReadResponse"}
QueuedOf(t) == {r \in Request : r.tid = t}

Asking    == {"issue", "issueFailed", "refuse"}
Answering == {"readFailed", "respond"}

(* Where the request of thread t, or its answer, is. *)
Asked(t)    == CountIn(inbox[Dispatcher], ReqOf(t))
InHand(t)   == One(pc[Dispatcher] \in Asking /\ hand.tid = t)
Queued(t)   == CountIn(queue, QueuedOf(t))
Issued(t)   == One(request = t)
Deciding(t) == One(pc[Dispatcher] \in Answering /\ answer.tid = t)
Answered(t) == CountIn(inbox[t], Responses)
Awaits(t)   == One(pc[t] = "await")

(* OneAnswerPerRead, with the places named. *)
Ledger ==
  \A t \in Readers :
    Asked(t) + InHand(t) + Queued(t) + Issued(t) + Deciding(t) + Answered(t) = Awaits(t)

(* CompletionMatchesRequest, likewise. *)
Transfer ==
  /\ One(device.tid # NoTid) + One(irqStatus # "None") + CountIn(inbox[Dispatcher], Completions)
       = One(request # NoTid)
  /\ device.tid \in {NoTid, request}

(* Who sends what to whom. *)
Mail ==
  /\ \A i \in DOMAIN inbox[Dispatcher] :
       inbox[Dispatcher][i].data.type \in {"ReadRequest", "ReadComplete"}
  /\ \A t \in Readers : \A i \in DOMAIN inbox[t] : inbox[t][i].data.type = "ReadResponse"

(* The dispatcher's local variables, while they mean something. *)
Desk ==
  /\ pc[Dispatcher] \in Asking \cup Answering => request = NoTid
  /\ pc[Dispatcher] \in Asking => hand \in Request
  /\ pc[Dispatcher] \in Answering => answer.tid \in Readers

(* A thread inside read_blocks exists, so its answer can be delivered. *)
AwaitLive == \A t \in Readers : pc[t] = "await" => t \in threadTable

(* Requests name the sector their thread waits for. *)
RightSector ==
  /\ \A i \in DOMAIN inbox[Dispatcher] : LET m == inbox[Dispatcher][i].data IN
       m.type = "ReadRequest" => want[m.tid] = m.sector
  /\ pc[Dispatcher] \in Asking => want[hand.tid] = hand.sector
  /\ \A i \in DOMAIN queue : want[queue[i].tid] = queue[i].sector
  /\ device.tid # NoTid => want[device.tid] = device.sector

(* An Ok anywhere on the way back means that the data is there. *)
RightData ==
  /\ irqStatus = "Ok" => buf[request] = want[request]
  /\ \A i \in DOMAIN inbox[Dispatcher] : LET m == inbox[Dispatcher][i].data IN
       m.type = "ReadComplete" /\ m.status = "Ok" => buf[request] = want[request]
  /\ pc[Dispatcher] \in Answering /\ answer.status = "Ok" => buf[answer.tid] = want[answer.tid]
  /\ \A t \in Readers : \A i \in DOMAIN inbox[t] :
       inbox[t][i].data.status = "Ok" => buf[t] = want[t]
  /\ OkMeansData

(* How far the boot is.  Nothing reads the disk before the dispatcher      *)
(* exists.                                                                 *)
BootInv ==
  /\ dispTid # NoTid => Dispatcher \in threadTable
  /\ dispTid = NoTid => nextId <= Dispatcher /\ inbox[Dispatcher] = <<>> /\ request = NoTid
  /\ dispTid = NoTid /\ mode # "boot" => nextId = Dispatcher
  /\ registered \/ kernelReady => dispTid # NoTid
  /\ pc[BlockInit] \notin {"begin", "spawn"} => dispTid # NoTid
  /\ \A t \in Readers \ {BlockInit} : pc[t] # "begin" => dispTid # NoTid

(* User code runs only in a process that is past user_thread_entry. *)
UserPc == mode = "user" => current \in Clients /\ pc[current] = "user"

Core ==
  /\ Mail
  /\ Desk
  /\ AwaitLive
  /\ Ledger
  /\ Transfer
  /\ RightSector
  /\ Driver = "sd" => RightData

BInv ==
  /\ IInv
  /\ BTypeOK
  /\ BootInv
  /\ UserPc
  /\ Core

-----------------------------------------------------------------------------
(* Threads and messages. *)

(* The threads of the boot are distinct threads. *)
LEMMA ThreadFacts ==
  /\ Readers \subseteq Tid /\ Clients \subseteq Readers
  /\ BlockInit \in Readers /\ FsInit \in Readers /\ BlockInit # FsInit
  /\ BlockInit \notin Clients /\ FsInit \notin Clients
  /\ Writer \in Tid /\ Writer \notin Readers
  /\ Dispatcher \in Tid /\ Dispatcher \notin Readers /\ Dispatcher # Writer
  /\ NoTid \notin Readers /\ NoTid # Dispatcher
BY ConstantsAssumption, BlockIoAssumption
   DEF Tid, Readers, Clients, BlockInit, FsInit, Writer, Dispatcher, NoTid

(* What a message can be. *)
LEMMA PayloadFacts ==
  ASSUME NEW d \in Payload
  PROVE  /\ d.type \in {"ReadRequest", "ReadComplete", "ReadResponse", "Text"}
         /\ d.status \in Status
         /\ d.type = "ReadRequest" => d.tid \in Readers /\ d.sector \in Sectors
<1>1. d \in BlockMessage
  BY BlockIoAssumption, Zenon
<1>2. ASSUME NEW t \in Readers, NEW s \in Sectors, d = ReadRequest(t, s)
      PROVE  d.type = "ReadRequest" /\ d.status \in Status /\ d.tid \in Readers /\ d.sector \in Sectors
  BY <1>2, Zenon DEF ReadRequest, Msg, Status
<1>3. ASSUME NEW st \in Status, d = ReadComplete(st)
      PROVE  d.type = "ReadComplete" /\ d.status \in Status
  BY <1>3, Zenon DEF ReadComplete, Msg
<1>4. ASSUME NEW st \in Status, d = ReadResponse(st)
      PROVE  d.type = "ReadResponse" /\ d.status \in Status
  BY <1>4, Zenon DEF ReadResponse, Msg
<1>5. ASSUME d = Text
      PROVE  d.type = "Text" /\ d.status \in Status
  BY <1>5, Zenon DEF Text, Msg, Status
<1> QED
  BY <1>1, <1>2, <1>3, <1>4, <1>5 DEF BlockMessage

(* Messages in an inbox, likewise. *)
LEMMA MessageFacts ==
  ASSUME NEW m \in Message
  PROVE  /\ m.data \in Payload
         /\ m.data.type \in {"ReadRequest", "ReadComplete", "ReadResponse", "Text"}
         /\ m.data.status \in Status
         /\ m.data.type = "ReadRequest" => m.data.tid \in Readers /\ m.data.sector \in Sectors
<1>1. m.data \in Payload
  BY Zenon DEF Message
<1> QED
  BY <1>1, PayloadFacts, Zenon

(* The four messages that are sent. *)
LEMMA RequestMessage ==
  ASSUME NEW u \in Tid \cup {Idle}, NEW t \in Readers, NEW s \in Sectors, NEW m,
         m = [sender |-> u, data |-> ReadRequest(t, s)]
  PROVE  /\ m \in Message
         /\ m.data.type = "ReadRequest" /\ m.data.tid = t /\ m.data.sector = s
<1>1. ReadRequest(t, s) \in Payload
  BY BlockIoAssumption DEF BlockMessage
<1>2. m \in Message /\ m.data = ReadRequest(t, s)
  BY <1>1, Zenon DEF Message
<1> QED
  BY <1>2, Zenon DEF ReadRequest, Msg

(* The handler's message. *)
LEMMA CompletionMessage ==
  ASSUME NEW u \in Tid \cup {Idle}, NEW st \in Status, NEW m,
         m = [sender |-> u, data |-> ReadComplete(st)]
  PROVE  /\ m \in Message
         /\ m.data.type = "ReadComplete" /\ m.data.status = st
<1>1. ReadComplete(st) \in Payload
  BY BlockIoAssumption DEF BlockMessage
<1>2. m \in Message /\ m.data = ReadComplete(st)
  BY <1>1, Zenon DEF Message
<1> QED
  BY <1>2, Zenon DEF ReadComplete, Msg

(* The dispatcher's answer. *)
LEMMA ResponseMessage ==
  ASSUME NEW u \in Tid \cup {Idle}, NEW st \in Status, NEW m,
         m = [sender |-> u, data |-> ReadResponse(st)]
  PROVE  /\ m \in Message
         /\ m.data.type = "ReadResponse" /\ m.data.status = st
<1>1. ReadResponse(st) \in Payload
  BY BlockIoAssumption DEF BlockMessage
<1>2. m \in Message /\ m.data = ReadResponse(st)
  BY <1>1, Zenon DEF Message
<1> QED
  BY <1>2, Zenon DEF ReadResponse, Msg

(* What kprintln! sends. *)
LEMMA TextMessage ==
  ASSUME NEW u \in Tid \cup {Idle}
  PROVE  [sender |-> u, data |-> Text] \in Message
<1>1. Text \in Payload
  BY BlockIoAssumption DEF BlockMessage
<1> QED
  BY <1>1, Zenon DEF Message

(* The places are counted by numbers. *)
LEMMA PlaceTypes ==
  ASSUME CountingLaws, BTypeOK, NEW t \in Readers
  PROVE  /\ Asked(t) \in Nat /\ Queued(t) \in Nat /\ Answered(t) \in Nat
         /\ InHand(t) \in {0, 1} /\ Issued(t) \in {0, 1} /\ Deciding(t) \in {0, 1}
         /\ Awaits(t) \in {0, 1}
         /\ CountIn(inbox[Dispatcher], Completions) \in Nat
<1>1. inbox[Dispatcher] \in Seq(Message) /\ inbox[t] \in Seq(Message) /\ queue \in Seq(Request)
  BY ThreadFacts, Zenon DEF BTypeOK, TypeOK
<1>2. Asked(t) \in Nat /\ Queued(t) \in Nat /\ Answered(t) \in Nat
      /\ CountIn(inbox[Dispatcher], Completions) \in Nat
  BY <1>1, CountType, Zenon DEF Asked, Queued, Answered
<1>3. InHand(t) \in {0, 1} /\ Issued(t) \in {0, 1} /\ Deciding(t) \in {0, 1} /\ Awaits(t) \in {0, 1}
  BY Zenon DEF InHand, Issued, Deciding, Awaits, One
<1> QED
  BY <1>2, <1>3, Zenon

(* A thread that is not inside read_blocks has nothing under way. *)
LEMMA NothingUnderWay ==
  ASSUME CountingLaws, BTypeOK, Ledger, NEW t \in Readers, pc[t] # "await"
  PROVE  /\ Asked(t) = 0 /\ InHand(t) = 0 /\ Queued(t) = 0 /\ Issued(t) = 0
         /\ Deciding(t) = 0 /\ Answered(t) = 0
<1>1. Asked(t) + InHand(t) + Queued(t) + Issued(t) + Deciding(t) + Answered(t) = 0
  BY Zenon DEF Ledger, Awaits, One
<1> QED
  BY <1>1, PlaceTypes

(* Its inbox is empty: no stale answer waits for a later read. *)
LEMMA NoStaleAnswer ==
  ASSUME CountingLaws, BTypeOK, Ledger, Mail, NEW t \in Readers, pc[t] # "await"
  PROVE  inbox[t] = <<>>
<1>1. inbox[t] \in Seq(Message)
  BY ThreadFacts, Zenon DEF BTypeOK, TypeOK
<1>2. \A i \in DOMAIN inbox[t] : inbox[t][i] \notin Responses
  BY <1>1, NothingUnderWay, CountType, Zenon DEF Answered
<1>3. \A i \in DOMAIN inbox[t] : inbox[t][i] \in Responses
  BY <1>1 DEF Mail, Responses
<1>4. \A q \in Seq(Message) : q # <<>> => 1 \in DOMAIN q
  OBVIOUS
<1> QED
  BY <1>1, <1>2, <1>3, <1>4, Zenon

-----------------------------------------------------------------------------
(* Steps that leave requests and answers where they are. *)

(* The labels of a step that neither enters nor leaves read_blocks, nor    *)
(* moves a request between the dispatcher's variables.                     *)
PcQuiet ==
  /\ pc' \in [Tid -> Labels \ {"complain"}]
  /\ pc'[Dispatcher] \in Asking <=> pc[Dispatcher] \in Asking
  /\ pc'[Dispatcher] \in Answering <=> pc[Dispatcher] \in Answering
  /\ \A t \in Readers : pc'[t] = "await" <=> pc[t] = "await"

PcBoot ==
  /\ pc'[BlockInit] \notin {"begin", "spawn"} => dispTid # NoTid
  /\ \A t \in Readers \ {BlockInit} : pc'[t] # "begin" => dispTid # NoTid

MailQuiet == \A t \in Readers \cup {Dispatcher} : inbox'[t] = inbox[t]

SameRequests == UNCHANGED <<request, queue, hand, answer, device, irqStatus, want, buf, result>>

(* Such a step preserves what is said of requests and answers. *)
LEMMA FrameCore ==
  ASSUME Core, PcQuiet, MailQuiet, SameRequests,
         \A t \in Readers : pc[t] = "await" /\ t \in threadTable => t \in threadTable'
  PROVE  Core'
<1> USE DEF Core, SameRequests
<1>1. /\ inbox'[Dispatcher] = inbox[Dispatcher]
      /\ \A t \in Readers : inbox'[t] = inbox[t]
  BY Zenon DEF MailQuiet
<1>2. Mail' /\ Desk' /\ AwaitLive'
  <2>1. Mail'
    <3>1. /\ \A i \in DOMAIN inbox[Dispatcher] :
               inbox[Dispatcher][i].data.type \in {"ReadRequest", "ReadComplete"}
          /\ \A t \in Readers : \A i \in DOMAIN inbox[t] : inbox[t][i].data.type = "ReadResponse"
      BY Zenon DEF Mail
    <3>2. ASSUME NEW t \in Readers
          PROVE  \A i \in DOMAIN inbox'[t] : inbox'[t][i].data.type = "ReadResponse"
      <4>1. inbox'[t] = inbox[t]
        BY <1>1, Zenon
      <4>2. \A i \in DOMAIN inbox[t] : inbox[t][i].data.type = "ReadResponse"
        BY <3>1, Zenon
      <4> QED
        BY <4>1, <4>2, Zenon
    <3>3. \A i \in DOMAIN inbox'[Dispatcher] :
            inbox'[Dispatcher][i].data.type \in {"ReadRequest", "ReadComplete"}
      BY <1>1, <3>1, Zenon
    <3> QED
      BY <3>2, <3>3, Zenon DEF Mail
  <2>2. Desk'
    BY Zenon DEF Desk, PcQuiet
  <2>3. AwaitLive'
    BY Zenon DEF AwaitLive, PcQuiet
  <2> QED
    BY <2>1, <2>2, <2>3, Zenon
<1>3. Ledger'
  <2> SUFFICES ASSUME NEW t \in Readers
               PROVE  (Asked(t) + InHand(t) + Queued(t) + Issued(t) + Deciding(t) + Answered(t)
                         = Awaits(t))'
    BY Zenon DEF Ledger
  <2>1. Asked(t)' = Asked(t) /\ Answered(t)' = Answered(t)
    BY <1>1, Zenon DEF Asked, Answered
  <2>2. InHand(t)' = InHand(t) /\ Deciding(t)' = Deciding(t) /\ Awaits(t)' = Awaits(t)
    BY Zenon DEF InHand, Deciding, Awaits, PcQuiet, One
  <2>3. Queued(t)' = Queued(t) /\ Issued(t)' = Issued(t)
    BY Zenon DEF Queued, Issued
  <2> QED
    BY <2>1, <2>2, <2>3, Zenon DEF Ledger
<1>4. Transfer' /\ RightSector'
  BY <1>1 DEF Transfer, RightSector, PcQuiet
<1>5. Driver = "sd" => RightData'
  BY <1>1 DEF RightData, OkMeansData, PcQuiet
<1> QED
  BY <1>2, <1>3, <1>4, <1>5, Zenon

(* What remains of the invariant for such a step of a running kernel. *)
Quiet ==
  /\ PcQuiet /\ PcBoot /\ MailQuiet /\ SameRequests
  /\ UNCHANGED <<dispTid, threadTable, nextId>>
  /\ mode' # "boot" => mode # "boot"
  /\ driverSlot' \in BOOLEAN
  /\ faults' = faults /\ reads' = reads
  /\ registered' \in BOOLEAN /\ kernelReady' \in BOOLEAN
  /\ registered' \/ kernelReady' => dispTid # NoTid

(* It preserves the whole invariant. *)
LEMMA QuietStep ==
  ASSUME BInv, IInv', Quiet, UserPc'
  PROVE  BInv'
<1> USE DEF BInv, Quiet
<1>1. Core'
  BY FrameCore, Zenon
<1>2. BTypeOK'
  BY Zenon DEF BTypeOK, IInv, PcQuiet, SameRequests
<1>3. inbox'[Dispatcher] = inbox[Dispatcher] /\ request' = request
  BY Zenon DEF MailQuiet, SameRequests
<1>4. BootInv'
  BY <1>3, Zenon DEF BootInv, PcBoot
<1> QED
  BY <1>1, <1>2, <1>4, Zenon

-----------------------------------------------------------------------------
(* The scheduler's operations, as this module uses them. *)

(* A thread at a label is running. *)
LEMMA AtFacts ==
  ASSUME BInv, NEW t \in Tid, NEW l, At(t, l)
  PROVE  mode = "kernel" /\ current = t /\ pc[t] = l /\ t \in threadTable
BY Zenon DEF At, BInv, IInv, OneRunning, ThreadRuns

(* An urgent message reaches its target's inbox only. *)
LEMMA UrgentFacts ==
  ASSUME BInv, NEW t \in Tid, NEW msg \in Message, SendMessageUrgent(t, msg)
  PROVE  /\ IInv'
         /\ UNCHANGED <<threadTable, nextId>>
         /\ mode = "kernel" /\ mode' = "schedule"
         /\ t \in threadTable => inbox'[t] = Append(inbox[t], msg)
         /\ \A u \in Tid \ {t} : inbox'[u] = inbox[u]
<1>1. IInv'
  BY SendMessageUrgentIInv, Zenon DEF BInv
<1>2. inbox \in [Tid -> Seq(Message)]
  BY Zenon DEF BInv, IInv, TypeOK
<1> QED
  BY <1>1, <1>2, Zenon DEF SendMessageUrgent, InCode, Deliver

(* kprintln! sends to the writer. *)
LEMMA PrintFacts ==
  ASSUME BInv, NEW t \in Tid, KPrintln(t)
  PROVE  /\ IInv' /\ MailQuiet
         /\ UNCHANGED <<threadTable, nextId>>
         /\ mode = "kernel" /\ mode' = "schedule"
<1>1. [sender |-> t, data |-> Text] \in Message
  BY TextMessage, Zenon
<1>2. /\ IInv' /\ UNCHANGED <<threadTable, nextId>> /\ mode = "kernel" /\ mode' = "schedule"
      /\ \A u \in Tid \ {Writer} : inbox'[u] = inbox[u]
  BY <1>1, UrgentFacts, ThreadFacts, Zenon DEF KPrintln
<1>3. Readers \cup {Dispatcher} \subseteq Tid \ {Writer}
  BY ThreadFacts, Zenon
<1> QED
  BY <1>2, <1>3, Zenon DEF MailQuiet

(* yield_now leaves the messages alone. *)
LEMMA YieldFacts ==
  ASSUME BInv, YieldNow
  PROVE  /\ IInv' /\ MailQuiet
         /\ UNCHANGED <<threadTable, nextId>>
         /\ mode = "kernel" /\ mode' \in {"schedule", "window"}
<1>1. IInv'
  BY YieldNowIInv, Zenon DEF BInv
<1>2. UNCHANGED <<threadTable, nextId, inbox>> /\ mode = "kernel" /\ mode' \in {"schedule", "window"}
  BY Zenon DEF YieldNow, InCode, Requeue, threadVars
<1> QED
  BY <1>1, <1>2, Zenon DEF MailQuiet

(* receive_message takes the first message of the running thread, or puts  *)
(* it to sleep.                                                            *)
LEMMA ReceiveFacts ==
  ASSUME BInv, NEW t \in Tid, current = t, ReceiveMessage
  PROVE  /\ IInv'
         /\ UNCHANGED <<threadTable, nextId>>
         /\ mode = "kernel" /\ mode' \in {"kernel", "schedule"}
         /\ inbox[t] \in Seq(Message)
         /\ inbox[t] = <<>> => inbox' = inbox
         /\ inbox[t] # <<>> => inbox'[t] = Tail(inbox[t])
         /\ \A u \in Tid \ {t} : inbox'[u] = inbox[u]
<1>1. IInv'
  BY ReceiveMessageIInv, Zenon DEF BInv
<1>2. inbox \in [Tid -> Seq(Message)]
  BY Zenon DEF BInv, IInv, TypeOK
<1>3. CASE inbox[t] = <<>>
  BY <1>1, <1>2, <1>3, Zenon DEF ReceiveMessage, Block
<1>4. CASE inbox[t] # <<>>
  BY <1>1, <1>2, <1>4, Zenon DEF ReceiveMessage
<1> QED
  BY <1>3, <1>4, Zenon

(* A step inside the scheduler. *)
LEMMA SwitchFacts ==
  ASSUME BInv, Schedule \/ EnterIdle \/ Wfi \/ ScheduleIfReady \/ YieldRequeue
  PROVE  /\ IInv' /\ MailQuiet
         /\ UNCHANGED <<threadTable, nextId>>
         /\ mode # "boot" /\ mode' # "user"
<1>1. IInv'
  <2>1. IInv /\ [Next]_vars
    BY Zenon DEF BInv, Next
  <2> QED
    BY <2>1, NextIInv, Zenon
<1>2. UNCHANGED <<threadTable, nextId, inbox>> /\ mode # "boot" /\ mode' # "user"
  BY Zenon DEF Schedule, EnterIdle, Wfi, ScheduleIfReady, YieldRequeue, Requeue, threadVars
<1> QED
  BY <1>1, <1>2, Zenon DEF MailQuiet

(* A reader that goes from one label to another outside read_blocks. *)
LEMMA GotoQuiet ==
  ASSUME BInv, NEW t \in Readers, NEW l \in Labels \ {"complain", "await"}, Goto(t, l),
         pc[t] # "await",
         dispTid # NoTid \/ (t = BlockInit /\ l = "spawn") \/ (t # BlockInit /\ l = "begin")
  PROVE  PcQuiet /\ PcBoot
<1>1. pc \in [Tid -> Labels \ {"complain"}] /\ t \in Tid
  BY ThreadFacts, Zenon DEF BInv, BTypeOK
<1>2. pc' \in [Tid -> Labels \ {"complain"}] /\ pc'[t] = l /\ \A u \in Tid \ {t} : pc'[u] = pc[u]
  BY <1>1, Zenon DEF Goto
<1>3. pc'[Dispatcher] = pc[Dispatcher] /\ \A u \in Readers \ {t} : pc'[u] = pc[u]
  BY <1>2, ThreadFacts, Zenon
<1>4. PcQuiet
  BY <1>2, <1>3, Zenon DEF PcQuiet
<1>5. PcBoot
  <2>1. /\ pc[BlockInit] \notin {"begin", "spawn"} => dispTid # NoTid
        /\ \A u \in Readers \ {BlockInit} : pc[u] # "begin" => dispTid # NoTid
    BY Zenon DEF BInv, BootInv
  <2>2. t # BlockInit => pc'[BlockInit] = pc[BlockInit]
    BY <1>3, ThreadFacts, Zenon
  <2> QED
    BY <1>2, <1>3, <2>1, <2>2, Zenon DEF PcBoot
<1> QED
  BY <1>4, <1>5, Zenon

(* No thread moves. *)
LEMMA SamePc ==
  ASSUME BInv, pc' = pc
  PROVE  PcQuiet /\ PcBoot
BY Zenon DEF PcQuiet, PcBoot, BInv, BTypeOK, BootInv

(* It exists once it, or anything after it, runs. *)
LEMMA DispatcherGoto ==
  ASSUME BInv, NEW l \in Labels \ {"complain"}, Goto(Dispatcher, l)
  PROVE  /\ pc' \in [Tid -> Labels \ {"complain"}]
         /\ pc'[Dispatcher] = l
         /\ \A t \in Readers : pc'[t] = pc[t]
         /\ PcBoot
<1>1. pc \in [Tid -> Labels \ {"complain"}]
  BY Zenon DEF BInv, BTypeOK
<1>2. /\ pc' \in [Tid -> Labels \ {"complain"}] /\ pc'[Dispatcher] = l
      /\ \A t \in Tid \ {Dispatcher} : pc'[t] = pc[t]
  BY <1>1, ThreadFacts, Zenon DEF Goto
<1>3. \A t \in Readers : pc'[t] = pc[t]
  BY <1>2, ThreadFacts, Zenon
<1>4. PcBoot
  BY <1>3, ThreadFacts, Zenon DEF PcBoot, BInv, BootInv
<1> QED
  BY <1>2, <1>3, <1>4, Zenon

-----------------------------------------------------------------------------
(* Sequences that grow and shrink. *)

(* r holds x and what q holds. *)
HoldsToo(q, x, r) == \A i \in DOMAIN r : r[i] = x \/ \E j \in DOMAIN q : r[i] = q[j]

(* What a sequence holds after a push_back. *)
LEMMA AppendElements ==
  ASSUME NEW M, NEW q \in Seq(M), NEW x \in M
  PROVE  Append(q, x) \in Seq(M) /\ HoldsToo(q, x, Append(q, x))
<1>0. Append(q, x) \in Seq(M)
  OBVIOUS
<1>1. /\ DOMAIN q = 1..Len(q) /\ Len(q) \in Nat
      /\ DOMAIN Append(q, x) = 1..(Len(q) + 1)
      /\ \A i \in 1..Len(q) : Append(q, x)[i] = q[i]
      /\ Append(q, x)[Len(q) + 1] = x
  OBVIOUS
<1>2. \A i \in 1..(Len(q) + 1) : i \in 1..Len(q) \/ i = Len(q) + 1
  BY <1>1
<1> QED
  BY <1>0, <1>1, <1>2, Zenon DEF HoldsToo

(* What a sequence holds after a pop_front. *)
LEMMA TailElements ==
  ASSUME NEW M, NEW q \in Seq(M), q # <<>>
  PROVE  /\ Tail(q) \in Seq(M) /\ Head(q) \in M
         /\ 1 \in DOMAIN q /\ Head(q) = q[1]
         /\ \A i \in DOMAIN Tail(q) : \E j \in DOMAIN q : Tail(q)[i] = q[j]
<1>1. /\ Tail(q) \in Seq(M) /\ Head(q) \in M /\ 1 \in DOMAIN q /\ Head(q) = q[1]
      /\ DOMAIN q = 1..Len(q) /\ Len(q) \in Nat
      /\ DOMAIN Tail(q) = 1..(Len(q) - 1)
      /\ \A i \in 1..(Len(q) - 1) : Tail(q)[i] = q[i + 1]
  OBVIOUS
<1>2. \A i \in 1..(Len(q) - 1) : i + 1 \in 1..Len(q)
  BY <1>1
<1> QED
  BY <1>1, <1>2, Zenon

(* The transfer, its completion and REQUEST: at most one of them is under  *)
(* way, and then REQUEST is set.                                           *)
LEMMA TransferFacts ==
  ASSUME CountingLaws, BTypeOK, Transfer
  PROVE  LET n == CountIn(inbox[Dispatcher], Completions) IN
         /\ n \in Nat
         /\ request = NoTid => device.tid = NoTid /\ irqStatus = "None" /\ n = 0
         /\ device.tid # NoTid => request = device.tid /\ request \in Readers
                                   /\ irqStatus = "None" /\ n = 0
         /\ irqStatus # "None" => request \in Readers /\ device.tid = NoTid /\ n = 0
         /\ n # 0 => request \in Readers /\ device.tid = NoTid /\ irqStatus = "None" /\ n = 1
<1> DEFINE n == CountIn(inbox[Dispatcher], Completions)
<1>1. n \in Nat
  <2>1. inbox[Dispatcher] \in Seq(Message)
    BY ThreadFacts, Zenon DEF BTypeOK, TypeOK
  <2> QED
    BY <2>1, CountType, Zenon
<1>2. request \in Readers \cup {NoTid} /\ device.tid \in {NoTid, request}
  BY Zenon DEF BTypeOK, Transfer
<1>3. One(device.tid # NoTid) + One(irqStatus # "None") + n = One(request # NoTid)
  BY Zenon DEF Transfer
<1> HIDE DEF n
<1>4. /\ device.tid # NoTid => One(device.tid # NoTid) = 1
      /\ device.tid = NoTid => One(device.tid # NoTid) = 0
      /\ irqStatus # "None" => One(irqStatus # "None") = 1
      /\ irqStatus = "None" => One(irqStatus # "None") = 0
      /\ request # NoTid => One(request # NoTid) = 1
      /\ request = NoTid => One(request # NoTid) = 0
  BY Zenon DEF One
<1>5. /\ request = NoTid => device.tid = NoTid /\ irqStatus = "None" /\ n = 0
      /\ device.tid # NoTid => irqStatus = "None" /\ n = 0
      /\ irqStatus # "None" => request # NoTid /\ device.tid = NoTid /\ n = 0
      /\ n # 0 => request # NoTid /\ device.tid = NoTid /\ irqStatus = "None" /\ n = 1
  BY <1>1, <1>3, <1>4
<1>6. /\ request # NoTid => request \in Readers
      /\ device.tid # NoTid => request = device.tid
  BY <1>2, Zenon
<1> QED
  BY <1>1, <1>5, <1>6, Zenon DEF n

(* A completion in the inbox is that of REQUEST. *)
LEMMA CompletionFacts ==
  ASSUME CountingLaws, BTypeOK, Transfer, NEW i \in DOMAIN inbox[Dispatcher],
         inbox[Dispatcher][i].data.type = "ReadComplete"
  PROVE  /\ request \in Readers /\ device.tid = NoTid /\ irqStatus = "None"
         /\ CountIn(inbox[Dispatcher], Completions) = 1
<1>1. inbox[Dispatcher] \in Seq(Message)
  BY ThreadFacts, Zenon DEF BTypeOK, TypeOK
<1>2. inbox[Dispatcher][i] \in Message
  BY <1>1
<1>3. inbox[Dispatcher][i] \in Completions
  BY <1>2, Zenon DEF Completions
<1>4. CountIn(inbox[Dispatcher], Completions) # 0
  BY <1>1, <1>3, CountType, Zenon
<1> QED
  BY <1>4, TransferFacts, Zenon

(* What waits in the queue is a request of a reader. *)
LEMMA QueueFacts ==
  ASSUME BTypeOK
  PROVE  \A i \in DOMAIN queue :
           queue[i] \in Request /\ queue[i].tid \in Readers /\ queue[i].sector \in Sectors
<1>1. queue \in Seq(Request)
  BY Zenon DEF BTypeOK
<1>2. \A i \in DOMAIN queue : queue[i] \in Request
  BY <1>1
<1>3. \A r \in Request : r.tid \in Readers /\ r.sector \in Sectors
  BY Zenon DEF Request
<1> QED
  BY <1>2, <1>3, Zenon

(* Nothing names a thread that is not inside read_blocks. *)
LEMMA NotNamed ==
  ASSUME CountingLaws, BTypeOK, Core, NEW t \in Readers, pc[t] # "await"
  PROVE  /\ \A i \in DOMAIN inbox[Dispatcher] :
              inbox[Dispatcher][i].data.type = "ReadRequest" => inbox[Dispatcher][i].data.tid # t
         /\ pc[Dispatcher] \in Asking => hand.tid # t
         /\ \A i \in DOMAIN queue : queue[i].tid # t
         /\ request # t
         /\ pc[Dispatcher] \in Answering => answer.tid # t
         /\ inbox[t] = <<>>
<1>1. /\ Asked(t) = 0 /\ InHand(t) = 0 /\ Queued(t) = 0 /\ Issued(t) = 0
      /\ Deciding(t) = 0 /\ inbox[t] = <<>>
  BY NothingUnderWay, NoStaleAnswer, Zenon DEF Core
<1>2. inbox[Dispatcher] \in Seq(Message) /\ queue \in Seq(Request)
  BY ThreadFacts, Zenon DEF BTypeOK, TypeOK
<1>3. \A i \in DOMAIN inbox[Dispatcher] : inbox[Dispatcher][i] \notin ReqOf(t)
  BY <1>1, <1>2, CountType, Zenon DEF Asked
<1>4. \A i \in DOMAIN queue : queue[i] \notin QueuedOf(t)
  BY <1>1, <1>2, CountType, Zenon DEF Queued
<1>5. /\ \A i \in DOMAIN inbox[Dispatcher] : inbox[Dispatcher][i] \in Message
      /\ \A i \in DOMAIN queue : queue[i] \in Request
  BY <1>2
<1>6. /\ ~ (pc[Dispatcher] \in Asking /\ hand.tid = t) /\ request # t
      /\ ~ (pc[Dispatcher] \in Answering /\ answer.tid = t)
  <2>1. 0 # 1
    OBVIOUS
  <2>2. ~ (pc[Dispatcher] \in Asking /\ hand.tid = t)
    BY <1>1, <2>1, Zenon DEF InHand, One
  <2>3. request # t
    BY <1>1, <2>1, Zenon DEF Issued, One
  <2>4. ~ (pc[Dispatcher] \in Answering /\ answer.tid = t)
    BY <1>1, <2>1, Zenon DEF Deciding, One
  <2> QED
    BY <2>2, <2>3, <2>4, Zenon
<1> QED
  BY <1>1, <1>3, <1>4, <1>5, <1>6, Zenon DEF ReqOf, QueuedOf

-----------------------------------------------------------------------------
(* read_blocks. *)

(* request_read_block: the thread's request is now in the dispatcher's     *)
(* inbox, and nowhere else.                                                *)
LEMMA RequestReadBlockBInv ==
  ASSUME CountingLaws, BInv, NEW t \in Readers, NEW s \in Sectors, mode = "kernel", current = t,
         pc[t] # "await", dispTid # NoTid, RequestReadBlock(t, s),
         reads' \in [Clients -> 0..MaxReads]
  PROVE  BInv'
<1> DEFINE msg == [sender |-> t, data |-> ReadRequest(t, s)]
           q == inbox[Dispatcher]
<1>1. t \in Tid /\ Dispatcher \in Tid /\ Dispatcher \notin Readers /\ Readers \subseteq Tid
  BY ThreadFacts, Zenon
<1>2. /\ msg \in Message
      /\ msg.data.type = "ReadRequest" /\ msg.data.tid = t /\ msg.data.sector = s
  BY <1>1, RequestMessage
<1>3. dispTid = Dispatcher /\ Dispatcher \in threadTable /\ t \in threadTable
  BY Zenon DEF BInv, BTypeOK, BootInv, IInv, OneRunning, ThreadRuns
<1>4. SendMessageUrgent(Dispatcher, msg)
  BY <1>3, Zenon DEF RequestReadBlock
<1>5. /\ IInv' /\ UNCHANGED <<threadTable, nextId>> /\ mode' = "schedule"
      /\ inbox'[Dispatcher] = Append(q, msg)
      /\ \A u \in Tid \ {Dispatcher} : inbox'[u] = inbox[u]
  BY <1>1, <1>2, <1>3, <1>4, UrgentFacts, Zenon
<1>6. /\ UNCHANGED <<dispTid, driverSlot, request, queue, hand, answer, device, irqStatus, faults,
                     result, registered, kernelReady>>
      /\ want' = [want EXCEPT ![t] = s] /\ buf' = [buf EXCEPT ![t] = Stale] /\ Goto(t, "await")
  BY Zenon DEF RequestReadBlock, diskVars, deviceVars, bootVars
<1>7. /\ q \in Seq(Message) /\ queue \in Seq(Request)
      /\ pc \in [Tid -> Labels \ {"complain"}]
      /\ want \in [Readers -> Sectors \cup {Stale}] /\ buf \in [Readers -> Sectors \cup {Stale}]
  BY <1>1, Zenon DEF BInv, BTypeOK, IInv, TypeOK
<1>8. /\ pc' \in [Tid -> Labels \ {"complain"}] /\ pc'[t] = "await"
      /\ pc'[Dispatcher] = pc[Dispatcher] /\ \A u \in Readers \ {t} : pc'[u] = pc[u]
  <2>1. "await" \in Labels \ {"complain"}
    BY Zenon DEF Labels
  <2> QED
    BY <1>1, <1>6, <1>7, <2>1, Zenon DEF Goto
<1>9. /\ want'[t] = s /\ \A u \in Readers \ {t} : want'[u] = want[u] /\ buf'[u] = buf[u]
      /\ want' \in [Readers -> Sectors \cup {Stale}] /\ buf' \in [Readers -> Sectors \cup {Stale}]
  BY <1>6, <1>7, Zenon
<1>10. \A u \in Readers : inbox'[u] = inbox[u]
  BY <1>1, <1>5, Zenon
<1>11. /\ \A i \in DOMAIN q : q[i].data.type = "ReadRequest" => q[i].data.tid # t
       /\ pc[Dispatcher] \in Asking => hand.tid # t
       /\ \A i \in DOMAIN queue : queue[i].tid # t
       /\ request # t
       /\ pc[Dispatcher] \in Answering => answer.tid # t
       /\ inbox[t] = <<>>
  BY NotNamed, Zenon DEF BInv
<1>12. \A i \in DOMAIN inbox'[Dispatcher] :
         inbox'[Dispatcher][i] = msg \/ \E j \in DOMAIN q : inbox'[Dispatcher][i] = q[j]
  <2> HIDE DEF msg, q
  <2>1. HoldsToo(q, msg, Append(q, msg))
    BY <1>2, <1>7, AppendElements, Zenon
  <2>2. HoldsToo(q, msg, inbox'[Dispatcher])
    BY <1>5, <2>1, Zenon
  <2> QED
    BY <2>2, Zenon DEF HoldsToo
<1>13. \A i \in DOMAIN q : q[i] \in Message
  BY <1>7
<1> HIDE DEF msg, q
<1>14. Mail'
  <2>1. \A i \in DOMAIN q : q[i].data.type \in {"ReadRequest", "ReadComplete"}
    BY Zenon DEF q, BInv, Core, Mail
  <2>2. \A i \in DOMAIN inbox'[Dispatcher] :
          inbox'[Dispatcher][i].data.type \in {"ReadRequest", "ReadComplete"}
    BY <1>2, <1>12, <2>1, Zenon
  <2> QED
    BY <1>10, <2>2 DEF BInv, Core, Mail
<1>15. Desk' /\ AwaitLive'
  BY <1>3, <1>5, <1>6, <1>8, Zenon DEF BInv, Core, Desk, AwaitLive
<1>16. Ledger'
  <2> SUFFICES ASSUME NEW u \in Readers
               PROVE  (Asked(u) + InHand(u) + Queued(u) + Issued(u) + Deciding(u) + Answered(u)
                         = Awaits(u))'
    BY Zenon DEF Ledger
  <2>1. Asked(u) + InHand(u) + Queued(u) + Issued(u) + Deciding(u) + Answered(u) = Awaits(u)
    BY Zenon DEF BInv, Core, Ledger
  <2>2. /\ InHand(u)' = InHand(u) /\ Queued(u)' = Queued(u) /\ Issued(u)' = Issued(u)
        /\ Deciding(u)' = Deciding(u) /\ Answered(u)' = Answered(u)
    BY <1>6, <1>8, <1>10, Zenon DEF InHand, Queued, Issued, Deciding, Answered
  <2>3. Asked(u)' = Asked(u) + One(msg \in ReqOf(u))
    <3>1. CountIn(Append(q, msg), ReqOf(u)) = CountIn(q, ReqOf(u)) + One(msg \in ReqOf(u))
      <4> HIDE DEF msg, q
      <4>1. msg \in Message /\ q \in Seq(Message)
        BY <1>2, <1>7, Zenon
      <4> QED
        BY <4>1, CountAppend, ZenonT(30)
    <3> QED
      BY <1>5, <3>1, Zenon DEF Asked, q
  <2>4. CASE u = t
    <3>1. One(msg \in ReqOf(u)) = 1 /\ Awaits(u)' = 1 /\ Awaits(u) = 0
      BY <1>2, <1>8, <2>4, Zenon DEF ReqOf, One, Awaits
    <3> QED
      BY <2>1, <2>2, <2>3, <3>1, PlaceTypes DEF BInv
  <2>5. CASE u # t
    <3>1. One(msg \in ReqOf(u)) = 0 /\ Awaits(u)' = Awaits(u)
      BY <1>2, <1>8, <2>5, Zenon DEF ReqOf, One, Awaits
    <3> QED
      BY <2>1, <2>2, <2>3, <3>1, PlaceTypes DEF BInv
  <2> QED
    BY <2>4, <2>5, Zenon
<1>17. Transfer'
  <2>1. CountIn(inbox'[Dispatcher], Completions) = CountIn(q, Completions) + One(msg \in Completions)
    BY <1>2, <1>5, <1>7, CountAppend
  <2>2. One(msg \in Completions) = 0 /\ CountIn(q, Completions) \in Nat
    BY <1>2, <1>7, CountType, Zenon DEF Completions, One
  <2>3. CountIn(inbox'[Dispatcher], Completions) = CountIn(inbox[Dispatcher], Completions)
    BY <2>1, <2>2 DEF q
  <2> QED
    BY <1>6, <2>3, Zenon DEF BInv, Core, Transfer
<1>18. RightSector'
  <2>1. ASSUME NEW i \in DOMAIN inbox'[Dispatcher],
               inbox'[Dispatcher][i].data.type = "ReadRequest"
        PROVE  want'[inbox'[Dispatcher][i].data.tid] = inbox'[Dispatcher][i].data.sector
    <3>1. CASE inbox'[Dispatcher][i] = msg
      BY <1>2, <1>9, <3>1, Zenon
    <3>2. CASE \E j \in DOMAIN q : inbox'[Dispatcher][i] = q[j]
      <4>1. PICK j \in DOMAIN q : inbox'[Dispatcher][i] = q[j]
        BY <3>2, Zenon
      <4>2. /\ q[j].data.tid \in Readers /\ q[j].data.tid # t
            /\ want[q[j].data.tid] = q[j].data.sector
        BY <1>11, <1>13, <2>1, <4>1, MessageFacts DEF BInv, Core, RightSector, q
      <4> QED
        BY <1>9, <4>1, <4>2, Zenon
    <3> QED
      BY <1>12, <3>1, <3>2, Zenon
  <2>2. pc'[Dispatcher] \in Asking => want'[hand'.tid] = hand'.sector
    BY <1>6, <1>8, <1>9, <1>11, Zenon DEF BInv, Core, RightSector, Desk, Request
  <2>3. \A i \in DOMAIN queue' : want'[queue'[i].tid] = queue'[i].sector
    <3>1. \A i \in DOMAIN queue : queue[i].tid \in Readers \ {t} /\ want[queue[i].tid] = queue[i].sector
      BY <1>11, QueueFacts, Zenon DEF BInv, Core, RightSector
    <3>2. queue' = queue
      BY <1>6, Zenon
    <3>3. \A v \in Readers \ {t} : want'[v] = want[v]
      BY <1>9, Zenon
    <3> QED
      BY <3>1, <3>2, <3>3, Zenon
  <2>4. device'.tid # NoTid => want'[device'.tid] = device'.sector
    <3> SUFFICES ASSUME device'.tid # NoTid PROVE want'[device'.tid] = device'.sector
      BY Zenon
    <3>1. device' = device /\ device.tid # NoTid
      BY <1>6, Zenon
    <3>2. device.tid \in Readers \ {t}
      BY <1>11, <3>1, TransferFacts, Zenon DEF BInv, Core
    <3>3. want[device.tid] = device.sector
      BY <3>1, Zenon DEF BInv, Core, RightSector
    <3>4. want'[device.tid] = want[device.tid]
      BY <1>9, <3>2, Zenon
    <3> QED
      BY <3>1, <3>3, <3>4, Zenon
  <2> QED
    BY <2>1, <2>2, <2>3, <2>4, Zenon DEF RightSector
<1>19. Driver = "sd" => RightData'
  <2> SUFFICES ASSUME RightData PROVE RightData'
    BY Zenon DEF BInv, Core
  <2>1. irqStatus' = "Ok" => buf'[request'] = want'[request']
    BY <1>6, <1>9, <1>11, TransferFacts, Zenon DEF BInv, Core, RightData
  <2>2. ASSUME NEW i \in DOMAIN inbox'[Dispatcher],
               inbox'[Dispatcher][i].data.type = "ReadComplete",
               inbox'[Dispatcher][i].data.status = "Ok"
        PROVE  buf'[request'] = want'[request']
    <3>1. PICK j \in DOMAIN q : inbox'[Dispatcher][i] = q[j]
      BY <1>2, <1>12, <2>2, Zenon
    <3>2. q[j].data.type = "ReadComplete" /\ q[j].data.status = "Ok"
      BY <2>2, <3>1, Zenon
    <3>3. request \in Readers /\ buf[request] = want[request]
      BY <3>2, CompletionFacts, Zenon DEF BInv, Core, RightData, q
    <3> QED
      BY <1>6, <1>9, <1>11, <3>3, Zenon
  <2>3. pc'[Dispatcher] \in Answering /\ answer'.status = "Ok" => buf'[answer'.tid] = want'[answer'.tid]
    BY <1>6, <1>8, <1>9, <1>11, Zenon DEF BInv, Core, RightData, Desk
  <2>4. \A u \in Readers : \A i \in DOMAIN inbox'[u] :
          inbox'[u][i].data.status = "Ok" => buf'[u] = want'[u]
    <3> SUFFICES ASSUME NEW u \in Readers, NEW i \in DOMAIN inbox'[u],
                        inbox'[u][i].data.status = "Ok"
                 PROVE  buf'[u] = want'[u]
      BY Zenon
    <3>1. i \in DOMAIN inbox[u] /\ inbox[u][i].data.status = "Ok"
      BY <1>10, Zenon
    <3>2. i \notin DOMAIN <<>>
      OBVIOUS
    <3>3. u \in Readers \ {t}
      BY <1>11, <3>1, <3>2, Zenon
    <3>4. buf[u] = want[u]
      BY <3>1, Zenon DEF RightData
    <3> QED
      BY <1>9, <3>3, <3>4, Zenon
  <2>5. OkMeansData'
    <3> SUFFICES ASSUME NEW u \in Readers, pc'[u] # "await", result'[u] = "Ok"
                 PROVE  buf'[u] = want'[u]
      BY Zenon DEF OkMeansData
    <3>1. u \in Readers \ {t}
      BY <1>8, Zenon
    <3>2. pc[u] # "await" /\ result[u] = "Ok"
      BY <1>6, <1>8, <3>1, Zenon
    <3>3. buf[u] = want[u]
      BY <3>2, Zenon DEF RightData, OkMeansData
    <3> QED
      BY <1>9, <3>1, <3>3, Zenon
  <2> QED
    BY <2>1, <2>2, <2>3, <2>4, <2>5, Zenon DEF RightData
<1>20. BTypeOK'
  BY <1>5, <1>6, <1>8, <1>9, Zenon DEF BInv, BTypeOK, IInv
<1>21. BootInv'
  BY <1>3, <1>5, <1>6, Zenon DEF BInv, BootInv
<1> QED
  BY <1>5, <1>14, <1>15, <1>16, <1>17, <1>18, <1>19, <1>20, <1>21, Zenon DEF BInv, Core, UserPc

(* receive_message in read_blocks: the thread sleeps on, or takes its      *)
(* answer and returns it.                                                  *)
LEMMA AwaitResponseBInv ==
  ASSUME CountingLaws, BInv, NEW t \in Readers, AwaitResponse(t)
  PROVE  BInv'
<1>1. t \in Tid /\ Dispatcher \in Tid /\ Dispatcher \notin Readers /\ Readers \subseteq Tid
  BY ThreadFacts, Zenon
<1>2. /\ mode = "kernel" /\ current = t /\ pc[t] = "await" /\ ReceiveMessage
      /\ UNCHANGED <<dispTid, driverSlot, request, queue, hand, answer, device, irqStatus, faults,
                     want, buf, reads, registered, kernelReady>>
  BY Zenon DEF AwaitResponse, At, diskVars, deviceVars, bootVars
<1>3. /\ IInv' /\ UNCHANGED <<threadTable, nextId>> /\ mode' \in {"kernel", "schedule"}
      /\ inbox[t] \in Seq(Message)
      /\ inbox[t] = <<>> => inbox' = inbox
      /\ inbox[t] # <<>> => inbox'[t] = Tail(inbox[t])
      /\ \A u \in Tid \ {t} : inbox'[u] = inbox[u]
  BY <1>1, <1>2, ReceiveFacts, Zenon
<1>4. CASE inbox[t] = <<>>
  <2>1. UNCHANGED <<pc, result, inbox>>
    BY <1>3, <1>4, Zenon DEF AwaitResponse
  <2>2. PcQuiet /\ PcBoot /\ MailQuiet /\ SameRequests
    BY <1>2, <2>1, SamePc, Zenon DEF MailQuiet, SameRequests
  <2>3. Quiet
    BY <1>2, <1>3, <2>2, Zenon DEF Quiet, BInv, BTypeOK, BootInv
  <2> QED
    BY <1>3, <2>3, QuietStep, Zenon DEF UserPc
<1>5. CASE inbox[t] # <<>>
  <2> DEFINE m == Head(inbox[t]).data
             rest == Tail(inbox[t])
  <2>1. /\ rest \in Seq(Message) /\ Head(inbox[t]) \in Message
        /\ 1 \in DOMAIN inbox[t] /\ Head(inbox[t]) = inbox[t][1]
        /\ \A i \in DOMAIN rest : \E j \in DOMAIN inbox[t] : rest[i] = inbox[t][j]
    BY <1>3, <1>5, TailElements
  <2>2. m.type = "ReadResponse" /\ m.status \in Status /\ Head(inbox[t]) \in Responses
    BY <2>1, MessageFacts DEF BInv, Core, Mail, Responses
  <2>3. Goto(t, "returned") /\ result' = [result EXCEPT ![t] = m.status]
    BY <1>5, <2>2, Zenon DEF AwaitResponse
  <2>4. /\ pc \in [Tid -> Labels \ {"complain"}] /\ result \in [Readers -> Status \cup {"None"}]
        /\ inbox[Dispatcher] \in Seq(Message)
    BY <1>1, Zenon DEF BInv, BTypeOK, IInv, TypeOK
  <2>5. /\ pc' \in [Tid -> Labels \ {"complain"}] /\ pc'[t] = "returned"
        /\ pc'[Dispatcher] = pc[Dispatcher] /\ \A u \in Readers \ {t} : pc'[u] = pc[u]
    <3>1. "returned" \in Labels \ {"complain"}
      BY Zenon DEF Labels
    <3> QED
      BY <1>1, <2>3, <2>4, <3>1, Zenon DEF Goto
  <2>6. /\ result' \in [Readers -> Status \cup {"None"}] /\ result'[t] = m.status
        /\ \A u \in Readers \ {t} : result'[u] = result[u]
    BY <2>2, <2>3, <2>4, Zenon
  <2>7. /\ inbox'[Dispatcher] = inbox[Dispatcher] /\ inbox'[t] = rest
        /\ \A u \in Readers \ {t} : inbox'[u] = inbox[u]
    BY <1>1, <1>3, <1>5, Zenon
  <2>0. CountIn(inbox[t], Responses) = CountIn(rest, Responses) + One(Head(inbox[t]) \in Responses)
    BY <1>3, <1>5, CountTail, Zenon
  <2>16. CountIn(rest, Responses) \in Nat
    <3>1. rest \in Seq(Message)
      BY <2>1, Zenon
    <3> HIDE DEF rest
    <3> QED
      BY <3>1, CountNat, Zenon
  <2> HIDE DEF m, rest
  <2>8. \A u \in Readers : \A i \in DOMAIN inbox'[u] : \E j \in DOMAIN inbox[u] : inbox'[u][i] = inbox[u][j]
    <3> SUFFICES ASSUME NEW u \in Readers, NEW i \in DOMAIN inbox'[u]
                 PROVE  \E j \in DOMAIN inbox[u] : inbox'[u][i] = inbox[u][j]
      BY Zenon
    <3>1. CASE u = t
      BY <2>1, <2>7, <3>1, Zenon
    <3>2. CASE u # t
      BY <2>7, <3>2, Zenon
    <3> QED
      BY <3>1, <3>2, Zenon
  <2>9. Mail' /\ Desk' /\ AwaitLive'
    <3>1. \A u \in Readers : \A i \in DOMAIN inbox'[u] : inbox'[u][i].data.type = "ReadResponse"
      <4>1. \A u \in Readers : \A i \in DOMAIN inbox[u] : inbox[u][i].data.type = "ReadResponse"
        BY Zenon DEF BInv, Core, Mail
      <4> SUFFICES ASSUME NEW u \in Readers, NEW i \in DOMAIN inbox'[u]
                   PROVE  inbox'[u][i].data.type = "ReadResponse"
        BY Zenon
      <4>2. PICK j \in DOMAIN inbox[u] : inbox'[u][i] = inbox[u][j]
        BY <2>8, Zenon
      <4>3. inbox[u][j].data.type = "ReadResponse"
        BY <4>1, Zenon
      <4> QED
        BY <4>2, <4>3, Zenon
    <3>2. Mail'
      BY <2>7, <3>1, Zenon DEF BInv, Core, Mail
    <3>3. Desk'
      BY <1>2, <2>5, Zenon DEF BInv, Core, Desk
    <3>4. AwaitLive'
      <4> SUFFICES ASSUME NEW u \in Readers, pc'[u] = "await" PROVE u \in threadTable'
        BY Zenon DEF AwaitLive
      <4>1. u \in Readers \ {t}
        BY <2>5, Zenon
      <4> QED
        BY <1>3, <2>5, <4>1, Zenon DEF BInv, Core, AwaitLive
    <3> QED
      BY <3>2, <3>3, <3>4, Zenon
  <2>10. Ledger'
    <3> SUFFICES ASSUME NEW u \in Readers
                 PROVE  (Asked(u) + InHand(u) + Queued(u) + Issued(u) + Deciding(u) + Answered(u)
                           = Awaits(u))'
      BY Zenon DEF Ledger
    <3>1. Asked(u) + InHand(u) + Queued(u) + Issued(u) + Deciding(u) + Answered(u) = Awaits(u)
      BY Zenon DEF BInv, Core, Ledger
    <3>2. /\ Asked(u)' = Asked(u) /\ InHand(u)' = InHand(u) /\ Queued(u)' = Queued(u)
          /\ Issued(u)' = Issued(u) /\ Deciding(u)' = Deciding(u)
      BY <1>2, <2>5, <2>7, Zenon DEF Asked, InHand, Queued, Issued, Deciding
    <3>3. CASE u = t
      <4>1. Answered(u) = Answered(u)' + One(Head(inbox[t]) \in Responses)
        BY <2>0, <2>7, <3>3, Zenon DEF Answered
      <4>2. One(Head(inbox[t]) \in Responses) = 1 /\ Awaits(u) = 1 /\ Awaits(u)' = 0
        BY <1>2, <2>2, <2>5, <3>3, Zenon DEF One, Awaits
      <4>3. Answered(u)' \in Nat
        BY <2>7, <2>16, <3>3, Zenon DEF Answered
      <4> QED
        BY <3>1, <3>2, <4>1, <4>2, <4>3, PlaceTypes DEF BInv
    <3>4. CASE u # t
      <4>1. Answered(u)' = Answered(u) /\ Awaits(u)' = Awaits(u)
        BY <2>5, <2>7, <3>4, Zenon DEF Answered, Awaits
      <4> QED
        BY <3>1, <3>2, <4>1, Zenon
    <3> QED
      BY <3>3, <3>4, Zenon
  <2>11. Transfer' /\ RightSector'
    <3>1. Transfer /\ RightSector
      BY Zenon DEF BInv, Core
    <3>2. Transfer'
      BY <1>2, <2>5, <2>7, <3>1, ZenonT(30) DEF Transfer
    <3>3. RightSector'
      BY <1>2, <2>5, <2>7, <3>1, ZenonT(30) DEF RightSector
    <3> QED
      BY <3>2, <3>3, Zenon
  <2>12. Driver = "sd" => RightData'
    <3> SUFFICES ASSUME RightData PROVE RightData'
      BY Zenon DEF BInv, Core
    <3>1. /\ irqStatus' = "Ok" => buf'[request'] = want'[request']
          /\ \A i \in DOMAIN inbox'[Dispatcher] : LET n == inbox'[Dispatcher][i].data IN
               n.type = "ReadComplete" /\ n.status = "Ok" => buf'[request'] = want'[request']
          /\ pc'[Dispatcher] \in Answering /\ answer'.status = "Ok"
               => buf'[answer'.tid] = want'[answer'.tid]
      BY <1>2, <2>5, <2>7, Zenon DEF RightData
    <3>2. \A u \in Readers : \A i \in DOMAIN inbox'[u] :
            inbox'[u][i].data.status = "Ok" => buf'[u] = want'[u]
      BY <1>2, <2>8, Zenon DEF RightData
    <3>3. m.status = "Ok" => buf[t] = want[t]
      BY <2>1, Zenon DEF RightData, m
    <3>4. OkMeansData'
      BY <1>2, <2>5, <2>6, <3>3, Zenon DEF RightData, OkMeansData
    <3> QED
      BY <3>1, <3>2, <3>4, Zenon DEF RightData
  <2>13. BTypeOK'
    BY <1>2, <1>3, <2>5, <2>6, ZenonT(30) DEF BInv, BTypeOK, IInv
  <2>14. dispTid # NoTid
    BY <1>2, Zenon DEF BInv, BootInv
  <2>15. BootInv'
    BY <1>2, <1>3, <2>14, Zenon DEF BInv, BootInv
  <2> QED
    BY <1>3, <2>9, <2>10, <2>11, <2>12, <2>13, <2>15, Zenon DEF BInv, Core, UserPc
<1> QED
  BY <1>4, <1>5, Zenon

-----------------------------------------------------------------------------
(* The hardware and its interrupt handler. *)

(* The transfer ends and the interrupt line goes up. *)
LEMMA DeviceCompletesBInv ==
  ASSUME CountingLaws
  PROVE  BInv /\ DeviceCompletes => BInv'
<1> SUFFICES ASSUME BInv, DeviceCompletes PROVE BInv'
  BY Zenon
<1> DEFINE r == device.tid
<1>1. \/ buf' = [buf EXCEPT ![r] = device.sector] /\ irqStatus' = "Ok" /\ faults' = faults
      \/ faults < MaxFaults /\ buf' = buf /\ irqStatus' = "Err" /\ faults' = faults + 1
  BY Zenon DEF DeviceCompletes
<1>2. /\ r # NoTid /\ device' = NoTransfer /\ RaiseIrq(BlkIrq)
      /\ UNCHANGED <<pc, dispTid, driverSlot, request, queue, hand, answer, want, result, reads,
                     registered, kernelReady>>
  BY Zenon DEF DeviceCompletes, diskVars, bootVars
<1>3. IInv' /\ UNCHANGED <<threadTable, nextId, inbox, mode, current>>
  BY <1>2, ModeStepIInv, BlockIoAssumption, Zenon DEF BInv, RaiseIrq, threadVars
<1>4. /\ request = r /\ r \in Readers /\ irqStatus = "None"
      /\ CountIn(inbox[Dispatcher], Completions) = 0
  BY <1>2, TransferFacts, Zenon DEF BInv, Core
<1>5. want[r] = device.sector /\ device.sector \in Sectors
  <2>1. want[r] = device.sector
    BY <1>2, Zenon DEF BInv, Core, RightSector
  <2>2. device \in Request \cup {NoTransfer}
    BY Zenon DEF BInv, BTypeOK
  <2>3. NoTransfer.tid = NoTid
    BY Zenon DEF NoTransfer
  <2>4. device \in Request
    BY <1>2, <2>2, <2>3, Zenon
  <2>5. device.sector \in Sectors
    BY <2>4, Zenon DEF Request
  <2> QED
    BY <2>1, <2>5, Zenon
<1>6. device'.tid = NoTid
  BY <1>2, Zenon DEF NoTransfer
<1>7. /\ buf' \in [Readers -> Sectors \cup {Stale}]
      /\ \A u \in Readers \ {r} : buf'[u] = buf[u]
      /\ buf'[r] = buf[r] \/ buf'[r] = want[r]
      /\ irqStatus' = "Ok" => buf'[r] = want[r]
      /\ irqStatus' \in Status /\ irqStatus' # "None"
      /\ faults' \in 0..MaxFaults
  <2>1. buf \in [Readers -> Sectors \cup {Stale}] /\ faults \in 0..MaxFaults /\ MaxFaults \in Nat
    BY BlockIoAssumption, Zenon DEF BInv, BTypeOK
  <2>2. CASE buf' = [buf EXCEPT ![r] = device.sector] /\ irqStatus' = "Ok" /\ faults' = faults
    BY <1>4, <1>5, <2>1, <2>2, Zenon DEF Status
  <2>3. CASE faults < MaxFaults /\ buf' = buf /\ irqStatus' = "Err" /\ faults' = faults + 1
    BY <2>1, <2>3 DEF Status
  <2> QED
    BY <1>1, <2>2, <2>3, Zenon
<1> HIDE DEF r
<1>8. Mail' /\ Desk' /\ AwaitLive'
  BY <1>2, <1>3, Zenon DEF BInv, Core, Mail, Desk, AwaitLive
<1>9. Ledger'
  BY <1>2, <1>3, Zenon DEF BInv, Core, Ledger, Asked, InHand, Queued, Issued, Deciding, Answered, Awaits
<1>10. Transfer'
  <2>1. One(device'.tid # NoTid) = 0 /\ One(irqStatus' # "None") = 1 /\ One(request' # NoTid) = 1
    BY <1>2, <1>4, <1>6, <1>7, Zenon DEF One
  <2> QED
    BY <1>3, <1>4, <1>6, <2>1 DEF Transfer
<1>11. RightSector'
  BY <1>2, <1>3, <1>6, Zenon DEF BInv, Core, RightSector
<1>12. Driver = "sd" => RightData'
  <2> SUFFICES ASSUME RightData PROVE RightData'
    BY Zenon DEF BInv, Core
  <2>1. irqStatus' = "Ok" => buf'[request'] = want'[request']
    BY <1>2, <1>4, <1>7, Zenon
  <2>2. \A i \in DOMAIN inbox[Dispatcher] : inbox[Dispatcher][i].data.type # "ReadComplete"
    BY <1>2, CompletionFacts, Zenon DEF BInv, Core, r
  <2>3. pc[Dispatcher] \notin Answering
    BY <1>2, <1>4, Zenon DEF BInv, Core, Desk
  <2>4. \A u \in Readers : buf[u] = want[u] => buf'[u] = want'[u]
    BY <1>2, <1>7, Zenon
  <2>5. OkMeansData'
    BY <1>2, <2>4, Zenon DEF RightData, OkMeansData
  <2> QED
    BY <1>2, <1>3, <2>1, <2>2, <2>3, <2>4, <2>5 DEF RightData
<1>13. BTypeOK'
  BY <1>2, <1>3, <1>7, Zenon DEF BInv, BTypeOK, IInv
<1>14. BootInv'
  BY <1>2, <1>3, Zenon DEF BInv, BootInv
<1> QED
  BY <1>2, <1>3, <1>8, <1>9, <1>10, <1>11, <1>12, <1>13, <1>14 DEF BInv, Core, UserPc

(* The handler tells the dispatcher how the transfer ended. *)
LEMMA BlockIrqBInv ==
  ASSUME CountingLaws
  PROVE  BInv /\ BlockIrq => BInv'
<1> SUFFICES ASSUME BInv, BlockIrq PROVE BInv'
  BY Zenon
<1>1. /\ TakeInterrupt(BlkIrq) /\ irqStatus' = "None"
      /\ UNCHANGED <<pc, dispTid, driverSlot, request, queue, hand, answer, device, faults,
                     want, buf, result, reads, registered, kernelReady>>
  BY Zenon DEF BlockIrq, diskVars, readVars, bootVars
<1>2. /\ UNCHANGED <<threadTable, nextId, receiving, current>> /\ mode # "boot"
      /\ mode' \in {"woken", "requeue", "user"} /\ (mode' = "user" => mode = "user")
  BY <1>1, Zenon DEF TakeInterrupt, InterruptsOpen, TrapReturn
<1>3. UserPc'
  BY <1>1, <1>2, Zenon DEF UserPc, BInv
<1>4. irqStatus # "None" => request \in Readers /\ device.tid = NoTid
                              /\ CountIn(inbox[Dispatcher], Completions) = 0
  BY TransferFacts, Zenon DEF BInv, Core
<1>5. irqStatus # "None" => dispTid # NoTid
  BY <1>4, ThreadFacts, Zenon DEF BInv, BootInv
<1>6. CASE irqStatus = "None"
  <2>1. UNCHANGED <<state, readyQueue, inbox>>
    BY <1>6, Zenon DEF BlockIrq
  <2>2. IInv'
    <3>1. HandlerReturns(BlkIrq)
      BY <1>1, <2>1, Zenon DEF HandlerReturns
    <3>2. Interrupt
      BY <3>1, BlockIoAssumption, Zenon DEF Interrupt
    <3> QED
      BY <3>2, InterruptIInv, Zenon DEF BInv
  <2>3. SameRequests /\ MailQuiet /\ PcQuiet /\ PcBoot
    BY <1>1, <1>6, <2>1, SamePc, Zenon DEF SameRequests, MailQuiet
  <2>4. Quiet
    BY <1>1, <1>2, <2>3, Zenon DEF Quiet, BInv, BTypeOK, BootInv
  <2> QED
    BY <1>3, <2>2, <2>4, QuietStep, Zenon
<1>7. CASE irqStatus # "None"
  <2>1. /\ dispTid = Dispatcher /\ Dispatcher \in threadTable /\ Dispatcher \in Tid
        /\ Dispatcher \notin Readers /\ Readers \subseteq Tid
    BY <1>5, <1>7, ThreadFacts, Zenon DEF BInv, BTypeOK, BootInv
  <2>2. PICK st \in Status : st = CompletionStatus
    BY <1>7, Zenon DEF CompletionStatus, BInv, BTypeOK, Status
  <2>3. PICK msg \in Message : /\ msg = [sender |-> Idle, data |-> ReadComplete(st)]
                               /\ msg.data.type = "ReadComplete" /\ msg.data.status = st
    <3>1. PICK u \in Tid \cup {Idle} : u = Idle
      BY Zenon
    <3>2. PICK msg : msg = [sender |-> u, data |-> ReadComplete(st)]
      BY Zenon
    <3>3. msg \in Message /\ msg.data.type = "ReadComplete" /\ msg.data.status = st
      BY <3>2, CompletionMessage
    <3> QED
      BY <3>1, <3>2, <3>3, Zenon
  <2>4. SendMessage(Dispatcher, msg)
    BY <1>5, <1>7, <2>1, <2>2, <2>3, Zenon DEF BlockIrq
  <2>5. PICK q \in Seq(Message) : q = inbox[Dispatcher]
    BY <2>1, Zenon DEF BInv, IInv, TypeOK
  <2>6. IInv'
    <3>1. /\ IInv /\ WakeThread(Dispatcher) /\ Deliver(Dispatcher, msg)
      BY <2>4, Zenon DEF BInv, SendMessage
    <3>2. /\ ThreadRuns' = ThreadRuns
          /\ mode' \in Mode \ {"panic", "idle", "wfi"}
          /\ pending' \subseteq Irqs
          /\ ttf' \in [kernelSp : Tid \cup {Null}, userRegs : Tid \cup {Null}]
          /\ TrapInv'
      BY <1>1, <3>1, TakeInterruptFacts, BlockIoAssumption, Zenon
    <3>3. /\ stvec' \in {"user", "kernel"} /\ context' \in Tid \cup {Null}
          /\ entered' \subseteq UserThreads
      BY <1>1, <3>1, Zenon DEF TakeInterrupt, IInv, TypeOK
    <3> QED
      BY <1>2, <2>1, <3>1, <3>2, <3>3, WakeThreadIInv, Zenon
  <2>7. inbox'[Dispatcher] = Append(q, msg) /\ \A u \in Readers : inbox'[u] = inbox[u]
    BY <2>1, <2>4, <2>5, Zenon DEF SendMessage, Deliver, BInv, IInv, TypeOK
  <2>8. \A i \in DOMAIN inbox'[Dispatcher] :
          inbox'[Dispatcher][i] = msg \/ \E j \in DOMAIN q : inbox'[Dispatcher][i] = q[j]
    <3>1. HoldsToo(q, msg, Append(q, msg))
      BY AppendElements, Zenon
    <3>2. HoldsToo(q, msg, inbox'[Dispatcher])
      BY <2>7, <3>1, Zenon
    <3> QED
      BY <3>2, Zenon DEF HoldsToo
  <2>9. Mail'
    <3>1. \A j \in DOMAIN q : q[j].data.type \in {"ReadRequest", "ReadComplete"}
      BY <2>5, Zenon DEF BInv, Core, Mail
    <3>2. \A i \in DOMAIN inbox'[Dispatcher] :
            inbox'[Dispatcher][i].data.type \in {"ReadRequest", "ReadComplete"}
      BY <2>3, <2>8, <3>1, Zenon
    <3> QED
      BY <2>7, <3>2 DEF BInv, Core, Mail
  <2>10. Desk' /\ AwaitLive'
    BY <1>1, <1>2, Zenon DEF BInv, Core, Desk, AwaitLive
  <2>11. Ledger'
    <3> SUFFICES ASSUME NEW u \in Readers
                 PROVE  (Asked(u) + InHand(u) + Queued(u) + Issued(u) + Deciding(u) + Answered(u)
                           = Awaits(u))'
      BY Zenon DEF Ledger
    <3>1. Asked(u) + InHand(u) + Queued(u) + Issued(u) + Deciding(u) + Answered(u) = Awaits(u)
      BY Zenon DEF BInv, Core, Ledger
    <3>2. /\ InHand(u)' = InHand(u) /\ Queued(u)' = Queued(u) /\ Issued(u)' = Issued(u)
          /\ Deciding(u)' = Deciding(u) /\ Answered(u)' = Answered(u) /\ Awaits(u)' = Awaits(u)
      BY <1>1, <2>7, Zenon DEF InHand, Queued, Issued, Deciding, Answered, Awaits
    <3>3. CountIn(Append(q, msg), ReqOf(u)) = CountIn(q, ReqOf(u)) + One(msg \in ReqOf(u))
      BY CountAppend, Zenon
    <3>4. One(msg \in ReqOf(u)) = 0
      BY <2>3, Zenon DEF ReqOf, One
    <3>5. Asked(u)' = Asked(u)
      <4>1. Asked(u) \in Nat
        BY PlaceTypes, Zenon DEF BInv
      <4>2. Asked(u)' = CountIn(Append(q, msg), ReqOf(u)) /\ Asked(u) = CountIn(q, ReqOf(u))
        BY <2>5, <2>7, Zenon DEF Asked
      <4> QED
        BY <3>3, <3>4, <4>1, <4>2
    <3> QED
      BY <3>1, <3>2, <3>5, Zenon
  <2>12. Transfer'
    <3>1. CountIn(Append(q, msg), Completions) = CountIn(q, Completions) + One(msg \in Completions)
      BY CountAppend, Zenon
    <3>2. One(msg \in Completions) = 1
      BY <2>3, Zenon DEF Completions, One
    <3>3. CountIn(inbox'[Dispatcher], Completions) = 1
      <4>1. CountIn(q, Completions) = 0
        BY <1>4, <1>7, <2>5, Zenon
      <4>2. 0 + 1 = 1
        OBVIOUS
      <4> QED
        BY <2>7, <3>1, <3>2, <4>1, <4>2, Zenon
    <3>4. One(device'.tid # NoTid) = 0 /\ One(irqStatus' # "None") = 0 /\ One(request' # NoTid) = 1
      BY <1>1, <1>4, <1>7, ThreadFacts, Zenon DEF One
    <3>5. 0 + 0 + 1 = 1
      OBVIOUS
    <3>6. device'.tid = NoTid
      BY <1>1, <1>4, <1>7, Zenon
    <3> QED
      BY <3>3, <3>4, <3>5, <3>6, Zenon DEF Transfer
  <2>13. RightSector'
    <3>1. \A j \in DOMAIN q : q[j].data.type = "ReadRequest" => want[q[j].data.tid] = q[j].data.sector
      BY <2>5, Zenon DEF BInv, Core, RightSector
    <3>2. \A i \in DOMAIN inbox'[Dispatcher] : LET n == inbox'[Dispatcher][i].data IN
            n.type = "ReadRequest" => want'[n.tid] = n.sector
      BY <1>1, <2>3, <2>8, <3>1, Zenon
    <3> QED
      BY <1>1, <3>2, Zenon DEF BInv, Core, RightSector
  <2>14. Driver = "sd" => RightData'
    <3> SUFFICES ASSUME Driver = "sd", RightData PROVE RightData'
      BY Zenon DEF BInv, Core
    <3>1. \A j \in DOMAIN q : q[j].data.type = "ReadComplete" /\ q[j].data.status = "Ok"
                                => buf[request] = want[request]
      BY <2>5, Zenon DEF RightData
    <3>2. st = "Ok" => buf[request] = want[request]
      BY <2>2, Zenon DEF RightData, CompletionStatus
    <3>3. \A i \in DOMAIN inbox'[Dispatcher] : LET n == inbox'[Dispatcher][i].data IN
            n.type = "ReadComplete" /\ n.status = "Ok" => buf'[request'] = want'[request']
      BY <1>1, <2>3, <2>8, <3>1, <3>2, Zenon
    <3> QED
      BY <1>1, <2>7, <3>3, Zenon DEF RightData, OkMeansData
  <2>15. BTypeOK'
    BY <1>1, <2>6 DEF BInv, BTypeOK, IInv
  <2>16. BootInv'
    BY <1>1, <1>2, <1>5, <1>7, Zenon DEF BInv, BootInv
  <2> QED
    BY <1>3, <2>6, <2>9, <2>10, <2>11, <2>12, <2>13, <2>14, <2>15, <2>16 DEF BInv, Core
<1> QED
  BY <1>6, <1>7, Zenon

-----------------------------------------------------------------------------
(* The steps by which dispatcher_main moves a request on. *)

(* spawn_dispatcher: the dispatcher gets the id after the last process,    *)
(* and its inbox is empty.                                                 *)
LEMMA SpawnDispatcherBInv == BInv /\ SpawnDispatcher => BInv'
<1> SUFFICES ASSUME BInv, SpawnDispatcher PROVE BInv'
  BY Zenon
<1>1. /\ mode = "kernel" /\ pc[BlockInit] = "spawn" /\ Goto(BlockInit, "readMbr")
      /\ driverSlot' = TRUE /\ dispTid' = nextId /\ Spawn
      /\ UNCHANGED <<faults, reads, registered, kernelReady>>
      /\ SameRequests
  BY Zenon DEF SpawnDispatcher, At, SameRequests, deviceVars, readVars, bootVars
<1>2. /\ IInv' /\ mode' = mode /\ nextId' = nextId + 1 /\ nextId <= MaxThreads
      /\ threadTable' = threadTable \cup {nextId} /\ inbox' = [inbox EXCEPT ![nextId] = <<>>]
  BY <1>1, SpawnIInv, Zenon DEF BInv, Spawn
<1>3. /\ nextId \in Nat /\ Dispatcher \in Tid /\ Dispatcher \in Nat
      /\ inbox \in [Tid -> Seq(Message)] /\ pc \in [Tid -> Labels \ {"complain"}]
  BY ThreadFacts, ConstantsAssumption DEF BInv, BTypeOK, IInv, TypeOK, Dispatcher, Tid
<1>4. dispTid = NoTid
  <2>1. Dispatcher \notin threadTable
    BY <1>2, <1>3 DEF BInv, IInv, FreshIds, Dispatcher
  <2> QED
    BY <2>1, Zenon DEF BInv, BootInv
<1>5. nextId = Dispatcher /\ inbox[Dispatcher] = <<>> /\ request = NoTid
  BY <1>1, <1>4, Zenon DEF BInv, BootInv
<1>6. MailQuiet
  BY <1>2, <1>3, <1>5, ThreadFacts, Zenon DEF MailQuiet
<1>7. PcQuiet
  <2>1. "readMbr" \in Labels \ {"complain", "await"}
    BY Zenon DEF Labels
  <2>2. /\ pc' \in [Tid -> Labels \ {"complain"}] /\ pc'[BlockInit] = "readMbr"
        /\ \A t \in Tid \ {BlockInit} : pc'[t] = pc[t]
    BY <1>1, <1>3, <2>1, ThreadFacts, Zenon DEF Goto
  <2>3. pc'[Dispatcher] = pc[Dispatcher] /\ \A t \in Readers \ {BlockInit} : pc'[t] = pc[t]
    BY <2>2, ThreadFacts, Zenon
  <2> QED
    BY <1>1, <2>2, <2>3, Zenon DEF PcQuiet
<1>8. Core'
  BY <1>1, <1>2, <1>6, <1>7, FrameCore, Zenon DEF BInv
<1>9. BTypeOK'
  BY <1>1, <1>2, <1>5, <1>7 DEF BInv, BTypeOK, IInv, SameRequests, PcQuiet
<1>10. BootInv'
  BY <1>1, <1>2, <1>5, ThreadFacts, Zenon DEF BootInv
<1> QED
  BY <1>1, <1>2, <1>8, <1>9, <1>10, Zenon DEF BInv, UserPc

(* send_message from a running thread. *)
LEMMA SendFacts ==
  ASSUME BInv, NEW t \in Tid, t \in threadTable, NEW msg \in Message, mode = "kernel",
         SendMessage(t, msg),
         UNCHANGED <<threadTable, nextId, receiving, current, mode, pending, trapVars>>
  PROVE  /\ IInv'
         /\ inbox'[t] = Append(inbox[t], msg)
         /\ \A u \in Tid \ {t} : inbox'[u] = inbox[u]
<1>1. IInv'
  <2>1. IInv /\ WakeThread(t) /\ Deliver(t, msg)
    BY Zenon DEF BInv, SendMessage
  <2>2. /\ ThreadRuns' = ThreadRuns
        /\ mode' \in Mode \ {"panic", "idle", "wfi"}
        /\ pending' \subseteq Irqs
        /\ stvec' \in {"user", "kernel"}
        /\ ttf' \in [kernelSp : Tid \cup {Null}, userRegs : Tid \cup {Null}]
        /\ context' \in Tid \cup {Null}
        /\ entered' \subseteq UserThreads
    BY <2>1, Zenon DEF IInv, TypeOK, trapVars, Mode, ThreadRuns
  <2>3. TrapInv'
    BY <2>1, Zenon DEF IInv, TrapInv, trapVars
  <2> QED
    BY <2>1, <2>2, <2>3, WakeThreadIInv, Zenon
<1>2. inbox \in [Tid -> Seq(Message)]
  BY Zenon DEF BInv, IInv, TypeOK
<1> QED
  BY <1>1, <1>2, Zenon DEF SendMessage, Deliver

(* The answer that the dispatcher sends to a waiting thread. *)
LEMMA AnswerFacts ==
  ASSUME CountingLaws, BInv, NEW t \in Readers, pc[t] = "await", NEW st \in Status, mode = "kernel",
         SendMessage(t, [sender |-> Dispatcher, data |-> ReadResponse(st)]),
         UNCHANGED <<threadTable, nextId, receiving, current, mode, pending, trapVars>>
  PROVE  /\ IInv' /\ Mail'
         /\ inbox'[Dispatcher] = inbox[Dispatcher]
         /\ \A u \in Readers \ {t} : inbox'[u] = inbox[u] /\ Answered(u)' = Answered(u)
         /\ Answered(t)' = Answered(t) + 1
         /\ \A i \in DOMAIN inbox'[t] :
              \/ inbox'[t][i].data.status = st
              \/ \E j \in DOMAIN inbox[t] : inbox'[t][i] = inbox[t][j]
<1> DEFINE msg == [sender |-> Dispatcher, data |-> ReadResponse(st)]
           q == inbox[t]
<1>1. /\ t \in Tid /\ Dispatcher \in Tid /\ Dispatcher \notin Readers /\ Readers \subseteq Tid
      /\ t \in threadTable
  BY ThreadFacts, Zenon DEF BInv, Core, AwaitLive
<1>2. msg \in Message /\ msg.data.type = "ReadResponse" /\ msg.data.status = st
  BY <1>1, ResponseMessage
<1>3. /\ IInv' /\ inbox'[t] = Append(q, msg)
      /\ \A u \in Tid \ {t} : inbox'[u] = inbox[u]
  BY <1>1, <1>2, SendFacts, Zenon
<1>4. q \in Seq(Message)
  BY <1>1, Zenon DEF BInv, IInv, TypeOK
<1>5. \A i \in DOMAIN inbox'[t] : inbox'[t][i] = msg \/ \E j \in DOMAIN q : inbox'[t][i] = q[j]
  <2> HIDE DEF msg, q
  <2>1. HoldsToo(q, msg, Append(q, msg))
    BY <1>2, <1>4, AppendElements, Zenon
  <2>2. HoldsToo(q, msg, inbox'[t])
    BY <1>3, <2>1, Zenon
  <2> QED
    BY <2>2, Zenon DEF HoldsToo
<1>6. CountIn(inbox'[t], Responses) = CountIn(q, Responses) + One(msg \in Responses)
  BY <1>2, <1>3, <1>4, CountAppend
<1> HIDE DEF msg, q
<1>7. One(msg \in Responses) = 1
  BY <1>2, Zenon DEF One, Responses
<1>8. Answered(t)' = Answered(t) + 1
  BY <1>6, <1>7, Zenon DEF Answered, q
<1>9. inbox'[Dispatcher] = inbox[Dispatcher]
      /\ \A u \in Readers \ {t} : inbox'[u] = inbox[u] /\ Answered(u)' = Answered(u)
  BY <1>1, <1>3, Zenon DEF Answered
<1>10. Mail'
  <2>1. \A j \in DOMAIN q : q[j].data.type = "ReadResponse"
    BY Zenon DEF BInv, Core, Mail, q
  <2>2. \A i \in DOMAIN inbox'[t] : inbox'[t][i].data.type = "ReadResponse"
    BY <1>2, <1>5, <2>1, Zenon
  <2> QED
    <3>0. /\ \A i \in DOMAIN inbox[Dispatcher] :
               inbox[Dispatcher][i].data.type \in {"ReadRequest", "ReadComplete"}
          /\ \A u \in Readers : \A i \in DOMAIN inbox[u] : inbox[u][i].data.type = "ReadResponse"
      BY Zenon DEF BInv, Core, Mail
    <3>1. \A u \in Readers : \A i \in DOMAIN inbox'[u] : inbox'[u][i].data.type = "ReadResponse"
      <4> SUFFICES ASSUME NEW u \in Readers
                   PROVE  \A i \in DOMAIN inbox'[u] : inbox'[u][i].data.type = "ReadResponse"
        BY Zenon
      <4>1. CASE u = t
        BY <2>2, <4>1, Zenon
      <4>2. CASE u # t
        <5>1. inbox'[u] = inbox[u]
          BY <1>9, <4>2, Zenon
        <5> QED
          BY <3>0, <5>1, ZenonT(30)
      <4> QED
        BY <4>1, <4>2, Zenon
    <3> QED
      BY <1>9, <3>0, <3>1, Zenon DEF Mail
<1>11. \A i \in DOMAIN inbox'[t] :
         \/ inbox'[t][i].data.status = st
         \/ \E j \in DOMAIN inbox[t] : inbox'[t][i] = inbox[t][j]
  BY <1>2, <1>5, Zenon DEF q
<1> QED
  BY <1>3, <1>8, <1>9, <1>10, <1>11

(* issue_read: the request goes from hand to the device, or stays in hand  *)
(* for the refusal.                                                        *)
LEMMA IssueReadBInv ==
  ASSUME CountingLaws
  PROVE  BInv /\ IssueRead => BInv'
<1> SUFFICES ASSUME BInv, IssueRead PROVE BInv'
  BY Zenon
<1>1. /\ mode = "kernel" /\ pc[Dispatcher] = "issue" /\ vars' = vars
      /\ UNCHANGED <<dispTid, driverSlot, queue, hand, answer, irqStatus, faults,
                     want, buf, result, reads, registered, kernelReady>>
  BY Zenon DEF IssueRead, At, Local, readVars, bootVars
<1>2. IInv' /\ UNCHANGED <<threadTable, nextId, mode, inbox>>
  BY <1>1, NextIInv, Zenon DEF BInv, vars, threadVars
<1>3. CASE ~ BufferAccepted(hand.tid)
  <2>1. Goto(Dispatcher, "issueFailed") /\ SameRequests /\ MailQuiet
    BY <1>1, <1>2, <1>3, Zenon DEF IssueRead, SameRequests, MailQuiet
  <2>2. "issueFailed" \in Labels \ {"complain"}
    BY Zenon DEF Labels
  <2>3. PcQuiet /\ PcBoot
    BY <1>1, <2>1, <2>2, DispatcherGoto, Zenon DEF PcQuiet, Asking, Answering
  <2>4. Quiet
    BY <1>1, <1>2, <2>1, <2>3 DEF Quiet, BInv, BTypeOK, BootInv
  <2> QED
    BY <1>1, <1>2, <2>4, QuietStep DEF UserPc
<1>4. CASE BufferAccepted(hand.tid)
  <2>1. device' = hand /\ request' = hand.tid /\ Goto(Dispatcher, "loop")
    BY <1>4, Zenon DEF IssueRead, StartIo
  <2>2. /\ pc' \in [Tid -> Labels \ {"complain"}] /\ pc'[Dispatcher] = "loop"
        /\ \A t \in Readers : pc'[t] = pc[t]
        /\ PcBoot
    <3>1. "loop" \in Labels \ {"complain"}
      BY Zenon DEF Labels
    <3> QED
      BY <2>1, <3>1, DispatcherGoto, Zenon
  <2>3. pc'[Dispatcher] \notin Asking /\ pc'[Dispatcher] \notin Answering
    BY <2>2, Zenon DEF Asking, Answering
  <2>4. /\ pc[Dispatcher] \in Asking /\ pc[Dispatcher] \notin Answering
        /\ request = NoTid /\ hand \in Request /\ hand.tid \in Readers
        /\ want[hand.tid] = hand.sector
    BY <1>1, Zenon DEF Asking, Answering, BInv, Core, Desk, RightSector, Request
  <2>5. device.tid = NoTid /\ irqStatus = "None" /\ CountIn(inbox[Dispatcher], Completions) = 0
    BY <2>4, TransferFacts, Zenon DEF BInv, Core
  <2>6. \A i \in DOMAIN inbox[Dispatcher] : inbox[Dispatcher][i].data.type # "ReadComplete"
    BY <2>4, ThreadFacts, CompletionFacts, Zenon DEF BInv, Core
  <2>7. NoTid \notin Readers
    BY ThreadFacts, Zenon
  <2>8. Mail' /\ Desk' /\ AwaitLive'
    BY <1>2, <2>2, <2>3 DEF BInv, Core, Mail, Desk, AwaitLive
  <2>9. Ledger'
    <3> SUFFICES ASSUME NEW u \in Readers
                 PROVE  (Asked(u) + InHand(u) + Queued(u) + Issued(u) + Deciding(u) + Answered(u)
                           = Awaits(u))'
      BY Zenon DEF Ledger
    <3>1. Asked(u) + InHand(u) + Queued(u) + Issued(u) + Deciding(u) + Answered(u) = Awaits(u)
      BY Zenon DEF BInv, Core, Ledger
    <3>2. /\ Asked(u)' = Asked(u) /\ Queued(u)' = Queued(u) /\ Answered(u)' = Answered(u)
          /\ Awaits(u)' = Awaits(u)
      BY <1>1, <1>2, <2>2, Zenon DEF Asked, Queued, Answered, Awaits
    <3>3. InHand(u)' = 0 /\ Deciding(u)' = 0 /\ Deciding(u) = 0 /\ Issued(u) = 0
      BY <2>3, <2>4, <2>7, Zenon DEF InHand, Deciding, Issued, One
    <3>4. Issued(u)' = InHand(u)
      BY <2>1, <2>4, Zenon DEF InHand, Issued, One
    <3> QED
      BY <3>1, <3>2, <3>3, <3>4, PlaceTypes DEF BInv
  <2>10. Transfer'
    <3>1. One(device'.tid # NoTid) = 1 /\ One(irqStatus' # "None") = 0 /\ One(request' # NoTid) = 1
      BY <1>1, <2>1, <2>4, <2>5, <2>7 DEF One
    <3> QED
      BY <1>2, <2>1, <2>5, <3>1 DEF Transfer
  <2>11. RightSector'
    BY <1>1, <1>2, <2>1, <2>3, <2>4 DEF BInv, Core, RightSector
  <2>12. Driver = "sd" => RightData'
    BY <1>1, <1>2, <2>2, <2>3, <2>5, <2>6 DEF BInv, Core, RightData, OkMeansData
  <2>13. BTypeOK'
    BY <1>1, <1>2, <2>1, <2>2, <2>4 DEF BInv, BTypeOK, IInv
  <2>14. dispTid # NoTid
    <3>1. pc[hand.tid] = "await"
      BY <2>4, NotNamed, Zenon DEF BInv
    <3> QED
      BY <2>4, <3>1, Zenon DEF BInv, BootInv
  <2>15. BootInv'
    BY <1>1, <1>2, <2>14, Zenon DEF BInv, BootInv
  <2> QED
    BY <1>1, <1>2, <2>8, <2>9, <2>10, <2>11, <2>12, <2>13, <2>15 DEF BInv, Core, UserPc
<1> QED
  BY <1>3, <1>4, Zenon

(* The refusal of a buffer is the answer to its request. *)
LEMMA DispatcherRefusesBInv ==
  ASSUME CountingLaws
  PROVE  BInv /\ DispatcherRefuses => BInv'
<1> SUFFICES ASSUME BInv, DispatcherRefuses PROVE BInv'
  BY Zenon
<1>1. /\ mode = "kernel" /\ pc[Dispatcher] = "refuse" /\ Goto(Dispatcher, "loop")
      /\ SendMessage(hand.tid, [sender |-> Dispatcher, data |-> ReadResponse("Err")])
      /\ UNCHANGED <<threadTable, nextId, receiving, current, mode, pending, trapVars>>
      /\ UNCHANGED <<dispTid, driverSlot, request, queue, hand, answer, device, irqStatus, faults,
                     want, buf, result, reads, registered, kernelReady>>
  BY Zenon DEF DispatcherRefuses, At, diskVars, deviceVars, readVars, bootVars
<1>2. /\ pc' \in [Tid -> Labels \ {"complain"}] /\ pc'[Dispatcher] = "loop"
      /\ \A u \in Readers : pc'[u] = pc[u]
  <2>1. "loop" \in Labels \ {"complain"}
    BY Zenon DEF Labels
  <2> QED
    BY <1>1, <2>1, DispatcherGoto, Zenon
<1>3. pc'[Dispatcher] \notin Asking /\ pc'[Dispatcher] \notin Answering
  BY <1>2, Zenon DEF Asking, Answering
<1>4. /\ pc[Dispatcher] \in Asking /\ pc[Dispatcher] \notin Answering
      /\ request = NoTid /\ hand.tid \in Readers
  BY <1>1, Zenon DEF Asking, Answering, BInv, Core, Desk, Request
<1>0. PICK t \in Readers : t = hand.tid
  BY <1>4, Zenon
<1>5. pc[t] = "await"
  BY <1>0, <1>4, NotNamed, Zenon DEF BInv
<1>6. /\ IInv' /\ Mail' /\ inbox'[Dispatcher] = inbox[Dispatcher]
      /\ \A u \in Readers \ {t} : inbox'[u] = inbox[u] /\ Answered(u)' = Answered(u)
      /\ Answered(t)' = Answered(t) + 1
      /\ \A i \in DOMAIN inbox'[t] :
           \/ inbox'[t][i].data.status = "Err"
           \/ \E j \in DOMAIN inbox[t] : inbox'[t][i] = inbox[t][j]
  BY <1>0, <1>1, <1>4, <1>5, AnswerFacts, Zenon DEF Status
<1>7. Desk' /\ AwaitLive' /\ Transfer' /\ RightSector'
  <2>1. Desk'
    BY <1>3, Zenon DEF Desk
  <2>2. AwaitLive'
    BY <1>1, <1>2, Zenon DEF BInv, Core, AwaitLive
  <2>3. Transfer'
    BY <1>1, <1>6, Zenon DEF BInv, Core, Transfer
  <2>4. RightSector'
    BY <1>1, <1>3, <1>6, ZenonT(30) DEF BInv, Core, RightSector
  <2> QED
    BY <2>1, <2>2, <2>3, <2>4, Zenon
<1>8. Ledger'
  <2> SUFFICES ASSUME NEW u \in Readers
               PROVE  (Asked(u) + InHand(u) + Queued(u) + Issued(u) + Deciding(u) + Answered(u)
                         = Awaits(u))'
    BY Zenon DEF Ledger
  <2>1. Asked(u) + InHand(u) + Queued(u) + Issued(u) + Deciding(u) + Answered(u) = Awaits(u)
    BY Zenon DEF BInv, Core, Ledger
  <2>2. /\ Asked(u)' = Asked(u) /\ Queued(u)' = Queued(u) /\ Issued(u)' = Issued(u)
        /\ Awaits(u)' = Awaits(u)
    BY <1>1, <1>2, <1>6, Zenon DEF Asked, Queued, Issued, Awaits
  <2>3. InHand(u)' = 0 /\ Deciding(u)' = 0 /\ Deciding(u) = 0
    BY <1>3, <1>4, Zenon DEF InHand, Deciding, One
  <2>4. Answered(u)' = Answered(u) + InHand(u)
    <3>1. CASE u = t
      <4>1. InHand(u) = 1
        BY <1>0, <1>4, <3>1, Zenon DEF InHand, One
      <4> QED
        BY <1>6, <3>1, <4>1, Zenon
    <3>2. CASE u # t
      <4>1. InHand(u) = 0
        BY <1>0, <3>2, Zenon DEF InHand, One
      <4>2. Answered(u)' = Answered(u) /\ Answered(u) \in Nat
        BY <1>6, <3>2, PlaceTypes, Zenon DEF BInv
      <4>3. \A n \in Nat : n + 0 = n
        OBVIOUS
      <4> QED
        BY <4>1, <4>2, <4>3, Zenon
    <3> QED
      BY <3>1, <3>2, Zenon
  <2> QED
    BY <2>1, <2>2, <2>3, <2>4, PlaceTypes DEF BInv
<1>9. Driver = "sd" => RightData'
  <2> SUFFICES ASSUME RightData PROVE RightData'
    BY Zenon DEF BInv, Core
  <2>1. \A u \in Readers : \A i \in DOMAIN inbox'[u] :
          inbox'[u][i].data.status = "Ok" => buf'[u] = want'[u]
    <3> SUFFICES ASSUME NEW u \in Readers, NEW i \in DOMAIN inbox'[u],
                        inbox'[u][i].data.status = "Ok"
                 PROVE  buf[u] = want[u]
      BY <1>1, Zenon
    <3>1. \A j \in DOMAIN inbox[u] : inbox[u][j].data.status = "Ok" => buf[u] = want[u]
      BY Zenon DEF RightData
    <3>2. CASE u = t
      BY <1>6, <3>1, <3>2, Zenon
    <3>3. CASE u # t
      BY <1>6, <3>1, <3>3, Zenon
    <3> QED
      BY <3>2, <3>3, Zenon
  <2> QED
    BY <1>1, <1>2, <1>3, <1>6, <2>1, ZenonT(30) DEF RightData, OkMeansData
<1>10. BTypeOK'
  BY <1>1, <1>2, <1>6, ZenonT(30) DEF BInv, BTypeOK, IInv
<1>11. dispTid # NoTid
  BY <1>4, <1>5, Zenon DEF BInv, BootInv
<1>12. BootInv'
  BY <1>1, <1>11, Zenon DEF BInv, BootInv
<1> QED
  BY <1>1, <1>6, <1>7, <1>8, <1>9, <1>10, <1>12 DEF BInv, Core, UserPc

(* The answer to a completed read; the head of the queue comes to hand. *)
LEMMA DispatcherRespondsBInv ==
  ASSUME CountingLaws
  PROVE  BInv /\ DispatcherResponds => BInv'
<1> SUFFICES ASSUME BInv, DispatcherResponds PROVE BInv'
  BY Zenon
<1> DEFINE next == IF queue # <<>> THEN "issue" ELSE "loop"
<1>1. /\ mode = "kernel" /\ pc[Dispatcher] = "respond" /\ Goto(Dispatcher, next)
      /\ SendMessage(answer.tid, [sender |-> Dispatcher, data |-> ReadResponse(answer.status)])
      /\ UNCHANGED <<threadTable, nextId, receiving, current, mode, pending, trapVars>>
      /\ UNCHANGED <<dispTid, driverSlot, request, answer, device, irqStatus, faults,
                     want, buf, result, reads, registered, kernelReady>>
      /\ queue # <<>> => hand' = Head(queue) /\ queue' = Tail(queue)
      /\ queue = <<>> => hand' = hand /\ queue' = queue
  BY Zenon DEF DispatcherResponds, At, deviceVars, readVars, bootVars
<1>2. /\ pc' \in [Tid -> Labels \ {"complain"}] /\ pc'[Dispatcher] = next
      /\ \A u \in Readers : pc'[u] = pc[u]
  <2>1. next \in Labels \ {"complain"}
    BY Zenon DEF Labels
  <2> HIDE DEF next
  <2> QED
    BY <1>1, <2>1, DispatcherGoto, Zenon
<1>3. pc'[Dispatcher] \notin Answering /\ (pc'[Dispatcher] \in Asking <=> queue # <<>>)
  BY <1>2, Zenon DEF Asking, Answering
<1>4. /\ pc[Dispatcher] \notin Asking /\ pc[Dispatcher] \in Answering
      /\ request = NoTid /\ answer.tid \in Readers /\ answer.status \in Status
  BY <1>1, Zenon DEF Asking, Answering, BInv, Core, Desk, BTypeOK
<1>0. PICK t \in Readers : t = answer.tid
  BY <1>4, Zenon
<1>5. pc[t] = "await"
  BY <1>0, <1>4, NotNamed, Zenon DEF BInv
<1>6. /\ IInv' /\ Mail' /\ inbox'[Dispatcher] = inbox[Dispatcher]
      /\ \A u \in Readers \ {t} : inbox'[u] = inbox[u] /\ Answered(u)' = Answered(u)
      /\ Answered(t)' = Answered(t) + 1
      /\ \A i \in DOMAIN inbox'[t] :
           \/ inbox'[t][i].data.status = answer.status
           \/ \E j \in DOMAIN inbox[t] : inbox'[t][i] = inbox[t][j]
  BY <1>0, <1>1, <1>4, <1>5, AnswerFacts, Zenon
<1>7. /\ queue' \in Seq(Request)
      /\ queue # <<>> => hand' \in Request /\ want[hand'.tid] = hand'.sector
      /\ \A i \in DOMAIN queue' : \E j \in DOMAIN queue : queue'[i] = queue[j]
  <2>1. queue \in Seq(Request) /\ \A i \in DOMAIN queue : want[queue[i].tid] = queue[i].sector
    BY Zenon DEF BInv, BTypeOK, Core, RightSector
  <2>2. CASE queue = <<>>
    BY <1>1, <2>1, <2>2, Zenon
  <2>3. CASE queue # <<>>
    <3>1. /\ Tail(queue) \in Seq(Request) /\ Head(queue) \in Request
          /\ 1 \in DOMAIN queue /\ Head(queue) = queue[1]
          /\ \A i \in DOMAIN Tail(queue) : \E j \in DOMAIN queue : Tail(queue)[i] = queue[j]
      BY <2>1, <2>3, TailElements
    <3>2. queue' = Tail(queue) /\ hand' = queue[1]
      BY <1>1, <2>3, <3>1, Zenon
    <3>3. \A i \in DOMAIN queue' : \E j \in DOMAIN queue : queue'[i] = queue[j]
      BY <3>1, <3>2, Zenon
    <3>4. hand' \in Request /\ want[hand'.tid] = hand'.sector /\ queue' \in Seq(Request)
      BY <2>1, <3>1, <3>2, Zenon
    <3> QED
      BY <3>3, <3>4, Zenon
  <2> QED
    BY <2>2, <2>3, Zenon
<1>8. ASSUME NEW u \in Readers
      PROVE  InHand(u)' + Queued(u)' = Queued(u) /\ InHand(u)' \in {0, 1} /\ Queued(u)' \in Nat
  <2>1. InHand(u)' \in {0, 1} /\ Queued(u)' \in Nat
    <3>1. CountIn(queue', QueuedOf(u)) \in Nat
      BY <1>7, CountNat, Zenon
    <3> QED
      BY <3>1, Zenon DEF InHand, One, Queued
  <2>2. queue \in Seq(Request)
    BY Zenon DEF BInv, BTypeOK
  <2>3. CASE queue = <<>>
    <3>1. InHand(u)' = 0
      BY <1>3, <2>3, Zenon DEF InHand, One
    <3>2. Queued(u)' = Queued(u)
      BY <1>1, <2>3, Zenon DEF Queued
    <3> QED
      BY <2>1, <3>1, <3>2
  <2>4. CASE queue # <<>>
    <3>1. CountIn(queue, QueuedOf(u))
            = CountIn(Tail(queue), QueuedOf(u)) + One(Head(queue) \in QueuedOf(u))
      BY <2>2, <2>4, CountTail, Zenon
    <3>2. hand' = Head(queue) /\ queue' = Tail(queue) /\ hand' \in Request
      BY <1>1, <1>7, <2>4, Zenon
    <3>3. One(Head(queue) \in QueuedOf(u)) = InHand(u)'
      BY <1>3, <2>4, <3>2, Zenon DEF InHand, One, QueuedOf
    <3>4. Queued(u) = Queued(u)' + InHand(u)'
      BY <3>1, <3>2, <3>3, Zenon DEF Queued
    <3> QED
      BY <2>1, <3>4
  <2> QED
    BY <2>3, <2>4, Zenon
<1> HIDE DEF next
<1>9. Desk' /\ AwaitLive' /\ Transfer'
  BY <1>1, <1>2, <1>3, <1>4, <1>6, <1>7, Zenon DEF BInv, Core, Desk, AwaitLive, Transfer
<1>10. RightSector'
  <2>1. \A i \in DOMAIN queue' : want'[queue'[i].tid] = queue'[i].sector
    BY <1>1, <1>7, Zenon DEF BInv, Core, RightSector
  <2>2. pc'[Dispatcher] \in Asking => want'[hand'.tid] = hand'.sector
    BY <1>1, <1>3, <1>7, Zenon
  <2> QED
    BY <1>1, <1>6, <2>1, <2>2, ZenonT(30) DEF BInv, Core, RightSector
<1>11. Ledger'
  <2> SUFFICES ASSUME NEW u \in Readers
               PROVE  (Asked(u) + InHand(u) + Queued(u) + Issued(u) + Deciding(u) + Answered(u)
                         = Awaits(u))'
    BY Zenon DEF Ledger
  <2>1. Asked(u) + InHand(u) + Queued(u) + Issued(u) + Deciding(u) + Answered(u) = Awaits(u)
    BY Zenon DEF BInv, Core, Ledger
  <2>2. /\ Asked(u)' = Asked(u) /\ Issued(u)' = Issued(u) /\ Awaits(u)' = Awaits(u)
    BY <1>1, <1>2, <1>6, Zenon DEF Asked, Issued, Awaits
  <2>3. InHand(u) = 0 /\ Deciding(u)' = 0
    BY <1>3, <1>4 DEF InHand, Deciding, One
  <2>4. Answered(u)' = Answered(u) + Deciding(u)
    <3>1. CASE u = t
      <4>1. Deciding(u) = 1
        BY <1>0, <1>4, <3>1 DEF Deciding, One
      <4> QED
        BY <1>6, <3>1, <4>1, Zenon
    <3>2. CASE u # t
      <4>1. Deciding(u) = 0
        BY <1>0, <3>2, Zenon DEF Deciding, One
      <4> QED
        <5>1. Answered(u)' = Answered(u)
          BY <1>6, <3>2, Zenon
        <5>2. PICK n \in Nat : n = Answered(u)
          BY PlaceTypes, Zenon DEF BInv
        <5>3. n = n + 0
          OBVIOUS
        <5> QED
          BY <4>1, <5>1, <5>2, <5>3, Zenon
    <3> QED
      BY <3>1, <3>2, Zenon
  <2>5. InHand(u)' + Queued(u)' = Queued(u) /\ InHand(u)' \in {0, 1} /\ Queued(u)' \in Nat
    BY <1>8, Zenon
  <2> QED
    BY <2>1, <2>2, <2>3, <2>4, <2>5, PlaceTypes DEF BInv
<1>12. Driver = "sd" => RightData'
  <2> SUFFICES ASSUME RightData PROVE RightData'
    BY Zenon DEF BInv, Core
  <2>1. answer.status = "Ok" => buf[t] = want[t]
    BY <1>0, <1>4, Zenon DEF RightData
  <2>2. \A u \in Readers : \A i \in DOMAIN inbox'[u] :
          inbox'[u][i].data.status = "Ok" => buf'[u] = want'[u]
    <3> SUFFICES ASSUME NEW u \in Readers, NEW i \in DOMAIN inbox'[u],
                        inbox'[u][i].data.status = "Ok"
                 PROVE  buf[u] = want[u]
      BY <1>1, Zenon
    <3>1. \A j \in DOMAIN inbox[u] : inbox[u][j].data.status = "Ok" => buf[u] = want[u]
      BY Zenon DEF RightData
    <3>2. CASE u = t
      BY <1>6, <2>1, <3>1, <3>2, Zenon
    <3>3. CASE u # t
      BY <1>6, <3>1, <3>3, Zenon
    <3> QED
      BY <3>2, <3>3, Zenon
  <2> QED
    BY <1>1, <1>2, <1>3, <1>6, <2>2, ZenonT(30) DEF RightData, OkMeansData
<1>13. BTypeOK'
  <2>1. hand' \in Request \cup {NoTransfer}
    BY <1>1, <1>7, Zenon DEF BInv, BTypeOK
  <2> QED
    BY <1>1, <1>2, <1>6, <1>7, <2>1, Zenon DEF BInv, BTypeOK, IInv
<1>14. dispTid # NoTid
  BY <1>4, <1>5, Zenon DEF BInv, BootInv
<1>15. BootInv'
  BY <1>1, <1>14, Zenon DEF BInv, BootInv
<1> QED
  BY <1>1, <1>6, <1>9, <1>10, <1>11, <1>12, <1>13, <1>15, Zenon DEF BInv, Core, UserPc

(* One turn of dispatcher_main's loop: a request goes to the queue or to   *)
(* hand, a completion becomes the answer to REQUEST.                       *)
LEMMA DispatcherReceivesBInv ==
  ASSUME CountingLaws
  PROVE  BInv /\ DispatcherReceives => BInv'
<1> SUFFICES ASSUME BInv, DispatcherReceives PROVE BInv'
  BY Zenon
<1>1. /\ mode = "kernel" /\ current = Dispatcher /\ pc[Dispatcher] = "loop" /\ ReceiveMessage
      /\ UNCHANGED <<dispTid, driverSlot, device, irqStatus, faults,
                     want, buf, result, reads, registered, kernelReady>>
  BY Zenon DEF DispatcherReceives, At, deviceVars, readVars, bootVars
<1>2. /\ Dispatcher \in Tid /\ Dispatcher \notin Readers /\ Readers \subseteq Tid
      /\ NoTid \notin Readers
  BY ThreadFacts, Zenon
<1>3. /\ IInv' /\ UNCHANGED <<threadTable, nextId>> /\ mode' \in {"kernel", "schedule"}
      /\ inbox[Dispatcher] \in Seq(Message)
      /\ inbox[Dispatcher] = <<>> => inbox' = inbox
      /\ inbox[Dispatcher] # <<>> => inbox'[Dispatcher] = Tail(inbox[Dispatcher])
      /\ \A u \in Readers : inbox'[u] = inbox[u]
  <2>1. Readers \subseteq Tid \ {Dispatcher}
    BY <1>2, Zenon
  <2> QED
    BY <1>1, <1>2, <2>1, ReceiveFacts, Zenon
<1>4. dispTid # NoTid
  <2>1. Dispatcher < nextId /\ nextId \in Nat /\ Dispatcher \in Nat
    BY <1>1, <1>2, ConstantsAssumption
       DEF BInv, IInv, OneRunning, ThreadRuns, FreshIds, TypeOK, Dispatcher, Tid
  <2> QED
    BY <2>1 DEF BInv, BootInv
<1>5. UserPc' /\ pc[Dispatcher] \notin Asking /\ pc[Dispatcher] \notin Answering
  BY <1>1, <1>3, Zenon DEF UserPc, Asking, Answering
<1>6. CASE inbox[Dispatcher] = <<>>
  <2>1. UNCHANGED <<pc, request, queue, hand, answer, inbox>>
    BY <1>3, <1>6, Zenon DEF DispatcherReceives
  <2>2. PcQuiet /\ PcBoot /\ MailQuiet /\ SameRequests
    BY <1>1, <2>1, SamePc, Zenon DEF MailQuiet, SameRequests
  <2>3. Quiet
    BY <1>1, <1>3, <2>2, Zenon DEF Quiet, BInv, BTypeOK, BootInv
  <2> QED
    BY <1>3, <1>5, <2>3, QuietStep, Zenon
<1>7. CASE inbox[Dispatcher] # <<>>
  <2>1. PICK q \in Seq(Message) : q = inbox[Dispatcher]
    BY <1>3, Zenon
  <2>2. PICK rest \in Seq(Message) :
          rest = Tail(q) /\ \A i \in DOMAIN rest : \E j \in DOMAIN q : rest[i] = q[j]
    <3>1. Tail(q) \in Seq(Message) /\ \A i \in DOMAIN Tail(q) : \E j \in DOMAIN q : Tail(q)[i] = q[j]
      BY <1>7, <2>1, TailElements
    <3> DEFINE r == Tail(q)
    <3>2. /\ r = Tail(q) /\ r \in Seq(Message)
          /\ \A i \in DOMAIN r : \E j \in DOMAIN q : r[i] = q[j]
      BY <3>1, Zenon
    <3> HIDE DEF r
    <3> QED
      BY <3>2, Zenon
  <2>3. PICK m \in Message : m = Head(q) /\ 1 \in DOMAIN q /\ m = q[1]
    BY <1>7, <2>1, TailElements, Zenon
  <2>4. /\ m.data.type \in {"ReadRequest", "ReadComplete"} /\ m.data.status \in Status
        /\ m.data.type = "ReadRequest" =>
             m.data.tid \in Readers /\ m.data.sector \in Sectors /\ want[m.data.tid] = m.data.sector
    <3>1. q[1].data.type \in {"ReadRequest", "ReadComplete"}
      BY <2>1, <2>3, Zenon DEF BInv, Core, Mail
    <3>2. q[1].data.type = "ReadRequest" => want[q[1].data.tid] = q[1].data.sector
      BY <2>1, <2>3, Zenon DEF BInv, Core, RightSector
    <3>3. /\ m.data.status \in Status
          /\ m.data.type = "ReadRequest" => m.data.tid \in Readers /\ m.data.sector \in Sectors
      BY MessageFacts, Zenon
    <3> QED
      BY <2>3, <3>1, <3>2, <3>3, Zenon
  <2>5. inbox'[Dispatcher] = rest
    BY <1>3, <1>7, <2>1, <2>2, Zenon
  <2>6. /\ \A u \in Readers : CountIn(q, ReqOf(u)) = CountIn(rest, ReqOf(u)) + One(m \in ReqOf(u))
        /\ CountIn(q, Completions) = CountIn(rest, Completions) + One(m \in Completions)
    <3>1. q # <<>> /\ rest = Tail(q) /\ m = Head(q)
      BY <1>7, <2>1, <2>2, <2>3, Zenon
    <3>2. \A S : CountIn(q, S) = CountIn(rest, S) + One(m \in S)
      BY <3>1, CountTail, Zenon
    <3> QED
      BY <3>2, Zenon
  <2>7. /\ \A u \in Readers : CountIn(rest, ReqOf(u)) \in Nat
        /\ CountIn(rest, Completions) \in Nat
    BY CountNat, Zenon
  <2>8. Mail'
    <3>1. \A i \in DOMAIN rest : rest[i].data.type \in {"ReadRequest", "ReadComplete"}
      BY <2>1, <2>2, ZenonT(30) DEF BInv, Core, Mail
    <3>2. \A u \in Readers : inbox'[u] = inbox[u]
      BY <1>3, Zenon
    <3>3. \A u \in Readers : \A i \in DOMAIN inbox[u] : inbox[u][i].data.type = "ReadResponse"
      BY Zenon DEF BInv, Core, Mail
    <3>4. \A u \in Readers : \A i \in DOMAIN inbox'[u] : inbox'[u][i].data.type = "ReadResponse"
      BY <3>2, <3>3, Zenon
    <3>5. \A i \in DOMAIN inbox'[Dispatcher] :
            inbox'[Dispatcher][i].data.type \in {"ReadRequest", "ReadComplete"}
      BY <2>5, <3>1, Zenon
    <3> QED
      BY <3>4, <3>5, Zenon DEF Mail
  <2>9. \A i \in DOMAIN rest :
          rest[i].data.type = "ReadRequest" => want'[rest[i].data.tid] = rest[i].data.sector
    <3>1. \A j \in DOMAIN q : q[j].data.type = "ReadRequest" => want[q[j].data.tid] = q[j].data.sector
      BY <2>1, Zenon DEF BInv, Core, RightSector
    <3>2. want' = want
      BY <1>1, Zenon
    <3> QED
      BY <2>2, <3>1, <3>2, ZenonT(30)
  <2>10. Driver = "sd" => \A i \in DOMAIN rest :
           rest[i].data.type = "ReadComplete" /\ rest[i].data.status = "Ok"
             => buf[request] = want[request]
    <3> SUFFICES ASSUME RightData
                 PROVE  \A i \in DOMAIN rest :
                          rest[i].data.type = "ReadComplete" /\ rest[i].data.status = "Ok"
                            => buf[request] = want[request]
      BY Zenon DEF BInv, Core
    <3>1. \A j \in DOMAIN q : q[j].data.type = "ReadComplete" /\ q[j].data.status = "Ok"
                              => buf[request] = want[request]
      BY <2>1, Zenon DEF RightData
    <3> QED
      BY <2>2, <3>1, Zenon
  <2>11. \A u \in Readers : Answered(u)' = Answered(u) /\ Asked(u)' = CountIn(rest, ReqOf(u))
                              /\ Asked(u) = CountIn(q, ReqOf(u))
    BY <1>3, <2>1, <2>5, Zenon DEF Answered, Asked
  <2>12. ASSUME m.data.type = "ReadRequest"
         PROVE  /\ CountIn(rest, Completions) = CountIn(inbox[Dispatcher], Completions)
                /\ \A u \in Readers : Asked(u) = Asked(u)' + One(m.data.tid = u)
    <3>1. One(m \in Completions) = 0 /\ \A u \in Readers : One(m \in ReqOf(u)) = One(m.data.tid = u)
      BY <2>12, Zenon DEF Completions, ReqOf, One
    <3> QED
      BY <2>1, <2>6, <2>7, <2>11, <3>1
  <2>13. ASSUME m.data.type = "ReadRequest"
         PROVE  \E r \in Request : /\ r = [tid |-> m.data.tid, sector |-> m.data.sector]
                                   /\ r.tid = m.data.tid /\ want[r.tid] = r.sector
    <3> DEFINE r == [tid |-> m.data.tid, sector |-> m.data.sector]
    <3>1. r \in Request /\ r.tid = m.data.tid /\ r.sector = m.data.sector
      BY <2>4, <2>13, Zenon DEF Request
    <3>2. want[m.data.tid] = m.data.sector
      BY <2>4, <2>13, Zenon
    <3> QED
      BY <3>1, <3>2, Zenon
  <2>14. CASE m.data.type = "ReadRequest" /\ InFlight
    <3>1. PICK r \in Request : /\ r = [tid |-> m.data.tid, sector |-> m.data.sector]
                               /\ r.tid = m.data.tid /\ want[r.tid] = r.sector
      BY <2>13, <2>14, Zenon
    <3>2. queue' = Append(queue, r) /\ UNCHANGED <<pc, request, hand, answer>>
      BY <1>7, <2>1, <2>3, <2>14, <3>1 DEF DispatcherReceives
    <3>3. PICK w \in Seq(Request) : w = queue
      BY Zenon DEF BInv, BTypeOK
    <3>4. /\ queue' \in Seq(Request)
          /\ \A i \in DOMAIN queue' : queue'[i] = r \/ \E j \in DOMAIN w : queue'[i] = w[j]
      <4>1. Append(w, r) \in Seq(Request) /\ HoldsToo(w, r, Append(w, r))
        BY AppendElements, Zenon
      <4>2. queue' \in Seq(Request) /\ HoldsToo(w, r, queue')
        BY <3>2, <3>3, <4>1, Zenon
      <4> QED
        BY <4>2, Zenon DEF HoldsToo
    <3>5. Desk' /\ AwaitLive'
      BY <1>3, <3>2, Zenon DEF BInv, Core, Desk, AwaitLive
    <3>6. Transfer'
      BY <1>1, <2>5, <2>12, <2>14, <3>2, Zenon DEF BInv, Core, Transfer
    <3>7. RightSector'
      <4>1. \A j \in DOMAIN w : want[w[j].tid] = w[j].sector
        BY <3>3, Zenon DEF BInv, Core, RightSector
      <4>2. \A i \in DOMAIN queue' : want'[queue'[i].tid] = queue'[i].sector
        BY <1>1, <3>1, <3>4, <4>1
      <4> QED
        BY <1>1, <2>5, <2>9, <3>2, <4>2 DEF BInv, Core, RightSector
    <3>8. Ledger'
      <4> SUFFICES ASSUME NEW u \in Readers
                   PROVE  (Asked(u) + InHand(u) + Queued(u) + Issued(u) + Deciding(u) + Answered(u)
                             = Awaits(u))'
        BY Zenon DEF Ledger
      <4>1. Asked(u) + InHand(u) + Queued(u) + Issued(u) + Deciding(u) + Answered(u) = Awaits(u)
        BY Zenon DEF BInv, Core, Ledger
      <4>2. /\ InHand(u)' = InHand(u) /\ Issued(u)' = Issued(u) /\ Deciding(u)' = Deciding(u)
            /\ Awaits(u)' = Awaits(u)
        BY <3>2, Zenon DEF InHand, Issued, Deciding, Awaits
      <4>3. CountIn(Append(w, r), QueuedOf(u)) = CountIn(w, QueuedOf(u)) + One(r \in QueuedOf(u))
        BY CountAppend, Zenon
      <4>4. One(r \in QueuedOf(u)) = One(m.data.tid = u)
        BY <3>1, Zenon DEF QueuedOf, One
      <4>5. Queued(u)' = Queued(u) + One(m.data.tid = u)
        BY <3>2, <3>3, <4>3, <4>4, Zenon DEF Queued
      <4>6. Asked(u) = Asked(u)' + One(m.data.tid = u) /\ Asked(u)' \in Nat
        BY <2>7, <2>11, <2>12, <2>14
      <4>7. PICK n \in Nat : n = One(m.data.tid = u)
        BY Zenon DEF One
      <4>9. Queued(u)' = Queued(u) + n /\ Asked(u) = Asked(u)' + n /\ Asked(u)' \in Nat
        BY <4>5, <4>6, <4>7, Zenon
      <4>8. Answered(u)' = Answered(u)
        BY <2>11, Zenon
      <4> QED
        <5>1. /\ Asked(u) \in Nat /\ Queued(u) \in Nat /\ Answered(u) \in Nat /\ InHand(u) \in {0, 1}
              /\ Issued(u) \in {0, 1} /\ Deciding(u) \in {0, 1}
          BY PlaceTypes, Zenon DEF BInv
        <5> QED
          BY <4>1, <4>2, <4>8, <4>9, <5>1
    <3>9. Driver = "sd" => RightData'
      BY <1>1, <1>3, <2>5, <2>10, <3>2, Zenon DEF BInv, Core, RightData, OkMeansData
    <3>10. BTypeOK'
      BY <1>1, <1>3, <3>2, <3>4, ZenonT(30) DEF BInv, BTypeOK, IInv
    <3>11. BootInv'
      BY <1>1, <1>3, <1>4, <3>2, Zenon DEF BInv, BootInv
    <3> QED
      BY <1>3, <1>5, <2>8, <3>5, <3>6, <3>7, <3>8, <3>9, <3>10, <3>11 DEF BInv, Core
  <2>15. CASE m.data.type = "ReadRequest" /\ ~ InFlight
    <3>1. PICK r \in Request : /\ r = [tid |-> m.data.tid, sector |-> m.data.sector]
                               /\ r.tid = m.data.tid /\ want[r.tid] = r.sector
      BY <2>13, <2>15, Zenon
    <3>2. hand' = r /\ Goto(Dispatcher, "issue") /\ UNCHANGED <<request, queue, answer>>
      BY <1>7, <2>1, <2>3, <2>15, <3>1 DEF DispatcherReceives
    <3>3. /\ pc' \in [Tid -> Labels \ {"complain"}] /\ pc'[Dispatcher] = "issue"
          /\ \A u \in Readers : pc'[u] = pc[u]
      <4>1. "issue" \in Labels \ {"complain"}
        BY Zenon DEF Labels
      <4> QED
        BY <3>2, <4>1, DispatcherGoto, Zenon
    <3>4. request = NoTid /\ pc'[Dispatcher] \in Asking /\ pc'[Dispatcher] \notin Answering
      BY <2>15, <3>3, Zenon DEF InFlight, Asking, Answering
    <3>5. Desk' /\ AwaitLive'
      BY <1>3, <3>1, <3>2, <3>3, <3>4, Zenon DEF BInv, Core, Desk, AwaitLive
    <3>6. Transfer'
      BY <1>1, <2>5, <2>12, <2>15, <3>2, Zenon DEF BInv, Core, Transfer
    <3>7. RightSector'
      BY <1>1, <2>5, <2>9, <3>1, <3>2, Zenon DEF BInv, Core, RightSector
    <3>8. Ledger'
      <4> SUFFICES ASSUME NEW u \in Readers
                   PROVE  (Asked(u) + InHand(u) + Queued(u) + Issued(u) + Deciding(u) + Answered(u)
                             = Awaits(u))'
        BY Zenon DEF Ledger
      <4>1. Asked(u) + InHand(u) + Queued(u) + Issued(u) + Deciding(u) + Answered(u) = Awaits(u)
        BY Zenon DEF BInv, Core, Ledger
      <4>2. Queued(u)' = Queued(u) /\ Issued(u)' = Issued(u) /\ Awaits(u)' = Awaits(u)
        BY <3>2, <3>3, Zenon DEF Queued, Issued, Awaits
      <4>3. Deciding(u)' = 0 /\ Deciding(u) = 0 /\ InHand(u) = 0
        BY <1>5, <3>4, Zenon DEF Deciding, InHand, One
      <4>4. InHand(u)' = One(m.data.tid = u)
        BY <3>1, <3>2, <3>4, Zenon DEF InHand, One
      <4>5. Asked(u) = Asked(u)' + One(m.data.tid = u) /\ Asked(u)' \in Nat
        BY <2>7, <2>11, <2>12, <2>15, Zenon
      <4>6. One(m.data.tid = u) \in {0, 1} /\ Answered(u)' = Answered(u)
        BY <2>11, Zenon DEF One
      <4> QED
        BY <4>1, <4>2, <4>3, <4>4, <4>5, <4>6, PlaceTypes DEF BInv
    <3>9. Driver = "sd" => RightData'
      BY <1>1, <1>3, <2>5, <2>10, <3>2, <3>3, <3>4, Zenon DEF BInv, Core, RightData, OkMeansData
    <3>10. BTypeOK'
      BY <1>1, <1>3, <3>1, <3>2, <3>3, Zenon DEF BInv, BTypeOK, IInv
    <3>11. BootInv'
      BY <1>1, <1>3, <1>4, Zenon DEF BInv, BootInv
    <3> QED
      BY <1>3, <1>5, <2>8, <3>5, <3>6, <3>7, <3>8, <3>9, <3>10, <3>11, Zenon DEF BInv, Core
  <2>16. CASE m.data.type = "ReadComplete"
    <3>1. /\ request \in Readers /\ device.tid = NoTid /\ irqStatus = "None"
          /\ CountIn(inbox[Dispatcher], Completions) = 1
      BY <2>1, <2>3, <2>16, CompletionFacts, Zenon DEF BInv, Core
    <3>2. PICK t \in Readers : t = request
      BY <3>1, Zenon
    <3>3. PICK l \in {"respond", "readFailed"} :
            /\ answer' = [tid |-> t, status |-> m.data.status] /\ request' = NoTid
            /\ Goto(Dispatcher, l) /\ UNCHANGED <<queue, hand>>
      BY <1>2, <1>7, <2>1, <2>3, <2>16, <3>2 DEF DispatcherReceives
    <3>4. /\ pc' \in [Tid -> Labels \ {"complain"}] /\ pc'[Dispatcher] = l
          /\ \A u \in Readers : pc'[u] = pc[u]
      <4>1. l \in Labels \ {"complain"}
        BY Zenon DEF Labels
      <4> QED
        BY <3>3, <4>1, DispatcherGoto, Zenon
    <3>5. /\ pc'[Dispatcher] \notin Asking /\ pc'[Dispatcher] \in Answering
          /\ answer'.tid = t /\ answer'.status = m.data.status
          /\ answer' \in [tid : Readers \cup {NoTid}, status : Status]
      BY <2>4, <3>3, <3>4, Zenon DEF Asking, Answering
    <3>6. One(m \in Completions) = 1 /\ \A u \in Readers : One(m \in ReqOf(u)) = 0
      BY <2>16, Zenon DEF Completions, ReqOf, One
    <3>7. CountIn(rest, Completions) = 0
      BY <2>1, <2>6, <2>7, <3>1, <3>6
    <3>8. \A i \in DOMAIN rest : rest[i].data.type # "ReadComplete"
      <4>1. \A i \in DOMAIN rest : rest[i] \notin Completions
        BY <3>7, CountZero, Zenon
      <4>2. \A i \in DOMAIN rest : rest[i] \in Message
        OBVIOUS
      <4> QED
        BY <4>1, <4>2, Zenon DEF Completions
    <3>9. Desk' /\ AwaitLive'
      BY <1>3, <3>3, <3>4, <3>5 DEF BInv, Core, Desk, AwaitLive
    <3>10. Transfer'
      <4>1. One(device'.tid # NoTid) = 0 /\ One(irqStatus' # "None") = 0 /\ One(request' # NoTid) = 0
        BY <1>1, <3>1, <3>3, Zenon DEF One
      <4>2. CountIn(inbox'[Dispatcher], Completions) = 0 /\ device'.tid = NoTid
        BY <1>1, <2>5, <3>1, <3>7, Zenon
      <4> QED
        BY <4>1, <4>2 DEF Transfer
    <3>11. RightSector'
      BY <1>1, <2>5, <2>9, <3>3, <3>5, Zenon DEF BInv, Core, RightSector
    <3>12. Ledger'
      <4> SUFFICES ASSUME NEW u \in Readers
                   PROVE  (Asked(u) + InHand(u) + Queued(u) + Issued(u) + Deciding(u) + Answered(u)
                             = Awaits(u))'
        BY Zenon DEF Ledger
      <4>1. Asked(u) + InHand(u) + Queued(u) + Issued(u) + Deciding(u) + Answered(u) = Awaits(u)
        BY Zenon DEF BInv, Core, Ledger
      <4>2. Queued(u)' = Queued(u) /\ Awaits(u)' = Awaits(u)
        BY <3>3, <3>4, Zenon DEF Queued, Awaits
      <4>3. Deciding(u) = 0 /\ InHand(u) = 0 /\ InHand(u)' = 0 /\ Issued(u)' = 0
        BY <1>2, <1>5, <3>3, <3>5, Zenon DEF Deciding, InHand, Issued, One
      <4>4. Deciding(u)' = Issued(u)
        BY <3>2, <3>5, Zenon DEF Deciding, Issued, One
      <4>5. Asked(u)' = Asked(u) /\ Answered(u)' = Answered(u)
        BY <2>6, <2>7, <2>11, <3>6
      <4> QED
        BY <4>1, <4>2, <4>3, <4>4, <4>5, PlaceTypes DEF BInv
    <3>13. Driver = "sd" => RightData'
      <4> SUFFICES ASSUME RightData PROVE RightData'
        BY Zenon DEF BInv, Core
      <4>1. m.data.status = "Ok" => buf[t] = want[t]
        BY <2>1, <2>3, <2>16, <3>2, Zenon DEF RightData
      <4> QED
        BY <1>1, <1>3, <2>5, <3>1, <3>4, <3>5, <3>8, <4>1, ZenonT(30) DEF RightData, OkMeansData
    <3>14. BTypeOK'
      BY <1>1, <1>3, <3>3, <3>4, <3>5, Zenon DEF BInv, BTypeOK, IInv
    <3>15. BootInv'
      BY <1>1, <1>3, <1>4, <3>4, Zenon DEF BInv, BootInv
    <3> QED
      BY <1>3, <1>5, <2>8, <3>9, <3>10, <3>11, <3>12, <3>13, <3>14, <3>15 DEF BInv, Core
  <2> QED
    BY <2>4, <2>14, <2>15, <2>16, Zenon
<1> QED
  BY <1>6, <1>7, Zenon

-----------------------------------------------------------------------------
(* One lemma per group of quiet actions. *)

(* A step that leaves all of ioVars alone, and no mail. *)
LEMMA IoQuiet ==
  ASSUME BInv, ioVars' = ioVars, MailQuiet, UNCHANGED <<threadTable, nextId>>,
         mode' # "boot" => mode # "boot"
  PROVE  Quiet
<1>1. /\ pc' = pc /\ UNCHANGED <<dispTid, driverSlot, request, queue, hand, answer>>
      /\ UNCHANGED <<device, irqStatus, faults, want, buf, result, reads>>
      /\ UNCHANGED <<registered, kernelReady>>
  BY Zenon DEF ioVars, diskVars, deviceVars, readVars, bootVars
<1>2. PcQuiet /\ PcBoot
  BY <1>1, SamePc, Zenon
<1>3. /\ driverSlot \in BOOLEAN /\ registered \in BOOLEAN /\ kernelReady \in BOOLEAN
      /\ registered \/ kernelReady => dispTid # NoTid
  BY Zenon DEF BInv, BTypeOK, BootInv
<1> QED
  BY <1>1, <1>2, <1>3, Zenon DEF Quiet, SameRequests

(* A switch of threads moves no message. *)
LEMMA SchedulerStepBInv == BInv /\ SchedulerStep => BInv'
<1> SUFFICES ASSUME BInv, SchedulerStep PROVE BInv'
  BY Zenon
<1>1. /\ IInv' /\ MailQuiet /\ UNCHANGED <<threadTable, nextId>> /\ mode # "boot" /\ mode' # "user"
      /\ ioVars' = ioVars
  BY SwitchFacts, Zenon DEF SchedulerStep
<1>2. Quiet
  BY <1>1, IoQuiet, Zenon
<1> QED
  BY <1>1, <1>2, QuietStep, Zenon DEF UserPc

(* The writer's inbox is its own. *)
LEMMA WriterReceivesBInv == BInv /\ WriterReceives => BInv'
<1> SUFFICES ASSUME BInv, WriterReceives PROVE BInv'
  BY Zenon
<1>1. /\ IInv' /\ UNCHANGED <<threadTable, nextId>>
      /\ mode = "kernel" /\ mode' \in {"kernel", "schedule"}
      /\ \A u \in Tid \ {Writer} : inbox'[u] = inbox[u]
      /\ ioVars' = ioVars
  BY ReceiveFacts, ThreadFacts, Zenon DEF WriterReceives
<1>2. MailQuiet
  <2>1. Readers \cup {Dispatcher} \subseteq Tid \ {Writer}
    BY ThreadFacts, Zenon
  <2> QED
    BY <1>1, <2>1, Zenon DEF MailQuiet
<1>3. mode' # "boot"
  BY <1>1, Zenon
<1>4. Quiet
  BY <1>1, <1>2, <1>3, IoQuiet, Zenon
<1> QED
  BY <1>1, <1>4, QuietStep, Zenon DEF UserPc

(* Steps of a thread at a label that print or yield. *)
LEMMA ReaderMoves ==
  ASSUME BInv, NEW t \in Readers, NEW l \in Labels \ {"complain", "await"}, Goto(t, l),
         pc[t] # "await",
         dispTid # NoTid \/ (t = BlockInit /\ l = "spawn") \/ (t # BlockInit /\ l = "begin"),
         IInv', MailQuiet, UNCHANGED <<threadTable, nextId>>, mode # "boot", UserPc',
         UNCHANGED <<diskVars, deviceVars, readVars>>,
         registered' \in BOOLEAN /\ kernelReady' \in BOOLEAN,
         registered' \/ kernelReady' => dispTid # NoTid
  PROVE  BInv'
<1>1. PcQuiet /\ PcBoot
  BY GotoQuiet, Zenon
<1>2. Quiet
  BY <1>1, Zenon DEF Quiet, SameRequests, diskVars, deviceVars, readVars, BInv, BTypeOK
<1> QED
  BY <1>2, QuietStep, Zenon

(* What has happened in the boot once the dispatcher is needed. *)
LEMMA BootFacts ==
  ASSUME BInv
  PROVE  /\ registered \in BOOLEAN /\ kernelReady \in BOOLEAN
         /\ registered \/ kernelReady => dispTid # NoTid
         /\ pc[BlockInit] \notin {"begin", "spawn"} => dispTid # NoTid
         /\ pc[FsInit] # "begin" => dispTid # NoTid
         /\ \A c \in Clients : pc[c] # "begin" => dispTid # NoTid
<1>1. FsInit \in Readers \ {BlockInit} /\ Clients \subseteq Readers \ {BlockInit}
  BY ThreadFacts, Zenon
<1> QED
  BY <1>1, Zenon DEF BInv, BTypeOK, BootInv

(* block_init's messages to the console. *)
LEMMA BlockInitPrintsBInv == BInv /\ BlockInitPrints => BInv'
<1> SUFFICES ASSUME BInv, BlockInitPrints PROVE BInv'
  BY Zenon
<1>1. BlockInit \in Readers /\ BlockInit \in Tid
  BY ThreadFacts, Zenon
<1>2. /\ IInv' /\ MailQuiet /\ UNCHANGED <<threadTable, nextId>>
      /\ mode = "kernel" /\ mode' = "schedule"
      /\ UNCHANGED <<diskVars, deviceVars, readVars, bootVars>>
  BY <1>1, PrintFacts, Zenon DEF BlockInitPrints
<1>3. UserPc' /\ UNCHANGED <<registered, kernelReady>>
  BY <1>2, Zenon DEF UserPc, bootVars
<1>4. CASE pc[BlockInit] = "begin" /\ Goto(BlockInit, "spawn")
  BY <1>1, <1>2, <1>3, <1>4, ReaderMoves, BootFacts DEF Labels
<1>5. CASE pc[BlockInit] = "finish" /\ Goto(BlockInit, "exit")
  BY <1>1, <1>2, <1>3, <1>5, ReaderMoves, BootFacts DEF Labels
<1> QED
  BY <1>4, <1>5, Zenon DEF BlockInitPrints, At

(* The volumes are registered after the dispatcher answered. *)
LEMMA RegisterVolumesBInv == BInv /\ RegisterVolumes => BInv'
<1> SUFFICES ASSUME BInv, RegisterVolumes PROVE BInv'
  BY Zenon
<1>1. BlockInit \in Readers
  BY ThreadFacts, Zenon
<1>2. /\ mode = "kernel" /\ pc[BlockInit] = "returned" /\ Goto(BlockInit, "finish")
      /\ vars' = vars /\ registered' \in BOOLEAN /\ kernelReady' = kernelReady
      /\ UNCHANGED <<diskVars, deviceVars, readVars>>
  BY Zenon DEF RegisterVolumes, At, Local
<1>3. /\ IInv' /\ MailQuiet /\ UNCHANGED <<threadTable, nextId>> /\ UserPc'
  BY <1>2, NextIInv, Zenon DEF BInv, vars, threadVars, MailQuiet, UserPc
<1> QED
  BY <1>1, <1>2, <1>3, ReaderMoves, BootFacts DEF Labels

(* fs_init yields and mounts again. *)
LEMMA MountFailsBInv == BInv /\ MountFails => BInv'
<1> SUFFICES ASSUME BInv, MountFails PROVE BInv'
  BY Zenon
<1>1. FsInit \in Readers /\ FsInit # BlockInit
  BY ThreadFacts, Zenon
<1>2. /\ IInv' /\ MailQuiet /\ UNCHANGED <<threadTable, nextId>>
      /\ mode = "kernel" /\ mode' \in {"schedule", "window"}
      /\ UNCHANGED <<diskVars, deviceVars, readVars, registered, kernelReady>>
      /\ Goto(FsInit, "begin") /\ pc[FsInit] # "await"
  BY YieldFacts, Zenon DEF MountFails, At, bootVars
<1>3. UserPc'
  BY <1>2, Zenon DEF UserPc
<1> QED
  BY <1>1, <1>2, <1>3, ReaderMoves, BootFacts DEF Labels

(* KERNEL_READY is set after the dispatcher answered. *)
LEMMA MountedBInv == BInv /\ Mounted => BInv'
<1> SUFFICES ASSUME BInv, Mounted PROVE BInv'
  BY Zenon
<1>1. FsInit \in Readers
  BY ThreadFacts, Zenon
<1>2. /\ mode = "kernel" /\ pc[FsInit] = "returned" /\ Goto(FsInit, "exit")
      /\ vars' = vars /\ registered' = registered /\ kernelReady' = TRUE
      /\ UNCHANGED <<diskVars, deviceVars, readVars>>
  BY Zenon DEF Mounted, At, Local
<1>3. /\ IInv' /\ MailQuiet /\ UNCHANGED <<threadTable, nextId>> /\ UserPc'
  BY <1>2, NextIInv, Zenon DEF BInv, vars, threadVars, MailQuiet, UserPc
<1> QED
  BY <1>1, <1>2, <1>3, ReaderMoves, BootFacts DEF Labels

(* The processes, outside read_blocks. *)
LEMMA ClientQuietBInv ==
  ASSUME BInv, NEW c \in Clients,
         \/ ClientWaits(c) \/ ClientEnters(c) \/ ClientEcall(c)
         \/ ClientWrites(c) \/ ClientYields(c) \/ ClientReturns(c)
  PROVE  BInv'
<1>1. c \in Readers /\ c \in Tid /\ c # BlockInit
  BY ThreadFacts, Zenon
<1>2. CASE ClientWaits(c)
  <2>1. /\ IInv' /\ MailQuiet /\ UNCHANGED <<threadTable, nextId>>
        /\ mode = "kernel" /\ mode' \in {"schedule", "window"}
        /\ ioVars' = ioVars
    BY <1>2, YieldFacts, Zenon DEF ClientWaits
  <2>2. mode # "boot"
    BY <2>1, Zenon
  <2>3. Quiet
    BY <2>1, <2>2, IoQuiet, Zenon
  <2> QED
    BY <2>1, <2>3, QuietStep, Zenon DEF UserPc
<1>3. CASE ClientEnters(c)
  <2>1. /\ mode = "kernel" /\ current = c /\ pc[c] = "begin" /\ kernelReady
        /\ EnterProcess /\ Goto(c, "user")
        /\ UNCHANGED <<diskVars, deviceVars, readVars, registered, kernelReady>>
    BY <1>3, Zenon DEF ClientEnters, At, bootVars
  <2>2. IInv' /\ MailQuiet /\ UNCHANGED <<threadTable, nextId, current>>
    BY <2>1, ModeStepIInv, Zenon DEF BInv, EnterProcess, threadVars, MailQuiet
  <2>3. UserPc'
    BY <1>1, <2>1, <2>2 DEF UserPc, Goto, BInv, BTypeOK
  <2> QED
    BY <1>1, <2>1, <2>2, <2>3, ReaderMoves, BootFacts DEF Labels
<1>4. CASE ClientEcall(c)
  <2>1. PICK call \in {"write", "hung", "read"} : Goto(c, call)
    BY <1>4, Zenon DEF ClientEcall
  <2>2. /\ mode = "user" /\ mode' = "kernel" /\ current = c /\ Ecall
        /\ UNCHANGED <<diskVars, deviceVars, readVars, registered, kernelReady>>
    BY <1>4, Zenon DEF ClientEcall, Ecall, bootVars
  <2>3. IInv' /\ MailQuiet /\ UNCHANGED <<threadTable, nextId>>
    BY <2>2, ModeStepIInv, Zenon DEF BInv, Ecall, threadVars, MailQuiet
  <2>4. UserPc' /\ pc[c] = "user"
    BY <2>2, Zenon DEF UserPc, BInv
  <2>5. call \in Labels \ {"complain", "await"}
    BY Zenon DEF Labels
  <2> QED
    BY <1>1, <2>1, <2>2, <2>3, <2>4, <2>5, ReaderMoves, BootFacts
<1>5. CASE ClientWrites(c)
  <2>1. /\ mode = "kernel" /\ pc[c] = "write" /\ Goto(c, "yield")
        /\ IInv' /\ MailQuiet /\ UNCHANGED <<threadTable, nextId>> /\ mode' = "schedule"
        /\ UNCHANGED <<diskVars, deviceVars, readVars, registered, kernelReady>>
    BY <1>1, <1>5, PrintFacts, Zenon DEF ClientWrites, At, bootVars
  <2>2. UserPc'
    BY <2>1, Zenon DEF UserPc
  <2> QED
    BY <1>1, <2>1, <2>2, ReaderMoves, BootFacts DEF Labels
<1>6. CASE ClientYields(c)
  <2>1. /\ mode = "kernel" /\ pc[c] = "yield" /\ Goto(c, "returned")
        /\ IInv' /\ MailQuiet /\ UNCHANGED <<threadTable, nextId>> /\ mode' \in {"schedule", "window"}
        /\ UNCHANGED <<diskVars, deviceVars, readVars, registered, kernelReady>>
    BY <1>6, YieldFacts, Zenon DEF ClientYields, At, bootVars
  <2>2. UserPc'
    BY <2>1, Zenon DEF UserPc
  <2> QED
    BY <1>1, <2>1, <2>2, ReaderMoves, BootFacts DEF Labels
<1>7. CASE ClientReturns(c)
  <2>1. /\ mode = "kernel" /\ current = c /\ pc[c] = "returned"
        /\ ReturnToUser /\ Goto(c, "user")
        /\ UNCHANGED <<diskVars, deviceVars, readVars, registered, kernelReady>>
    BY <1>7, Zenon DEF ClientReturns, At, bootVars
  <2>2. IInv' /\ MailQuiet /\ UNCHANGED <<threadTable, nextId, current>>
    BY <2>1, ModeStepIInv, Zenon DEF BInv, ReturnToUser, threadVars, MailQuiet
  <2>3. UserPc'
    BY <1>1, <2>1, <2>2 DEF UserPc, Goto, BInv, BTypeOK
  <2> QED
    BY <1>1, <2>1, <2>2, <2>3, ReaderMoves, BootFacts DEF Labels
<1> QED
  BY <1>2, <1>3, <1>4, <1>5, <1>6, <1>7

(* kernel_main's part of the boot. *)
LEMMA BootSpawnsBInv ==
  ASSUME CountingLaws
  PROVE  BInv /\ BootSpawns => BInv'
<1> SUFFICES ASSUME BInv, BootSpawns PROVE BInv'
  BY Zenon
<1>1. /\ mode = "boot" /\ nextId < Dispatcher /\ Spawn /\ ioVars' = ioVars
      /\ mode' = mode /\ current' = current /\ nextId' = nextId + 1
      /\ threadTable' = threadTable \cup {nextId} /\ inbox' = [inbox EXCEPT ![nextId] = <<>>]
  BY Zenon DEF BootSpawns, Spawn
<1>2. /\ UNCHANGED <<pc, dispTid, driverSlot, faults, reads, registered, kernelReady>>
      /\ SameRequests
  BY <1>1, Zenon DEF SameRequests, ioVars, diskVars, deviceVars, readVars, bootVars
<1>3. IInv'
  BY <1>1, SpawnIInv, Zenon DEF BInv
<1>4. /\ nextId \in Tid /\ nextId \notin threadTable /\ nextId # Dispatcher
      /\ inbox \in [Tid -> Seq(Message)] /\ nextId \in Nat
  BY <1>1, ConstantsAssumption DEF BInv, IInv, TypeOK, FreshIds, Tid, Dispatcher, Spawn
<1>5. MailQuiet
  <2> SUFFICES ASSUME NEW t \in Readers \cup {Dispatcher} PROVE inbox'[t] = inbox[t]
    BY Zenon DEF MailQuiet
  <2>1. CASE t # nextId
    BY <1>1, <1>4, <2>1
  <2>2. CASE t = nextId
    <3>1. t \in Readers /\ t \notin threadTable
      BY <1>4, <2>2, Zenon
    <3>2. pc[t] # "await"
      BY <3>1, Zenon DEF BInv, Core, AwaitLive
    <3>3. inbox[t] = <<>>
      BY <3>1, <3>2, NoStaleAnswer, Zenon DEF BInv, Core
    <3> QED
      BY <1>1, <1>4, <2>2, <3>3, Zenon
  <2> QED
    BY <2>1, <2>2, Zenon
<1>6. PcQuiet /\ PcBoot
  BY <1>2, SamePc, Zenon
<1>7. Core'
  BY <1>1, <1>2, <1>5, <1>6, FrameCore DEF BInv
<1>8. BTypeOK'
  BY <1>2, <1>3 DEF BInv, BTypeOK, IInv, SameRequests
<1>9. BootInv'
  <2>1. inbox'[Dispatcher] = inbox[Dispatcher] /\ request' = request
    BY <1>2, <1>5, Zenon DEF MailQuiet, SameRequests
  <2>2. nextId + 1 <= Dispatcher
    BY <1>1, <1>4, ConstantsAssumption DEF Dispatcher
  <2> QED
    BY <1>1, <1>2, <2>1, <2>2, Zenon DEF BInv, BootInv
<1> QED
  BY <1>1, <1>3, <1>7, <1>8, <1>9 DEF BInv, UserPc

(* The scheduler starts when the processes exist. *)
LEMMA BootStartsBInv == BInv /\ BootStarts => BInv'
<1> SUFFICES ASSUME BInv, BootStarts PROVE BInv'
  BY Zenon
<1>1. /\ nextId = Dispatcher /\ StartScheduler /\ ioVars' = ioVars
      /\ mode' = "schedule" /\ UNCHANGED <<threadTable, nextId, inbox>>
  BY Zenon DEF BootStarts, StartScheduler, threadVars
<1>2. /\ UNCHANGED <<pc, dispTid, driverSlot, faults, reads, registered, kernelReady>>
      /\ SameRequests /\ MailQuiet
  BY <1>1, Zenon DEF SameRequests, MailQuiet, ioVars, diskVars, deviceVars, readVars, bootVars
<1>3. IInv'
  BY <1>1, ModeStepIInv, Zenon DEF BInv
<1>4. PcQuiet /\ PcBoot
  BY <1>2, SamePc, Zenon
<1>5. Core'
  BY <1>1, <1>2, <1>4, FrameCore DEF BInv
<1>6. BTypeOK'
  BY <1>2, <1>3 DEF BInv, BTypeOK, IInv, SameRequests
<1>7. BootInv'
  BY <1>1, <1>2, Zenon DEF BInv, BootInv, SameRequests
<1> QED
  BY <1>1, <1>3, <1>5, <1>6, <1>7, Zenon DEF BInv, UserPc

(* A boot thread that exits has no answer waiting in its inbox. *)
LEMMA ExitThreadBInv ==
  ASSUME CountingLaws, BInv, NEW t \in {BlockInit, FsInit}, ExitThread(t)
  PROVE  BInv'
<1>1. t \in Readers /\ t \in Tid /\ t # Dispatcher
  BY ThreadFacts, Zenon
<1>2. /\ mode = "kernel" /\ current = t /\ pc[t] = "exit" /\ Exit /\ Goto(t, "gone")
      /\ UNCHANGED <<diskVars, deviceVars, readVars, bootVars>>
  BY Zenon DEF ExitThread, At
<1>3. /\ UNCHANGED <<dispTid, driverSlot, faults, reads, registered, kernelReady>>
      /\ SameRequests
  BY <1>2, Zenon DEF SameRequests, diskVars, deviceVars, readVars, bootVars
<1>4. /\ IInv' /\ threadTable' = threadTable \ {t} /\ nextId' = nextId
      /\ mode' = "schedule" /\ inbox' = [inbox EXCEPT ![t] = <<>>]
      /\ inbox \in [Tid -> Seq(Message)]
  BY <1>2, ExitIInv, Zenon DEF BInv, Exit, IInv, TypeOK
<1>5. inbox[t] = <<>>
  BY <1>1, <1>2, NoStaleAnswer, Zenon DEF BInv, Core
<1>6. MailQuiet
  BY <1>1, <1>4, <1>5, ThreadFacts, Zenon DEF MailQuiet
<1>7. dispTid # NoTid
  BY <1>2, BootFacts, Zenon
<1>8. PcQuiet /\ PcBoot
  BY <1>1, <1>2, <1>7, GotoQuiet, Zenon DEF Labels
<1>9. Core'
  BY <1>2, <1>3, <1>4, <1>6, <1>8, FrameCore DEF BInv
<1>10. BTypeOK'
  BY <1>3, <1>4, <1>8, ZenonT(30) DEF BInv, BTypeOK, IInv, SameRequests, PcQuiet
<1>11. BootInv'
  BY <1>1, <1>3, <1>4, <1>7, Zenon DEF BInv, BootInv
<1> QED
  BY <1>4, <1>9, <1>10, <1>11, Zenon DEF BInv, UserPc

(* dispatcher_entry takes the driver. *)
LEMMA DispatcherEntryBInv == BInv /\ DispatcherEntry => BInv'
<1> SUFFICES ASSUME BInv, DispatcherEntry PROVE BInv'
  BY Zenon
<1>1. /\ mode = "kernel" /\ pc[Dispatcher] = "begin" /\ vars' = vars
      /\ Goto(Dispatcher, "banner") /\ driverSlot' = FALSE
      /\ UNCHANGED <<dispTid, faults, reads, registered, kernelReady>>
      /\ SameRequests
  BY Zenon DEF DispatcherEntry, At, Local, SameRequests, deviceVars, readVars, bootVars
<1>2. /\ IInv' /\ MailQuiet /\ UNCHANGED <<threadTable, nextId, mode>>
  BY <1>1, NextIInv, Zenon DEF BInv, vars, threadVars, MailQuiet
<1>3. "banner" \in Labels \ {"complain"}
  BY Zenon DEF Labels
<1>4. PcQuiet /\ PcBoot
  BY <1>1, <1>3, DispatcherGoto DEF PcQuiet, Asking, Answering
<1>5. Quiet
  BY <1>1, <1>2, <1>4, Zenon DEF Quiet, BInv, BTypeOK, BootInv
<1> QED
  BY <1>1, <1>2, <1>5, QuietStep DEF UserPc

(* The dispatcher's messages to the console leave its request where it is. *)
LEMMA DispatcherPrintsBInv == BInv /\ DispatcherPrints => BInv'
<1> SUFFICES ASSUME BInv, DispatcherPrints PROVE BInv'
  BY Zenon
<1>1. PICK label \in {"banner", "issueFailed", "readFailed", "complain"} :
        At(Dispatcher, label) /\ Goto(Dispatcher, AfterPrint(label))
  BY Zenon DEF DispatcherPrints
<1>2. /\ IInv' /\ MailQuiet /\ UNCHANGED <<threadTable, nextId>>
      /\ mode = "kernel" /\ mode' = "schedule"
      /\ UNCHANGED <<dispTid, driverSlot, faults, reads, registered, kernelReady>>
      /\ SameRequests
  BY PrintFacts, ThreadFacts, Zenon
     DEF DispatcherPrints, SameRequests, diskVars, deviceVars, readVars, bootVars
<1>3. pc[Dispatcher] = label /\ label # "complain"
  BY <1>1, ThreadFacts, Zenon DEF At, BInv, BTypeOK
<1>4. AfterPrint(label) \in Labels \ {"complain"}
  BY Zenon DEF AfterPrint, Labels
<1>5. PcQuiet /\ PcBoot
  <2>1. /\ pc' \in [Tid -> Labels \ {"complain"}] /\ pc'[Dispatcher] = AfterPrint(label)
        /\ \A t \in Readers : pc'[t] = pc[t]
        /\ PcBoot
    BY <1>1, <1>4, DispatcherGoto, Zenon
  <2> QED
    BY <1>3, <2>1, Zenon DEF PcQuiet, AfterPrint, Asking, Answering
<1>6. Quiet
  BY <1>2, <1>5, Zenon DEF Quiet, BInv, BTypeOK, BootInv
<1> QED
  BY <1>2, <1>6, QuietStep DEF UserPc

-----------------------------------------------------------------------------
(* The bound on the reads of a process. *)

ReadsBound == \A c \in Clients : pc[c] = "read" => reads[c] < MaxReads

(* No process begins a read. *)
NoNewRead ==
  /\ reads' = reads
  /\ pc' = pc \/ \E t \in Tid, l \in Labels \ {"read"} : Goto(t, l)

(* Such a step preserves the bound. *)
LEMMA NoNewReadBound ==
  ASSUME BTypeOK, ReadsBound, NoNewRead
  PROVE  ReadsBound'
<1>1. pc \in [Tid -> Labels \ {"complain"}] /\ Clients \subseteq Tid
  BY ThreadFacts, Zenon DEF BTypeOK
<1>2. \A c \in Clients : pc'[c] = "read" => pc[c] = "read"
  BY <1>1, Zenon DEF NoNewRead, Goto
<1> QED
  BY <1>2, Zenon DEF NoNewRead, ReadsBound

(* The labels that the threads move to. *)
LEMMA LabelFacts ==
  {"begin", "banner", "loop", "issue", "issueFailed", "refuse", "respond", "readFailed",
   "complain", "spawn", "readMbr", "await", "returned", "finish", "exit", "gone",
   "user", "write", "yield", "hung"} \subseteq Labels \ {"read"}
BY DEF Labels

(* Every step preserves the bound: a process begins a read only below it. *)
LEMMA StepReadsBound ==
  ASSUME BInv, ReadsBound, [BNext]_bvars
  PROVE  ReadsBound'
<1> USE LabelFacts
<1>1. BTypeOK /\ Dispatcher \in Tid /\ Readers \subseteq Tid /\ BlockInit \in Tid /\ FsInit \in Tid
      /\ Clients \subseteq Tid
  BY ThreadFacts, Zenon DEF BInv
<1>2. CASE SchedulerStep \/ BootSpawns \/ BootStarts \/ WriterReceives \/ DeviceCompletes \/ BlockIrq
        \/ UNCHANGED bvars
  <2>1. NoNewRead
    BY <1>2, Zenon DEF SchedulerStep, BootSpawns, BootStarts, WriterReceives, DeviceCompletes, BlockIrq,
                bvars, ioVars, readVars, NoNewRead
  <2> QED
    BY <1>1, <2>1, NoNewReadBound, Zenon
<1>3. CASE DispatcherStep
  <2>1. \A l : AfterPrint(l) \in Labels \ {"read"}
    BY Zenon DEF AfterPrint
  <2>2. CASE DispatcherEntry \/ DispatcherReceives \/ DispatcherResponds \/ IssueRead \/ DispatcherRefuses
    <3>1. NoNewRead
      BY <1>1, <2>2 DEF DispatcherEntry, DispatcherReceives, DispatcherResponds, IssueRead,
                        DispatcherRefuses, readVars, NoNewRead
    <3> QED
      BY <1>1, <3>1, NoNewReadBound, Zenon
  <2>3. CASE DispatcherPrints
    <3>1. NoNewRead
      BY <1>1, <2>1, <2>3 DEF DispatcherPrints, readVars, NoNewRead
    <3> QED
      BY <1>1, <3>1, NoNewReadBound, Zenon
  <2> QED
    BY <1>3, <2>2, <2>3, Zenon DEF DispatcherStep
<1>4. CASE BlockInitPrints \/ SpawnDispatcher \/ ReadMbr \/ RegisterVolumes \/ MountReads
             \/ MountFails \/ Mounted
  <2>1. NoNewRead
    BY <1>1, <1>4, Zenon DEF BlockInitPrints, SpawnDispatcher, ReadMbr, RegisterVolumes, MountReads,
                      MountFails, Mounted, RequestReadBlock, readVars, NoNewRead
  <2> QED
    BY <1>1, <2>1, NoNewReadBound, Zenon
<1>5. ASSUME NEW c \in Clients,
             \/ ClientWaits(c) \/ ClientEnters(c) \/ ClientWrites(c)
             \/ ClientYields(c) \/ ClientReturns(c)
      PROVE  ReadsBound'
  <2>1. NoNewRead
    BY <1>1, <1>5, Zenon DEF ClientWaits, ClientEnters, ClientWrites, ClientYields, ClientReturns,
                      ioVars, readVars, NoNewRead
  <2> QED
    BY <1>1, <2>1, NoNewReadBound, Zenon
<1>6. ASSUME NEW c \in Clients, ClientReads(c)
      PROVE  ReadsBound'
  <2>1. Goto(c, "await") /\ reads' = [reads EXCEPT ![c] = @ + 1]
    BY <1>6, Zenon DEF ClientReads, RequestReadBlock
  <2>2. pc \in [Tid -> Labels \ {"complain"}] /\ reads \in [Clients -> 0..MaxReads]
    BY <1>1, Zenon DEF BTypeOK
  <2> QED
    BY <1>1, <2>1, <2>2, Zenon DEF Goto, ReadsBound
<1>7. ASSUME NEW c \in Clients, ClientEcall(c)
      PROVE  ReadsBound'
  <2>1. PICK call \in {"write", "hung", "read"} :
          Goto(c, call) /\ (call = "read" => reads[c] < MaxReads)
    BY <1>7, Zenon DEF ClientEcall
  <2>2. pc \in [Tid -> Labels \ {"complain"}] /\ reads' = reads
    BY <1>1, <1>7, Zenon DEF BTypeOK, ClientEcall, readVars
  <2> QED
    BY <1>1, <2>1, <2>2, Zenon DEF Goto, ReadsBound
<1>8. ASSUME NEW t \in Readers, AwaitResponse(t)
      PROVE  ReadsBound'
  <2>1. NoNewRead
    BY <1>1, <1>8, Zenon DEF AwaitResponse, NoNewRead
  <2> QED
    BY <1>1, <2>1, NoNewReadBound, Zenon
<1>9. ASSUME NEW t \in {BlockInit, FsInit}, ExitThread(t)
      PROVE  ReadsBound'
  <2>1. NoNewRead
    BY <1>1, <1>9, Zenon DEF ExitThread, readVars, NoNewRead
  <2> QED
    BY <1>1, <2>1, NoNewReadBound, Zenon
<1> QED
  BY <1>2, <1>3, <1>4, <1>5, <1>6, <1>7, <1>8, <1>9, Zenon DEF BNext, HartStep, UserStep, BootStep, ClientStep

-----------------------------------------------------------------------------
(* The invariant holds of every behaviour. *)

(* The invariant holds before the first thread exists. *)
LEMMA BInitBInv ==
  ASSUME CountingLaws
  PROVE  BInit => BInv /\ ReadsBound
<1> SUFFICES ASSUME BInit PROVE BInv /\ ReadsBound
  BY Zenon
<1> USE DEF BInit
<1>1. IInv
  BY InitIInv, Zenon
<1>2. /\ pc \in [Tid -> Labels \ {"complain"}] /\ \A t \in Tid : pc[t] = "begin"
  <2>1. "begin" \in Labels \ {"complain"}
    BY Zenon DEF Labels
  <2> QED
    BY <2>1, Zenon
<1>3. BTypeOK
  <2>1. /\ want \in [Readers -> Sectors \cup {Stale}] /\ buf \in [Readers -> Sectors \cup {Stale}]
        /\ result \in [Readers -> Status \cup {"None"}] /\ reads \in [Clients -> 0..MaxReads]
    BY BlockIoAssumption
  <2>2. /\ answer \in [tid : Readers \cup {NoTid}, status : Status] /\ queue \in Seq(Request)
        /\ faults \in 0..MaxFaults
    BY BlockIoAssumption DEF Status
  <2> QED
    BY <1>1, <1>2, <2>1, <2>2, Zenon DEF IInv, BTypeOK
<1>4. /\ inbox[Dispatcher] = <<>> /\ \A t \in Readers : inbox[t] = <<>>
      /\ pc[Dispatcher] = "begin" /\ \A t \in Readers : pc[t] = "begin"
      /\ pc[Dispatcher] \notin Asking /\ pc[Dispatcher] \notin Answering
      /\ device.tid = NoTid
  BY <1>2, ThreadFacts, Zenon DEF Init, Asking, Answering, NoTransfer
<1>5. BootInv
  <2>1. nextId = 1
    BY Zenon DEF Init
  <2>2. 1 <= MaxThreads
    <3> HIDE DEF BInit
    <3> QED
      BY BlockIoAssumption, ConstantsAssumption
  <2>3. nextId <= Dispatcher
    BY <2>1, <2>2, Zenon DEF Dispatcher
  <2> QED
    BY <1>4, <2>1, <2>3, ThreadFacts, Zenon DEF Init, BootInv
<1>6. UserPc
  BY Zenon DEF Init, UserPc
<1>7. Mail /\ Desk /\ AwaitLive /\ RightSector
  <2>1. DOMAIN inbox[Dispatcher] = {} /\ DOMAIN queue = {} /\ \A t \in Readers : DOMAIN inbox[t] = {}
    <3>1. queue = <<>>
      BY Zenon
    <3> HIDE DEF BInit
    <3>2. DOMAIN <<>> = {}
      OBVIOUS
    <3> QED
      BY <1>4, <3>1, <3>2, Zenon
  <2>2. Mail
    BY <2>1, Zenon DEF Mail
  <2>3. Desk /\ AwaitLive
    BY <1>4, Zenon DEF Desk, AwaitLive
  <2> QED
    BY <1>4, <2>1, <2>2, <2>3, Zenon DEF RightSector
<1>8. Ledger
  <2> SUFFICES ASSUME NEW t \in Readers
               PROVE  Asked(t) + InHand(t) + Queued(t) + Issued(t) + Deciding(t) + Answered(t)
                        = Awaits(t)
    BY Zenon DEF Ledger
  <2>1. Asked(t) = 0 /\ Queued(t) = 0 /\ Answered(t) = 0
    BY <1>4, CountEmpty, Zenon DEF Asked, Queued, Answered
  <2>2. InHand(t) = 0 /\ Issued(t) = 0 /\ Deciding(t) = 0 /\ Awaits(t) = 0
    BY <1>4, ThreadFacts, Zenon DEF InHand, Issued, Deciding, Awaits, One
  <2>3. 0 + 0 + 0 + 0 + 0 + 0 = 0
    OBVIOUS
  <2> QED
    BY <2>1, <2>2, <2>3, Zenon
<1>9. Transfer
  <2>1. CountIn(inbox[Dispatcher], Completions) = 0
    BY <1>4, CountEmpty, Zenon
  <2>2. One(device.tid # NoTid) = 0 /\ One(irqStatus # "None") = 0 /\ One(request # NoTid) = 0
    BY <1>4, Zenon DEF One
  <2>3. One(device.tid # NoTid) + One(irqStatus # "None") + CountIn(inbox[Dispatcher], Completions)
          = One(request # NoTid)
    <3>1. 0 + 0 + 0 = 0
      OBVIOUS
    <3> QED
      BY <2>1, <2>2, <3>1, Zenon
  <2> QED
    BY <1>4, <2>3, Zenon DEF Transfer
<1>10. RightData
  BY <1>4, Zenon DEF RightData, OkMeansData
<1>11. ReadsBound
  BY <1>4, ThreadFacts, Zenon DEF ReadsBound
<1> QED
  BY <1>1, <1>3, <1>5, <1>6, <1>7, <1>8, <1>9, <1>10, <1>11 DEF BInv, Core

(* Every step of the threads, of the device and of its handler preserves it. *)
LEMMA BNextBInv ==
  ASSUME CountingLaws
  PROVE  BInv /\ ReadsBound /\ [BNext]_bvars => BInv' /\ ReadsBound'
<1> SUFFICES ASSUME BInv, ReadsBound, [BNext]_bvars PROVE BInv' /\ ReadsBound'
  BY Zenon
<1>1. ReadsBound'
  BY StepReadsBound, Zenon
<1> SUFFICES BInv'
  BY <1>1, Zenon
<1>2. reads \in [Clients -> 0..MaxReads] /\ MaxReads \in Nat
  BY BlockIoAssumption, Zenon DEF BInv, BTypeOK
<1>3. ASSUME NEW t \in {BlockInit, FsInit}, NEW s \in Sectors, mode = "kernel", current = t,
             pc[t] # "await", dispTid # NoTid, RequestReadBlock(t, s), reads' = reads
      PROVE  BInv'
  <2>1. t \in Readers
    BY ThreadFacts, Zenon
  <2> QED
    BY <1>2, <1>3, <2>1, RequestReadBlockBInv, Zenon
<1>4. CASE ReadMbr
  BY <1>3, <1>4, BootFacts, Zenon DEF ReadMbr, At
<1>5. CASE MountReads
  BY <1>3, <1>5, BootFacts, Zenon DEF MountReads, At
<1>6. ASSUME NEW c \in Clients, ClientReads(c)
      PROVE  BInv'
  <2>1. PICK s \in Sectors : RequestReadBlock(c, s)
    BY <1>6, Zenon DEF ClientReads
  <2>2. mode = "kernel" /\ current = c /\ pc[c] = "read" /\ reads' = [reads EXCEPT ![c] = @ + 1]
    BY <1>6, Zenon DEF ClientReads, At
  <2>3. reads[c] < MaxReads
    BY <2>2, Zenon DEF ReadsBound
  <2>4. reads' \in [Clients -> 0..MaxReads]
    BY <1>2, <2>2, <2>3
  <2>5. c \in Readers /\ dispTid # NoTid
    BY <2>2, BootFacts, ThreadFacts, Zenon
  <2> QED
    BY <2>1, <2>2, <2>4, <2>5, RequestReadBlockBInv
<1>7. CASE UNCHANGED bvars
  <2>1. vars' = vars /\ ioVars' = ioVars
    BY <1>7, Zenon DEF bvars
  <2>2. IInv' /\ MailQuiet /\ UserPc' /\ UNCHANGED <<threadTable, nextId, mode>>
    BY <2>1, NextIInv, Zenon DEF BInv, vars, threadVars, MailQuiet, UserPc, ioVars
  <2>3. Quiet
    BY <2>1, <2>2, IoQuiet, Zenon
  <2> QED
    BY <2>2, <2>3, QuietStep, Zenon
<1>8. CASE DispatcherStep
  BY <1>8, DispatcherEntryBInv, DispatcherReceivesBInv, DispatcherPrintsBInv,
     DispatcherRespondsBInv, IssueReadBInv, DispatcherRefusesBInv DEF DispatcherStep
<1>9. CASE BootStep
  BY <1>4, <1>5, <1>9, BootSpawnsBInv, BootStartsBInv, WriterReceivesBInv, BlockInitPrintsBInv,
     SpawnDispatcherBInv, RegisterVolumesBInv, MountFailsBInv, MountedBInv DEF BootStep
<1>10. CASE ClientStep \/ UserStep
  BY <1>6, <1>10, ClientQuietBInv, Zenon DEF ClientStep, UserStep
<1> QED
  BY <1>7, <1>8, <1>9, <1>10, SchedulerStepBInv, BlockIrqBInv, DeviceCompletesBInv,
     AwaitResponseBInv, ExitThreadBInv DEF BNext, HartStep

-----------------------------------------------------------------------------
INSTANCE FiniteSetTheorems

(* The laws that the counts rest on are theorems of the library. *)
LEMMA Laws == CountingLaws
<1>1. LeastElement
  <2> SUFFICES ASSUME NEW S \in SUBSET Nat, S # {} PROVE \E x \in S : \A y \in S : x <= y
    BY Zenon DEF LeastElement
  <2> DEFINE R == OpToRel(<, Nat)
  <2>1. IsWellFoundedOn(R, Nat)
    BY NatLessThanWellFounded, Zenon
  <2>2. PICK x \in S : \A y \in S : ~(<<y, x>> \in R)
    <3> HIDE DEF R
    <3> QED
      BY <2>1, WFMin, Zenon
  <2>3. \A y \in S : ~(y < x)
    BY <2>2, Zenon DEF OpToRel
  <2> QED
    BY <2>3
<1>2. CardinalityNat /\ CardinalityZero
  BY FS_CardinalityType, FS_EmptySet, Zenon DEF CardinalityNat, CardinalityZero
<1>3. CardinalityAdd /\ CardinalityRemove
  BY FS_AddElement, FS_RemoveElement, Zenon DEF CardinalityAdd, CardinalityRemove
<1>4. CardinalitySubset /\ FiniteUnion /\ CardinalityInterval
  BY FS_Subset, FS_Union, FS_Interval, Zenon DEF CardinalitySubset, FiniteUnion, CardinalityInterval
<1>5. CardinalityInto
  BY FS_Injection, Zenon DEF CardinalityInto, Injection, IsInjective
<1>6. CardinalityOnto
  <2> SUFFICES ASSUME NEW S, NEW T, NEW f \in [S -> T], IsFiniteSet(S),
                      \A y \in T : \E x \in S : f[x] = y
               PROVE  IsFiniteSet(T) /\ Cardinality(T) <= Cardinality(S)
    BY Zenon DEF CardinalityOnto
  <2>1. f \in Surjection(S, T)
    BY Zenon DEF Surjection
  <2> QED
    BY <2>1, FS_Surjection, Zenon
<1> QED
  BY <1>1, <1>2, <1>3, <1>4, <1>5, <1>6, Zenon DEF CountingLaws

(* The invariant holds in every state of every behaviour. *)
THEOREM BSpecBInv == BSpec => [](BInv /\ ReadsBound)
<1>1. BInit => BInv /\ ReadsBound
  BY Laws, BInitBInv, Zenon
<1>2. BInv /\ ReadsBound /\ [BNext]_bvars => BInv' /\ ReadsBound'
  BY Laws, BNextBInv
<1> QED
  BY <1>1, <1>2, PTL DEF BSpec

-----------------------------------------------------------------------------
(* The theorems, for every number of processes, sectors, reads and faults. *)

(* Type correctness; and dispatcher_main receives only the messages that   *)
(* its match expects.                                                      *)
THEOREM BlockIoTypeCorrect == BSpec => []BTypeOK
<1>1. BInv => BTypeOK
  BY DEF BInv
<1> QED
  BY <1>1, BSpecBInv, PTL

(* Every thread inside read_blocks has exactly one request or answer under *)
(* way, and every other thread none.                                       *)
THEOREM EachReadIsAnsweredOnce == BSpec => []OneAnswerPerRead
<1>1. BInv => OneAnswerPerRead
  <2> SUFFICES ASSUME BInv, NEW t \in Readers
               PROVE  Outstanding(t) = One(pc[t] = "await")
    BY Zenon DEF OneAnswerPerRead
  <2>1. /\ \A i \in DOMAIN inbox[Dispatcher] : inbox[Dispatcher][i] \in Message
        /\ \A i \in DOMAIN inbox[t] : inbox[t][i] \in Message
        /\ \A i \in DOMAIN queue : queue[i] \in Request
    <3>1. inbox \in [Tid -> Seq(Message)] /\ queue \in Seq(Request)
      BY Zenon DEF BInv, BTypeOK, IInv, TypeOK
    <3>2. inbox[Dispatcher] \in Seq(Message) /\ inbox[t] \in Seq(Message)
      BY <3>1, ThreadFacts
    <3> QED
      BY <3>1, <3>2
  <2>2. {i \in DOMAIN inbox[Dispatcher] :
           inbox[Dispatcher][i].data.type = "ReadRequest" /\ inbox[Dispatcher][i].data.tid = t}
          = {i \in DOMAIN inbox[Dispatcher] : inbox[Dispatcher][i] \in ReqOf(t)}
    BY <2>1 DEF ReqOf
  <2>3. {i \in DOMAIN queue : queue[i].tid = t} = {i \in DOMAIN queue : queue[i] \in QueuedOf(t)}
    BY <2>1 DEF QueuedOf
  <2>4. {i \in DOMAIN inbox[t] : inbox[t][i].data.type = "ReadResponse"}
          = {i \in DOMAIN inbox[t] : inbox[t][i] \in Responses}
    BY <2>1 DEF Responses
  <2>5. /\ Count(inbox[Dispatcher], LAMBDA m : m.data.type = "ReadRequest" /\ m.data.tid = t) = Asked(t)
        /\ Count(queue, LAMBDA r : r.tid = t) = Queued(t)
        /\ Count(inbox[t], LAMBDA m : m.data.type = "ReadResponse") = Answered(t)
    BY <2>2, <2>3, <2>4, Zenon DEF Count, CountIn, Asked, Queued, Answered
  <2>6. Asked(t) + InHand(t) + Queued(t) + Issued(t) + Deciding(t) + Answered(t) = Awaits(t)
    BY DEF BInv, Core, Ledger
  <2> QED
    BY <2>5, <2>6 DEF Outstanding, InHand, Issued, Deciding, Awaits, Asking, Answering
<1> QED
  BY <1>1, BSpecBInv, PTL

(* REQUEST always names the read whose transfer or completion is under     *)
(* way, and no other is.                                                   *)
THEOREM CompletionsAreCredited == BSpec => []CompletionMatchesRequest
<1>1. BInv => CompletionMatchesRequest
  <2> SUFFICES ASSUME BInv PROVE CompletionMatchesRequest
    BY Zenon
  <2>1. \A i \in DOMAIN inbox[Dispatcher] : inbox[Dispatcher][i] \in Message
    <3>1. inbox \in [Tid -> Seq(Message)]
      BY Zenon DEF BInv, BTypeOK, IInv, TypeOK
    <3>2. inbox[Dispatcher] \in Seq(Message)
      BY <3>1, ThreadFacts
    <3> QED
      BY <3>2
  <2>2. {i \in DOMAIN inbox[Dispatcher] : inbox[Dispatcher][i].data.type = "ReadComplete"}
          = {i \in DOMAIN inbox[Dispatcher] : inbox[Dispatcher][i] \in Completions}
    BY <2>1 DEF Completions
  <2>3. Count(inbox[Dispatcher], LAMBDA m : m.data.type = "ReadComplete")
          = CountIn(inbox[Dispatcher], Completions)
    BY <2>2, Zenon DEF Count, CountIn
  <2>4. pc[Dispatcher] = "issue" => request = NoTid
    BY DEF BInv, Core, Desk, Asking
  <2> QED
    BY <2>3, <2>4 DEF BInv, Core, Transfer, CompletionMatchesRequest
<1> QED
  BY <1>1, BSpecBInv, PTL

(* The device and the queue only ever hold buffers of threads that are     *)
(* inside read_blocks.                                                     *)
THEOREM DmaTargetsWaiters == BSpec => []DmaOnlyWhileWaiting
<1>1. BInv => DmaOnlyWhileWaiting
  <2> SUFFICES ASSUME BInv PROVE DmaOnlyWhileWaiting
    BY Zenon
  <2>1. \A t \in Readers : request = t => pc[t] = "await"
    BY Laws, NotNamed DEF BInv
  <2>2. \A t \in Readers : \A i \in DOMAIN queue : queue[i].tid = t => pc[t] = "await"
    BY Laws, NotNamed DEF BInv
  <2>3. device.tid # NoTid => device.tid \in Readers /\ request = device.tid
    BY Laws, TransferFacts DEF BInv, Core
  <2>4. device.tid # NoTid => want[device.tid] = device.sector
    BY Zenon DEF BInv, Core, RightSector
  <2>5. \A i \in DOMAIN queue : queue[i].tid \in Readers
    BY QueueFacts, Zenon DEF BInv
  <2> QED
    BY <2>1, <2>2, <2>3, <2>4, <2>5, Zenon DEF DmaOnlyWhileWaiting
<1> QED
  BY <1>1, BSpecBInv, PTL

(* With the SD driver, whose handler reads the error register, a read that *)
(* returned Ok left the requested sector in the buffer.                    *)
THEOREM SdOkMeansData == ASSUME Driver = "sd" PROVE BSpec => []OkMeansData
<1>1. BInv => OkMeansData
  BY Zenon DEF BInv, Core, RightData
<1> QED
  BY <1>1, BSpecBInv, PTL

=============================================================================
