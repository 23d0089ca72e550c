------------------------------- MODULE BlockIo -------------------------------
(***************************************************************************)
(* Block reads: the dispatcher thread that owns the disk driver            *)
(* (block/disk/dispatcher.rs), the threads that call BlockDisk::read_blocks*)
(* (block/disk/mod.rs), the driver's interrupt handler (drivers/sd.rs,     *)
(* drivers/virtio_blk.rs), and the boot that brings them up: block_init's  *)
(* thread, fs_init's thread, and the user processes that wait for          *)
(* KERNEL_READY.                                                           *)
(*                                                                         *)
(* The threads run on Scheduler: their messages, sleeps and yields are its *)
(* operators.  pc[t] is where thread t continues when it next has the CPU. *)
(***************************************************************************)
EXTENDS Scheduler, FiniteSets

CONSTANTS
  Driver,     \* "sd" or "virtio": the driver BlockDisk was created with
  Sectors,    \* sectors the threads read
  BadBuffers, \* threads whose buffer start_read refuses
  MaxReads,   \* bound: reads per user process
  MaxFaults   \* bound: transfers that the device fails

(* Threads in the order kernel_main creates them; the dispatcher is        *)
(* created by block_init's thread and gets the next id.                    *)
Writer     == 1
BlockInit  == 2
FsInit     == 3
Clients    == 4..(MaxThreads - 1)
Readers    == {BlockInit, FsInit} \cup Clients
Dispatcher == MaxThreads
BlkIrq     == "blk"

NoTid == 0
Stale == "stale"   \* what a buffer holds before its read
Status == {"Ok", "Err"}

(* BlockMessage, and the text messages of the UART writer. *)
Msg(type, tid, sector, status) == [type |-> type, tid |-> tid, sector |-> sector, status |-> status]
ReadRequest(t, s) == Msg("ReadRequest", t, s, "Ok")
ReadComplete(st)  == Msg("ReadComplete", NoTid, Stale, st)
ReadResponse(st)  == Msg("ReadResponse", NoTid, Stale, st)
Text              == Msg("Text", NoTid, Stale, "Ok")
BlockMessage == {ReadRequest(t, s) : t \in Readers, s \in Sectors}
                  \cup {ReadComplete(st) : st \in Status}
                  \cup {ReadResponse(st) : st \in Status}
                  \cup {Text}

ASSUME BlockIoAssumption ==
  /\ MaxThreads >= 5
  /\ UserThreads = 4..(MaxThreads - 1)
  /\ Payload = BlockMessage
  /\ BlkIrq \in Irqs
  /\ Driver \in {"sd", "virtio"}
  /\ BadBuffers \subseteq 2..(MaxThreads - 1)
  /\ MaxReads \in Nat /\ MaxFaults \in Nat

VARIABLES
  pc,         \* where each thread continues
  dispTid,    \* DISPATCHER_TID
  driverSlot, \* DRIVER is Some
  request,    \* REQUEST: the requester of the read in flight, or NoTid
  queue,      \* dispatcher_main's pending requests
  hand,       \* the request issue_read is called with
  answer,     \* the response about to be sent: requester and status
  device,     \* the transfer the hardware works on; tid NoTid when none
  irqStatus,  \* what the handler will find in the status registers, or "None"
  faults,     \* transfers failed so far
  want,       \* by reader: the sector of its current read
  buf,        \* by reader: the sector its buffer holds, or Stale
  result,     \* by reader: what its last read_blocks returned
  reads,      \* by client: reads begun
  registered, \* block_init has registered the volumes
  kernelReady \* KERNEL_READY

diskVars   == <<dispTid, driverSlot, request, queue, hand, answer>>
deviceVars == <<device, irqStatus, faults>>
readVars   == <<want, buf, result, reads>>
bootVars   == <<registered, kernelReady>>
ioVars == <<pc, diskVars, deviceVars, readVars, bootVars>>
bvars  == <<vars, ioVars>>

NoTransfer == [tid |-> NoTid, sector |-> Stale]

BInit ==
  /\ Init
  /\ pc = [t \in Tid |-> "begin"]
  /\ dispTid = NoTid
  /\ driverSlot = FALSE
  /\ request = NoTid
  /\ queue = <<>>
  /\ hand = NoTransfer
  /\ answer = [tid |-> NoTid, status |-> "Ok"]
  /\ device = NoTransfer
  /\ irqStatus = "None"
  /\ faults = 0
  /\ want = [t \in Readers |-> Stale]
  /\ buf = [t \in Readers |-> Stale]
  /\ result = [t \in Readers |-> "None"]
  /\ reads = [t \in Clients |-> 0]
  /\ registered = FALSE
  /\ kernelReady = FALSE

-----------------------------------------------------------------------------
At(t, label) == mode = "kernel" /\ current = t /\ pc[t] = label
Goto(t, label) == pc' = [pc EXCEPT ![t] = label]

(* kprintln!: an urgent message to the UART writer, so a switch. *)
KPrintln(t) == SendMessageUrgent(Writer, [sender |-> t, data |-> Text])

(* Local steps of a thread, between two operations of the scheduler. *)
Local == UNCHANGED vars

-----------------------------------------------------------------------------
(* BlockDisk::read_blocks. *)

(* request_read_block: the request goes to the dispatcher as an urgent     *)
(* message.                                                                *)
RequestReadBlock(t, s) ==
  /\ want' = [want EXCEPT ![t] = s]
  /\ buf' = [buf EXCEPT ![t] = Stale]
  /\ Goto(t, "await")
  /\ IF dispTid # NoTid
     THEN SendMessageUrgent(dispTid, [sender |-> t, data |-> ReadRequest(t, s)])
     ELSE Local
  /\ UNCHANGED <<diskVars, deviceVars, result, bootVars>>

(* Faulty variant: an empty inbox makes the read fail. *)
AwaitResponseNoBlock(t) ==
  /\ At(t, "await")
  /\ Goto(t, "returned")
  /\ IF inbox[t] = <<>>
     THEN result' = [result EXCEPT ![t] = "Err"] /\ Local
     ELSE result' = [result EXCEPT ![t] = Head(inbox[t]).data.status] /\ ReceiveMessage
  /\ UNCHANGED <<diskVars, deviceVars, want, buf, reads, bootVars>>

(* receive_message, and the test of what it returned. *)
AwaitResponse(t) ==
  /\ At(t, "await")
  /\ ReceiveMessage
  /\ IF inbox[t] = <<>>
     THEN UNCHANGED <<pc, result>>
     ELSE LET m == Head(inbox[t]).data IN
            /\ result' = [result EXCEPT ![t] = IF m.type = "ReadResponse" THEN m.status ELSE "Err"]
            /\ Goto(t, "returned")
  /\ UNCHANGED <<diskVars, deviceVars, want, buf, reads, bootVars>>

-----------------------------------------------------------------------------
(* The dispatcher. *)

(* spawn_dispatcher, called by block_init's thread through BlockDisk::new. *)
SpawnDispatcher ==
  /\ At(BlockInit, "spawn")
  /\ ~ driverSlot
  /\ driverSlot' = TRUE
  /\ dispTid' = nextId
  /\ Spawn
  /\ Goto(BlockInit, "readMbr")
  /\ UNCHANGED <<request, queue, hand, answer, deviceVars, readVars, bootVars>>

DispatcherEntry ==
  /\ At(Dispatcher, "begin")
  /\ driverSlot
  /\ driverSlot' = FALSE
  /\ Goto(Dispatcher, "banner")
  /\ Local
  /\ UNCHANGED <<dispTid, request, queue, hand, answer, deviceVars, readVars, bootVars>>

(* Faulty variant: every request is issued at once. *)
NeverInFlight == FALSE

(* A read is at the device, or its completion has not been received. *)
InFlight == request # NoTid

(* One turn of dispatcher_main's loop, as far as the match on the message. *)
DispatcherReceives ==
  /\ At(Dispatcher, "loop")
  /\ ReceiveMessage
  /\ IF inbox[Dispatcher] = <<>>
     THEN UNCHANGED <<pc, request, queue, hand, answer>>
     ELSE LET m == Head(inbox[Dispatcher]).data IN
       CASE m.type = "ReadRequest" /\ InFlight ->
              /\ queue' = Append(queue, [tid |-> m.tid, sector |-> m.sector])
              /\ UNCHANGED <<pc, request, hand, answer>>
         [] m.type = "ReadRequest" /\ ~ InFlight ->
              /\ hand' = [tid |-> m.tid, sector |-> m.sector]
              /\ Goto(Dispatcher, "issue")
              /\ UNCHANGED <<request, queue, answer>>
         [] m.type = "ReadComplete" /\ request # NoTid ->
              /\ answer' = [tid |-> request, status |-> m.status]
              /\ request' = NoTid
              /\ Goto(Dispatcher, IF m.status = "Ok" THEN "respond" ELSE "readFailed")
              /\ UNCHANGED <<queue, hand>>
         [] OTHER ->
              /\ Goto(Dispatcher, "complain")
              /\ UNCHANGED <<request, queue, hand, answer>>
  /\ UNCHANGED <<dispTid, driverSlot, deviceVars, readVars, bootVars>>

(* The messages the dispatcher prints, and where it goes on after each. *)
AfterPrint(label) ==
  CASE label = "issueFailed" -> "refuse"
    [] label = "readFailed"  -> "respond"
    [] OTHER                 -> "loop"

DispatcherPrints ==
  /\ \E label \in {"banner", "issueFailed", "readFailed", "complain"} :
       At(Dispatcher, label) /\ Goto(Dispatcher, AfterPrint(label))
  /\ KPrintln(Dispatcher)
  /\ UNCHANGED <<diskVars, deviceVars, readVars, bootVars>>

(* Faulty variant: the pending requests are not looked at. *)
DispatcherRespondsOnly ==
  /\ At(Dispatcher, "respond")
  /\ SendMessage(answer.tid, [sender |-> Dispatcher, data |-> ReadResponse(answer.status)])
  /\ Goto(Dispatcher, "loop")
  /\ UNCHANGED <<threadTable, nextId, receiving, current, mode, pending, trapVars>>
  /\ UNCHANGED <<diskVars, deviceVars, readVars, bootVars>>

(* The response to a completed read; then the next pending request, if     *)
(* any, is taken to be issued.                                             *)
DispatcherResponds ==
  /\ At(Dispatcher, "respond")
  /\ SendMessage(answer.tid, [sender |-> Dispatcher, data |-> ReadResponse(answer.status)])
  /\ IF queue # <<>>
     THEN /\ hand' = Head(queue)
          /\ queue' = Tail(queue)
          /\ Goto(Dispatcher, "issue")
     ELSE /\ Goto(Dispatcher, "loop")
          /\ UNCHANGED <<hand, queue>>
  /\ UNCHANGED <<threadTable, nextId, receiving, current, mode, pending, trapVars>>
  /\ UNCHANGED <<dispTid, driverSlot, request, answer, deviceVars, readVars, bootVars>>

(* Faulty variant: REQUEST is not recorded. *)
IssueReadUnrecorded ==
  /\ At(Dispatcher, "issue")
  /\ device' = hand
  /\ Goto(Dispatcher, "loop")
  /\ Local
  /\ UNCHANGED <<diskVars, irqStatus, faults, readVars, bootVars>>

(* validate_read_buffer: the driver accepts the requester's buffer. *)
BufferAccepted(t) == t \notin BadBuffers

(* start_io: the hardware is programmed with the transfer. *)
StartIo(r) == device' = r

(* issue_read: start_read programs the hardware and REQUEST is set, or it  *)
(* refuses the buffer.                                                     *)
IssueRead ==
  /\ At(Dispatcher, "issue")
  /\ IF BufferAccepted(hand.tid)
     THEN /\ StartIo(hand)
          /\ request' = hand.tid
          /\ Goto(Dispatcher, "loop")
     ELSE /\ Goto(Dispatcher, "issueFailed")
          /\ UNCHANGED <<device, request>>
  /\ Local
  /\ UNCHANGED <<dispTid, driverSlot, queue, hand, answer, irqStatus, faults, readVars, bootVars>>

(* Faulty variant: the requester of a refused buffer is not told. *)
DispatcherRefusesSilently ==
  /\ At(Dispatcher, "refuse")
  /\ Goto(Dispatcher, "loop")
  /\ Local
  /\ UNCHANGED <<diskVars, deviceVars, readVars, bootVars>>

DispatcherRefuses ==
  /\ At(Dispatcher, "refuse")
  /\ SendMessage(hand.tid, [sender |-> Dispatcher, data |-> ReadResponse("Err")])
  /\ Goto(Dispatcher, "loop")
  /\ UNCHANGED <<threadTable, nextId, receiving, current, mode, pending, trapVars>>
  /\ UNCHANGED <<diskVars, deviceVars, readVars, bootVars>>

-----------------------------------------------------------------------------
(* The hardware and its interrupt handler. *)

(* The transfer ends: the sector is in the buffer, or the device reports a *)
(* failure and the buffer is as it was.                                    *)
DeviceCompletes ==
  /\ device.tid # NoTid
  /\ \/ /\ buf' = [buf EXCEPT ![device.tid] = device.sector]
        /\ irqStatus' = "Ok"
        /\ UNCHANGED faults
     \/ /\ faults < MaxFaults
        /\ irqStatus' = "Err"
        /\ faults' = faults + 1
        /\ UNCHANGED buf
  /\ device' = NoTransfer
  /\ RaiseIrq(BlkIrq)
  /\ UNCHANGED <<pc, diskVars, want, result, reads, bootVars>>

(* Faulty variant: the error register is not read. *)
CompletionAlwaysOk == "Ok"

(* What the handler passes to the completion handler.  sd_irq_handler      *)
(* reads the error register; virtio_irq_handler does not look at the       *)
(* request's status byte.                                                  *)
CompletionStatus == IF Driver = "sd" THEN irqStatus ELSE "Ok"

(* sd_irq_handler or virtio_irq_handler, through send_read_completion. *)
BlockIrq ==
  /\ TakeInterrupt(BlkIrq)
  /\ IF irqStatus # "None" /\ dispTid # NoTid
     THEN SendMessage(dispTid, [sender |-> Idle, data |-> ReadComplete(CompletionStatus)])
     ELSE UNCHANGED <<state, readyQueue, inbox>>
  /\ irqStatus' = "None"
  /\ UNCHANGED <<pc, diskVars, device, faults, readVars, bootVars>>

-----------------------------------------------------------------------------
(* The threads of the boot. *)

(* kernel_main creates the writer, block_init, fs_init and the processes. *)
BootSpawns ==
  /\ mode = "boot" /\ nextId < Dispatcher
  /\ Spawn
  /\ UNCHANGED ioVars

BootStarts ==
  /\ nextId = Dispatcher
  /\ StartScheduler
  /\ UNCHANGED ioVars

(* writer_entry's loop, seen from the other threads. *)
WriterReceives ==
  /\ current = Writer
  /\ ReceiveMessage
  /\ UNCHANGED ioVars

BlockInitPrints ==
  /\ \/ At(BlockInit, "begin") /\ Goto(BlockInit, "spawn")
     \/ At(BlockInit, "finish") /\ Goto(BlockInit, "exit")
  /\ KPrintln(BlockInit)
  /\ UNCHANGED <<diskVars, deviceVars, readVars, bootVars>>

ReadMbr ==
  /\ At(BlockInit, "readMbr")
  /\ \E s \in Sectors : RequestReadBlock(BlockInit, s)
  /\ UNCHANGED reads

(* read_partition_table's match; parse_mbr and register_partitions if the  *)
(* table was read.                                                         *)
RegisterVolumes ==
  /\ At(BlockInit, "returned")
  /\ registered' = (result[BlockInit] = "Ok")
  /\ Goto(BlockInit, "finish")
  /\ Local
  /\ UNCHANGED <<diskVars, deviceVars, readVars, kernelReady>>

ExitThread(t) ==
  /\ At(t, "exit")
  /\ Exit
  /\ Goto(t, "gone")
  /\ UNCHANGED <<diskVars, deviceVars, readVars, bootVars>>

(* fs_init_thread: mount, which reads the disk once the volume is          *)
(* registered; yield and mount again until it works.                       *)
MountReads ==
  /\ At(FsInit, "begin")
  /\ registered
  /\ \E s \in Sectors : RequestReadBlock(FsInit, s)
  /\ UNCHANGED reads

MountFails ==
  /\ \/ At(FsInit, "begin") /\ ~ registered
     \/ At(FsInit, "returned") /\ result[FsInit] # "Ok"
  /\ YieldNow
  /\ Goto(FsInit, "begin")
  /\ UNCHANGED <<diskVars, deviceVars, readVars, bootVars>>

Mounted ==
  /\ At(FsInit, "returned")
  /\ result[FsInit] = "Ok"
  /\ kernelReady' = TRUE
  /\ Goto(FsInit, "exit")
  /\ Local
  /\ UNCHANGED <<diskVars, deviceVars, readVars, registered>>

(* A user process: user_thread_entry, then system calls that read a file   *)
(* or write to the console.  The others leave what is modelled here as it  *)
(* was, but for one that syscall::handle does not know (exit is one): it   *)
(* never returns.                                                          *)
ClientWaits(c) ==
  /\ At(c, "begin")
  /\ ~ kernelReady
  /\ YieldNow
  /\ UNCHANGED ioVars

ClientEnters(c) ==
  /\ At(c, "begin")
  /\ kernelReady
  /\ EnterProcess
  /\ Goto(c, "user")
  /\ UNCHANGED <<diskVars, deviceVars, readVars, bootVars>>

ClientEcall(c) ==
  /\ mode = "user" /\ current = c
  /\ Ecall
  /\ \E call \in {"write", "hung"} \cup {r \in {"read"} : reads[c] < MaxReads} :
       Goto(c, call)
  /\ UNCHANGED <<diskVars, deviceVars, readVars, bootVars>>

ClientReads(c) ==
  /\ At(c, "read")
  /\ reads' = [reads EXCEPT ![c] = @ + 1]
  /\ \E s \in Sectors : RequestReadBlock(c, s)

(* sys_write: a message to the writer, then yield_now. *)
ClientWrites(c) ==
  /\ At(c, "write")
  /\ KPrintln(c)
  /\ Goto(c, "yield")
  /\ UNCHANGED <<diskVars, deviceVars, readVars, bootVars>>

ClientYields(c) ==
  /\ At(c, "yield")
  /\ YieldNow
  /\ Goto(c, "returned")
  /\ UNCHANGED <<diskVars, deviceVars, readVars, bootVars>>

ClientReturns(c) ==
  /\ At(c, "returned")
  /\ ReturnToUser
  /\ Goto(c, "user")
  /\ UNCHANGED <<diskVars, deviceVars, readVars, bootVars>>

-----------------------------------------------------------------------------
SchedulerStep ==
  /\ Schedule \/ EnterIdle \/ Wfi \/ ScheduleIfReady \/ YieldRequeue
  /\ UNCHANGED ioVars

DispatcherStep ==
  \/ DispatcherEntry \/ DispatcherReceives \/ DispatcherPrints
  \/ DispatcherResponds \/ IssueRead \/ DispatcherRefuses

BootStep ==
  \/ BootSpawns \/ BootStarts \/ WriterReceives
  \/ BlockInitPrints \/ SpawnDispatcher \/ ReadMbr \/ RegisterVolumes
  \/ MountReads \/ MountFails \/ Mounted

ClientStep ==
  \E c \in Clients : ClientWaits(c) \/ ClientEnters(c) \/ ClientReads(c)
                       \/ ClientWrites(c) \/ ClientYields(c) \/ ClientReturns(c)

HartStep ==
  \/ SchedulerStep \/ DispatcherStep \/ BootStep \/ ClientStep \/ BlockIrq
  \/ \E t \in Readers : AwaitResponse(t)
  \/ \E t \in {BlockInit, FsInit} : ExitThread(t)

UserStep == \E c \in Clients : ClientEcall(c)

BNext == HartStep \/ UserStep \/ DeviceCompletes

BSpec == BInit /\ [][BNext]_bvars

(* The hart runs, the device ends every transfer it was given, and a user  *)
(* program makes another system call in the end.                           *)
BFairSpec == BSpec /\ WF_bvars(HartStep) /\ WF_bvars(UserStep) /\ WF_bvars(DeviceCompletes)

-----------------------------------------------------------------------------
(* Properties. *)

Count(seq, Test(_)) == Cardinality({i \in DOMAIN seq : Test(seq[i])})
One(b) == IF b THEN 1 ELSE 0

Request == [tid : Readers, sector : Sectors]
Labels == {"begin", "banner", "loop", "issue", "issueFailed", "refuse", "respond", "readFailed",
           "complain", "spawn", "readMbr", "await", "returned", "finish", "exit", "gone",
           "user", "read", "write", "yield", "hung"}

(* Type invariant: every item of the dispatcher, of the device and of the  *)
(* readers holds a value of its type; dispatcher_main receives only what   *)
(* its match expects, so it never has a reason to complain.                *)
BTypeOK ==
  /\ TypeOK
  /\ pc \in [Tid -> Labels \ {"complain"}]
  /\ dispTid \in {NoTid, Dispatcher}
  /\ driverSlot \in BOOLEAN
  /\ request \in Readers \cup {NoTid}
  /\ queue \in Seq(Request)
  /\ hand \in Request \cup {NoTransfer}
  /\ answer \in [tid : Readers \cup {NoTid}, status : Status]
  /\ device \in Request \cup {NoTransfer}
  /\ irqStatus \in Status \cup {"None"}
  /\ faults \in 0..MaxFaults
  /\ want \in [Readers -> Sectors \cup {Stale}]
  /\ buf \in [Readers -> Sectors \cup {Stale}]
  /\ result \in [Readers -> Status \cup {"None"}]
  /\ reads \in [Clients -> 0..MaxReads]
  /\ registered \in BOOLEAN /\ kernelReady \in BOOLEAN

(* The places where a request of thread t, or the answer to it, can be. *)
Outstanding(t) ==
  Count(inbox[Dispatcher], LAMBDA m : m.data.type = "ReadRequest" /\ m.data.tid = t)
    + One(pc[Dispatcher] \in {"issue", "issueFailed", "refuse"} /\ hand.tid = t)
    + Count(queue, LAMBDA r : r.tid = t)
    + One(request = t)
    + One(pc[Dispatcher] \in {"readFailed", "respond"} /\ answer.tid = t)
    + Count(inbox[t], LAMBDA m : m.data.type = "ReadResponse")

(* A thread inside read_blocks has exactly one request or answer under way,*)
(* and a thread outside has none: requests are neither dropped nor         *)
(* answered twice, across the dispatcher's inbox, its pending queue, the   *)
(* device, refused buffers and failed transfers, so no stale answer waits  *)
(* for a later read.                                                       *)
OneAnswerPerRead ==
  \A t \in Readers : Outstanding(t) = One(pc[t] = "await")

(* REQUEST is the read the device has, or whose completion is on its way   *)
(* through the interrupt and the dispatcher's inbox: a completion is never *)
(* credited to another read, and start_read never finds the device busy.   *)
CompletionMatchesRequest ==
  /\ One(device.tid # NoTid) + One(irqStatus # "None")
       + Count(inbox[Dispatcher], LAMBDA m : m.data.type = "ReadComplete") = One(request # NoTid)
  /\ device.tid \in {NoTid, request}
  /\ pc[Dispatcher] = "issue" => request = NoTid

(* The device writes only into the buffer of a thread that is inside       *)
(* read_blocks, the ground for sending a raw pointer to it: "the buffer is *)
(* only accessed by the dispatcher while the requester is suspended".      *)
DmaOnlyWhileWaiting ==
  /\ device.tid # NoTid => pc[device.tid] = "await" /\ want[device.tid] = device.sector
  /\ \A i \in DOMAIN queue : pc[queue[i].tid] = "await"

(* read_blocks that returned Ok(()) left the requested sector in the       *)
(* buffer, and nothing overwrites it before the thread's next read         *)
(* (BlockVolume::read_blocks: "Ok(()) - Read completed successfully").     *)
OkMeansData ==
  \A t \in Readers : pc[t] # "await" /\ result[t] = "Ok" => buf[t] = want[t]

(* A process has made a system call that syscall::handle does not know:    *)
(* its wfi loop keeps the hart.                                            *)
Hung == \E c \in Clients : pc[c] = "hung"

(* Every read_blocks returns, though its caller sleeps and only an         *)
(* interrupt, taken when the idle thread runs or some thread yields,       *)
(* brings the completion; unless a process hangs the hart.  (Under         *)
(* BFairSpec.)                                                             *)
EveryReadReturns == \A t \in Readers : pc[t] = "await" ~> (pc[t] # "await" \/ Hung)

(* The boot ends: fs_init, which spins on yield_now, gets the volume       *)
(* mounted and sets KERNEL_READY, unless the partition table could not be  *)
(* read.  (Under BFairSpec.)                                               *)
BootCompletes == <>(kernelReady \/ (pc[BlockInit] = "gone" /\ ~ registered))

=============================================================================
