# nano-os: a TLA+ verification project

Specifications, model-checking runs and machine-checked proofs for the nano-os
kernel (Rust, single-hart RISC-V). Paths below are relative to the repository;
the Rust sources are under `src/`.

## The system

nano-os boots one hart, creates a few kernel threads and hands the CPU to a
cooperative scheduler. Nothing preempts a thread. Kernel code runs with
interrupts off, and an interrupt handler runs only in three places: the idle
loop, a short window that `yield_now` opens, and user mode. Threads talk through
inboxes (`send_message`, `send_message_urgent`, `receive_message`).

| Part | Source | Model |
| --- | --- | --- |
| kernel threads, scheduler, idle thread | `thread.rs`, `kthread/idle.rs` | `Scheduler` |
| trap paths, PLIC dispatch, user-mode entry | `kernel_trap.rs`, `trap.rs`, `drivers/plic.rs`, `process_trampoline.rs` | `Scheduler` (partly) |
| block dispatcher, `read_blocks` | `block/disk/` | `BlockIo` |
| disk drivers and their interrupt handlers | `drivers/sd.rs`, `drivers/virtio_blk.rs` | `BlockIo` (partly) |
| boot threads, process start | `kernel_main.rs`, `block/init.rs`, `kthread/fs_init.rs`, `kthread/user_process.rs` | `BlockIo` (partly) |
| UART writer thread, transmit pump | `kthread/uart_writer.rs`, `drivers/uart.rs` | `UartWriter` |
| SPSC ring | `collections/spsc_ring.rs` | `SpscRing` |
| system-call dispatch | `syscall/` | `BlockIo` (its effect on the scheduler) |
| block cache, partitions | `block/cache.rs`, `collections/lru.rs`, `block/partition.rs`, `block/volume/` | `Lru`, `Ext2`, `Ext2Calls`, `Storage` |
| ext2 | `fs/ext2/` | `Ext2`, `Ext2Calls`, `Storage` |
| VFS, devices, ramfs, procfs, initramfs, file system calls | `vfs.rs`, `file.rs`, `dev/`, `fs/`, `syscall/file.rs` | `Files` |
| kernel heap | `kernel_allocator/` | `HeapBlocks`, `Heap`, `Allocator` |
| device tree, usable memory | `dtb.rs`, `memory.rs` | `DeviceTree` |
| page allocator, page tables | `page_allocator.rs`, `page_mapper.rs` | `PageTables` |
| kernel and process memory maps, `brk`, `mmap`, `copy_out`, `copy_in` | `kernel_memory_map.rs`, `process_memory_map.rs`, `read_elf.rs`, `syscall/memory.rs`, `syscall/uaccess.rs` | `Memory` |
| boot assembly, byte formats, demos | `main.rs`, `trampoline.rs`, `bytes.rs`, `demos/` | not modelled |

How they interact: the UART writer, the block dispatcher, `block_init`, `fs_init`
and the user processes are all threads of the scheduler. `BlockIo` and
`UartWriter` therefore extend `Scheduler` and build their actions from its
operators, adding a program counter per thread. `UartWriter` also extends
`SpscRing`. `Heap`, `Memory`, `Storage` and `Files` need less of the scheduler: the
kernel is not preempted, so what they model runs between two switches. Only
`Storage` has threads, which lose the CPU exactly where a cache miss waits for the
disk; `BlockIo` shows that this wait ends and what its answer is, and `Storage`
takes that as its disk. `Files` takes the contents of the mounted volume as
given, which is what `Storage` is about.

## Modules

**`Scheduler`**: the state of `ThreadManager` (`threadTable`, `nextId`, `state`,
`readyQueue`, `inbox`), `CURRENT_THREAD` (`current`), where the hart is (`mode`),
the pending interrupts, and the trap setup (`stvec`, the trampoline frame `ttf`,
`context`). There is one action per function of `thread.rs`. A step is a stretch
of kernel code between two points where something else can intervene:
`yield_now`, for instance, is `YieldNow` (test of `sip`), an optional interrupt in
mode `"window"`, and `YieldRequeue`. `TakeInterrupt` is a trap into `dispatch_irq`;
a module conjoins it with its device's handler. `Next` is the most general
client: every thread calls every operation in any order, and handlers send, wake
or do nothing. What holds of it holds of every program of threads.
Saving and restoring registers is abstracted: a thread resumes where it stopped.
The frame's values are abstracted to whose values they are.

**`BlockIo`**: `pc[t]` says where thread `t` continues. `RequestReadBlock` and
`AwaitResponse` are `BlockDisk::read_blocks`; the `Dispatcher…` actions and
`IssueRead` are `dispatcher_main` and `issue_read`, cut at every `kprintln!`,
since printing is an urgent send and so a context switch. `request` is the static
`REQUEST`, `queue` the local `pending`. `DeviceCompletes` is the hardware
(external): it delivers the sector or fails, and raises the interrupt. The boot
is that of `kernel_main`: writer, `block_init`, `fs_init`, processes; the
dispatcher gets the next id when `block_init` creates it.
Abstractions: a mount attempt is one read; the disk has the partition that
`fs_init` mounts; the UART writer is its receive loop; system calls that neither
read the disk nor print leave the modelled state alone and are not shown;
`BadBuffers` names the threads whose buffers `validate_read_buffer` refuses, so
that the error path of `issue_read` is exercised (all buffers in the code are
valid today). A system call that `syscall::handle` does not know, such as exit,
leaves the process `"hung"`, as the code's `wfi` loop does with the whole hart.

**`SpscRing`**: the ring as a record of `buf`, `head`, `tail`, and its operations as
functions, with the code's index arithmetic.

**`UartWriter`**: writer thread (`WriterReceives`, `WriteChunk`,
`PushSliceBlocking`, `WaitForSpace`, `KickStart`), pump (`DrainRingToFifo`),
handler (`HandleIrq`, `NotifyTxReady`), printing threads, and a 16550 (external)
whose transmitter-empty condition is set when the FIFO runs empty or when the
interrupt is enabled on an empty FIFO, and cleared by reading IIR or writing a
byte. `received` and `out` are history variables. The two `push_slice_blocking`
calls of a turn of `write_data` are one slice: the ring is filled in the same
order and blocks at the same byte. `TX_ACTIVE` is left out, since it is stored and
never read.

**`HeapBlocks`**: the blocks of `LinkedListAllocator` at byte precision, as functions of the
allocator's state: `hdr` is the headers in memory by address, with `size`, `prev`,
`free_next`, `free_prev` and `used`; `tail`, `heap_end` and `free_head` are its fields. The
operators carry the code's names (`InsertAfter`, `RemoveFreeBlock`, `SplitTwo` and
`SplitThree` for the two cases of `split_block`, `DeallocAndCoalesce`). **`Heap`**: the search for
a fit (`FreeList`, `CheckAlignedFit`, `FirstFit`) and the actions `AllocFit`, `AllocGrow`
(with `grow_kernel_heap`, and its panics) and `Dealloc`. `live` is what callers hold.
A three-way split of a block that is not the last leaves a stale `prev`, and one whose remainder is
below `MIN_ALLOC_SIZE` leaves a gap without a header (`torn` is set by both). The heap runs on as the code does, until a header and a caller's bytes, or the bytes of two callers,
overlap; `NeverShared`, about the latter, is what `heap_split` shows to fail. The other
properties speak of the heap up to the tear. `alloc` and `dealloc` are single steps, in
interrupt handlers too (the completion handler boxes its message): no interrupt window opens inside them.

**`Allocator`**: what the heap promises. Its state is the allocations callers hold
and the end of the heap; `alloc` returns aligned bytes of the heap that nobody
holds, or fails (`AFail`), and then only when the pages left cannot hold the request and what
growth rounds it up by. `Heap` implements it until it is torn, under `held <- live, limit <- h.heap_end,
left <- spare * PageSize, failed <- panicked`; `heap_growth` is where `AFail` does not cover a panic.

**`DeviceTree`**: what a token that `traverse_dtb` meets does to the locals of
`collect_memory_map`; `compute_usable_regions` and the detection of the board.
**`PageTables`**: the free list of page runs, the three-level tables as functions
from page to entries, superpages, the walk, and `want`, a history of what was
asked to be mapped. **`Memory`**: `collect_memory_map`, a token at a time,
`InitPageAllocator`, `InitKernelMap`, `Spawn` (tables, segments, stack with its
arguments, trampoline), `Brk`, `Mmap`, `CopyOut` and `CopyIn` (a chunk per page, each with its own
walk), `GrowKernelHeap`. In the instance an
address counts half pages (`PageSize = 2`, so unaligned addresses exist) and tables
have eight entries, so that the corners of the address space lie where they lie
in the code. The expects of the code set `mem.ok` to `FALSE`, and nothing follows.

**`Lru`**: the cache's slots as a sequence, most recent first; `Touch`, and `Insert`
with its eviction around pinned slots. **`Ext2`**: `parse_mbr`, `block_to_sector`, the place of an
inode, and, as the reference, the volume as flat lists of blocks, bytes and entries.
**`Ext2Calls`**: a call as a record, and what ext2 does with it from one block to the
next: `Resolve` and `DoubleIdx` for the pointer blocks, `ReadLoop` and `CopyBlock`,
`DirStep`, `ReadInode`, the mount with its refusals (`AfterSuper`), and what an error becomes:
`Refused` is `NotFound` for a lookup, whatever the error (`backlog/ext2_lookup_error_mapping.md`
plans to change that), and `Failed` lets a mount go on without its journal. **`Storage`**: threads that mount, look up a name and read at an offset through
`CachedVolume::get_block`, `resolve_block_ptr`, `DirEntryIter` and the inode cache.
`th[t]` is the call in progress: which block it needs, what for, and the `Arc`s it
holds; `Step(t)` runs it from one disk access to the next. A block's bytes
are the place it was read from, so a byte from the wrong sector is seen. `get_block` reads
4 KB whatever the block size, so smaller blocks at the end of a partition are refused (`OnEdge`);
`ioerr` is a history of the disk having failed a read of this very call. Only regular files of the
root directory are opened, so the file-type tests of `lookup` and `read` always succeed and are left out.
When two threads miss on the same block, both copies stay in the cache (`LruCache::insert` does not
look for the key), while `backlog/cache-stampede.md` speaks of the second insert as one that
"overwrites the first thread's cache entry"; `StampedeBounded` bounds the copies.

**`Files`**: `InitRoot` unpacks the cpio archive into the ramfs (`insert_dir`,
`insert_leaf` with the parents they create), `MountProc`, `BlkdevRegister` and the three
`FsInit` actions change the mount table and the registries, `spawn_process` makes
a file table, and `openat`, `read`, `sys_write`, `newfstat`, `close` are the system calls,
with faulting buffers and disk errors as inputs. `vfs_lookup` and `cross_mount` follow
inodes, by file system and number where the code compares addresses: mountpoints are ramfs
inodes, which the tree keeps. `Names` is the reference, which only looks at path strings. `view` is a
history of what the calls told each process.

**`MC…`** modules give the constants their values. **`SchedulerProofs`**, **`UartProofs`**,
**`BlockIoProofs`**, **`HeapLemmas`** and **`HeapProofs`**, **`StorageLemmas`**,
**`StorageSteps`** and **`StorageProofs`** hold the proofs. **`FiniteSetLaws`** states, as
definitions, what they use of finite sets.
Definitions introduced by "Faulty variant" are the code with a plausible mistake; no
specification uses them. They record which mistake each property detects.

## Runs

| Run | Instance | Shows |
| --- | --- | --- |
| `scheduler` | 3 threads, 2 of them processes, 1 interrupt source, inboxes of 1 | `TypeOK`, `QueueExact`, `OneRunning`, `NoLostWakeup`, `NoSleepWithWork`, `TrapRouting`, `NoOvertaking` |
| `scheduler_live` | 3 kernel threads, fair | `ReadyRuns`, `MessageTaken` |
| `block_io` | SD driver, 2 processes with 2 reads each, 1 failing transfer, 1 reader with refused buffers, fair | `BTypeOK`, `OneAnswerPerRead`, `CompletionMatchesRequest`, `DmaOnlyWhileWaiting`, `OkMeansData`, `EveryReadReturns`, `BootCompletes` |
| `uart` | ring of 4, FIFO of 2, 2 printers with 2 messages each, fair | `UTypeOK`, `BytesInOrder`, `PumpArmed`, `SpaceHandshake`, `OutputDrains` |
| `heap` | 4 pages of 64 bytes and 3 to grow by, 3 allocations at once of 12 and 56 bytes, of a 34-byte DMA descriptor and of a page, 1 operation on a torn heap | `HTypeOK`, `Tiled`, `FreeListExact`, `GrowsOnlyWhenFull`, `ImplementsAllocator` |
| `memory` | 3 device trees, 2 programs, 2 processes, 3 system calls, 1 heap growth | `MTypeOK`, `FramesOwnedOnce`, `ReservedUntouched`, `WalkMatches`, `Isolated`, `ProcessImage`, `CopyLands` |
| `storage` | mount and 2 processes with 3 calls in all, 1 disk error, caches of 2, fair | `ReadDelivers`, `LookupFinds`, `StampedeBounded`, `CacheBounded`, `KernelYields` |
| `files` | 3 archives, 2 mounts, 2 processes with 4 calls in all | `LookupMatchesMounts`, `DescriptorsExact` |
| `heap_split` | as `heap`, 2 operations on a torn heap | `NeverShared` is violated: two callers get the same bytes |
| `heap_growth` | 2 pages and 3 to grow by, 12 bytes and 24 less than a page | `ImplementsAllocator` is violated: `alloc` panics with pages left |
| `preempt_doc` | 2 processes, fair | the documented preemption of user code does not exist |
| `virtio_status` | VirtIO driver, 1 process, 1 failing transfer | `OkMeansData` is violated: a failed read is reported as `Ok` |

The last four are disagreements between the code and what the repository says
of it:

* `kthread/user_process.rs:3` speaks of "preemptive scheduling of user-mode code".
  `trap_handler` returns to the interrupted program after every interrupt and
  there is no timer: a program without system calls keeps the CPU.
* `virtio_irq_handler` never reads the status byte of the request, so a failed
  transfer ends in `Ok(())`.
* `kernel_allocator/allocator.rs:14` says that `alloc` "returns properly aligned memory
  satisfying the layout, or null on failure". `split_block`'s three-way case shrinks the block
  before `insert_after` looks for its neighbour through its size, so the block behind keeps
  its old `prev` unless the split block was the last (`tests.rs:591` asserts the opposite, of heaps
  where it is the last). Freeing the block behind then merges it across the allocation between
  them, which is given out a second time. It takes an alignment above 8:
  `OrdinaryNeverShared` proves that without one nothing is ever shared.
* The same line: growth asks for header, alignment and size, and `check_aligned_fit` for one more
  header behind the allocation. When the last block is in use and the request leaves less than
  that in its page, `find_fit`'s `expect` panics, with memory to spare. `Served` is the condition on
  the layouts under which this does not happen.

### Bounds

*Threads.* Three are enough for the scheduler's cases: a running thread, one
that waits and one that is inserted before or after it; with two processes the
trampoline frame is overwritten by another process between two traps of the
first. The proofs remove this bound for the safety properties.
*Inboxes* hold one message in the general client (`MaxInbox`): enough to
distinguish empty from not empty, which is all the scheduler tests.
*Block reads.* The kernel has at most two concurrent readers (the two processes of
menu entry 2; `fs_init` is done before they start). Two reads each, two sectors and
a fault make an answer of an earlier read distinguishable from that of a later
one; `fs_init` repeats its read after a fault.
*UART.* A ring of four holds three bytes, and messages of 0, 2 (3 with the CR) and
5 bytes make it wrap at every position, fill up in the middle of a message, and
be drained by exactly, fewer and more than a FIFO's worth.
*Heap.* Three allocations are the fewest with an inner block between two others,
to be freed on either side, on both and on neither; the layouts split with and
without a remainder, at the block and behind it, and a page-aligned page forces
growth. `MaxWear` bounds the operations after a tear, in which headers end up anywhere: two
are enough for the overlap of `heap_split`, and `heap`, whose properties end with the tear, takes one. The
constants of the code (headers of 16 bytes, alignment 8) keep their values.
*Memory.* The trees have ranges that nest, overlap, touch, leave RAM and are not
aligned, and one machine is so small that memory runs out. Two processes are
enough for sharing. Three calls let `brk` and `mmap` grow what another call wrote to.
Assumed, as the code does: at most `MaxReserved` reserved ranges (beyond it `push`
drops them), programs whose segments lie on distinct pages.
*Storage.* Caches of two slots are smaller than what one call pins (the indirect
block, the directory's block and the one being fetched), so eviction meets
pinned slots; the file has direct, indirect and doubly indirect blocks, a hole, and
a block at the partition's edge, and a read of 10 bytes spans several of them; the directory has deleted, oversized and
zero-length entries. The partition ends below `LbaRange` (2^32 in the code).
*Files.* The archives list parents before, after and never, repeat a path and end
at the trailer or at a bad header; no file is the parent of another entry. Four calls
are enough to open, read past the end, close and reopen in the freed slot, with
a second process in between; fd arguments reach one past the table.

### Fairness

*`FairSpec`.* The hart does not stop in kernel code, takes a pending interrupt where
they are open, and every kernel thread gives the CPU up in the end (the loop of each
contains a receive, a yield, an urgent send or an exit). Nothing is assumed of
user programs, which is why `scheduler_live` has none and `preempt_doc` has.
*`BFairSpec`.* The hart runs, the device ends every transfer, and user programs make
another system call that reads or prints, in the end. The last is an assumption
on programs: without it the kernel starves, as `preempt_doc` shows.
*`UFairSpec`.* The hart runs, and the UART transmits and raises its interrupt.
*`Storage!Spec`.* A thread that has the CPU goes on, and the disk answers. Processes need
not call anything; `KernelYields` is about a call in progress.
Deadlock is checked in `scheduler`, `scheduler_live` and `uart`. It is not in
`block_io`: an unknown system call stops the hart there. `heap`, `memory`, `storage`
and `files` stop when the bound on calls is reached, and after a panic.

### Limits that the models show

* If the pending request that the dispatcher issues after a completion is refused,
  the requests behind it stay in the queue with no read in flight. It takes three
  concurrent readers and an invalid buffer, and the code has neither today.
  `BlockIo` with a third process violates `EveryReadReturns` in this way.
* If the partition table cannot be read, `block_init` exits and everything that
  waits for `KERNEL_READY` polls for ever. `BootCompletes` excepts this case.
* Urgent sends open no interrupt window. As long as threads only print, the ring is
  not drained and the writer's inbox grows; `OutputDrains` holds because a printer
  stops or yields in the end.

## Proofs

`SchedulerProofs` proves, for any number of threads, any set of processes,
payloads and interrupt sources (`ConstantsAssumption`: `MaxThreads` a positive
natural, `UserThreads` among the ids, `MaxInbox` a natural):

| Theorem | Statement |
| --- | --- |
| `TypeCorrect` | `Spec => []TypeOK` |
| `QueueIsExact` | `Spec => []QueueExact` |
| `OneThreadRuns` | `Spec => []OneRunning` |
| `WakeupsAreNotLost` | `Spec => []NoLostWakeup` |
| `IdleOnlyWithoutWork` | `Spec => []NoSleepWithWork` |
| `TrapsAreRouted` | `Spec => []TrapRouting` |
| `OrderIsKept` | `Spec => NoOvertaking` |

The inductive invariant `IInv` is the conjunction of the invariants and of two
facts they need. `FreshIds`: ids not yet allocated are in no table, so a new
thread's id is not in the queue. `TrapInv`: what `schedule` sets up for a process
stays right while it runs kernel code, and the kernel vector stays set in mode
`"woken"`; `TrapRouting` itself says nothing of these modes, from which user mode
and `wfi` are entered. The conjuncts depend on each other: a handler may
enqueue a target because `QueueExact` says that a Blocked thread is not in the
queue; a yielding thread may be enqueued because `OneRunning` says that it is
Running; `schedule` cannot fail because the queue holds live threads only. There
is one lemma per operation, which does not mention the client's bounds, so that
the modules that extend `Scheduler` can use it. `OrderIsKept` rests on a lemma that
says how each step changes the queue (same, tail, append, front and append).

`UartProofs` proves about `USpec`, for any ring and FIFO of at least one byte, any
messages and any number of printing threads (`RingAssumption`, `UartAssumption`):

| Theorem | Statement |
| --- | --- |
| `UartTypeCorrect` | `USpec => []UTypeOK` |
| `PumpIsArmed` | `USpec => []PumpArmed` |
| `SpaceIsSignalled` | `USpec => []SpaceHandshake` |
| `ConsoleQueueExact` | `USpec => []QueueExact` |
| `BytesStayInOrder` | `USpec => []BytesInOrder` |

The inductive invariant `UInv` adds to the properties the scheduler's `IInv`, the types
of the ring's fields, `Armed` (an enabled interrupt on an empty FIFO is about to
come, without which `PumpArmed` is lost when the last byte leaves) and `WriterLives`
(the thread that the handler wakes exists). The ring's part is in lemmas on
`PushSlice` and on the loop of `DrainRingToFifo`, which relate the modular indices to the
number of bytes held. For `BytesStayInOrder`, `BInv` adds that nothing is left of a slice
between two chunks and nothing of a message between two messages. What the ring
holds is a sequence, read off its array from `head` on (`Contents`); the lemmas say that a
push appends to it and a pop takes from its front, also where the array wraps. `OnTheLine`,
which converts newlines, is a recursive function; its laws (it distributes over
concatenation, and leaves bytes other than newlines alone) are proved by induction in
the form that a set of numbers with a counterexample has a least one (`LeastNat`, from
the library's `WFMin`).

`BlockIoProofs` proves about `BSpec`, for any number of processes,
sectors, reads and faults and any set of refused buffers (`BlockIoAssumption`: the
threads are those of `kernel_main` and at least one process, and messages are the
`BlockMessage`s of the code):

| Theorem | Statement |
| --- | --- |
| `BlockIoTypeCorrect` | `BSpec => []BTypeOK` |
| `EachReadIsAnsweredOnce` | `BSpec => []OneAnswerPerRead` |
| `CompletionsAreCredited` | `BSpec => []CompletionMatchesRequest` |
| `DmaTargetsWaiters` | `BSpec => []DmaOnlyWhileWaiting` |
| `SdOkMeansData` | `BSpec => []OkMeansData`, if `Driver = "sd"` |

`BInv` is the inductive invariant. Its centre is two ledgers. `Ledger`: for every
reader, the places where its read can be (a request in the dispatcher's inbox, in
its hand, in its queue, in flight, an answer being sent, an answer in the reader's
inbox) add up to one if it is inside `read_blocks` and to zero otherwise. `Transfer`:
the transfer in the device, the interrupt and the completion message add up to
one exactly if `REQUEST` is set, and the device works for that requester. They are
kept only because of the rest: `Mail` (who sends which message to whom, so that a
reader's `receive_message` cannot take something else), `Desk` (`REQUEST` is empty while
the dispatcher holds a request or an answer), `AwaitLive` (a waiting reader is in
the thread table, so that the answer is not dropped by `send_message`), `BootInv`
(nothing reads before the dispatcher exists, and its id is the one announced),
`UserPc`, and the scheduler's `IInv`. `RightSector` and `RightData` follow the sector and
the status along the same way; `RightData` is the part that needs the SD driver, since
the VirtIO handler reports `Ok` without looking (`virtio_status`). `BlockIoProofs`
first counts messages in sequences and shows that a step which touches no read keeps
`BInv`; then it takes the reader, the device, the interrupt handler, the dispatcher, the
boot and the processes in turn. `ReadsBound` is a
bound of the model (`MaxReads`), needed for the type of its counter.

`HeapLemmas` and `HeapProofs` prove about `Heap!Spec`, for any layouts, page size, heap size
and number of spare pages (`HeapAssumption`: alignments above 8 are multiples of 8 and
come with sizes above 8, as `alloc_within_page` and `BlockBuf` ask for; a page is a
multiple of 8 and holds a block; the heap starts on a page):

| Theorem | Statement |
| --- | --- |
| `HeapTypeCorrect` | `Spec => []HTypeOK`, until torn |
| `HeapTiled` | `Spec => []Tiled`, until torn |
| `HeapFreeListExact` | `Spec => []FreeListExact`, until torn |
| `HeapGrowsOnlyWhenFull` | `Spec => GrowsOnlyWhenFull`, until torn |
| `HeapImplementsAllocator` | `Spec => ImplementsAllocator`, for layouts that are `Served`, until torn |
| `HeapAllocationsApart` | `Spec => [](~torn => Promise!HeldApart)` |
| `OrdinaryNeverShared` | `Spec => []NeverShared`, if no alignment is above 8 |

The inductive invariant `HInv` says that, unless a split has torn the links, the heap is
in order for exactly the allocations callers hold (`HeapOK`): the blocks tile it
(`Tiles`); the free blocks can be listed from `free_head` along `free_next`, each once, with
`free_prev` as the way back (`FreeOK`); the used blocks are the allocations, and each is
large enough and aligned for its layout (`LiveOK`); no two neighbours are free
(`Coalesced`); and the blocks are finitely many (`Listed`). The free list of the model is
computed along the links, so `FreeOK` says instead that a listing exists, which
`insert_free_block` and `remove_free_block` keep by giving the new one; that the
computed list is that listing is shown with a least place where the two differ. Within an
operation the order is broken and repaired: `HeapCore` leaves out `Coalesced` between the
two halves of a split, and `Pending` describes `dealloc_and_coalesce` between its two
merges. Of a torn heap `HInv` says nothing but the types of the counters. A request of ordinary
alignment never splits three ways, so with such layouts only the heap is never torn, which is
`OrdinaryNeverShared`. That `alloc` fails only for want of pages needs `Served`: growth then always
leaves a fit.
`HeapLemmas` has one lemma per setter and per list operation, the splits, growth and
the merges of `dealloc_and_coalesce`; `HeapProofs` the search for a fit, one lemma per
action, the refinement and the theorems. `GrowsOnlyWhenFull` uses `Tiles` and `Coalesced` to find one
free block that fills the stretch between two used ones.

`StorageLemmas`, `StorageSteps` and `StorageProofs` prove about `Storage!Spec`, for any disk, partition
table, directory layout, cache capacities and set of processes (`Ext2Assumption`: the types
of the disk's structures, and directory records that follow one another;
`StorageAssumption`: finitely many processes, `fs_init` not among them, capacities and
bounds are numbers):

| Theorem | Statement |
| --- | --- |
| `StorageInvariant` | `Spec => []SInv` |
| `ReadsDeliver` | `Spec => []ReadDelivers` |
| `LookupsFind` | `Spec => []LookupFinds`, if the root directory is `Intact` |
| `StampedesBounded` | `Spec => []StampedeBounded` |
| `CachesBounded` | `Spec => CacheBounded` |

`Intact` excludes structural damage only: holes before used blocks, blocks beyond the
directory's length, records that leave their block, entries that name no inode. Deleted,
unnamed and overlong entries and records of length zero are covered. The instance of
`storage` satisfies it. In `SInv`, `Coherent` says that whatever the caches hold is what the
disk has at that place; `Calls` follows each call (`Job`): a read has delivered the bytes
up to where it is and is fetching the block, pointer block or pointer to a pointer
block of the next (`Aim`); a lookup has compared every entry before its place without
finding the name (`Seen`), and reads an inode only that the directory gives the name.
`Roles` and `Mounting` say who may do what before and after the mount; `Stampede` counts the
copies of a key in a cache together with the threads that are about to insert one.
`Coherent` is what makes eviction and stampedes harmless, and `Stampede` is why
`StampedeBounded` holds: alone it is not inductive. `StorageLemmas` says what the operators
of `Lru` and `Ext2Calls` do to a cache and to a call; `StorageSteps` holds the invariant; it and `StorageProofs` have a
lemma per action.

The lemmas that count have `CountingLaws` (of `FiniteSetLaws`) as a hypothesis. It is no
assumption of the theorems: each component's last module proves it (`Laws`) from the
library's theorems on finite sets, and the theorems cite that.

Only model-checked: all liveness properties (`ReadyRuns`, `MessageTaken`,
`EveryReadReturns`, `BootCompletes`, `OutputDrains`, `KernelYields`), which need fairness, of
which the prover knows nothing; and the properties of `Memory` and `Files`. The
operations of these two are folds over the tokens of a tree, the entries of an archive
or the parts of a path, so what each computes would have to be stated for prefixes
of any length and proved by induction, fold by fold; the provers have no induction of
their own, and the least-counterexample argument above is affordable for one function
and not for dozens. `OkMeansData` is proved for the SD driver only, since it is false of
the other.

## Not modelled

* Hardware state without control flow: SATP switches, cache maintenance, TLB fences,
  register contents, CSR constants, PLIC priorities, start-up assembly.
* Controller bring-up, register programming and DMA descriptors of the disk drivers.
  A transfer is one step of the device; the models begin where an interrupt can
  intervene. `start_write` is left out, since nothing calls it.
* Exceptions other than system calls: a store access fault goes to `amo::handle_amo_fault`, which
  carries out the atomic instruction on the process's memory and changes nothing else; every other one panics.
* The synchronous SBI console, received UART bytes (they are only printed) and the
  timebase: pure I/O.
* Byte formats: the encoding of the device tree's tokens, of ELF, cpio headers,
  superblock, inodes and MBR entries is parsing without state. The models
  begin at the fields.
* `readdir`, `seek`, `read_exact` and `read_to_string`, called by kernel code only; system
  calls that return a constant.
* Demos and the boot menu. Their threads are instances of the general client
  of `Scheduler` and of the printers of `UartWriter`.
* Three concurrent readers in `block_io`'s liveness: see the limits above.
