# SimpleOS: a verification project in TLA+

SimpleOS is a small x86-64 kernel in C with a UEFI boot loader. This directory
holds TLA+ modules that model the parts of it that carry state and can go wrong
in ways a test hardly reaches, TLC configurations that check them on small
instances, and TLAPS proofs of the central properties for every value of the
constants. `PROJECT.json` lists components, runs, mutants, the map from
definitions to source lines, the findings and the hazards.

Paths below are relative to `src/`.

## 1. The system

### Components, state and operations

| Component | Source | State | Operations |
|---|---|---|---|
| Scheduler | `kernel/proc/scheduler.c` | 32 ready queues, `ready_bitmap`, `sleep_queue`, `current_tick`, `idle_proc` | `scheduler_add`, `_remove`, `_yield`, `_sleep`, `_block`, `_unblock`, `_tick`, `_start`, `schedule` |
| Process table | `kernel/proc/process.c` | `MAX_PROCESSES` PCBs (state, priority, slice, wake time, links), `current_process` | create, exit, destroy |
| Interrupts, context switch | `kernel/cpu/isr.S`, `idt.c`, `pic.c`, `kernel/proc/context.S`, `kernel/drivers/timer.c` | interrupt flag, PIC in-service bit, the stacks of suspended threads | IRQ entry, dispatch, EOI, `iretq`, `context_switch` |
| Keyboard driver | `kernel/drivers/keyboard.c` | ring buffer with head and tail, modifier flags, 0xE0 flag | `keyboard_handler`, `keyboard_getchar`, `keyboard_read` |
| Physical memory manager | `kernel/mm/pmm.c` | page bitmap, `total_pages`, `used_pages` | `pmm_init`, `pmm_alloc_page(s)`, `pmm_free_page(s)` |
| Kernel heap | `kernel/mm/heap.c` | list of block headers, `heap_used_size` | `kmalloc`, `kmalloc_aligned`, `kfree`, `krealloc` |
| Shell line editor, history | `kernel/shell/shell.c`, `history.c` | line, saved draft, ring of entries, navigation position | keys: characters, backspace, up, down, return |
| Console | `kernel/kernel.c` | cursor, frame buffer | `console_putchar` |
| Shell commands | `kernel/shell/shell.c`, `kernel/kernel.c`, `kernel/net.h` | the line, `argv` | splitting, dispatch, `hexdump`, number formats |
| Virtual memory manager | `kernel/mm/vmm.c` | page tables, `kernel_pml4`, CR3, the TLB | map, unmap, create, switch and destroy address space |
| System calls | `kernel/syscall/` | registers and stack of the entry code | entry, dispatch, handlers, `sysretq` |
| GDT and TSS | `kernel/cpu/gdt.c` | descriptor tables | set up once |
| Boot loader | `boot/main.c` | memory map and its key, buffer, boot information, menu | load kernel, `ExitBootServices` and its retry, hand-over |
| Kernel start-up | `kernel/entry.S`, `kernel/kernel.c` | BSS, GDT, IDT, PIC, interrupt flag | the phases of `kernel_main` |
| Network drivers | `kernel/virtio_net.h`, `virtio.h`, `net.h`, `pci.h` | PCI device table, two virtqueues, buffers | scan, set up, send, poll, reply; included by no file |

### How they interact

* IRQ0 goes through `isr_common_stub` and `interrupt_handler` to
  `timer_handler`, which calls `scheduler_tick`; `schedule` may switch stacks in
  the middle of the handler. The EOI comes after `timer_handler`, hence after
  the preempted thread has been resumed.
* IRQ1 runs `keyboard_handler`, which fills the ring; `keyboard_getchar`, called
  by the shell in thread context, empties it. Neither side locks.
* `kernel_main` initialises the page allocator from the boot loader's map and
  gives the heap a fixed megabyte. Process creation takes stacks from the heap.
* The loader fetches the memory map from firmware that goes on changing it, leaves
  the firmware, and passes the map to `kernel_main`, which hands it to `pmm_init`.
* The virtual memory manager takes frames for its tables from the page allocator.
* A network driver shares descriptor tables and rings with a device that works
  concurrently.
* The shell reads keys, edits the line with `history_prev` and `history_next`,
  and writes to the console.

### What is hard

* Ready queues and sleep queue share the links inside the PCB, and
  `scheduler_remove` deduces from them where a process is. It is called for
  processes that are on no queue.
* A preemption leaves half an interrupt handler on a stack, and
  `context_switch` does not touch the interrupt flag.
* The scheduler's calls run with interrupts on, and `schedule` keeps its choice in
  a local variable while a tick may change everything around it.
* The firmware's memory map changes between the loader's calls.
* Frames run out in the middle of a page-table walk; the CPU caches translations.
* The keyboard's reader can be interrupted between any two of its accesses, and
  between its test for a key and its `hlt`.
* The heap and the page allocator keep redundant state (links both ways, sizes,
  counters, a bitmap) that every path must keep in step, `krealloc` included.
* Wrap-around: ring and virtqueue indexes, tick counts, rounded sizes, history positions.

## 2. The modules

| Module | Models | Run through |
|---|---|---|
| `Scheduler` | scheduler and process table at the level of the links | `MCScheduler` |
| `SchedulerProofs` | theorems about `Scheduler` (types and states; the queues) and `Preemption` | |
| `SchedulerRace` | `Scheduler` with ticks in the middle of a call | itself |
| `Preemption` | `Scheduler` composed with interrupt delivery, EOI and `context_switch` | `MCPreemption` |
| `Keyboard`, `KeyFifo`, `KeyboardProofs` | the driver; the bounded FIFO it promises; theorems | `MCKeyboard` |
| `Pmm` | the page allocator | `MCPmm` |
| `PmmSearch`, `PmmProofs` | `Pmm` with the nested loops of `pmm_alloc_pages`; theorems about both | `MCPmm` |
| `Heap`, `HeapProofs` | the heap's block list, with theorems | `MCHeap` |
| `Shell`, `LineEditor` | line editing and history as the code keeps them; the editor they promise | itself |
| `Command` | what the shell does with a line | `MCCommand` |
| `ShellProofs` | theorems about `Shell` and `Command` | |
| `Vmm`, `VmmProofs` | page tables, address spaces and the TLB, with theorems | `MCVmm` |
| `Boot`, `BootProofs` | loader, firmware and start-up of the kernel, with theorems | `MCBoot` |
| `VirtioNet`, `VirtioNetProofs` | PCI scan, virtqueues, and the device beside them, with theorems | `MCVirtioNet` |
| `Syscall` | the system call entry, instruction by instruction | itself |

An operator commented "Fault" is a deliberately faulty variant of the operator
after it. The specifications do not use it; `PROJECT.json` names the property
that must fail when it takes its neighbour's place.

### Scheduler

`k` is a record of the kernel's variables (`heads` = `ready_queues`, `bitmap` =
`ready_bitmap`, `sleepq`, `tick`, `current`, `idle`) and the PCB fields (`state`,
`prio`, `slice`, `wake`, `next`, `prev`). `Add`, `Remove`, `FindNext`,
`Schedule`, `InsertSleeper`, `WakeHead` and `ChargeCurrent` are the C functions
(or loop bodies) as operators from such a record to the next. A list walk is
the set of PCBs reachable through `next`; if it has no end the C loop never
terminates, which sets `hung`. The actions are the entry points. The wake-up
loop of `scheduler_tick` is one action per iteration (`irq = "wake"` keeps
everything else out, as the interrupt gate does). `deadline` is a history
variable: the tick a sleeper asked for, not wrapped.

Threads may make the calls in `ClientOps`. With `Contract`, `scheduler_block` is
applied to the caller, and `scheduler_unblock` and `process_destroy` to a process
that is blocked and not asleep. With `Alone` a thread sleeps or blocks only while no
other thread of its level is ready: `scheduler_remove`, called for the running
process, empties the ready queue of its level (the configuration `SchedulerSleep`, without
`Alone`), and the run with `Alone` shows that nothing else goes wrong.

### SchedulerRace

Splits `scheduler_yield`, `scheduler_sleep` and `scheduler_block` in two, up to the
choice of the next process and from there on; `picked` holds the choice of a call
that was interrupted until its process runs again. Ticks are as in
`Scheduler`. One interruption point per call is enough for the finding; a tick
between two stores of `scheduler_add` is not covered.

### Preemption

Adds `intFlag`, `inService` and `resume`: where each suspended process continues
after `context_switch` returns, in thread code or in the rest of the interrupt
handler. A switch made by `TickEnd` leaves "handler" behind; being switched back
to runs `EndOfHandler` (EOI and `iretq`).

### Keyboard

The handler runs through an interrupt gate and is one action. The reader's
program counter separates test, `hlt`, load and store. `wire` holds the bytes
the controller has not delivered; `held` the keys that are down. One letter, one
other printing key, one arrow key, one extended key without effect and one key
without character stand for their classes.

### Pmm and PmmSearch

`bitmap` is the set of used pages. `pmm_init` is one action per entry of the map,
then the reservation of the first 2 MB. `owned` records who holds what, and
`base` the pages marked at the end of `pmm_init`; both are history variables.
`Pmm` says that `pmm_alloc_pages` takes the lowest run that fits; `PmmSearch` has the
loops, which must return it on every bitmap the allocator reaches.

### Heap

`hdr` maps the address of each block on the list to its header; `req` maps a
block to the size its owner asked for; `ops` is the set of calls that clients use,
chosen once. Sizes are taken modulo `SizeMod` (2^64 in
the code). `Next` has the calls that keep the list sound, `FullNext` also growth
in place and `kmalloc_aligned`, which do not (see the findings).

### Shell

`buf`, `saved`, `saved_valid`, the history ring and `nav_pos` are the code's.
The cursor is a row, counted from the prompt's, and a column. `LineEditor` is the
promise: a list of the last entries without immediate repetitions, a line, and
the draft that comes back when one walks down past the newest entry. The
refinement mapping reads the ring from its start.

### Command

A line is a sequence of characters, cut up in place by writing `NUL`; `p` and `argv`
are positions in it, as the pointers are. Commands have names of one letter, and
those that only print are one action. A row of `hexdump` is a step. `ParseUint`,
`PrintHex`, `PrintDec` and `IpOctet` are the conversions, with numbers of `HexDigits` digits.

### Vmm

`mem` is the content of all frames read as tables, so that a table freed too early
is seen to be overwritten. `MapPage` is the walk with its allocations: it fails
where `free` has run out and leaves the tables linked so far. `Translate` is the
CPU's walk (external), `tlb` the set of translations it has cached, which `TlbFill`
adds to at any time, and `GetPhysical` is `vmm_get_physical`. `clients` holds frames
in other use, which come and go between calls.

### Boot

One action per call into the firmware, since the firmware's events (`FirmwareEvent`,
external) may change `types`, and with it the map and its key, between any two of
them until `ExitBootServices` succeeds. The map is copied as words, so that a size
that is too large or an entry size that differs has the effect it has in memory. `Startup`
lists the phases of `kernel_main` in order; `cpu` records GDT, IDT, the PIC's offset
and masks, and the interrupt flag.

### VirtioNet

`rx` and `tx` are the queues, with descriptor table, free list and rings. `Driver` is the
driver's thread, with a step for each point at which the device can see a difference: a
buffer taken from the used ring, copied out, queued again, published. `virtio_net_init`
leaves the queues out ("skip queue setup for now"); `SetUpQueues` stands for the
calls it would make. A kind of frame says whether the reply it asks for fits a frame. `pc = "wild"` stands for a `net_poll` that has accessed memory
out of bounds, which happens in two places and is not followed further (section 5).

### Syscall

`Code` is the entry code as a sequence of instructions on registers and a stack;
`Step` executes one. `syscall_dispatch` with its handlers is one step that records what it was
called with (`call`) and leaves junk in the registers that C may use.

## 3. What the runs check

### Runs that pass

| Run | Instance | What it shows |
|---|---|---|
| `Scheduler` | 3 threads and idle, 2 levels above idle, all calls, 3 ticks, delays 0 to 2 | bitmap, queues and states agree; no process and no sleeper is lost; dispatch is by level; sleepers wake on time and not early |
| `Preemption` | 3 threads on 2 levels that yield, sleep and block | at most one process owes the EOI, and it can be dispatched; a ready thread of the best level runs (liveness), except when idle halts with interrupts off |
| `Keyboard` | ring of 3, Shift, Ctrl, two extended keys and a printing one, reads of up to 2 | the ring implements the FIFO under every interleaving; flags follow the keys; a blocked reader is served (liveness) |
| `Pmm` | 9 pages, 2 reserved, runs of up to 3, four maps and the rejected one | bitmap, count and ownership agree; only usable memory is handed out; the skipping search finds the lowest run |
| `Heap` | arena of 36 bytes, header of 4, alignment 2, sizes 0 to 12, clients that shrink blocks and clients that do not | tiling, disjointness, room for every request; without shrinking, coalescing |
| `Shell` | 3 entries, lines of up to 2 of 2 characters, no wrap | implements `LineEditor`; the cursor is at the end of the line |
| `Command` | every line of up to 5 of 5 characters, lines of up to 4 words, and dumps with every pair of numbers of up to 3 characters | words are cut out undamaged; numbers are read as they are printed; a dump covers what was asked for |
| `Vmm` | 8 frames, tables of 2 entries, 3 pages that share tables, one space, one other client, firmware with and without tables | no frame leaks or has two uses, also when a walk runs out of frames; only the page mapped moves; spaces share the kernel's upper half as it was; the TLB is right |
| `Boot` | 9 pages, 3 firmware events at any time, every allocation may fail | the kernel gets a current map, however the attempts went, in a page that is still the loader's and not the kernel's; the buffer holds it; no interrupt comes before its handler |
| `VirtioNet` | 4 descriptors, indices modulo 8, 3 receive and 2 transmit buffers, 9 frames of 3 kinds, 6 buses | descriptors are neither lost nor shared; received frames are neither lost, repeated nor reordered; what is transmitted is the frame whose turn it is or a later one, and the last two wait intact |

### Runs that end in a violation

Each contradicts a line of the repository that the finding in `PROJECT.json` quotes.

| Run | What the code does |
|---|---|
| `SchedulerRace` | a call of `schedule` that was preempted after its choice dispatches a process that has gone to sleep since |
| `SyscallArgs` | every system call handler gets the call's number as its first argument |

### Further configurations

TLC finds every property in this table violated. Run a configuration that has several of
them with `-continue -workers 1`, which reports each. (`SyscallReturn` also has
`UserStateRestored`, which holds: stack, instruction pointer, flags and callee-saved
registers are restored on the way back.)

| Configuration (module) | Property | What the code does, and what the repository says |
|---|---|---|
| `SchedulerSleep` (`MCScheduler`) | `NoLostProcess` | a thread that sleeps empties the ready queue of its level; `scheduler.c:65`: "Remove process from ready queue" |
| `PreemptionIdle` (`MCPreemption`) | `BestReadyRuns` | idle, first entered by a preemption, halts with interrupts off for ever while a thread is ready |
| `PmmFurther` (`MCPmm`) | `HeapUntouched` | pages of the heap are handed out; `README.md:208`: "Kernel Heap (1MB)" |
| `HeapGrow` (`MCHeap`) | `NoOverlap` | growth in place leaves the next header inside the payload |
| `HeapFurther` (`MCHeap`) | `Tiled` | `kmalloc_aligned` overwrites its own header's `prev` |
| `SchedulerIdle` (`MCScheduler`) | `NoLostProcess` | `schedule` removes idle as if it headed the queue of level 31 and drops a thread of that level; `scheduler.h:3` offers "32 priority levels" |
| `SchedulerIdle` (`MCScheduler`) | `IdleNeverQueued` | idle is queued when switched away from; `scheduler.c:122`: "Don't add to ready queue - it's special" |
| `SchedulerIdle` (`MCScheduler`) | `IdleOnlyWhenNothingReady` | idle is dispatched while the thread that yielded is ready; `process.c:15`: "runs when no other process is ready" |
| `SchedulerIdle` (`MCScheduler`) | `DispatchHighest` | a preempted thread gives way to one of a worse level, since `next` is chosen before it is queued |
| `SchedulerSleep` (`MCScheduler`) | `NoEarlyWake` | `current_tick + ticks` wraps for a very long sleep, which ends at the next tick |
| `KeyboardFurther` (`MCKeyboard`) | `ModifiersTrack` | releasing one Shift key clears the flag while the other is down |
| `KeyboardFurther` (`MCKeyboard`) | `CtrlGivesControl` | with Caps Lock on, Ctrl and a letter give the letter; `keyboard.c:175`: "Ctrl+A = 1, etc." |
| `PmmFurther` (`MCPmm`) | `WithinTotal` | after a rejected map the bitmap is all zero, which means all free |
| `HeapFurther` (`MCHeap`) | `RequestHonoured` | rounding a size near the largest `size_t` gives 0, and an empty block is returned |
| `ShellWrap` (`Shell`) | `CursorFollowsLine` | backspace does not go back over a line wrap |
| `CommandIp` (`MCCommand`) | `OctetIsDecimal` | `ip_to_string` writes 101 as 11 |
| `VmmFurther` (`MCVmm`) | `UpperHalfShared` | a PML4 entry the kernel adds later is missing in address spaces; `vmm.c:207`: "Copy kernel mappings (upper half)" |
| `VmmFurther` (`MCVmm`) | `KernelStaysMapped` | an address space lacks the lower half, in which the kernel runs |
| `VmmFurther` (`MCVmm`) | `GetPhysicalExact` | `vmm_get_physical` takes a huge page for a page table |
| `BootFirmware` (`MCBoot`) | `NoOverrun` | with too little slack the retry overruns the buffer it keeps |
| `BootFirmware` (`MCBoot`) | `StoresOwn` | the BSS is cleared in pages nobody allocated |
| `BootFirmware` (`MCBoot`) | `PmmMatchesFirmware` | `pmm_init` ignores `mmap_entry_size`; `bootinfo.h:12`: "matches UEFI format" |
| `BootLoader` (`MCBoot`) | `PmmMatchesFirmware` | with entries of the right size: a map of more entries than `pmm_init` accepts leaves the bitmap cleared, that is every page free |
| `BootFirmware` (`MCBoot`) | `InterruptsServed` | nobody turns interrupts off on the way; `entry.S:9`: "Interrupts disabled" |
| `BootLoader` (`MCBoot`) | `KernelWhereLinked` | the kernel is loaded and entered elsewhere when 1 MB is taken, as on a second attempt; `kernel.ld:3`: "can be loaded at any address" |
| `BootLoader` (`MCBoot`) | `NoReturn` | two failures of `ExitBootServices` lead back to the menu; `main.c:195`: "point of no return!" |
| `BootLoader` (`MCBoot`) | `TotalKnown` | without a map the menu divides by a total of 0 |
| `VirtioFurther` (`MCVirtioNet`) | `TxReclaimed` | sent descriptors are never taken back; `virtio_net.h:267`: "No free buffers" |
| `VirtioFurther` (`MCVirtioNet`) | `TxIntact` | with fewer buffers than descriptors a buffer is overwritten; `virtio_net.h:270`: "Find free TX buffer" |
| `SyscallReturn` (`Syscall`) | `UserSegments` | `sysretq` loads the TSS's selector as CS; `syscall.c:54`: "User CS = 0x18 \| 3 = 0x1B" |

The following hold as well. They are smaller than what the runs check and follow from it or
back it; to check one, add it to the run's cfg.

| Run | Properties |
|---|---|
| `Scheduler` | `NoHang` (no walk of a list is endless), `SleepQueueSorted` |
| `Keyboard` | `TypeOK`, `GetFindsChar` (the ring is not empty after the reader's test) |
| `Heap` | `TypeOK`, `FreeMeansUnowned`, `UsedExact`, `FirstFit` |
| `Shell` | `TypeOK` |

Shrinking with `krealloc` neither takes the part split off from `heap_used_size` nor
joins it with a free block after it; `UsedExact` and `Coalesced` say so in their
premise.

### Bounds, and why they are enough

* *Scheduler.* Three threads are what it takes for a queue with a head, a middle
  and a tail, or for a running process with two others queued. Two levels
  above idle's let threads share a level and differ in it. `MaxTick` bounds time: a
  sleep of 2 ticks can begin at any of the first two, beside others. In `Preemption`, `TickMod = 1`
  lets the ticks go on for ever, which liveness needs: every sleeper is then due at
  the next tick. `SliceBase = 0` keeps slices short.
* *Keyboard.* A ring of 3 wraps, fills and empties; two characters tell order,
  loss and duplication apart.
* *Pmm.* The maps have overlapping, unusable, low and out-of-range regions; runs
  of 3 in 7 pages leave holes of every size.
* *Heap.* Sizes include 0, odd ones, and ones that leave a remainder just above
  and just below what can be split off; the arena holds up to four blocks, which
  covers joining on both sides with a neighbour beyond. Alignment and header are
  scaled down (2 and 4 for 8 and 32); the proofs do not depend on them.
* *Shell.* The history of 3 wraps; lines of 2 suffice for a full buffer and an
  edit after a recall.
* *Command.* Every combination of spaces, words and commands, with lines that have one word
  more than `argv` holds; addresses of 2 hexadecimal digits, so that a dump can reach
  the end of memory.
* *Vmm.* Two pages share their first table and one does not, so that a walk needs
  from zero to three new tables and 8 frames can end at each of them.
* *Boot.* The map has up to nine entries and changes up to three times, which is
  enough to spoil both attempts and the size fetched before each. `Slack` is 3
  entries for 16: the run shows that what slack covers is safe, `BootFirmware` what happens
  beyond. `MaxEntries` is 6 for 256, so that some maps are refused; one page lies beyond the bitmap.
* *VirtioNet.* Nine frames through three buffers wrap the rings and all indices of the receive
  queue. The indices of the transmit queue never wrap, in the run or in the code: its descriptors are not
  taken back, so that one less than its size are ever used. Two buffers for three sends mean that one is filled again
  while the device may not have read it. `FreeListCorrect`, `RxCorrect` and `TxCorrect` cover all other sizes.
* *SchedulerRace.* One thread per level, so that what `SchedulerSleep` shows is out of the way.

Deadlock is checked except where the system may stop: where time is bounded by
`MaxTick`, and where the heap has nothing left to hand out or give back in the calls of the run.
`Boot` and `Command` end in a state of their own, in which they stutter.

### Fairness

* `HardwareFairness`: a pending IRQ0 is delivered when the flag and the PIC let
  it, and the handler, which cannot be interrupted, goes on.
* `YieldFairness`: the threads in `kernel.c` call `scheduler_yield` in their
  loop. Without it a thread first entered by a preemption could run on with
  interrupts off.
* `Keyboard`: the CPU executes the reader (`WF` of `ReaderStep`) and the timer
  keeps interrupting a halted CPU. No fairness of the user or of IRQ1 is assumed.
* `VirtioNet`: somebody goes on calling `net_poll` (`WF` of `Driver`), which only
  `TxReclaimed` needs; the device need not do anything.

## 4. What is proved

The proofs hold for every value of the constants allowed by the named
assumptions of the modules; a theorem that needs more says so in its `ASSUME`.

### Scheduler

`SchedulerProofs` has `TypeCorrect` and `RunningCorrect`, for any calls, with or
without `Contract` and `Alone`. The two are proved together: the invariant is
the type of the record and "every process marked RUNNING is the current one".
Each operator has a lemma that it keeps a typed record typed and what it does to
states. No list needs to be well formed for that; the lemmas hold for cyclic and
spliced queues as well.

It then proves what the run `Scheduler` checks of the queues, for any number
of processes, levels, ticks and delays: `BitmapCorrect`, `QueuesCorrect`, `ReadyCorrect`,
`SleeperCorrect`, `WalksCorrect` (the sleep queue is sorted and no walk is endless),
`DispatchCorrect`, `WakeCorrect` and `SleepCorrect`. All assume `SafeUse`, which is exactly
what the run assumes and what the findings show to be needed:

* `Contract`, the callers' side of `scheduler_block`, `_unblock` and `process_destroy`;
* `Alone`, since a thread that waits while others of its level are ready empties
  their queue (`SchedulerSleep`);
* the idle process could be created (`IdleOutcomes`);
* no thread asks for idle's level (`SchedulerIdle` shows what happens then).

`SleepCorrect` also assumes `NoWrap`: no wake time reaches `TickMod` (2^64 in the code). The
instance of the run satisfies all of it.

None of these properties is inductive; the invariant `QInv` puts them together (`Core`: bitmap, queues,
sleepers, nobody lost) and adds what each needs of the others: processes that run and an
idle process off its queue have no links (`LooseOf`), without which `scheduler_remove` would take them for the
head of a queue; idle has its level to itself (`IdleOf`); exactly the sleepers have a deadline. `Core(s, e)` also describes
the states in the middle of a call, in which the process `e` is on no queue. The members of
a list are the smallest set that is closed under `next` and holds the head, so that what an
operation does to a list is shown with closed sets and needs no induction
over the list; lists that share the links are kept apart by state and level. There is one
lemma for what each operation does to the members of every list, then one for each action.

### Preemption

Also in `SchedulerProofs`. `EoiCorrect` needs nothing of the threads: the invariant `EoiInv` adds to
`EoiOwedByOne` what holds inside the handler (nobody owes an EOI beside the handler that runs,
interrupts are off) and that the holder is not the current process and its slot not unused. `EoiHolderCorrect` combines it with `QInv` under `SafeUse`:
the holder was preempted, hence READY, and what makes a process anything else than READY is
applied to the current one or to blocked ones.

### Keyboard

`FifoCorrect`: every step of the driver is a put, a get or a stutter of `KeyFifo`, for every size of the ring.
Its invariant says that what `keyboard_available` saw still holds when the
reader goes on, and that the slot loaded is not overwritten before the tail moves
(`GetCorrect`); the handler only moves the head and never up to the tail.
`ModifiersCorrect` follows one key event over the wire: while its bytes are under way the flags are
those of the keys held before. It assumes that the keyboard has not both Shift keys, since
`KeyboardFurther` shows that one flag does not do for two.

### Physical memory manager

`CountCorrect` needs nothing of the callers. It rests on `BitsCounted`:
setting or clearing bits changes the cardinality by the number of bits that were
not, or were, set. `BitmapCorrect` and `OwnershipCorrect` share the invariant `Exact`
(the bitmap is the disjoint union of `base` and of the blocks owned, which are
pairwise disjoint), for callers that free what they own (`Contract`).
`UsableCorrect` adds what the scan of the map has established so far
(`ScanSound`): a page marked free so far is usable in an entry already read.
`SearchCorrect`: the loops of `pmm_alloc_pages` (in `PmmSearch`), which go on behind the page in use that
ended an attempt, return the lowest run that fits, since every start they skip has that page in its run.

### Heap

`HeapCorrect` (types, tiling, disjointness, marks), `TilingCorrect`, `RequestCorrect`
(if `n + Align <= SizeMod` for the sizes asked for) and `CoalesceCorrect` (for clients
that do not shrink blocks). The invariant `Sound` strengthens tiling and disjointness by the backward
links: `coalesce_blocks` follows `prev` and then writes through `next`. One lemma per
list operation (mark, split, absorb, coalesce) says it keeps any list sound; the
actions combine them. The proof covers kmalloc, kfree, and krealloc that shrinks or
moves; growth in place and `kmalloc_aligned` break the list.

### Shell and its commands

`TypeCorrect`, and with it `EditorCorrect`: the ring implements `LineEditor` for every
capacity. The ring is compared with the abstract list through `View`, the entries from the start on;
`ViewAppend` and `ViewShift` are the two ways `history_add` changes it.
`CursorCorrect` assumes that the longest line fits the prompt's row (`Prompt + MaxLen < Columns`), which on
the real screen it need not (`ShellWrap`); `CursorStepCorrect` says without any such
assumption what does hold: the cursor follows every key pressed while the line ends in the
prompt's row, even if the new line is longer than that.

`WordsCorrect`, for lines of any length and an `argv` of any size: `WordsInv` says that the buffer differs from the
line typed only at spaces before the position reached, now zeros, and that every word of `argv` ends before it. So
the next search for a word starts in text that is still as typed, and no later cut falls into an earlier
word. `DumpCorrect`: `DumpInv` says that the offsets printed are those below `len` that the loop has passed. It
needs that `parse_uint` returns a natural number, and no more of what it computes.
`NumbersCorrect`: for numbers of any width, `parse_uint` reads back what `print_hex` and `print_dec` write. The sums that
`parse_uint` builds up on the way are what the printing loop has left after each division, from the last to the first
(`Reads`), so none of them reaches `W` and the reduction modulo `W` does nothing; skipped leading zeros stand for a
remainder of 0, and a decimal number never looks like `0x`. The powers of 16, the divisions and the sums are recursive
functions; `IterExists`, `SumExists` and `WritesExist` show that such functions exist, by the least number for which one
would not.

### Virtual memory manager

All four theorems of `VmmProofs` share the invariant `VInv`: there is a level for every frame, 0 for frames that are not
tables of the kernel, such that an entry of a table leads to one a level below, none to the root, and no two entries to the same table;
free frames, those of clients and address spaces are apart from the tables and from each other; an address space has zeros or the kernel's own entries in the upper half; the TLB holds what
the tables say. The levels are under an existential quantifier: a step that links a new table gives its frame a level. The walk of
the code, that of the CPU and a walk written out as four look-ups (`Walk4`) are shown to agree on such trees, and
a new entry in one place to change the walk of one page only.

* `FramesCorrect`: no frame leaks or has two uses, also where a walk ran out of frames. The count of entries
  follows from a bijection between entries and tables below the root.
* `TargetCorrect`: no step moves a page of the kernel's but the one it maps or unmaps.
* `SpacesCorrect` and `TlbCorrect`: address spaces and cached translations agree with the kernel's tables.

All assume `SoundFirmware`: the tables the firmware leaves in CR3 form such a tree and have no huge pages. With huge pages
`vmm_get_physical` and `vmm_map_page` take a page for a table (`VmmFurther`). TLC evaluates the
assumption for the instance of the run (`OnePageSound` in `MCVmm`).

### Boot

`MapCorrect`: the invariant `KeyInv` ties the words in the buffer to the firmware's key. The key fetched is never
ahead of the firmware's, every change of the map makes it stale, and if it is current when the loader is
about to call `ExitBootServices`, words and entry count are those of the current map. `InterruptsCorrect`: each phase of
`kernel_main` establishes its part of the tables and the later ones leave it alone, and the
flag is set last. It assumes that the firmware hands over with interrupts off (`~FirmwareIf`), which nothing in the
code ensures (`BootFirmware`).

`RoomWhileFew`: the map fits the buffer as long as `2 * events + 2 <= Slack`, where `events` counts what the
firmware did so far: an event or the allocation of the buffer splits at most one region in three (`MapGrows`). The 16 entries of
slack in `main.c` thus cover 7 events. `BufferCorrect` is the same with the bound on events.

`MapKept`: the kernel runs with its image and the map in two pages that are still the loader's, for every layout and however many
attempts were given up. The invariant `HeldInv` says so of each page from its allocation on, until the attempt that
allocated it is given up: firmware events and later allocations only take pages that are free. Nothing is proved of what
`pmm_init` makes of the map. That depends on the length of the firmware's descriptors, of which the kernel assumes that it is
that of its own entries (`BootFirmware`).

The map is a recursive function of the memory's pages. What is needed of it (`MapShape`, `MapLength`, `MapGrows`) is
proved by the least page at which it would fail (`LeastNatural`), in place of induction.

### VirtioNet

The ring indices wrap, and the invariant `NInv` is stated with counters that do not: the numbers of buffers
made available, used by the device, and taken back, which are in this order and never further apart than the queue is long.
Slot and index of a ring are such a counter modulo its size and modulo `IdxMod`, and counters so close together can be told apart by
them. `NInv` says which descriptor stands in which slot and that
those under way and those on the free list are a permutation of all.

* `FreeListCorrect`: for every queue size, both queues share their descriptors between free list and rings, each exactly once.
* `RxCorrect`: received frames are processed in order, once, and undamaged.
* `TxCorrect`: for every queue size and any number of buffers, what is transmitted in each place is the frame that was sent in that
  place or a later one, and the last `TxBuffers` frames wait intact. `TxFresh` says the same of every buffer still to be
  read: it was filled in its turn, and again only for a later frame.
* `TxBehind`: as long as the device is never more than `TxBuffers` frames behind (`KeepsUp`), it sends exactly what it was given, in
  order. The code has 16 buffers and takes the size of the queue from the device, which is often 256, and nothing
  keeps the driver from going further ahead; `VirtioFurther` shows what happens then.

### What is only model-checked

* Liveness (`OnlyIdleStarves`, `GetcharReturns`, `TxReclaimed`): fairness is out of the prover's reach.
* `UsedExact` of the heap, which no run lists: it is a sum over a set, by a fold.
* `SleepLasts` and the properties of `Syscall` and of the further configurations: they are violated, or belong to
  a finite instruction sequence that TLC runs through entirely.

## 5. Not modelled, and why

* A tick between two stores of `scheduler_add` or `scheduler_remove`; `SchedulerRace`
  interrupts a call at one point only.
* `boot/graphics.h`, `font.h`, `efi.h` and the drawing in `boot/main.c` and `kernel.c`: pixels,
  glyphs and declarations of the firmware's tables. Of the drawing, only the
  division that may fault is in `Boot`.
* Exceptions (they print and halt), the PIT's divisor, and the base, limit and access
  bits of GDT entries and the TSS.
* Checksums, byte order and field layouts of `net.h`; the virtio device's registers
  beyond what `virtio_net_init` decides on.
* In `VirtioNet`, what follows an access out of bounds. A `net_poll` before the queues are set up reads the used
  ring's index through a null pointer (`virtio_net.h:165`; `RecvTooEarly`). `net_send_ping_reply` takes the length of the
  payload from the request's `total_len` and copies that much into a local array of one frame (lines 434, 457 to 459,
  503 and 504); the check of `virtio_net_send` (line 262) comes after the copy (`AfterDrop`). In both places the model lets the
  driver go on as if nothing had been damaged, or stop; the properties speak of the states up to there.
* What commands other than `hexdump` print. Stacks, names and pids of processes, and
  the bytes callers keep in memory: no property depends on them.
* Page flags other than present and huge. (`& ~0xFFF` in `vmm.c` would keep `VMM_NX`, bit 63 of an
  entry, in the address; no caller sets it.)
* The repository's own state: `kernel_main` starts neither the scheduler nor
  `vmm_init` nor `syscall_init`, and no file includes the network headers. The modules
  take these components as their interfaces say they are used.
* In `kmalloc_aligned`, a pointer other than the one `kmalloc` returned cannot be given
  to `kfree`; no property is stated of that beyond the finding.

## 6. Plan

Done: all modules of section 2 and the theorems of section 4, which state every invariant and every property without
fairness of the passing runs. In the models, `SchedulerRace` could split `scheduler_add` and `scheduler_remove` further.
