# A TLA+ model of the Pintos kernel

This directory models the kernel under `src/pintos/src` in TLA+, checks it with TLC on small
instances and proves theorems about it with TLAPS. Line numbers are those of the files under
`src/pintos/src` unless a path says otherwise.

`PROJECT.json` lists the components, the runs, the source lines of each definition, a mutant for
each property (a plausible bug that TLC must find), the findings, the hazards and the theorems.

## 1. The system

Pintos runs on one CPU. A thread runs until it blocks, yields, exits or is preempted. Preemption
comes from an external interrupt, and only while interrupts are on. A stretch of kernel code with
interrupts off is therefore atomic, and everything between two such stretches can interleave with
other threads.

| Component | State | Operations | Interacts with |
|---|---|---|---|
| Scheduler (`threads/thread.c`) | `ready_list`, `status`, `priority`, `thread_ticks` | create, block, unblock, yield, exit, set priority, idle, tick | every component that blocks |
| Feedback queue scheduler (`thread.c`, `fixed-point.h`) | `nice`, `recent_cpu`, `load_avg` | recalculation on ticks, set nice | scheduler, timer |
| Alarm clock (`devices/timer.c`) | `ticks`, `sleep_list` | `timer_sleep`, `timer_interrupt`, calibration, busy delays | scheduler |
| Interrupts (`threads/interrupt.c`) | handlers, `in_external_intr`, `yield_on_return` | register, enable, disable, dispatch | scheduler, devices |
| Synchronization (`threads/synch.c`) | semaphores, locks, donations, condition variables | down, try, up, acquire, release, wait, signal, broadcast | scheduler |
| Lists, hash tables, bitmaps (`lib/kernel`) | their elements | insert, remove, search, sort, scan, flip | all of the kernel |
| Page allocator (`threads/palloc.c`) | two pools, each a bitmap and a lock | get, free | threads, malloc, processes |
| Block allocator (`threads/malloc.c`) | descriptors, arenas, free lists | malloc, calloc, realloc, free | page allocator, locks |
| Interrupt queues, input, serial, keyboard (`devices`) | ring buffers, interrupt enable register | putc, getc, interrupt handlers | scheduler, console |
| Console (`lib/kernel/console.c`), screen (`devices/vga.c`) | lock and nesting depth; cursor and rows | write | serial, interrupts |
| Disk and block layer (`devices/ide.c`, `block.c`, `partition.c`) | channel lock, `expecting_interrupt`, completion semaphore | read, write, interrupt | file system |
| File system (`filesys/`) | open inodes, free map, directories, files | create, open, read, write, remove, close | disk, allocators |
| Panic (`lib/kernel/debug.c`, `devices/shutdown.c`) | `level`, `how` | `debug_panic`, `shutdown` | console |
| Processes (`userprog/`) | page directory, executable | execute, load, exit, page fault | scheduler, file system |
| Start-up (`threads/init.c`) | order of initialisation | `pintos_init` | all of them |

What is hard about this system is listed as `hazards` in `PROJECT.json`, at the line where each
one bites. In short: code that runs with interrupts on between two atomic stretches (a lock is
taken before it has a holder, a condition is released before the wait begins); list elements
shared by several lists; lists kept sorted by keys that change; a wake-up loop that stops at the
first entry; chains of donations; limits of buffers and pools; and storage used after its owner
has gone.

### What should hold of each component

* Scheduler: each thread is in exactly one place; the highest priority runs; equals take turns.
* Alarm clock: nobody is woken late, everybody is woken.
* Semaphores: no wake-up is lost. Locks: mutual exclusion, exact donation, interrupts come back.
  Condition variables: no signal is lost.
* Allocators: no page or block is handed out twice, and what is freed can be used again.
* Interrupt queues: a bounded FIFO; nobody waits while there is something to do.
* Disk: one command at a time, each completed by its own interrupt; an atomic store of sectors.
* File system: free map and inodes agree, a removed file lives until its last close, failed
  operations leave no traces.
* Processes: every page has one owner, the active page directory is alive, the segments are mapped.
* Interrupts and console: interrupts are acknowledged, handlers never sleep, output does not mix,
  a panic ends.
* Library: the data structures are what they represent; the functions compute what they should.

## 2. The modules

**PintosList** has the operations of `list.c` that the kernel's queues need. A list is the sequence
of its elements.

**Threads** models `thread.c`, the alarm clock of `timer.c` and the external interrupt that drives
both, for the priority scheduler. `Mlfqs` and `Process` cover the rest of `thread.c`.

* `pc[t]` is where thread `t` is between two atomic stretches. Only `running`, or the handler that
  interrupted it (`in_external_intr`), takes a step.
* `schedule(ready, stat)`, `thread_yield` and `thread_block` are the functions of `thread.c`. Their
  arguments are the run queue, statuses and priorities that the caller has just assigned.
* `timer_sleep` keeps `wakeup_time - ticks` in the list entry, so the model needs no clock.
* The interrupt is three kinds of step with interrupts off: `TimerInterrupt` (one more tick), one
  `WakeSleeper` for each round of the loop, and `InterruptReturn` (`thread_tick`, and the yield).
* `thread_exit` frees the page of a dying thread in the same step, since `thread_schedule_tail`
  does so before interrupts come back on. The initial thread's page stays (`DYING`).

**Synch** extends it with `synch.c`.

* A lock and its semaphore have one name. A thread names the `semaphore_elem` it puts on its stack
  in `cond_wait`.
* `lock_acquire` is split where interrupts are on or where it may block: the test of `holder`, one
  `PropagateDonation` for each round of the donation loop (interrupts off), the `sema_down`, and
  the assignment of `holder`. `lock_release` is split before its `sema_up`.
* `sema_up` yields at its end in all cases, as the code does.
* A thread does not exit while it holds a lock, and acquires locks in the order `Rank` if
  `Ordered` holds. Both are conditions on the callers.

**Mutex** is the abstract lock: an owner or none. `Synch` implements it under the mapping `owner`,
the thread that is between its `sema_down` and its `sema_up`.

**Intq** has the ring buffer of `intq.c` as operators, **Serial** the serial driver and the input
buffer that use it.

* The 16550A is external: `PortSends` empties the holding register, `PortReceives` fills the
  receive register. `Ier` is what `write_ier` computes.
* A caller that waits is split as `wait` and `signal` split it: registered, blocked, woken, and
  again at the test of the loop. Code with interrupts off polls instead.
* The handler is one step for each round of its two loops, with interrupts off.

**Fifo** is the abstract bounded queue that both instances of the ring buffer implement.

**FileSys** models `filesys/`: the free map in memory and on the disk, inodes on the disk and open
ones, the root directory and open files.

* An operation that writes to the disk more than once is one action for each write, and `Restart`
  may come between any two: it keeps the disk and rebuilds the memory as `filesys_init (false)`.
* `Failures` names the allocations that may fail: of the inode (`malloc`), for a write of the map
  (`map`), for the new entry (`entry`, also an invalid name), for a read of the directory (`scan`,
  which the run leaves out, see section 4).
* `leaked` is a history variable: sectors marked in the map that nothing owns any more.
* An operation that fails before its first change is no action.

**FileData** has the bytes: `inode_read_at` and `inode_write_at` sector by sector through the bounce
buffer, positions of open files, and `dir_readdir`.

**FileStore** is the abstract file system, a map from names to contents. `FileSys` implements it
under the mapping that follows the directory on the disk.

**Memory** models `palloc.c` with `bitmap.c`, and `malloc.c` on top, called by several threads.

* Bits of a bitmap are read and written one at a time: `palloc_free_multiple` clears them without
  the lock under which `palloc_get_multiple` scans.
* A page is its number and a block the number of its first byte, so the address arithmetic is the
  code's. `size_t` counts modulo `SizeMax`, so sums and products may wrap.

**Heap** is what both promise: what is handed out overlaps nothing that is held. `Memory`
implements it under a mapping to what each thread holds.

**Partition** has the partition tables as operators, **Disk** the IDE driver, the block layer and
the access through a partition.

* The start-up thread detects disks without the channel's lock and polls. Later threads take the
  lock, start a command and wait for `completion_wait`.
* The controller is external: it works on one command, raises an interrupt, or fails a command.

**BlockStore** is the abstract disk: a call takes effect at one moment between call and return.

**Process** models `process.c`, `pagedir.c`, `exception.c`, the creation and the end of a thread.

* The scheduler may switch after every step. A step lies between two calls of the page allocator,
  each of which may find no page.
* The page of a dying thread is freed by the next one, as `thread_schedule_tail` does.
* Addresses count modulo `AddrMod`. A program is the list of its program headers.

**Interrupts** models `interrupt.c` with the stubs: the two controllers, the gates and
`intr_handler`. `todo[t]` is what thread `t` has yet to do, the innermost call first. **Console**
extends it with `console.c`, `debug.c` and `shutdown.c`: the nesting lock and the panics. The file
system's part of a shutdown is in `FileSys`.

**Mlfqs** extends `Threads` with `thread_mlfqs`: fixed point arithmetic, `load_avg`, `recent_cpu`,
niceness and the computation of priorities in `timer_interrupt`.

**LinkedList** has every operation of `list.c` on linked cells, **Hash** the table of `hash.c` with
failing allocations and **Dict** what it implements. **Strings**, **Stdlib** and **Stdio** hold
`string.c`; `stdlib.c`, `arithmetic.c` and `random.c`; and `stdio.c`. **Vga** has the screen.
**Keyboard** is `kbd.c`: keys go down and up, and scancodes become shift states or characters.

The modules whose names begin with **MC** give the constants their values. **MCDevices** is the
union of `Serial` and `Disk`, which share no state: `device` says at the start which of them runs.
**MCLibrary** is the union of the library's parts in the same way (`part`, with the input in `probe`).

**ListProofs** holds the lemmas about sorted lists, **ThreadsProofs** the theorems about `Threads`.

### How the modules fit together

`Synch`, `Mlfqs` and the proofs extend `Threads`, so they share one scheduler. `Console` extends
`Interrupts`. Elsewhere a component uses another one through its promise: `Console` and `Disk` have
locks as `Mutex` describes them, `Process` allocates pages that are free or fails, and `FileSys`
reads and writes sectors atomically, which is what `BlockStore` says of the disk. The run queue and
the waiting lists are sequences, which is what `ListsAreSequences` says of the linked cells.

## 3. The runs

| Run | What it shows |
|---|---|
| `threads` | Three threads that yield, sleep (also for 0 and -1 ticks), change their priority and exit. The inductive invariant of the proofs holds, the highest priority runs, every sleeper wakes and every ready thread of the highest priority runs. |
| `locks` | Two locks, three threads, changing priorities. No donation outlives its lock and priorities are exact through chains of donations; with locks taken in order the donation loop ends and interrupts come back. |
| `synch_mix` | A lock, a semaphore and a condition variable with `lock_try_acquire`, `cond_broadcast`, sleeping and exiting threads. Locks implement `Mutex`, no wake-up and no signal is lost, each `list_elem` is in one list. |
| `devices` | Serial port: bytes and keys pass in order, all of them, queued or polled; both queues implement `Fifo`; every byte is sent and no caller waits for ever. Disk: each completion belongs to the command, partitions stay on the disk, the driver implements `BlockStore`, the channel is always freed. |
| `file_system` | No sector has two owners, none is lost except in two named ways, the map on the disk is safe to restart from, open inodes count their openers, and the disk is a map from names to contents. |
| `memory` | Two threads allocate and free pages and blocks at will. No page is lost, a block is as long as was asked, an arena goes back with its last block, and both allocators implement `Heap`. |
| `process` | Two processes start, load and end with too few pages for both. Each page has one owner, the active page directory is never a freed one, and a running process has exactly its segments mapped. |
| `console` | Two threads print while devices, spurious and unexpected interrupts, page faults, system calls, failing assertions and panics come in between. Interrupts are acknowledged before they are on again, handlers do not sleep, the console has one user, a panic ends. |
| `mlfqs` | Two threads that yield, sleep, exit and change their niceness. Load and CPU time are bounded; threads that are equally nice do not starve. |
| `library` | Lists, hash tables and keys through sequences of operations; strings, numbers, sorting, formatting, the screen and the bytes of files on all inputs of a bounded family; against reference definitions. |
| `signal_front` | Violated: `cond_signal` asks an empty list for its front (synch.c:379). |
| `partition_table` | Violated: `read_partition_table` reads sector 0 whatever sector it is given (partition.c:91). |

The two named ways to lose sectors are a stop of the machine, and `filesys_create` when `dir_add`
fails: it gives back the sector of the inode and not those of the data (filesys.c:54).

The last two runs are the `findings` of `PROJECT.json`.

### Bounds

* `Thread` has three members in `threads`, `locks` and `synch_mix`: one that runs, one that is woken
  and one that overtakes it. Nested donation needs three. Elsewhere two threads compete.
* `PRI_MAX` is 1 or 2 instead of 63: the code compares priorities and, without `-mlfqs`, does no
  arithmetic on them.
* `TIME_SLICE` is 1 or 2 instead of 4.
* `Naps` contains the boundary values -1 and 0 and two lengths that can overtake each other.
* `MaxValue` bounds the value of a plain semaphore at 2: one unit more than a lock has.
* `INTQ_BUFSIZE` is 3 instead of 64, and up to three bytes pass in each direction (`MaxBytes`,
  `MaxKeys`): full, empty and wrapped around all occur. A driver may stop, as its callers have a
  bounded number of bytes and after `serial_flush` the machine is off.
* The disk of `Disk` has two sectors and two values, two disks share the channel, and one partition
  reaches past the end.
* The file system's disk has five sectors, two of them for the free map and the root directory; the
  directory has two slots instead of 16 and files have up to two sectors, so that the disk and the
  directory fill up and sectors are reused. Two open files give every count its boundary values.
  Names and open files are interchangeable (`FsSymmetry`).
* The map fits in one sector, so its write is atomic; on a disk of more than 4096 sectors it is not.
* `Memory` has pools of three and one pages, arenas of three small blocks or one larger one, and big
  blocks of one and two pages. A thread holds at most two (`MaxHeld`).
* `Process` has five kernel and three user pages, so that a load fails at every step for want of a
  page. Segments cross page boundaries, overlap, wrap around or are refused.
* `MaxUnexpected` is 3, as the code logs the 1st, 2nd, 4th ... unexpected interrupt. `MaxLevel` is 4:
  the code tells the levels 1, 2 and higher apart.
* `Mlfqs` has seconds of two ticks and one fraction bit instead of 14, so that states are finite and
  rounding is at its coarsest.
* Library: words of 8 bits (`WordBits`) for the division, four elements in two lists, five entries
  with four keys, strings of up to three characters, a screen of four columns and three rows.
* File data: sectors of three bytes, files of up to seven, transfers of up to eight at offsets up to
  eight: before, across and past every boundary.
* Keyboard: all shift keys in any combination and, of the others, one at a time out of 15 that
  represent every table. The tables themselves are checked whole (`KeymapsComplete`).
* `Ops` selects the operations of a run. Between them the runs use all.

### Fairness

* `ThreadsFairSpec` and `MlfqsSpec`: the timer ticks, a handler once entered runs to its end and the
  idle thread executes. The hardware does that. Nothing is assumed of the operations of the other
  threads, which may compute for ever.
* `SynchFairSpec`: the CPU takes some step while there is one.
* `devices`: the port and the disk controller work, the loops of the handlers and of `serial_flush`
  go on, and a thread that can run is scheduled. A command may fail, but does not stay silent: the
  driver's polls have a time limit, and for a lost interrupt it has none (ide.c:348).
* `Console`: the processor goes on with what it has to do. Interrupts, prints and failing
  assertions need not happen.

## 4. What else the models show

These points were met while modelling: disagreements of the code with its documents, and limits of
what the properties promise. They have no run of their own; some are `hazards` with a note.

* A donation to a queued thread leaves `ready_list` unsorted (synch.c:246, against docs/p1.md:218).
  The periodic recalculation of `-mlfqs` does so too (timer.c:208).
* Whoever arrives before `holder` is set donates nothing (synch.c:256, docs/p1.md:107).
* `lock_release` clears `waiting_lock` of threads that go on waiting (synch.c:298, thread.h:97).
* In a lock cycle `lock_acquire` loops with interrupts off (synch.c:244), where its comment at
  synch.c:228 says that interrupts come back on. `InterruptsComeBack` fails with `Ordered = FALSE`.
* A short read for want of memory makes `dir_add` replace an entry in use (directory.c:166, comment
  at :163). `IsFileStore` fails with `"scan"` in `Failures`.
* A panic that fails while printing never ends with `-q`: `PanicHalts` fails with
  `how = "SHUTDOWN_POWER_OFF"`, as `shutdown` prints statistics in the third panic too.
* `page_fault` turns interrupts on, also in code that had turned them off (exception.c:141).
* `memmove` returns an advanced pointer when the destination is the lower one (string.c:45, against its
  comment at :22).
* `umod64` and `smod64` compute the remainder in 32 bits (arithmetic.c:131), enough for the divisors
  the kernel uses.
* A write that fails after its data was sent is not noticed (ide.c:371).
* `thread_create` reads the priority of a thread that may have ended (thread.c:256).
* `thread_get_recent_cpu` multiplies by 100 before it divides, which may overflow at the bound of
  `UsageBounded`.

## 5. The proofs

`ThreadsProofs`, with the list lemmas of `ListProofs`, proves for every finite set of threads, every
range of priorities, every length of a time slice and every set of naps:

* `SchedulerInvariant`: `ThreadsInv` always holds.
* `HighestPriorityRuns`: `StrictPriority` always holds.
* `SchedulerTypes`, `RunQueue`, `Sleepers`: the parts of the invariant a reader would ask for.
* `NobodyOversleeps`: the action property `WokenOnTime`.

The only assumption is `ThreadsAssumption` on the constants. The lock operations are not part of
`ThreadsSpec`, so `donate_priority` is empty throughout; with donations `HighestPriorityRuns` is
false, as `ready_list` becomes unsorted.

`StrictPriority` is not inductive, for two reasons. `next_thread_to_run` takes the head of
`ready_list`, which has the highest priority only if the list is sorted; and the handler makes
threads ready that have a higher priority than the running one. `ThreadsInv` therefore adds that
`ready_list` is sorted and that outside of a handler with `yield_on_return` no ready thread beats
the running one. `WokenOnTime` needs in the same way that `sleep_list` is sorted.

The argument: `list_insert_ordered` puts an element before the first one that it is less than,
so a sorted list stays sorted and gains exactly that element (`FirstLess`, `InsertedRange`,
`InsertedSorted`, `ReadyInsertFacts`, `SleepInsertFacts`). Popping the head keeps both
(`TailFacts`, `TailSorted`). From these `ScheduleFacts`, `YieldFacts` and `BlockFacts` say what a
switch does to the queue, and `NextInv` has one case for each action.

Only model-checked: every other module; the refinements; liveness and `ENABLED`, which the prover
does not handle; and what recursive functions compute, which needs induction over data.

## 6. What is not modelled

* Start-up (`init.c`, the loader, `start.S`): a fixed sequence in one thread before interrupts are
  on, and machine code.
* `fsutil.c` and `ustar.c`: command line actions of the main thread that copy files by the
  operations of `FileSys`.
* `pit.c`, `rtc.c`, `speaker.c`: port input and output without state of their own. `gdt.c` and
  the set-up of `tss.c`: constant descriptors.
* Calibration and delays shorter than a tick (`timer.c`): they count instructions.
* Accessed and dirty bits and `pagedir_clear_page`: nothing in the kernel calls them.
* In the file system: concurrent callers. The code has no locks there; as `process_wait` returns at
  once, a program's load can overlap the main thread.
* System calls: the handler ends the process (syscall.c). The user library (`lib/user`) is not part
  of the kernel.
* Within the modelled parts: the storage of `donate_elem`, which is declared in a block that ends
  before its use (synch.c:238); statistics; thread names; the magic numbers that detect stack
  overflow; call stacks in a panic.
