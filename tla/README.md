# A TLA+ verification of LostWakeupOS

LostWakeupOS is a kernel for RISC-V machines with several harts, written in C
(`src/src`, headers in `src/include`, design notes in `src/doc`). This directory
holds TLA+ modules that model its concurrent core, its memory management and its file
system, TLC configurations that check them on small instances, and proofs, checked by TLAPS,
that hold for every number of harts, threads and tokens.

    tlc -workers 2 -config MCSched.cfg MCSched     # one run
    tlapm SchedProof.tla                            # the proofs of one module

`PROJECT.json` lists components, runs, mutants, the lines of code behind each
definition, the known disagreements, the hazards and the theorems.

## The system and its parts

| Part | Source | Module | State |
|---|---|---|---|
| scheduler, TCB states and queues | `proc/sched.c`, `proc/tcb_life.c`, `lib/queue.c` | `Sched`, `Queues` | modelled, proved |
| condition variables, semaphores | `atomic/cond.c`, `atomic/semaphore.c` | `Semaphore`, `SemaphoreSignals` | modelled, proved |
| futexes and timeouts | `atomic/futex.c`, `lib/timer.c`, `lib/hash.c` | `Futex` | modelled |
| process life: clone, exit, wait | `proc/pcb_life.c` | `Process` | modelled for processes |
| pipes | `ipc/pipe.c`, `generic_fileclose` | `Pipe` | modelled, proved |
| physical pages | `mm/buddy.c`, `mm/kalloc.c` | `Buddy` | modelled |
| page faults, copy-on-write | `mm/pagefault.c`, `mm/vm.c` | `Cow` | modelled, proved |
| address spaces: mmap, brk, mprotect | `mm/vma.c`, `mm/mmap.c`, `proc/pcb_mm.c` | `Vma` | modelled, calls atomic |
| page cache, writeback, inodes | `mm/filemap.c`, `fs/mpage.c`, `fs/fs-writeback.c`, `fs/fat32/fat32_inode.c` | `FileSystem` | modelled in part, calls atomic but for truncation |
| FAT and cluster bitmap | `fs/fat32/fat32_disk.c`, `fat32_inode.c` | `Fat` | modelled |
| signals, sockets, System V IPC | `ipc/signal.c`, `ipc/socket.c`, `lib/sbuf.c`, `ipc/shm.c` | - | not modelled |
| buffer cache, file tables, path walk | `fs/bio.c`, `fs/vfs/ops.c` | - | not modelled |
| program loading, select, console, virtio | `proc/exec.c`, `fs/select.c`, `driver/*`, `platform/*` | - | not modelled |
| trap entry, formatting, strings, SD card, PLIC | `kernel/trap.c`, `lib/printf.c`, ... | - | left out: register and text handling |

How they interact. Every thread runs under the scheduler; it blocks in
`cond_wait` or `futex_wait`, which put it on a wait queue and on `sleeping_t_q`
and switch away. Semaphores are built from a spinlock and a condition variable.
Processes (`waitpid`), pipes, inodes and buffers wait on semaphores only.
`Semaphore` is shown to implement an atomic counter (`AbstractSemaphore`), and
`Process` and `Pipe` use semaphores as such counters. `Cow` takes and returns
frames with the reference counts that `Buddy` models in detail. When `Buddy` has no
page left, `kmalloc` calls `alloc_fail`, an action of `FileSystem`.

## Modules

**Queues, QueuesProof.** A queue is a sequence without duplicates;
`Queue_push_back`, `Queue_provide_atomic` and `Queue_remove_atomic` are `Append`,
`Head`/`Tail` and `Remove`. The lemmas say what they do to membership.

**Sched.** The hand-over of `t->lock`. `thread_yield`, `cond_wait` and `do_exit`
take the lock, call `TCB_Q_changeState` and stop at `swtch` (`LeaveTo`);
`thread_sched` is the switch to the scheduler's stack; `SchedulerRelease` drops the
lock there; `SchedulerPop` and `SchedulerDispatch` are the two halves of
`thread_scheduler`; `Resume` is the return from `swtch` in the new thread.
`context` says whether a TCB's registers are on a hart ("live"), saved, or written
by `alloc_thread` ("fresh"). One step is what a hart does between two operations on
locks. `AbstractSched` has neither queues nor locks: threads are ready, running on
one hart, asleep or unused. A signal (`do_tkill`) wakes a sleeper; `MaxTkill`
bounds their number.

**Semaphore, SemaphoreSignals, AbstractSemaphore.** `sema_wait` and `sema_signal`
with the steps of `cond_wait` and `cond_signal` below them: the emptiness test, the
removal from the wait queue and the wakeup under `t->lock` are separate steps.
`MutexUse` selects use as a lock or as an event counter. `SemaphoreSignals` adds
signals that take a sleeper off the queue; `Machines` says whether there are
several harts or one. On one hart the sections with interrupts off exclude each
other.

**Futex.** `futex_wait`, `futex_wakeup` and `futex_requeue` in their `p->lock`
sections, the hash table of futexes (keyed by address alone, as in the code), the
timer on the stack of `thread_sched` and `clockintr` with `timer_head.lock`.
`Programs` are the mixes of calls to look at: wakes and requeues without timeouts,
timeouts alone, timeouts with wakes.

**Process.** PCB states, `parent`, the list of children, `p->lock`,
`sem_wait_chan_parent` and `sem_wait_chan_self`. `do_clone`, `exit_process` with
`reparent`, and `waitpid` are cut at every acquisition of a `p->lock`. Failures of
`alloc_thread` and of the copy of the status are actions; `failed` records them.

**Pipe.** Ring buffer, wrapping counters, two semaphores, close of either end,
killed writers, failing copies. Bytes are numbered, so that loss and duplication
show.

**Buddy.** One pool for each CPU; `buddy_alloc` and `buddy_free` take one turn of the
split and merge loops per step under `pool->lock`; `kmalloc` goes round the pools,
`kfree` and `share_page` count references; `mm_init` builds the pools page by page.

**Cow.** Page table entries with PTE_W, PTE_SHARE and PTE_READONLY, frames with
reference counts and contents. A page fault is several steps, without a lock, as in
the code. `mem` is a history variable: what each process has stored.

**Vma.** The list of areas, the table they are allocated from, the heap, the program
break and the pages, under `mmap`, `munmap`, `mprotect`, `brk`, faults and `fork`. Each call is an
operator from an address space to the one it leaves, so that the properties can
compare before and after. `Programs` names the uses that programs make of the calls.

**Fat.** The super block as a record: the FAT in memory, the bitmap of used clusters,
the count of free ones and the hint. `fat32_cluster_alloc` searches the bitmap from the
hint on, then from the beginning, then for ever; `AppendCluster` is a turn of the loop of
`fat32_cursor_to_offset`. A bit is a word and a position in an `int`: `SET_BIT`,
`CLEAR_BIT` and `TEST_BIT` compute `1 << pos` in an `int` although a word has 64 bits,
and a shift of 32 or more is undefined. `INT_BITS` is the width at which positions wrap:
`WORD` if the shift does what is meant, less if it takes the low bits of `pos`, as the
32-bit shift of RISC-V does.

**FileSystem.** The disk (contents, FAT, directory entries, free count), the inode table,
the mapping of each inode with its dirty tags, the list of dirty inodes. A read, a write,
an open with O_TRUNC, a reclaim (`alloc_fail`) and the shutdown are a step each;
`fat32_inode_get` is several, because it releases `inode_table.lock` while it truncates an
unlinked inode that its scan passes. A unit of data is a sector, and is abstracted to
whether it is the last one written at its place; `len` is a history variable, the length
that each file should have. `Finish` is what open or unlink does with the inode it got.
Directories are maps from names to entries. `Kinds` names the writes that occur,
`Concurrent` whether other calls run during a truncation, `MaxLives` how many boots.

The `MC*` modules define the instances and the symmetry sets.

## Runs

| Run | Instance | What it shows |
|---|---|---|
| `MCSched` | 2 harts, 3 TCBs, 1 signal | one hart per thread, saved contexts, queues and states agree, no foreign lock across a switch, every RUNNABLE thread runs, refinement of `AbstractSched` |
| `MCSemaphore` | 4 threads, 2 tokens; several harts, or one hart and 2 signals | no lost wakeup, waiters counted, at most two inside, every waiter gets in, refinement of the counter |
| `MCFutex` | 3 threads, 2 futexes, 3 programs | sleepers reachable, no lost wake, futexes in use and no others in the table, timers gone with their stack frame |
| `MCFutexSleep` | 3 threads, timeouts only | every timed wait returns |
| `MCFutexTimeout` | 2 threads | violated: a timeout that meets a wakeup (below) |
| `MCProcess` | 4 PCBs, both faults | tokens equal unclaimed zombies, consistent family tree, no invalid wakeup, no cycle of `p->lock`s, zombies of init are reaped |
| `MCPipe` | 1+1, 2+1, 1+2 users, 2-byte ring, counters mod 4 | first in first out across the wrap, no use after free, progress of a pair |
| `MCBuddy` | 2 harts, 2 pools of 5 pages, blocks of order 0 and 2 | blocks partition the pages, free buddies joined, exact page count |
| `MCCow` | 3 processes, 4 kinds of page, 3 frames | exact reference counts, the right to write neither doubled nor lost, private memory |
| `MCCowThreads` | 2 threads of a process and another process | violated: two faults on one page (below) |
| `MCVma` | 5 pages, a table of 4 areas, calls of 1 or 3 pages | disjoint areas, exact table, calls change exactly their range |
| `MCFileSystem` | 2 files, 4 data clusters, pages of 2 clusters, files of up to 3 units, 3 disk images, 1 boot | chains own their clusters, exact bitmap and count, reads see the last write, writes are on disk after a shutdown, panics only on a full disk |

Why the bounds are enough to be of interest. Two harts and three threads give a
scheduler that pops a thread that its hart has not left while a third one exits and
is reused. Four threads and two tokens give two waiters and two posts under way.
Four PCBs give a grandparent, a parent that exits and a child that exits at the same
time, besides init. Pools of five pages are not a power of two, so that blocks at the
end have no buddy; two pools are needed for stealing. Three frames for four pages of
three processes run out of memory in most states. A table of four areas runs full in
the middle of `mprotect`. A ring of two bytes with counters modulo four wraps after
two rounds. Four data clusters fill up with two files of two pages, so that allocation
wraps, panics, and goes on after an unlinked file has been truncated; words of five bits
put the clusters in two words.

Bounds and nothing else stop the models: `MaxTkill`, `MaxAvail`, the `signals` of a
machine, `MaxStore`, `MaxBytes`, `MaxTokens`, `MaxRef`, `MaxHeld`, `Top`,
`MaxLen`, `MaxAhead`, `MaxLives`. Deadlock is checked
except where all users may be asleep or done: `MCFutex`, `MCProcess` (a failed
`create_proc` keeps a lock), `MCPipe`, `MCCow`.

Each module but `FileSystem` has one type invariant, `TypeOK`. It is checked as a conjunct of the
module's main structural invariant (`IInv`, `SemInv`, `SleeperQueued`, `FamilyTree`,
`Fifo`, `EveryPageInOneBlock`, `RefcntIsHolders`, `WellFormed`).

Every property is accompanied by a mutant: a definition changed as a plausible bug
would change it, for which TLC reports that property violated. The mutants stand
before the definitions they change.

## Fairness

- `Sched`: a hart goes on with its kernel code (weak fairness of each hand-over
  step). The scheduler loop runs with interrupts enabled and goes on between two of
  them, and a latched timer interrupt is taken when interrupts are enabled often
  enough (strong fairness of `SchedulerPop`, `SchedulerDispatch`, `thread_yield`).
- `Semaphore`: threads inside the semaphore code go on; a thread that spins on a lock
  that is released again and again gets it; a holder gives the token back. Nobody has
  to call `sema_wait`.
- `Futex`: harts go on and clock interrupts arrive.
- `Process`: calls go on, and init calls wait in a loop (`src/user/src/init.c`).
- `Pipe`: users inside a call go on; nobody has to read, write or close.

Strong fairness on a spinlock is stronger than the amoswap loop of `acquire`
promises on its own; it stands for the hardware's arbitration.

## Proofs

`SchedProof`, with the lemmas about single actions in `SchedSteps`, for all sets of
harts and threads: `IInv` is inductive, and gives type
correctness, `OneHartPerThread`, `DispatchesSavedContext`, `FreshContextSurvives`,
`StateMatchesQueue`, `RunnableOnce` and `SchedLocks`; every step is a
step of `AbstractSched` or a stutter (`Refinement`). None of these is inductive alone. `OneHartPerThread`
needs to know that a thread on its way out still has its lock held by its own hart
(`LockInv`), which needs what each hart is doing (`HartInv`), which state goes with
which part of the hand-over (`StackInv`), and that a thread in flight between two
queues is on neither (`QueueInv`, `CloneInv`).

`SemaphoreProof`, for all threads and initial values, without signals: `SemInv` is
inductive and gives `NoPanic` (the three ways `cond_signal` can panic),
`SleeperReachable` and `MutualExclusion`; `sema_wait` and `sema_signal` implement
the atomic counter. The argument is that the owner of `sem_lock` is the only one
between the emptiness test and the wakeup (`SleepInv`), and that tokens and holders
add up (`TokenInv`).

`PipeProof`, for all readers and writers, all sizes of calls, and every `PIPESIZE` that
divides `Wrap` and is less (512 and 2^32 in the code): `Fifo` and `FreedUnused`. `Fifo`
speaks of the wrapped counters; the inductive `RingInv` says that they are the true
numbers of bytes sent and read modulo `Wrap`, at most `PIPESIZE` apart, and that byte
x + 1 is at place x % `PIPESIZE`. Two numbers less than `PIPESIZE` apart have different
places (`ModClose`), so that a write overwrites nothing unread (`PutKeeps`); that `Wrap` is
a multiple of `PIPESIZE` is what lets the code index with the wrapped counters
(`WrapAdd`). The test for "full" stops a writer before the ring is overrun (`RoomBounds`).

`CowProof`, with the lemmas about references and about page faults in `CowRefs`, and
`CowMemory`, for all processes, pages and frames, while each process has one thread (`Spec`
has no CLONE_THREAD; with it `NoPanic` fails, see `MCCowThreads` below).
`CountsExact` and `PanicFree`: references are a function from their places (an entry, or a
thread between `kmalloc` and the entry, or between the entry and `kfree`) to frames, and a
count is the number of places with that frame (`Exact`). A step moves one reference, so that
one count changes by one. It is inductive only with what a fault remembers from one
step to the next (`Faulting`: the entry that was read is still there when it is written),
how far `uvmcopy` has come (`Forking`), that a new frame is known to its thread alone
(`NewFrames`), and that nobody else writes this page table (`OneThread`).
`RightToWriteHolds` and `PrivateMemoryHolds`: a frame is at one page of all the processes
that map it (`SameVa`), one that is writable through a private page is in no other entry
(`OneWriter`), so that a store is seen by the process that makes it and by nobody else; the
frames in the hands of a fault and of a fork hold what the history variable `mem` says
(`Contents`).

Assumptions are those the constants' modules name: `None` differs from harts and
threads, the initial thread is a thread, bounds are naturals, a pipe's sizes as above,
processes, threads and the pages of an address space are finitely many. TLC evaluates them.

Only model-checked: everything about liveness and fairness; semaphores with signals;
`Futex`, `Process`, `Buddy`, `Vma`, `Fat` and `FileSystem`. `Vma` uses recursive operators,
which the prover does not handle.

## Where the code and its own statements disagree

Two runs keep a counterexample.

- `MCFutexTimeout`: `thread_wakeup_atomic` asserts that the thread still has a wait
  channel (`sched.c:102`); a tick between `futex_wakeup` and the thread's next run
  fails it.
- `MCCowThreads`: two threads of a process that fault on a page at the same time
  both map it (`panic("mappages: remap")`, `vm.c:234`) or both drop the old frame.

The models, like the code, have more such behaviours, which the checked instances
leave out; a property that one of them would break says where it holds. The table
names what to widen to meet them.

| Widen | Then |
|---|---|
| `Machines` with several harts and a signal | `cond_signal` panics on a thread that a signal has just woken (`cond.c:58`) |
| `Kill = TRUE` | a killed waiter keeps its decrement of `value`; a later token is lost (`cond.c:40`) |
| a futex program with requeues and timeouts | `wait_chan_entry` points to the old queue, which may be freed (`futex.c:177`) |
| two processes with futexes at one address | the second insertion frees the first futex (`hash.c:82`) |
| a woken thread with a timer, both locks | `timer_head.lock` and `t->lock` are taken in both orders (`timer.c:65`, `sched.c:141`) |
| a timeout that is 0 or a multiple of 2^32 ns | `int set_timer` is 0 and no timer is set (`sched.c:127`) |
| `Tid = {1, 2}` in `Process` | two waits free one zombie (`pcb_life.c:191`) |
| `waitpid` with a pid in `Process` | another zombie that comes first is returned (`pcb_life.c:563`) |
| two readers asleep on a `Pipe` | the close of the write end wakes one (`pipe.c:57`) |
| `"part"` in `Vma` | munmap of the head of an area drops all its pages (`vma.c:220`) |
| `"beyond"` in `Vma` | mprotect beyond an area fails the overlap assertion (`mmap.c:200`) |
| `"hole"` in `Vma` | MAP_FIXED where nothing is mapped maps at address 0 (`mmap.c:111`) |
| `"heap"` in `Vma` | mprotect on the heap, then brk: two areas overlap (`mmap.c:207`) |
| `"empty"` with `"fork"` in `Vma` | an empty heap has one page in the child (`vma.c:147`) |
| `"full"` in `Vma` | brk with a full table panics (`pcb_mm.c:133`) |
| `INT_BITS` less than `WORD` in `Fat` | clusters share bits, and one in use looks free after the mount (`fat32_disk.h:281`) |
| a `WORD` that divides `FAT_CLUSTER_MAX` | the last cluster is counted and never found: the search goes on for ever with the lock held (`fat32_disk.c:285`) |
| `Concurrent = TRUE` in `FileSystem` | the second FREE of `fat32_inode_trunc`, outside the lock that `fat32_disk.c:304` asks for, cuts a chain that got the cluster in between; and "no disk space" is met while clusters are being freed (`fat32_inode.c:924`, `:935`) |
| `MaxLives = 2` | the free count is that of the image again, since FSINFO is not written back as `doc/fs/FAT32.md:167` asks for, and clusters of files that were unlinked and not yet truncated stay in use |
| `"inside"` in `Kinds` | a write into a page that is not cached, behind the offset of the end of the file in its page, zeroes the rest of the page (`filemap.c:240`) |
| `NINODE` less than the number of files | "no space": inodes keep their reference (`fat32_inode.c:872`) |
| a file in a sub-directory | its length is lost if the directory comes first in the table at shutdown (`fat32_inode.c:1998`) |
| an image with an empty file without clusters | the first write panics in `fat32_fat_cache_set` |
| a length of 0 in `Durable` | an open with O_TRUNC does not make the inode dirty: without a write the old length is back after the shutdown (`sysfile.c:164`) |

## Not modelled

Parts without a module, and why:

- Delivery of signals (pending lists, masks, frames on the user stack), sockets with their
  buffers, the console and the descriptors of the virtio driver have concurrency of their
  own and could be modelled; this version stops before them.
- Shared memory segments, program loading and select are sequential code on top of parts
  that are modelled (`Vma`, `FileSystem`, the status of files).
- The buffer cache serves the boot sector and the FAT, at mount and at shutdown, a buffer
  at a time. The periodic writeback has no caller that runs: its timer and the flusher
  threads are commented out.
- Saving and restoring registers, dispatch by system call number, formatting and strings,
  the SD card driver and the interrupt controller are register, text or device handling.

Inside the modelled parts: clone of threads into a process and `exit_group` (only TCBs in
`Sched`), thread groups, resource limits, the levels of the page table, translation caches,
concurrent calls on one address space. In `FileSystem`: long names, the hash of names,
rename, `ftruncate`, O_APPEND (which starts one byte behind the end), growth of
directories, device files, copies from user memory that fail, a reclaim in the middle of a
call, and use of a file after its unlink.

## What could follow

1. Theorems about `FamilyTree` and `TokensMatchZombies` of `Process`, which need no recursion.
2. `signal_handle` against `signal_send` on another hart; sockets.
3. Calls on one file at the same time as a reclaim, with `inode_table.lock` and `i_sem` as
   variables; an abstract file as the specification of `FileSystem`.
4. Threads of a process: clone with CLONE_THREAD, exit, `exit_group`, join.
