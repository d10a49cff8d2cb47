# Verification of the Pintos kernels

The repository holds one kernel three times, each copy further developed:
`pintos-threads` (priority scheduling with donation, the alarm clock),
`pintos-user-programs` (processes and system calls) and `pintos-virtual-memory`
(demand paging, swap, memory-mapped files). This directory models the code the
authors wrote or changed, each part from the copy that introduced it, and the parts
of Stanford's Pintos base that this code relies on and that run concurrently: the
allocators, the interrupt queues, the file system, the disks.

Paths below are relative to the copy's `src/` directory that the section names.

1. [Inventory](#inventory)
2. [The threads kernel](#the-threads-kernel)
3. [Processes](#processes)
4. [Virtual memory](#virtual-memory)
5. [The console's queues](#the-consoles-queues)
6. [The file system](#the-file-system)
7. [The allocators](#the-allocators)
8. [The disks](#the-disks)
9. [Runs](#runs)
10. [Where the code does not do what it says](#where-the-code-does-not-do-what-it-says)
11. [Proofs](#proofs)
12. [What is not modelled](#what-is-not-modelled)
13. [Plan](#plan)

## Inventory

### Threads kernel (`pintos-threads`)

| component | state | operations | talks to |
|---|---|---|---|
| Priority scheduler, `threads/thread.c` | `struct thread` (status, priority, original_priority, acquired_locks, wait_for_lock, wait_until_ticks, one `elem` for all lists), `ready_list`, the running thread, `thread_ticks` | thread_create, thread_yield, thread_exit, thread_block, thread_unblock, thread_set_priority, thread_tick, schedule, idle; donation: thread_priority_donation, thread_next_priority, thread_check_priority, thread_check_priority_intr | called by everything; allocate_tid() calls lock_acquire() |
| Alarm clock, `devices/timer.c` | `ticks`, `wait_list` | timer_sleep; timer_interrupt, timer_wake_up | inserts by wait_until_ticks, blocks and unblocks threads; donation unlinks sleepers |
| Synchronisation, `threads/synch.c` | semaphore: value, waiters; lock: holder, semaphore, link in acquired_locks; condition: semaphore_elems on the waiters' stacks | sema_down, sema_try_down, sema_up, lock_acquire, lock_try_acquire, lock_release, cond_wait, cond_signal, cond_broadcast | writes priorities, moves threads between lists, yields; sema_up is called from interrupt handlers |
| Kernel lists, `lib/kernel/list.c` | links inside the objects | list_insert_ordered, list_remove, list_push_back, list_sort | every list above |
| Interrupt dispatch, `threads/interrupt.c` | in_external_intr, yield_on_return | intr_handler, intr_yield_on_return | calls the timer and device handlers, yields when they return |

What makes them hard: the locks are built from a semaphore, with interrupts on
between the semaphore and the fields beside it; donation reads and writes other
threads' fields and lists; one link field serves the ready list, the list of
sleepers and every semaphore; and every list insertion relies on an order that
donation can disturb. What makes them correct: a lock has one owner; a thread
that does not run is in one list; the highest ready thread runs; a holder has at
least its waiters' priorities and loses them when it releases; sleepers wake
neither early nor never; no wake-up and no signal is lost.

### Process lifecycle (`pintos-user-programs`: `userprog/process.c`, `userprog/syscall.c`)

State: `struct child_process` (pid, exit status, the bits `status_reg`: waited,
loaded, load failed, exited; two semaphores), each thread's list of children,
the id of its parent, open files, the file lock `lock_f`. Operations: sys_exec,
process_execute, start_process, process_wait, process_exit, the file system
calls. Hard: parent and child end in any order, and the record they share is
freed by the parent; process_exit() looks whether the parent is alive and then
ups a semaphore in the record; sys_exec() frees the record when loading fails.
Correct when: a waiting parent is answered exactly once and with the child's
status, a second wait fails, exec returns only after loading succeeded or failed,
nobody touches a freed record, and lock_f is released by whoever dies with it.

### Virtual memory (`pintos-virtual-memory`: `vm/*.c`, `userprog/exception.c`)

State: the frame table under frame_lock, supplemental page entries (file, swap or
memory-mapped; loaded; inevictable), the swap bitmap under swap_lock, mappings.
Operations: page_fault, load_page, grow_stack, frame_alloc, frame_replace,
frame_free, swap_out, swap_in, mmap, munmap. Hard: eviction by one process while
the owner runs, the order in which frame_lock, lock_f and swap_lock are taken, a
page pinned by a system call while it is being chosen. Correct when: a page's
last written contents are in exactly one place, no page a system call pinned is
evicted, the locks are taken in one order, and each swap slot belongs to one page.

### Console input and output (`pintos-user-programs`: `devices/intq.c`, `input.c`, `serial.c`, `kbd.c`)

State: two rings of 64 bytes, each with a lock, a thread waiting for it to be not
empty and one waiting for it to be not full; the serial port's mode and interrupt
enables. Operations: input_getc and serial_putc by threads; the keyboard's and the
port's interrupts. Hard: a thread sleeps twice, for the queue's lock and then for a
byte, and what it tested before may have changed; the port interrupts only for
what it has been told to, and must be told again at every change of either ring.
Correct when: bytes leave in the order they came, nobody sleeps without reason, and
the port is never left mute with something to send.

### File system (`pintos-user-programs`: `filesys/*.c`)

State: the map of free sectors, the root directory and the inodes on the disk; the
open inodes in memory with their counts. Operations: create, open, write, remove,
close, and what load() and process_exit() do with the executable. Hard: it has no
lock of its own, system calls take lock_f and load() does not; a create writes five
places on the disk one after the other; a removed file lives on while it is open.
Correct when: a name always leads to an inode whose sectors are marked, each marked
sector has one owner, counts are what they count, and files keep their contents.

### Page and block allocators (`pintos-user-programs`: `threads/palloc.c`, `malloc.c`, `lib/kernel/bitmap.c`)

State: the bitmap of the pool under its lock; for each block size a free list under
its lock; a header in each page that is an arena. Operations:
palloc_get_multiple, palloc_free_multiple, malloc, realloc, free. Hard: bits are
reset without the pool's lock while another thread scans; the descriptor's lock is
held while the page allocator's is taken. Correct when: memory in use has one
owner, free memory is found, and nobody's contents change under him.

### Disks and partitions (`devices/ide.c`, `block.c`, `partition.c`, the same in all copies)

State: of each channel a lock, a semaphore and whether an interrupt is expected; the
registers its two disks share; the registered block devices. Operations: block_read,
block_write; the interrupt handler; the scan for partitions at boot. Hard: a command
to one disk, its interrupt and the thread that waits for it are matched by counting;
a wait gives up; disks fail, or never answer. Correct when: sectors are read and
written atomically, and nothing is left over when the channel is given up.

### The rest

Page directories and segments, boot code, the C library, and tests: listed in
PROJECT.json with the reason each is not modelled.

## The threads kernel

```
PriorityList          ordered lists                    lib/kernel/list.c
  Scheduler           threads, ready list, CPU         threads/thread.c, interrupt.c
    Alarm             sleepers, timer interrupt        devices/timer.c
      Synch           semaphores, locks, conditions    threads/synch.c, thread.c
        ThreadsKernel clients, interrupts, Next, Spec
          KernelProperties    what is to hold
            LockRefinement    the locks implement Mutex
              MCThreads       the instances TLC checks
            KernelInvariant   the inductive invariant
              KernelProofs    the proofs      (PriorityListProofs, LockRefinement)
MergeSort             list_sort(), step by step        lib/kernel/list.c
Mutex                 the abstract lock
```

Each module adds its variables and actions to the one above; every action says
what it does to the variables of its own module and of those below it, and
ThreadsKernel adds the rest.

**Steps.** There is one CPU. A stretch of code that runs with interrupts off is
one action; wherever interrupts are on, the timer may interrupt and switch
threads, and there the code is cut. `frame[t]` is where thread t is in the kernel
and the locals it will read: `pc` names the place (`"check_holder"` is the test
`lock->holder != NULL` in lock_acquire(), `"clear_holder"` the assignment
`lock->holder = NULL` in lock_release(), and so on), `op` the API call that a
nested lock or semaphore operation returns to. Only `cur` takes steps.

| code | actions |
|---|---|
| thread_create | ThreadCreate; CheckHolder ... SemaUp on `tid_lock`; CreateUnblock; CreateCheck |
| sema_down / sema_up | SemaDown, one turn of its loop: SemaDownWait or SemaDownTake / SemaUp |
| lock_acquire | LockAcquire, CheckHolder, MarkWaiting, Donate (one holder of the chain) or DonateStop, SemaDown, Take |
| lock_try_acquire | LockTryAcquire, TryTake |
| lock_release | LockRelease, Unlist (with thread_next_priority), ClearHolder, SemaUp |
| cond_wait | CondWait, lock_release's, SemaDown on its own semaphore, lock_acquire's |
| cond_signal / cond_broadcast | CondSignal, SemaUp / CondBroadcast, BroadcastNext and SemaUp per waiter |
| timer_sleep | TimerSleep (reads the clock), SleepInsert, SleepReturn |
| timer interrupt | TimerInterrupt (ticks), TimerWakeUp per woken thread, TimerReturn (thread_tick, thread_check_priority_intr, yield on return) |
| a device's interrupt | DeviceSemaUp |
| idle | IdleBlock; any interrupt ends its `hlt` |

**Data.** A thread is the page its `struct thread` is in, so a created thread
can reuse the page of one that has exited. A lock is also the name of its
semaphore, and the semaphore of a `semaphore_elem` has the name of the thread
whose stack it is on. The comparators of the kernel all order by a decreasing
integer, so a list operation takes a function from elements to integers.
list_sort() is used through its result (the stable order by rank); MergeSort shows
that the natural merge sort of list.c computes that.

**Abstractions and bounds, and why they keep what matters.**

- *Time.* Only differences of times matter: `remaining[t]` is
  `wait_until_ticks - ticks`, followed down to `-MaxLag`. Two sleepers later than
  that are taken to be equally late; both are due, so only their order in the list
  of sleepers is blurred.
- *The timer's handler* runs with interrupts off. It is three kinds of action only
  to keep them readable: while `in_external_intr` holds, nothing else is enabled.
- *cond_signal()* sorts the conditions' waiters and pops the first with interrupts
  on. Both are one step, since the condition belongs to the lock the caller holds;
  the keys the comparator reads are those of that moment.
- *list_begin() of an empty list* is read as an element in two places:
  thread_next_priority() and is_cond_larger_priority(). By the layout of the
  structures the priority read is the word before the list in memory, the
  semaphore's `value` (`FrontPriority`).
- *Failure.* A failed assertion or a use of NULL sets `fault`, and the kernel stops
  (`Halted`), as debug_panic() and a kernel page fault do.
- *Clients* follow the rules of the functions they call: no lock is acquired twice,
  a release is by the holder, conditions are used with their lock, a thread exits
  holding nothing. Which calls they make (`Calls`), which of them while they hold a
  lock (`HoldingCalls`), how they nest locks (`MayNest`) and how many they make
  (`MaxCalls`) are constants; lock_release() and thread_exit() are always allowed.
- *Boot.* The initial state is the one after thread_start(), with the threads of
  `BootList` created by main. Creation itself is modelled and has a run of its own.
- *Memory.* palloc_get_page() succeeds and is atomic.
- *Counters.* A device ups a semaphore only below `MaxValue`.

**Fairness** (`FairSpec`, used by `progress` only). The timer keeps interrupting
(`WF(Tick)`) and its handler returns (`WF(Handler)`): hardware, and straight-line
code. `SF(CPU)`: the code of the current thread gets on between interrupts. Strong
fairness is needed since each interrupt disables it for a moment; a CPU that is
interrupted before each instruction is what it rules out. Nothing is assumed about
which thread the scheduler chooses, and no fairness is assumed of clients' choices:
a client that waits for ever is one whose calls are not granted.

## Processes

```
ProcessLifecycle      records, exec, wait, exit, lock_f   userprog/process.c, syscall.c, threads/thread.c
  ProcessProperties   what is to hold                     (ChildStatus, the abstract promise)
    MCProcesses       the instances TLC checks
    ProcessProofs
```

| code | actions |
|---|---|
| run_actions and run_task, main's end (threads/init.c) | RunTask, RunWait, Shutdown |
| syscall_handler's initialisation of lock_f | FirstCall (the test), InitLock |
| sys_exec with process_execute | Exec (malloc, thread_create), ExecCheck, ExecDown, ExecResult |
| start_process and load | Load (the bit), Loaded (the semaphore) |
| process_wait | Wait, Reap |
| calls on files | FileCall, only where it matters to anybody else |
| syscall_exit, process_exit, thread_exit | SyscallExit, ExitRet, ExitCleanup, ExitCheck, ExitUp, ThreadExit |

*State.* `heap` is the blocks a `child_process` fits in, and `cp` and `child` are
pointers to them, so a block that was freed can be another child's when an old
pointer is used; `malloc()` hands out the freed one first, as the free list does. A
semaphore is its value and lock_f its holder: how a thread sleeps on one is what
the threads kernel models. `stale` is history: some thread has used a record that
was not its own any more. A sema_up() of a freed record panics: free() fills the
block with 0xcc, and the waiters' list in it is followed.

*Steps* end wherever another process could tell: between the test of a bit and the
sleep, between is_thread_alive() and what relies on it, between the two halves of
an answer (bit, then semaphore).

*Mishaps.* What may go wrong in the programs of a boot is chosen at the start:
`early fault` (one ends before any program has made a system call), `load failure`,
`orphans` (one ends before it has waited for its children), `out of memory`
(`malloc()` fails in sys_open()). The properties say which of them they survive;
they could not name the cause if all were always possible.

*The end of main().* shutdown() turns the machine off if the command line said so, and
otherwise returns: main() then exits like a process, by ExitCleanup, ExitCheck and
ThreadExit. Its parent is nobody, so it ups no semaphore. Both ends are in the model,
since `how` is read nowhere else.

*Bounds.* Four thread ids, so main, a child, and two grandchildren or a grandchild and
a great-grandchild; with orphans this is enough for a block to be freed and used
again, and for wrong_status five are needed. One kind of mishap per boot.

*Fairness.* Weak, of each thread's own steps: the ready list is first in, first
out and every time slice ends in a yield. None for what a program calls.

## Virtual memory

```
VirtualMemory         pages, frames, slots, locks     vm/*.c, userprog/exception.c, syscall.c, process.c
  PagingProperties    what is to hold                 (PagedMemory, the abstract promise)
    MCPaging          the instance TLC checks
    PagingProofs
```

| code | actions |
|---|---|
| load, setup_stack | Load (lock_f taken, segments entered), Loaded |
| user code; page_fault, load_page, grow_stack | Write; Fault, GrowStack; FillStack, FillFile, FillSwap |
| frame_alloc, frame_replace | FrameAlloc, Choose, WriteBack, SwapOut, Unlink |
| read and write calls, which pin their buffer's page | Syscall, Transfer, Transferred, KernelFault |
| mmap, munmap, spage removal, frame_free | Mmap, Munmap, UnmapWrite, UnmapFree |
| process_exit | Exit, ExitPage, Exited |

*State.* `spte` is the supplemental entry of a page, `pte` the hardware's entry,
`frame_list` the frame table, `content`, `swap` and `file` what the three kinds of
place hold. frame_lock, swap_lock and lock_f are their holders. A process is at a
place `pc`, busy with one page `upage`, and goes on at `resume` once that page is
in memory.

*Steps* end at every lock taken while it may be held by another, and around every
transfer to or from a disk, during which everybody else runs. That leaves apart the
four moments of an eviction: the choice (Choose), the copy (WriteBack or SwapOut),
the change of the tables (Unlink), and the use of the frame by its new owner (Fill...).

*The clock* is any choice among the pages that are not inevictable: which one it is
depends on accessed bits that user code sets at will.

*`spoiled`* is history and names the two things the code does not handle: `torn`, an
eviction overtaken by the page's owner between the choice and the change of the
tables (a write, a pin, a munmap, an exit), and `unwritten`, a stack page evicted
clean, for which no slot exists. Each property stops at what breaks it and at nothing
more: FramesOwned and PinHolds speak of states that are not torn, SlotsOwned of states
without an unwritten page, the refinement of neither (PagedMemory promises nothing of a
broken machine). OnlyKnownStops holds always: these two are all there is.

*Who can go on.* OnlyKnownStops says of a hang that nobody in the kernel can take a step.
CanRun spells out, place by place, what a process's next step needs, because ENABLED
cannot be reasoned about in a proof. That it is ENABLED Runs(p) is CanRunIsEnabled, which
holds as soon as it is added to `paging`.

*Bounds.* Two processes with two pages each, two frames (any two more pages evict),
two slots (the partition can be full), two values, so that a wrong one shows. One
layout has a page of an executable, a mapped file and two stacks, another three pages
of stacks, one of which grows. The constraint `Explored` keeps stack pages to one
value at a time, and follows what comes after an overtaken eviction in the second
layout only; the panic of UnmapWrite when its page is gone is therefore not reached.
No fairness: everything checked is safety.

## The console's queues

```
Console               both rings, three drivers      devices/intq.c, input.c, serial.c, kbd.c
  ConsoleProperties   what is to hold                (BoundedQueue, the abstract promise)
    MCConsole         the instance TLC checks
    ConsoleProofs
```

| code | actions |
|---|---|
| input_getc, serial_putc with intq_getc, intq_putc, wait | input_getc, serial_putc, then GetLock and Woken when the thread has slept |
| kbd's handler, input_putc | keyboard_interrupt |
| serial_interrupt | Receive, Transmit |
| putc with interrupts off, putc_poll | PutcPolled |
| serial_init_queue, serial_flush | the actions of those names |
| the serial line (external) | Arrives, Sent |

*Steps.* All of it runs with interrupts off, so a thread's step lasts until it sleeps;
interrupts come between steps. A thread that sleeps for the queue's lock has not
looked at the queue since: that is where the assertion in wait() fails
(`power = "panic"`).

*Bounds.* Rings of 3 places for 64 (2 bytes: empty, partly full, full, and wrapping all
happen), one kind of key and two characters to tell order, one or two readers, one
character written with interrupts off.

*Fairness.* The port sends what it was given (Sent), an enabled interrupt is taken
(Transmit), a thread that can run does. None for keys or for readers.

## The file system

```
FileSystem            disk, inodes, calls, load, power failure   filesys/*.c, userprog/syscall.c, process.c
  FileProperties      what is to hold                            (FileStore, the abstract promise)
    MCFiles           the instance TLC checks
    FileProofs
```

| code | actions |
|---|---|
| filesys_create | Create; the root's inode_open: Scan, Reopen or Push and ReadInode; Alloc, AllocData, WriteInode, ZeroData, DirAdd, Release when it fails |
| filesys_open, filesys_remove | Open, Remove; the root as above; Lookup, then the file's inode_open; Erase |
| file_write, inode_write_at | Write, WriteCheck, WriteSector |
| inode_close, file_close | Close, CloseInode, FreeIno, FreeData; CloseRoot, FreeRoot |
| load, process_exit | Load, DenyWrite; Exit, AllowWrite |
| every system call's lock_f | taken by the first action, given back by Return |
| power failure and boot | PowerFailure |

*State.* `free_map`, `dir` and `disk` survive a power failure; `inode` is the list of
open inodes. `call[p]` has a call's locals. A step is one sector written, or one
statement on an inode that another thread may see.

*load()* takes no lock_f here, so it runs between any two steps of another call. What
`open_inodes` is asked and told is atomic all the same: a load() that is preempted between
the stores of one list_push_front() or list_remove(), or that preempts another thread
there, is left out. Most such overlaps belong to calls that meet in `raced` anyway, but
two pushes of different inodes need not (one of them can be lost from the list): what is
shown here is shown of runs in which list operations do not overlap.
`raced` becomes true when a step uses what another is changing (an inode in the list
that has not been read, one being freed, a second one of the same sector); the model
stops there, since what follows depends on stale memory. `met` is history: the call
has overlapped a load(). Everything is promised until then, and OnlyLoadsRace says
that nothing else leads there, and that no assertion of the file system ever fails.

*Bounds.* Two processes, two names, the program that is on the disk and one more, six
sectors, so one file fits beside the program and a create can fail after it has
allocated; two loads, one power failure. A directory that is full before the disk is
does not occur.

*Fairness.* Weak, of each process's steps in the file system: the code gets on and a
disk answers.

## The allocators

```
PriorityList
  Allocator             bitmap, arenas, free lists   threads/palloc.c, malloc.c, lib/kernel/bitmap.c
    AllocatorProperties what is to hold              (Heap, the abstract promise)
      MCMemory          the instance TLC checks
      AllocatorProofs
```

| code | actions |
|---|---|
| palloc_get_multiple, bitmap_scan_and_flip | AcquirePool, Scan and Mark bit by bit, ReleasePool |
| palloc_free_multiple | the pages overwritten, then Reset bit by bit, without the lock |
| malloc | Malloc, AcquireDesc, NewArena, Take, ReleaseDesc, Return |
| free | Free, AcquireDesc, Put, Unlist for an arena that is all free |
| realloc | Resize: malloc, copy, free |
| clients | they write their memory (Store) |

*State.* Memory is cells, `blocks_per_arena` to a page; a thread's `held` is what it was
given. A freed block and a freed page hold junk, as the code overwrites them.
`fits[t]` is history: a run was free when t took the pool's lock.

*Bounds.* Two threads, three pages, blocks of half a page, big blocks of two pages,
single pages, three extents held: enough for an arena to be made by one and taken
apart by the other, for the pool to be full, and for a page freed behind, at and ahead
of the scan.

## The disks

```
IdeChannel            calls, channel, two disks        devices/ide.c, block.c, partition.c
  DiskProperties      what is to hold, the instance    (BlockStore, the abstract promise)
    DiskProofs
```

| code | actions |
|---|---|
| block_read, block_write of a partition and of its disk | Call |
| ide_read, ide_write | Acquire; WaitOther, Select, WaitSelected, SelectSector; Issue; Down; WaitWhileBusy; Transfer; Release |
| interrupt_handler | Interrupt, Stray |
| the disks (external) | Answer, Fail, Die |

*State.* `disk[d]` is a controller as ide.c sees it: idle, BSY or DRQ, with its interrupt
line and the sector it has in its buffer; `medium` is what it keeps. A step is one wait, or
one access to a register that another disk's command, an interrupt or the disk may see.

*The waits.* wait_until_idle() gives up after 10 ms and its caller goes on, so the action
is always enabled and says whether the disk was idle: `confused` means that it was not,
and the model stops. wait_while_busy() gives up after 30 seconds, which only a dead
disk makes it do; sema_down() for the completion never gives up.

*Fault model.* A disk may end a command with an error or never answer (`MaxFaults`), and
an interrupt may come that no disk has raised (`MaxStrays`): expecting_interrupt is never
cleared, so the handler ups the semaphore for it. Reading the status may clear an
interrupt before it is taken.

*Composition.* FileSystem takes each sector to be read and written atomically;
ImplementsStore is what justifies that.

*Bounds.* Two threads, two disks, two partitions on one of them and one on the other, one
sector each (a sector of another partition or disk must not be touched), two values,
one fault, one stray interrupt.

*Fairness.* Threads that can run do, a disk that has not died answers, its interrupt is
taken.

## Runs

| run | instance | checks |
|---|---|---|
| locks | locks a and b acquired in any order (so also into deadlock), lock_try_acquire, timer_sleep, thread_set_priority(0), falling priorities, 2 calls each | TypeOK; LockAccounting: value plus owners is one; OneList: a thread's `elem` is linked exactly once while it waits or is ready |
| alarm | threads created with priorities 0 and 2 by main (3) and by each other, pages reused, sleeps of up to 2 ticks, yields and one lock, 3 calls each, TIME_SLICE 2 | PriorityOrder: the ready list is in order, the highest runs, and the CPU halts only when none is ready; OneList; AnnouncedWaitersDonate; SleepsLongEnough; WakesAllDue |
| monitor | one lock, one condition, one semaphore that a device's interrupts up too; all calls on them; equal priorities | SignalAccounting: a waiter's semaphore is queued, being upped or upped, one of them and once; NoLostWakeup: who waits is blocked, and not for what is free |
| progress | fair; sleeps, a lock, lock_try_acquire; main above the others | AllExit: every thread's calls return and it exits, or the kernel stops; ImplementsMutex |
| MergeSort | every list of up to 5 elements with keys 0..2 | SortsByRank: it ends, and the result is the stable order |
| processes | 4 pids, no mishap or one kind | RecordsOwned, StaleOnlyAfterMishap, OnlyKnownPanics, ExecTold, ImplementsChildStatus, CallsAnswered (liveness: exec, wait and exit get through) |
| wrong_status | 5 pids, orphans | WaitReturnsStatus, violated (next section) |
| paging | 2 processes, 4 pages, 2 frames, 2 slots | FramesOwned, SlotsOwned, PinHolds, OnlyKnownStops, ImplementsMemory |
| console | rings of 3, one or two readers, a writer | NobodyForgotten, PortArmed, BytesInOrder (both rings implement BoundedQueue), CallersServed (liveness) |
| files | 2 processes, 2 names, a power failure | EntriesBacked, SectorsAccounted, OpensCounted, OnlyLoadsRace, ImplementsFileStore, CallsReturn (liveness) |
| memory | 2 threads, 3 pages | MemoryAccounted, RefusedOnlyWhenFull, ImplementsHeap |
| disk | 2 threads, 2 disks, 3 partitions, a fault, a stray interrupt | QuietWhenFree, ImplementsStore, ChannelReturned (liveness) |

The kernel runs have three client threads and the idle thread; priorities 0..3,
donation depth 3. Three threads are enough for a donor, a holder and a thread between
them in priority or order, for a chain of two holders, and for a barger beside a woken
waiter. `TIME_SLICE` 1 makes the timer able to switch threads of equal priority at
every point where interrupts are on; `alarm` uses 2 so that a switch that is *not*
due is seen too (the idle thread beside a ready thread of priority 0).

The type invariants of the other components are not properties of runs; they are
conjuncts of the inductive invariants that the proofs establish (Proofs, below).

Deadlock checking is on in the kernel's runs (the timer never ends) and in `memory`. It
is off where the system really may stop: a sort ends, a kernel shuts down or panics, all
processes have exited, or, in `paging`, hang, which OnlyKnownStops is about.

What the passing kernel instances avoid, because a property is false with it (next
section): in `alarm` no thread sleeps while it holds a lock, nests locks or changes its
priority; in `locks` no thread sleeps while it holds a lock. A read through a cleared
holder is reached in `locks`, `alarm` and `progress` too: safety properties hold up to
and including it, and the liveness properties of `progress` say "or the kernel stops".
Liveness needs locks acquired in one order (`progress` has one client lock; `locks`
shows that safety does not).

The largest are `alarm` (2.2 million states), `disk` (1.52 million), `memory` (1.45 million), `paging` (1.37
million), `files` (0.38 million), `console` (0.22 million) and `processes` (0.27 million);
`disk`, `paging`, `files` and `processes` take two to three minutes each with two workers.

## Where the code does not do what it says

`wrong_status` ends with a counterexample to WaitReturnsStatus, which is the comment on
process_wait(): a child finds its parent alive and is preempted; the parent exits and
frees the child's record; the block is handed out as the record of another child, of
another parent; the first child ups the exit semaphore in it; the second parent's
wait() returns before its own child has ended, with a status nobody gave.

Met on the way. For each there is a definition that fails as soon as it is added to the
run named:

| property | run | what happens |
|---|---|---|
| HolderWhenDonating | locks, alarm, progress | lock_acquire() finds a holder and is preempted, the holder clears `lock->holder`; the donation loop reads through NULL |
| DonationsReturned | alarm, locks | a donation between thread_next_priority() and `holder = NULL` is never taken back |
| InterruptMayUp | monitor | sema_up() in an interrupt handler wakes a thread of higher priority and asserts in thread_yield() |
| WaitsForReason | console | two readers: the one that slept for the queue's lock finds the queue not empty where wait() asserts that it is (intq.c:47, :91): two processes that read fd 0 can panic the kernel |
| NoWriteLost (a PROPERTY) | paging | the owner writes between swap_out() and pagedir_clear_page() (frame.c:56); vm/designdoc.txt:316-319 says it cannot |
| WritesKept | disk | ide_write() does not look at the disk's status after the completion: a write the disk has failed to store is reported as done |
| NoPanic | processes | a boot without -q or -r in which no program makes a system call (its actions are `ls` or `cat`, say, or it has none): main() returns from shutdown(), calls thread_exit() (threads/init.c:137), and process_exit() acquires lock_f (process.c:171), which nobody has initialised: list_insert() asserts |
| OpensShared | files | load() opens an inode without lock_f while another thread does: two `struct inode` of one sector, against the comment at inode.c:56 and userprog/DESIGNDOC.txt:146 |

Three more need constants that the runs do not have:

- SleepsLongEnough in `alarm` with HoldingCalls = {"timer_sleep"}: a holder that sleeps is
  moved to the ready list by a donation and returns from timer_sleep() early; it is on
  ready_list with status THREAD_BLOCKED.
- AnnouncedWaitersDonate in `locks`, where locks nest: a holder of two locks releases one
  while a donor to the other has not blocked yet: the recomputed priority leaves the donor
  out. Calls = {"timer_sleep", "lock_acquire"} suffice.
- SignalsHighest (a PROPERTY) in `monitor` with InitPriority <- TwoHigh, no semaphores,
  "timer_sleep" among Calls and MaxCalls = 3: a waiter preempted between releasing the
  lock and blocking has an empty semaphore; its priority is read as 0 and a lower one is
  signalled.

Other things a reader of the code should know:

- A lock taken by lock_try_acquire() is not on acquired_locks; its lock_release() asserts
  or corrupts memory in list_remove(). `locks` reaches it (`fault = "unlinked_lock"`).
- In `locks` a holder in the middle of a chain, preempted between
  setting wait_for_lock and sema_down(), is raised where it stands in the ready list,
  since only the last holder of a chain is moved.
- thread_set_priority(0) by a holder, equal priorities: the base equals the effective
  priority although a donor is waiting, the call takes that for "no donation", and the
  holder falls below its waiter. To a higher value it changes only the base priority.
- A waiter that arrives after sema_down() took the lock's semaphore but before the holder
  is recorded does not donate: AnnouncedWaitersDonate speaks of waiters that found one.
- The first program of a boot that faults, or whose load fails, before any system call
  acquires lock_f in zeroed memory and panics the kernel, as main() does (above).
  OnlyKnownPanics says that nobody else does, and that otherwise the kernel panics only
  over a lock_f that sys_open() kept or over a record that was freed. The lazy initialisation itself
  has no race, because no second program runs before the first system call
  (LockInitOnce).
- userprog/DESIGNDOC.txt, B8, says that wait() on a child that has exited returns -1; the
  code returns its status.
- vm/designdoc.txt:307-309 says that locks are always taken in one order; LockCycle is
  reached: load() holds lock_f and waits for frame_lock, whose holder waits for lock_f.
- load() releases lock_f when pagedir_create() fails, before it has acquired it
  (process.c:355 of the last copy). Swap slots of a process that exits are never freed.
  The clock turns for ever when every page is inevictable.
- read_partition_table() "Reads the partition table in the given SECTOR of BLOCK"
  (partition.c:36), and reads sector 0 whichever sector it is called for (partition.c:91):
  logical partitions are never found, and the entry of an extended partition in the master
  boot record is followed again from inside itself until the kernel's stack is full.
- filesys_create() does not give the data's sectors back when dir_add() fails
  (filesys.c:54); process_exit() never closes the executable (process.c:187), so a
  removed program keeps its sectors until the next boot.

## Proofs

`tlapm` proves the following for every value of the constants that satisfies the named
assumptions: any number of threads, locks, processes, pages, frames, slots, ring sizes.

| theorem | module | says |
|---|---|---|
| KernelTypes | KernelProofs | `Spec => []TypeOK` |
| LocksAddUp | KernelProofs | `Spec => []LockAccounting` |
| KernelInvHolds | KernelProofs | `Spec => []KernelInv`, the inductive invariant |
| LocksRefineMutex | KernelProofs | `Spec => Abstract!SafeSpec`, the safety half of ImplementsMutex |
| ThreadsAreLinkedOnce | KernelProofs | `Spec => []OneList` |
| HandlerWakesAllDue | KernelProofs | `Spec => WakesAllDue` |
| NoWakeupIsLost | KernelProofs | `Spec => []NoLostWakeup` |
| SignalsAddUp | KernelProofs | `Spec => []SignalAccounting` |
| SleepersSleep | KernelProofs | `Spec => []SleepsLongEnough`, if nobody sleeps while it holds a lock |
| CPUGoesByPriority | KernelProofs | `Spec => []PriorityOrder`, if holders keep going (below) |
| WaitersHaveDonated | KernelProofs | `Spec => []AnnouncedWaitersDonate`, if holders keep going and the depth is above 1 |
| InsertKeepsSorted | PriorityListProofs | list_insert_ordered() keeps a list in order |
| SortSorts | PriorityListProofs | list_sort()'s result is in order |
| RecordsHaveOneOwner | ProcessProofs | `Spec => []RecordsOwned` |
| RecordsAreFresh | ProcessProofs | `Spec => []StaleOnlyAfterMishap` |
| NothingElsePanics | ProcessProofs | `Spec => []OnlyKnownPanics` |
| ExecIsTold | ProcessProofs | `Spec => []ExecTold` |
| ParentsAreTold | ProcessProofs | `Spec => ImplementsChildStatus` |
| FramesHaveOneOwner | PagingProofs | `Spec => []FramesOwned` |
| BuffersStay | PagingProofs | `Spec => []PinHolds` |
| SlotsHaveOneOwner | PagingProofs | `Spec => []SlotsOwned` |
| PagingKeepsMemory | PagingProofs | `Spec => ImplementsMemory` |
| PagingTypes | PagingProofs | `Spec => []TypeOK` |
| NothingElseStops | PagingProofs | `Spec => []OnlyKnownStops` |
| EntriesAreBacked | FileProofs | `Spec => []EntriesBacked` |
| SectorsAreAccounted | FileProofs | `Spec => []SectorsAccounted` |
| OpensAreCounted | FileProofs | `Spec => []OpensCounted` |
| OnlyLoadsRaceHolds | FileProofs | `Spec => OnlyLoadsRace` |
| FilesAreKept | FileProofs | `Spec => ImplementsFileStore` |
| NobodyIsForgotten | ConsoleProofs | `Spec => []NobodyForgotten` |
| PortStaysArmed | ConsoleProofs | `Spec => []PortArmed` |
| BytesStayInOrder | ConsoleProofs | `Spec => BytesInOrder`, both rings are bounded queues |
| RefusesOnlyWhenFull | AllocatorProofs | `Spec => []RefusedOnlyWhenFull` |
| MemoryIsAccounted | AllocatorProofs | `Spec => []MemoryAccounted` |
| AllocatorsImplementHeap | AllocatorProofs | `Spec => ImplementsHeap` |
| ChannelIsQuiet | DiskProofs | `Spec => []QuietWhenFree` |
| DisksKeepSectors | DiskProofs | `Spec => ImplementsStore` |

**Assumptions.** Of the threads kernel: ObjectsAssumption (objects are distinct, main is a
client thread, the idle thread is not), NumbersAssumption (TIME_SLICE and the depth
positive, PRI_MAX at least 1), BootAssumption (the boot list is sorted and without
repetition, and nobody in it outranks main), AlarmAssumption, SynchAssumption,
ClientAssumption. Of the others: LifecycleAssumption, PagingAssumption, StackAssumption
(every program has a stack page, and there is a value to write on it), ConsoleAssumption,
AllocatorAssumption, HeaderAssumption, IdeAssumption, PartitionsAssumption, FileSystemAssumption (names are
distinct, sizes are positive numbers, processes are finitely many). TLC evaluates them in
the runs.

### The threads kernel

Neither TypeOK nor LockAccounting is inductive. `KernelInv` in KernelInvariant adds:

- *FramesOK*: the locals that the code at `frame[t].pc`, and the code it returns to, will
  read are there (a thread in sema_down() on a lock's semaphore is in lock_acquire() of
  that lock). Without it typing cannot be preserved, as the next step reads the local.
- *Ownership*. `Owns(t, l)` runs from taking the semaphore to giving it back, whatever
  `lock->holder` says. OneOwner and UpWhenFree are LockAccounting without counting;
  HolderUntilCleared ties ownership to the field: set at `unlist`, cleared at `up`.
  It is what makes SemaUp an end of ownership and not a second up. The proof has three
  classes of steps: those that give a lock (SemaDownTake, LockTryAcquire), those that
  return it (SemaUp), and all the others, which leave ownership and value as they are.
- *GoneFromKernel*: a thread that does not exist is not inside the kernel, and does not
  run. thread_create() overwrites the frame of the page it is given; without this it
  could erase an owner.
- A lock's value is at most one, so reading the value word of an empty waiters list in
  thread_next_priority() yields a priority. This is where PRI_MAX >= 1 is used.

KernelProofs has one lemma per action for the types, one for the frames, and those for
ownership and for GoneFromKernel, and combines them. Every lemma about lists is in
PriorityListProofs.

*LocksRefineMutex.* Mutex's `owner` is OwnerOf, its `wants` is Wanted and its `stopped`
is `fault # "none"`. SemaDownTake on a lock's semaphore is Grant, a successful
lock_try_acquire() is TryGrant, sema_up() in lock_release() is Release, and Request is
one of three steps: a client's lock_acquire(), allocate_tid() in thread_create(), and
cond_wait() on waking. Every other step leaves Mutex's variables alone. Ownership gives
the guards of Grant and Release; the guard of Request, that nobody asks for a lock it
has, is what lock_acquire() asserts, and for the second and third of those steps it
needs `CallsOK` in KernelInvariant: tid_lock belongs only to a thread inside
allocate_tid(), and a thread blocked in cond_wait() has released its lock. KernelInv
and CallsOK together are inductive; PTL joins it to the step lemmas of the refinement, one per
action.

*ThreadsAreLinkedOnce.* `LinksInv` joins KernelInv. LinkedOnce says that no list has a
thread twice, Linking that the lists share none and that status says which threads are
in them, so it is about sets and every list operation is one change of a set. A
donation moves a thread wherever it stands, so it must be linked somewhere: HoldersLive,
a recorded holder has been started and has not died, and is not the donor. ChildrenOK
says that a thread which is being created is unblocked once.

*HandlerWakesAllDue.* The list of sleepers is in order (SleepersSorted): each tick takes
the same from everybody, and the handler takes sleepers from the end of the list, so
when it stops at one that is not due, none before it is.

*NoWakeupIsLost.* WakesOK counts: a semaphore that has waiters is worth at most the number
of threads it has woken that have not come back to look. sema_up() adds one to both sides;
a woken thread that looks takes one from both, or finds nothing left to take.

*SignalsAddUp.* While a thread is in cond_wait() its semaphore is queued, or about to be
upped, or is worth one (SignalOK); no queue has it twice (QueuedOnce) and no two threads
up it (UppedOnce).

*SleepersSleep.* A sleeper holds no lock, so no donation moves it (SleepersOK). The
hypothesis is needed: TLC finds SleepsLongEnough violated without it (above).

*CPUGoesByPriority, WaitersHaveDonated.* Holders keep going if, while it holds a lock, a
thread does not create, sleep, down a semaphore or ask for another lock
(`HoldersKeepGoing`); besides, nobody calls thread_set_priority() and no device ups a
semaphore. `alarm` satisfies these. Without them TLC finds PriorityOrder violated: in `alarm`
with timer_sleep() among HoldingCalls, or with thread_set_priority() among Calls (it raises
the base only; a donor later lifts the holder to that base, above itself); in `locks`, where
locks nest, with MaxCalls = 3; in `monitor`, whose device ups a semaphore, with
InitPriority <- TwoHigh. AnnouncedWaitersDonate is violated in `locks`, and in `alarm` when a
holder sets its priority.

With them a holder waits for no lock and has one (HoldersOK), so a donation has only that
holder to raise and moves it to its new place in the ready list, and no priority is below
its base (BaseOK). For the waiters: whoever has taken a lock has the priority of all that
announced themselves (WaitersDonate); while a lock is up with waiters left, a woken thread
outranks those left (FirstWoken), and by PriorityOrder so does whoever
runs and takes the lock before it. A depth of 1 would stop the donation loop before its
only donation.

### Processes

RecordsOwned needs the births of threads: a tid is used once, a record's pid is below
next_tid, and a block has one pid. The hands of a call (`child[p]`) are in its own list
from the fork to the answer. The initial thread has a record in its list only while it
waits for it, so it exits without children. RecordsAreFresh uses a second
part that holds only without load failures and orphans: a child's record stays its own
until it has upped its exit semaphore, because its parent is alive and in wait() or has
not called it yet; then every use of `cp[p]` finds `p` there. NothingElsePanics needs a third part, on lock_f: it is zeroed
exactly until the flag says that it is initialised, it is held at the end of a call only
if malloc() failed, and a process that exits while it is zeroed has met a fault or a
failed load, or is the initial thread. A sema_up() that panics is one of a record that
is not the thread's own, which the second part confines to failed loads and orphans.

ExecIsTold and ParentsAreTold hold with mishaps too, until a thread uses a record that is
not its own (`stale`). Told says what a record knows of its child: the bits follow what
became of the load, the semaphore for the exit is up only once the child has ended, and by
then the record has the status. With Alive (all_list has exactly the threads between
birth and death) every step is one of ChildStatus or none; after `stale` ChildStatus
allows anything.

### Virtual memory

Four invariants, each as long as what it needs lasts.

- *Firm* holds always: types, lock holders, what a process is busy with (HandOK), that
  frame_lock is held exactly in frame_replace() (EvictionOK), that a present page is mapped
  (EntryOK).
- *Placed*, while Untorn, says where each page is, for every place a process can be in
  (WorkOK for the page it brings in, VictimOK for the one it evicts) and for every page
  (PageOK). FramesOwned and PinHolds follow from it alone.
- *SlotsOK*, until a page is dropped unwritten, so also after overtaken evictions: every
  page that has a slot has it to itself, and swap_lock is free between steps. SlotsOwned
  follows.
- *Kept*, while Sound, says that what is dropped is somewhere else: SavedOK, SlotOK, KindOK,
  CopyOK (a clean page equals its file or slot, a copied victim its copy). The refinement
  needs it.

QuietPage and Rebuilt say once what a step does to the pages it leaves alone and to the
one it changes. The argument turns on three points: swap_out() takes a slot no page has;
a slot is freed only by swap_in() of its owner's page; and a stack page chosen while
clean is the event `unwritten`.

*NothingElseStops.* Suppose that no process in the kernel can go on. If swap_lock is held
a slot was empty. If not, lock_f can only be held by a process that waits for a frame (all
other places that hold it can go on), and frame_lock only by one in frame_replace(): it
finds every frame pinned, or waits in WriteBack for lock_f, and then the two are
LockCycle. With both free everybody goes on; a program that has just started does because
of StackAssumption. Panics are single steps that leave everything else as it is
(PanicSteps), so what is known before them names the cause.

PagingKeepsMemory shows each step to be Enter, Write, Leave or a stutter of PagedMemory
under the mapping Located, Entered, Shared. Once Sound is false it never returns
(StaysSpoiled), and the abstract machine allows any step that leaves it broken.

### The console

Who is in wait() holds the queue's lock, and nobody else does (OneHolder); the recorded
waiter sleeps there (WaiterWaits); the lock's waiters are distinct and asleep (Queued).
With these a signal() wakes exactly the thread whose reason to sleep it removes. PortArmed
is inductive with the types: every change of a ring is followed by write_ier in the same
step.

BytesStayInOrder reads a ring's indices as a wrapped interval: Filled places from the
tail, of which Place names the i-th without a modulus. RingInv says that they hold the bytes put
and not yet taken, in order; every step leaves a ring's contents (Same), adds at
the end (Puts), removes the first (Takes), or replaces the last (Replaces, which is
what the poll of putc with interrupts off amounts to), and each is a step of BoundedQueue.

### The allocators

A scan must not miss a run that was free when it began. `used_map` is read bit by bit,
but while a thread holds the pool's lock others only clear bits. The invariant has the
types, the locals at each place, that one thread at a time scans, and that a run which was
free at the beginning is still free and has not been passed.

MemoryIsAccounted needs to know where every page and block is at each place of a
call. `Accounts` has three parts: Local (what a call has in hand fits its size and its
descriptor, and who has a descriptor's blocks in hand has its lock), OfPages (pages of
different owners are disjoint, and the marked ones are those of an owner, an arena or a
call) and OfBlocks (every block of an arena is with one client, with one call or on the free
list, and free_cnt counts the last; an arena without a block out is being made or taken apart). AllocatorsImplementHeap maps a
client's extents to Heap's; Span gives the cells of one, disjoint from all others by
Accounts, so a copy, a store or junk touches one owner's cells.

### The disks

`IdeInv` is Owned (only the channel's lock holder is in ide.c), Settled (in which state the
selected disk can be at each place, the others idle; until `confused`) and Quiet (where an
interrupt or a count of the semaphore can be, once each, while no stray interrupt has come).
QuietWhenFree follows from Quiet. For DisksKeepSectors, Does says that a call has had its effect
and Carries what it carries until then; the effect is one step of the transfer, and the
others stutter in BlockStore.

### The file system

`IInv == Sound => FileInv`: everything is promised until memory is used that another call
is working on. FileInv says that one process at a time is in a call (Solo), what each
knows at each place (Shapes, Knowing), that one frees an inode (OneFrees), what a struct
inode agrees on with its sector and the directory (InodesOK, DirOK, WholeFiles), whose every
sector is (Accounts), and that the counts are the numbers of those who have an inode
(Counted). Accounts gives EntriesBacked and SectorsAccounted, and Counted is
OpensCounted. A step drops or takes one holder of one inode; Share and DropStep say that once.

load() takes no lock_f. MetOK marks every call that overlaps one; a call that is not marked
still has what it saw (Seeing): the inode it found is in the list, its entry in the
directory, its file writable. So a step that uses another's unfinished work is one of a
call that has met a load, which is OnlyLoadsRaceHolds.

FilesAreKept maps each step to one step of FileStore or none. Creating shows at the directory
entry, with the sectors zeroed by then (Zeroed); removing at Erase; a removed file
lives until its last close; a power failure forgets what is open and nothing else.

### Only model-checked

- Liveness: AllExit, CallsAnswered, CallersServed, CallsReturn, ChannelReturned, the end of
  the sort in SortsByRank, the fair half of ImplementsMutex. The prover has no fairness and no
  ENABLED; for the latter reason too, that CanRun is ENABLED Runs.
- SortsByRank: that the merge sort equals the stable order on every input is an induction
  over the list.
- SleepsLongEnough, PriorityOrder and AnnouncedWaitersDonate are proved under hypotheses on the
  clients; what happens without them is said with each. No weaker form is checked or proved.

## What is not modelled

- *Threads kernel:* thread_foreach and all_list, the 4.4BSD scheduler's stubs, thread names
  and magic numbers, statistics: nothing modelled depends on them. The functions of list.c
  without a caller in the modelled code. Timer calibration and busy waiting, the PIC, the
  IDT and device registers. Instances with four threads, or two locks and conditions
  together, are out of TLC's reach here; chains longer than the donation depth are not seen.
- *Processes:* argument passing; halt(), which ends the behaviour where it stands; updates of
  all_list with interrupts on; a failing palloc_get_page(); the idle thread's tid; load()'s
  use of the file system, which FileSystem has.
- *Virtual memory:* the clock's order, a failing malloc() or kernel page, read-only pages; the
  console's paths of read and write, which return with the buffer still pinned.
- *Console:* scan code tables, modifiers, the port's set-up, the VGA half of console.c.
- *File system:* reads and positions, the directory listing, formatting, fsutil, files as
  long as several extents of different lengths, failing malloc().
- *Allocators:* calloc() (malloc and memset), PAL_ASSERT and PAL_ZERO, the second pool, which is
  another instance of the same code.
- *Partitions:* the scan at boot, one thread's recursion before any program runs (what it does
  with an extended partition is under "Where the code does not do what it says").
- *Disks:* detection and identification at boot (register sequences, before there are two
  threads), device names and roles, the counters of reads and writes, which are increased
  without a lock and only printed; the second channel, an instance of the same code.
- *Page directories, boot, library, tests* are hardware tables, straight-line code, text, and programs that are not part of the kernel.

Most lines of the repository are in no module's mapping, for reasons that modelling more
would not change: each of the three copies repeats the other two's kernel (a line is mapped
in the copy that introduced it), and the C library, the tests and the example programs are
in each of them.

## Plan

Done: the threads kernel, processes, virtual memory, the console, the allocators, the disks and
the file system, each model-checked, and each safety property of a passing run proved: as it
stands, or, for three of the threads kernel, under the hypothesis the code needs.

What is left, in this order:

1. *Threads kernel:* the order of priorities with nested holders, as far as the donation depth;
   thread_set_priority() by a thread that holds no lock; devices that up a semaphore.
2. *Compositions:* load()'s file system calls in ProcessLifecycle; kernel pages that run out, in
   ProcessLifecycle and VirtualMemory.
3. *More operations:* reads and file positions; identification of the disks.
