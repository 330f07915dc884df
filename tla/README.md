# A TLA+ development of xv6

This directory specifies the kernel in `src/` (xv6 for x86, with a date system
call, the shells `ezsh` and `mjsh`, `cron` and the editor `xvedit` added) in
TLA+. Its modules are model-checked with TLC and part of them is proved with
TLAPS. `PROJECT.json` lists the runs, the lines of the source behind every
definition, the hazards the properties are aimed at, and the theorems.

## 1. The system

The kernel is a set of components that share memory and meet at locks. Two
mechanisms carry all of the concurrency: spinlocks, which disable interrupts
and are held for a few instructions, and `sleep`/`wakeup`, which release a
spinlock and the CPU in one atomic step.

| component | state | operations | interacts with |
|---|---|---|---|
| processes and scheduler (`proc.c`, `trap.c`, `spinlock.c`, `sysproc.c`) | process table, `ptable.lock`, CPU registers, `ncli`/`intena`, `ticks` | fork, exit, wait, kill, sleep, yield, the timer interrupt, the scheduler loop | everything that sleeps |
| sleep-locks (`sleeplock.c`) | `locked`, `pid`, the inner spinlock | acquiresleep, releasesleep, holdingsleep | buffers, inodes |
| buffer cache and disk (`bio.c`, `ide.c`) | buffers, LRU list, request queue, controller | bread, bwrite, brelse, iderw, ideintr | log, inodes |
| log (`log.c`) | log header in memory and on disk, log blocks, `outstanding`, `committing` | begin_op, log_write, end_op, commit, recovery | all file system calls |
| inodes, directories, paths (`fs.c`, `sysfile.c`) | disk inodes, inode cache, sleep-locks, working directories | open, mkdir, mknod, link, unlink, chdir, close | log, buffers, file table |
| files (`file.c`, `fs.c` block layer) | file table, offsets, block maps, free bitmap | read, write, dup, close, truncation | log, inodes, pipes |
| pipes (`pipe.c`) | ring, counters, open flags, ends | read, write, close | file table, sleep/wakeup |
| console (`console.c`) | input ring `r`, `w`, `e` | the keyboard interrupt, read | sleep/wakeup |
| memory (`kalloc.c`, `vm.c`, `exec.c`) | free list, page tables, sizes | fork, exec, sbrk, exit, wait | processes |
| user programs (`init`, `sh`, `ezsh`, `mjsh`, `cron`, `xvedit`, `umalloc`) | child processes, line lists, free list | commands | the system calls |

What is hard about each, and so what the properties are about:

* **Processes.** `ptable.lock` is taken by one thread and released by another;
  a zombie still runs on its stack; a wakeup may fall between a test and the
  sleep that follows it; `intena` belongs to a thread but is kept in the CPU.
* **Sleep-locks.** A waiter may be woken by `kill`, or by the release and then
  lose the lock to another process.
* **Buffer cache.** A buffer may be recycled while somebody is about to use it;
  a process may be woken before its request is done.
* **Log.** The machine may stop between any two disk writes, also during
  recovery; the space of the log is promised before it is used.
* **File system.** References and link counts are changed in separate critical
  sections; locks of several inodes are held at once.
* **Pipes and console.** Rings at their limits, counters that wrap around, and
  wakeups owed to the other side.
* **Memory.** Any allocation in the middle of a call may fail.
* **Files.** Blocks are added one at a time while other files allocate; an open
  file and its offset are shared by processes; a write is split into pieces that
  must fit a transaction each.
* **User programs.** `wait` returns whichever child exits first, a pipe end left
  open keeps a reader waiting, nobody reaps cron's children, and the editor's
  list is changed through three pointers and a count that must agree.

## 2. The modules

| module | models | refines |
|---|---|---|
| `Log`, `LogControlProofs`, `LogProofs` | `log.c` | `AtomicDisk` |
| `SleepLock`, `SleepLockProofs` | `sleeplock.c` with `sleep`, `wakeup`, `kill` | `Mutex` |
| `BufCache`, `BufCacheProofs` | `bio.c`, `ide.c` | `BlockStore` |
| `Proc`, `ProcSwitchProofs`, `ProcProofs` | `proc.c`, `spinlock.c`, the timer path of `trap.c`, `sys_sleep` | |
| `Pipe`, `PipeProofs` | `pipe.c`, with `filedup`/`fileclose` of the two ends | `Fifo` |
| `Console` | the input half of `console.c` | |
| `Vm`, `VmProofs` | `kalloc.c`, `vm.c` and their use by fork, exec, sbrk, wait | |
| `Fs` | the inode layer of `fs.c` and the calls of `sysfile.c` | |
| `FileData` | `file.c`, the block layer of `fs.c`, `read`, `write`, `dup`, `close` | `FileStore` |
| `ShParse` | the parser of `sh.c` | |
| `Userland` | `init.c`, `sh.c`, `ezsh.c` (and `mjsh.c`), `cron.c`, over one-step kernel calls | |
| `XvEdit` | `xvedit.c` | |
| `Session` | `Userland` and `XvEdit` composed | |

Modules named `MC...` give the constants values for TLC. Definitions keep the
names of the C functions; a function with several steps is split at the points
where another actor can see or change something, and each part is named for
the function or for the place (`commit_head`, `read_wait`). Definitions whose
comment starts with "Mutant" are wrong on purpose. They are one plausible bug
each, no action uses them, and putting one in the place of the definition it
follows makes a property fail: this is how we know the property depends on that
line of the code.

**What is one step.** A section under a spinlock that releases it before it
does anything else is one step. A spinlock that `sleep` releases, or that is
held across `swtch`, is a variable. A sleep-lock is a variable with an owner;
that `acquiresleep`/`releasesleep` may be abstracted so is what `SleepLock`
shows. Disk writes of the log are one step each, since a crash may fall between
them. Local variables of a call live in `pc` and a few variables beside it.

**Log.** The disk is `home`, `dlog` and `dhead`; `crash` keeps these three and
nothing else. `cache[b]` is what `bread(b)` returns, so the module relies on
`BufCache` keeping one content per block and on `B_DIRTY` pinning it (`recycle`
evicts only clean blocks). `write_log`, the installation and the recovery write
one block per step. The header is one sector and is written atomically.

**SleepLock.** The spinlock inside, the test loop, the release of the spinlock
by `sleep`, and the two ways to wake up are separate steps.

**BufCache.** The sleep-lock of a buffer is its `lock` field. The controller
runs beside the processes: it works on the head of `idequeue` and raises an
interrupt. `log_write` stands for the log's use of `B_DIRTY`. `bget`'s panic
stops the machine, and is an action.

**Proc.** Each CPU has its registers: `on`, the process whose kernel stack it
runs on, `ief`, `ncli`, `intena`, and where it is in the scheduler and in the
timer interrupt. Each process has its place in its system call. `sched` and the
code after `swtch` returns are separate, so a process may come back on another
CPU. The panics of `sched`, `scheduler` and `exit` set `panicked`.

**Pipe.** One pipe shared by processes that fork, close, read and write. The
loops run under `p->lock`; `kill` may come at any point. `freed` records
`kfree`.

**Console.** `consoleintr` handles one key per step. `Char` is a letter, the
newline and ^D, which are all the code tells apart.

**Vm.** Each `kalloc` is a step and may find no page. Addresses are counted in
units of `1/PGSIZE` of a page so that partial pages matter.

**Fs.** A step runs between two points where the process may wait for an inode
or where `ref` changes. Error paths are included. A directory is a function
from names to inode numbers. A file's contents are not part of this module.

**FileData.** A process inside `writei` holds the inode's lock and allocates one
block per step, the indirect block (`bmap_indirect`) before the block whose number
goes into it, so allocations for different files interleave. `inode` and `dinode` are
the inode in memory and on disk; `used` is the bitmap; `touched` collects the
blocks that a piece of a `write` logs. `balloc`'s panic is an action. `FileStore`
knows only sequences of bytes and positions; under the refinement mapping a file
is what it was before the piece until the piece is complete.

**ShParse, Userland.** A line is the sequence of its tokens; the parser's functions
are operators that return a tree and the tokens left. Every process of `Userland`
is at a place in a program (`code`), with the command it runs; `forks`, `exits`
and `waits` are the kernel calls, whose inside is in `Proc`. `fork` and `pipe` fail
when the table or the memory is full, `exec` and `open` may fail at any time. A
program that is none of these reads its input to the end, if that is a pipe, and
exits. A session is what is typed together with the crontab. The fields of the
crontab are converted as `cron.c` does it: names, ranges, and what becomes of a
wrong name.

**XvEdit, Session.** The list of lines is a function on node numbers, with `head`,
`end`, `count` and `changes` as in the code. A freed node keeps its contents until
`malloc` gives its memory away, which may be at any later moment; so a command that
uses a freed node finds it as it was or goes `wild`, and no property speaks about
the editor after that. FIND goes wild too when more lines match than `count` says,
for which its array has room. `hist` is what the user asked for and is read only by the
properties. In `Session` the shell starts the editor and waits for it; files
outlive it.

## 3. The runs

| run | instance | states | properties |
|---|---|---|---|
| `log` | 2 processes, 2 blocks, 2 values, reservation 3 of 6, calls that write 2 | 45,000 | `LogInv`, `DurableWhenIdle`, `CrashAtomic`, `SleeperWakes` |
| `proc_cpus` | 2 CPUs, 2 slots, 3 pids, ticks modulo 2, every call | 710,000 | `SwitchSafe`, `NoLostTick` |
| `proc_family` | 1 CPU, 3 slots, fork, exit, wait and kill, fair | 28,000 | `NoLostChild`, `OrphanReaped`, `KilledExits` |
| `sleeplock` | 4 processes, fair | 479 | `SleepLockInv`, `IsMutex`, `SleeperWakes` |
| `buf` | 2 processes, 2 buffers, 3 blocks, 2 values, 1 pinned block, fair | 286,000 | `CacheExact`, `OneContent`, `BwriteWrites`, `RequestsEnd` |
| `pipe` | 2 processes, writes of 1 and 3 bytes into 2, counters modulo 4, fair | 86,000 | `FreedIsUnused`, `SleepersMustWait`, `IsFifo`, `CloseReleases` |
| `console` | 2 readers, a ring of 3, indices modulo 6, fair | 117,000 | `CommittedIsFixed`, `EofIsEmptyRead`, `LineIsRead` |
| `vm` | 2 slots, 13 pages, pages of 2 units, tables of 2 entries, programs of 1 and 8 units | 164,000 | `OneOwner`, `SizeIsMapped` |
| `fs` | 2 processes, 2 names, 3 inodes, nested directories | 625,000 | `CacheExact`, `IsTree`, `FreedIsUnused` |
| `files` | 2 processes, 2 files, 2 open files, 5 blocks of 2 bytes, 1 direct and 2 indirect, 4 calls of open and write | 150,000 | `BlocksExact`, `WithinReservation`, `FilesCounted`, `IsFileStore` |
| `session` | 5 sessions, 5 slots, 1 pipe, 2 minutes of cron, a history of 2, 3 editor commands, fair | 67,000 | `PromptMeansDone`, `ParsesBack`, `KeepsText`, `SavedIsRead`, `QuitLosesOnlyEdits`, `ShowsRange`, `CommandsEnd`, `InitServes` |
| `fs_deadlock` | 2 processes, one file | violation | `NoDeadlock` |

What the invariants with several conjuncts say: `SwitchSafe`, no stack is used by
two CPUs or freed while in use, every switch is made as `sched` demands, and a
thread gets its own interrupt flag back; `NoLostChild`, a parent asleep in `wait`
has no zombie, and no process has a parent that is gone; `CacheExact` of `BufCache`,
a clean valid buffer is what the disk has and `refcnt` counts its users, and of
`Fs`, `ref` counts the pointers and an unlocked cached inode is the one on disk;
`SleepersMustWait`, whoever sleeps at a pipe has reason to, killed processes aside;
`SizeIsMapped`, every address space is mapped up to its size, and no panic of `vm.c`
is reached; `IsTree`, the root leads to a tree whose link counts are right.

**Why the bounds are enough to be interesting.**

* `log`: two calls fit into an empty log, and once one of them has written the
  other must wait, so `begin_op` sleeps for space as well as for a commit. `NLOG` is the smallest size the reservation admits. Absorption
  (writing a block twice) and a rewrite by the other process both happen.
* `proc_cpus`: two CPUs are what it takes to reach a stack, a slot or
  `ptable.lock` from another CPU, and a slot is used by two pids in turn.
  `proc_family`: three generations are needed for orphans.
* `buf`: three blocks in two buffers force eviction, one pinned block leaves a
  single buffer to fight for, and the panic of `bget` is reached.
* `pipe`, `console`: the rings are smaller than the transfers, and the counters
  wrap after two rounds, as 2^32 does after many. The real moduli are multiples
  of the ring sizes, which the assumptions require of the small ones.
* `vm`: 13 pages hold a process and most of a second one, so the failure of
  every single `kalloc` of fork, exec and sbrk is reached, and three pages of
  user memory need a second page table. A program of 8 units reaches `KERNBASE`,
  where `allocuvm` refuses it.
* `fs`: three inodes are the root, a directory and one more inside it; with the
  disk as small as that the panic of `ialloc` is reached. (The one of `iget`
  needs fewer cache entries than inodes, `NINODE = 2`.)
* `files`: a write of four bytes is split into two pieces, an unaligned one
  crosses blocks, the second block of a file needs the indirect one, another file
  can allocate between the two, and two files of full size do not fit on the disk. `MAXOPBLOCKS = 6` makes the piece one
  block, the smallest the code's formula gives.
* `session`: the sessions contain each operator of the shell's grammar, a syntax
  error, `cd`, the end of the input, a pipeline inside a background list, a history
  that wraps and an entry that is run again. Five slots are few enough that `fork`
  fails for the shell, for a part of a pipeline and for `init`. The editor's file
  has two lines; the line numbers that are typed are the first, the last and one past
  it, and the ranges have every form a range may have, from the first line to one
  past the last. The text that is typed and looked for has two characters; it differs
  from both lines, so that a line out of place is seen, and the first line has both
  characters with another one between them, so that FIND must match them side by
  side. `ParsesBack` is evaluated for all trees with two levels of operators.

`CHECK_DEADLOCK FALSE` is set where the system may stop: a pipe all of whose
ends are closed, `Fs`, whose calls can deadlock (see below) and whose panics
are last steps, `FileData`, where the disk may be full, and `Session`, where
nothing more may be typed.

**Fairness.** A thread that can run does run: the timer interrupt takes the CPU
from whoever has it, and the scheduler goes round the table, so weak fairness of
every step in the kernel. Where a step waits for a spinlock, strong fairness:
sections under spinlocks end, so the lock is free again and again, and a CPU
that spins on it gets it at last. The hardware ends its commands (`controller` in `BufCache`) and
delivers timer interrupts (`Proc`). No module assumes that a user process makes
a call, reads, writes or exits, with one exception, taken from `init.c`, which
always comes back to `wait`. A file system call writes finitely often and then
ends (`SF` of `end_op`). Crashes and kills are never assumed to happen. In
`Session` it is enough that some program goes on as long as one can; nothing is
assumed about what is typed. The one program that can go on for ever by itself is
`init`, when `exec` of `sh` fails each time it is tried. Nothing in the code excludes
that, so `InitServes` makes it an exception instead of a fairness condition: either
`init` tries for ever, or there is a shell and the zombies are reaped. While a shell
waits for a command `init` waits too, so `CommandsEnd` needs no exception.

## 4. Proofs

TLAPS checks these for every value of the constants that the modules' assumptions
allow.

*Log.* Assumptions: `LogAssumption` (finitely many processes, a reservation of at
least one block that fits into `LOGSIZE`) and `RoomInLog`: a call writes fewer
blocks than it reserves, and the log on disk has room for what the reservation
can admit. `RoomInLog` is needed because `log_write` panics at `log.size - 1`
and tests the space before it looks for the block.

The properties are not inductive: that nothing is lost in a crash between two
writes of `commit` depends on what the log blocks contain at that point. `LogInv`
therefore adds
`ControlInv` (who is in a call, that one process commits and then nobody is in a
call), `HeldInv` (who holds which buffer), `SpaceInv` (the log's length plus the
blocks that the calls in progress may still add stays under the bound; the sum is
the size of the set `Credits`), `CacheInv` (only a dirty or held buffer differs
from its home block), `CommitInv` and `BootInv` (what the disk contains at each
step of commit and of recovery). `LogControlProofs` proves the first half of the
step, `LogProofs` the second and the theorems: `LogInvariant`, `TypeCorrect`,
`PanicFree`, `NoLostWakeup`, `LogImplementsAtomicDisk` (that `Spec` implies
`CrashAtomic`, a refinement: each step is a step of `AtomicDisk` or leaves its
variables alone; the only step that changes the recoverable contents is the
write of a non-empty header, and it changes them to the cache), `Durability` and
`WriteAheadRule`.

*SleepLock.* For any set of processes: `SleepLockInv` is inductive (`SpinInv`, who
holds the spinlock; `OwnerInv`, the fields name the owner; `SleeperInv`, the test
before the sleep still holds), hence `HoldingIsExact` (what `bwrite`, `brelse` and
`iderw` test), `NoSleeperForgotten`, and `SleepLockImplementsMutex`, which is why
the other modules may treat a sleep-lock as a variable.

*Pipe.* Assumption: `PipeAssumption`, that the processes are finitely many, the
ring has at least one place, and the counters wrap around at a multiple of its size
greater than it (2^32 and 512 in the code). `FreedIsUnused` does not follow from
itself, because what `pipeclose` may conclude from the flags depends on who is on
the way to it. `PipeInv` therefore adds `EndsInv` (the references count the
processes at an end, a process in `piperead` or `pipewrite` has its end open, the
process that dropped the last reference is alone in `pipeclose`, and each flag says
that the end is open or being closed), `RingInv` (who holds the lock, that the ring is
never over-full, and why each sleeper sleeps, from the test on and not only from
`sleep`) and `IdleInv` (only a process in `pipewrite` has bytes left). Hence
`PipeInvariant`, `PipeFreedIsUnused`, `PipeSleepersMustWait`, and `PipeIsFifo`, that
`Spec` implies `IsFifo`: the loop of `pipewrite` appends to the bytes in the ring
(`StoreAppends`), that of `piperead` takes from their front (`TakeDrops`), and every
other step leaves them alone. The two lemmas rest on facts about remainders: places
less than a turn apart are different (`Injective`), and a wraparound at a multiple of
the size does not change the place (`WholeTurns`). TLC has checked `PipeInv` on the
instance of the run `pipe`, and without the liveness property for three processes.

*Proc.* For any number of CPUs and slots (`ProcAssumption`: at least one of each, and
the special values are not CPUs or slots). `SwitchSafe` speaks of stacks and of the
interrupt flag; why it holds is the hand-over of `ptable.lock` from the thread that
calls `sched` to the scheduler, or to the thread that comes out of `swtch`, on the same
CPU. `SwitchInv` says this for every point of the code: `CpuOK`, which locks the code
that a CPU runs holds (`HasPtable`, `HasTicks`), that `ncli` is their number, and that
interrupts are masked where it is not 0; `OnOK` and `OnState`, the process state and
the flag at each place of a running thread; `Alone`, no stack on two CPUs; `SlotOK`,
a process on no CPU is `Parked` at a place where `scheduler` may resume it, with
`ptable.lock` to be held there, and keeps its own `intena`; `ForkInv`, the slot `fork`
works on is an EMBRYO that belongs to one process. A step disturbs this at one CPU and
one process (`LocalStep`). `ProcSwitchProofs` has the steps of a process,
`ProcProofs` those of the scheduler and of the timer interrupt and the theorems
`SwitchInvHolds`, `SwitchIsSafe`, `TicksWake` and `ChildrenKept`. For the last two,
`TickInv` adds that a process between the test of `ticks` and `sleep` still has time
left, which the holder of `tickslock` guarantees, and `FamilyInv` that `init` lives,
nobody is its own parent, and the parent of the slot that `fork` fills is set late.

*BufCache.* For any finite sets of processes and buffers and any blocks and values
(`BufCacheAssumption`). `BufInv` ties together the process that works with a buffer
(`ProcOK`: it has the sleep-lock where the code needs it, and calls `iderw` with a
buffer that is not valid or is dirty), the fields (`BufOK`: the holder of the lock is
one of the `Users`, and `refcnt` is their number; `Distinct`: a block has one buffer),
the driver (`QueueOK`: the requests are different buffers, each locked by a process
that sleeps for it; `CommandOK`: the controller works on the first of them) and the
disk (`DiskOK`). All but `DiskOK` hold with a disk that fails: `BufInvHolds`, and
`IderwHasWork`, that `iderw` never panics. What the buffers contain is right only if
commands succeed, since `ideintr` does not look at the error (section 5), so
`CacheIsExact`, `WritesReachDisk` and `CacheIsStore` have `Outcome = {TRUE}` as a
hypothesis. `CacheIsStore` is the refinement of `BlockStore`: a block's content is its
buffer's if that is valid and the disk's otherwise, `acquiresleep` of a valid buffer
and `ideintr` of a read are its `Get`, `log_write` and `bwrite` its `Put`, `brelse`
its `Drop`, and recycling, the queue and the controller change nothing
(`RecycleStutters`, `ControllerStutters`).

*Vm.* For any slots, number of pages, entries of a page table and size of a page
(`VmAssumption`: user memory ends at a multiple of the page size, as `KERNBASE` does,
and program sizes fit a `uint`). `OneOwner` counts pages, and a
count is preserved only if nothing is counted twice. `VmInv` therefore says that the
free list and the pools of the owners (a slot's kernel stack and address space, the
address space and the page that a call is building) are a `Partition` of memory, that
the entries of an address space are different pages (`NoDup`), and for each place of
`fork`, `exec` and `sbrk` what the call has allocated so far (`CallOK`, `LoopOK`,
`SlotOK`). Taking and giving back pages are lemmas about partitions (`Takes`, `Frees`,
`MovesTo`), each step of the code is an instance of one of them, and the sum in
`OneOwner` follows at the end (`PartsCounted`). `OneOwnerHolds` has no further
hypothesis: no page is lost whichever `kalloc` fails. `SizeIsMappedHolds` adds
`SizeInv`, that the loops of `allocuvm` and `copyuvm` have mapped exactly the pages
below their `a` and `deallocuvm` leaves those below the size it is given. It assumes
`MINSZ # 0`: with a size of 0 it is false (section 5).

TLC has checked `SwitchInv`, `TickInv`, `FamilyInv`, `BufInv`, `VmInv` and `SizeInv` on
the instances of the runs. Leaves cite `Zenon` where that prover suffices: it is the
faster one for steps without arithmetic.

Only model-checked, and why:

* All liveness properties: they need fairness and `ENABLED`, which are beyond TLAPS.
* `Userland`, `XvEdit` and `Session` (`PromptMeansDone`, `ParsesBack`, `KeepsText`,
  `SavedIsRead`, `QuitLosesOnlyEdits`, `ShowsRange`): what the parser and the editor
  compute is defined by recursion over trees and lists, and induction over data is out
  of reach of the provers.
* `Fs` (`CacheExact`, `IsTree`, `FreedIsUnused`): `IsTree` speaks of reachability,
  which needs induction over paths; `CacheExact` needs an invariant over all
  places of the calls, which has not been worked out.
* `FileData` and `Console`: not proved yet.

## 5. Where the code departs from its comments

The run `fs_deadlock` ends in a violation and shows it: `create` calls
`iunlockput(dp)` with the new inode locked, and `iput` always takes the sleep-lock
of its inode. An `unlink` of the same name locks the directory first and then the
file: each waits for the other.

The models show more cases; they are kept out of the passing runs by the constant
named here, and appear when it is changed:

* `iput` looks at `ref` in one critical section and counts it down in another
  (`fs.c:350`). Two processes that drop the last two references to a removed file
  both see 2, and nobody frees it, although `fs.c:327` says "If that was the last
  reference and the inode has no links to it, free the inode". `NoneLost` of `Fs`
  fails with `FileCalls` for the calls and `NINODE = 4`.
* A writer that is killed after it filled the pipe returns without the wakeup it
  owes the readers (`pipe.c:86`); a reader then sleeps although there are bytes.
  `ReaderSleepsOnEmpty` of `Pipe` fails with three processes, `PIPESIZE = 1` and
  `UINT = 2`.
* `log_write` panics at `log.size - 1` blocks while `begin_op` hands out `LOGSIZE`
  (`log.c:218`). With `NLOG = LOGSIZE` and `OPBLOCKS = MAXOPBLOCKS` the panic is
  reachable; the calls of this kernel write fewer blocks than they reserve.
* A process that has tested `killed` in `sys_sleep` and is not yet asleep is not
  woken by `kill` (`sysproc.c:70`): it sleeps on until the next tick.
  `KilledIsAwake` of `Proc` fails with `sleep` and `kill` among the `Calls`.
* `kill` looks at `pid` without looking at `state`, and `allocproc` does not clear
  `killed` (`proc.c:486`): after `kill(0)` the next process in that slot is born
  killed. `BornAlive` of `Proc` fails with `NPROC = 3` and 0 among the `Victims`.
* `ideintr` marks a buffer valid and clean also when the command failed
  (`ide.c:118`). `CacheExact` of `BufCache` fails with `Outcome = BOOLEAN`.
* `growproc` takes a new size of 0 for an error and keeps the old one
  (`proc.c:169`); the next `fork` panics. `SizeIsMapped` of `Vm` fails with
  `MINSZ = 0` and sizes that reach it.
* The ".." of a removed directory may name an inode that was freed; a path through
  it ends in the panic "ilock: no type" (`fs.c:310`), which the run `fs` reaches.
  A file created or linked inside a removed directory can never be reached
  (`sysfile.c:249`), which is why `IsTree` speaks of what the root leads to.
* `iget` panics when all `NINODE` (50) entries are in use although `NFILE` (100)
  files may be open (`fs.c:262`), and `bget` when every buffer is referenced or
  pinned (`bio.c:92`; `NBUF` equals `LOGSIZE`).
* `filewrite` reserves a bitmap block for each block of a piece (`file.c:133`), but
  not for the additional block of an unaligned write nor for the indirect block.
  If every block it allocates had a bitmap block of its own, a piece could log one
  block more than it reserved: `WithinReservation` of `FileData` fails with
  `BPB = 1`. `FSSIZE` (1000) is below `BPB` (4096), so there is one bitmap block.

The user programs differ from what their help texts and comments say, and the
properties of `XvEdit` and `Userland` name these cases as exceptions:

* `xvedit`: EDIT of an existing line returns before the change is counted
  (`xvedit.c:392`), so QUIT does not ask. ADD< before line 1 does nothing. ADD< after
  the last line and DROP of the last lines leave `contents->end` behind, and a later
  @END is lost. DROP `a:b` frees the node before the range, which stays linked, and
  counts one line too many, after which FIND may write past its array
  (`xvedit.c:531`). DROP `:b` compares with a count that it decreases itself
  and stops half way; DROP of everything does nothing, as the comment at line 300
  says. SAVE does not truncate the file and adds an empty last line. FIND prints
  nothing when one line matches, and misses a match that begins inside a failed one
  ("ab" in "aab"). `read_file` does not set the last `next`.
* `cron`: its children are never reaped. They fill the table; then `fork` fails for
  the shell, and `init` exits, which panics the kernel. The fifth field is compared
  with the year. A misspelt name means "*", and so does a 0 in the fields for month
  and day, as `NUMBERS` has no 0.
* `ezsh`, `mjsh`: `wait` may reap a background command instead of the one in front;
  other background commands are never reaped while the shell runs.
* `sh`: "a & b" is a syntax error; "a &; b" is not.

## 6. Not modelled

Boot code, the setup of interrupt controllers and segment tables, and the assembly
of traps: they run before the models' initial states or only move registers. Output
to the console, scan codes, and the text of messages: device I/O without state the
properties speak of. `mkfs`: a host program. The contents of user memory and the
loading of ELF segments: data. The memory model of the CPU: a lock is taken and
released atomically and everything in between is seen in order. Several disks.
The text processing of the user programs: cutting a line into words or tokens,
printing, and `nulterminate`. In the editor and the shells allocations are taken to
succeed and to be as large as what is stored in them, a file is read by one `read`,
ranges do not run backwards, and a history entry that was never written is not run.
In cron, a line has its five fields. `umalloc`: XvEdit only says when freed memory
may be given away. Small user programs that only make a few calls, tests, and files that no build
rule names. `PROJECT.json` lists every component with its status.

## 7. Plan

1. Composition: `Log` with `BufCache` (the log's pins against eviction), `FileData`
   with `Log` (each piece of a write as one transaction), and `Fs` with crashes
   between its transactions (a removed file that was open).
2. `Umalloc`: the circular free list of `malloc` and `free`, against disjoint blocks
   that cover what `sbrk` returned.
3. Proofs, in this order: `FileData` (`FilesCounted`, `BlocksExact`), `Fs`
   (`CacheExact`), `Console` (`CommittedIsFixed`).
