# A verification development for Mimiker (wifire-os)

Mimiker is a small Unix-like kernel for MIPS and AArch64 boards, written in C.
It runs on one processor, with preemptible kernel threads. This directory holds
TLA+ modules that model the kernel's synchronisation core and its most important
clients (processes, pipes with their descriptors, and physical memory), TLC
configurations that check them on small instances, and TLAPS proofs, for every
number of threads, mutexes, callouts, processes, pipes' users and pages, of all
the safety properties that the configurations find to hold.

## 1. Inventory of the system

The kernel's own logic is in `src/sys/kern`. In order of dependence:

| component | state | operations | hard because |
|---|---|---|---|
| scheduler (`sched.c`, `runq.c`) | run queue by priority groups, state, priority and flags of threads, current thread | add, wakeup, switch, clock, lend and unlend priorities, preemption | any two instructions of a thread may be separated by a switch |
| turnstiles (`turnstile.c`) | records that change hands, queues of blocked threads sorted by priority | wait, broadcast, adjust, propagate | chains of owners; records travel between threads |
| mutexes (`mutex.c`) | owner word with the contested bit, depth | lock, unlock | atomic fast paths race with the slow path |
| sleep queues (`sleepq.c`) | as turnstiles, unsorted; flags of the sleep | wait, timed and interruptible wait, signal, broadcast, abort | a wakeup, a signal and a timeout race |
| condition variables (`condvar.c`) | count of waiters | wait, timed wait, signal, broadcast | the count is a shortcut that must never be too low |
| callouts (`callout.c`, `clock.c`) | timing wheel, delegated queue, flags | schedule, reschedule, stop, drain, process | the owner, the clock interrupt and the callout thread use one link and three flags |
| interval timers (`time.c`) | one callout per process | set, get, stop | dropping the process lock while draining |
| signals (`signal.c`, `exception.c`) | pending sets, masks, actions, TDF_NEEDSIGCHK | kill, check, post, suspend | check before sleep; lock order forces unlocking |
| threads (`thread.c`) | list of threads, zombies | create, exit, join, reap | a thread frees itself through others |
| processes (`proc.c`, `fork.c`) | tree, groups, sessions, states, job control counters | fork, exit, wait, stop, continue, setpgid, setsid | parent and child locks, lost notifications, counters in pairs |
| pipes (`pipe.c`, `ringbuf.c`) | ring buffer, closed flags | read, write, close | readers, writers and closers |
| interrupt events (`interrupt.c`) | handlers and their flags | add, remove, run, serve | removal during service |
| descriptors and files (`filedesc.c`, `file.c`) | tables, reference counts | install, dup, close, fork | sharing |
| physical memory (`vm_physmem.c`) | buddy free lists | alloc, free, split, merge | arithmetic at the ends |
| virtual memory (`vm_map.c`, `vm_object.c`, `vm_pager.c`) | entries, objects | map, unmap, fault, resize, clone | offsets, overlaps |
| terminals (`tty.c`, `pty.c`, `uart_tty.c`) | queues, modes, foreground group | read, write, ioctl, hang up | job control from the background |
| kernel memory, VFS, exec, devices, diagnostics, machine-dependent code, user land | | | not concurrent at heart, or input and output |

How they interact. A mutex blocks on a turnstile, a turnstile switches through
the scheduler and lends priorities through it. A condition variable sleeps on
a sleep queue whose channel is its address. A timed sleep schedules a callout;
the clock interrupt delegates the callout to the callout thread, which aborts
the sleep. A signal sets a flag and aborts an interruptible sleep. Everything
above (processes, pipes, terminals, file systems) is a client of these: `wait4`
and pipes sleep on condition variables, under a process's lock or the pipe's
mutex. A process that exits drops its descriptor table, and the last reference
to an end of a pipe closes it; a process that leaves job control may orphan a
group, which is signalled.

What makes them correct, in a sentence each:

- scheduler: exactly the READY threads are queued, and a better thread that
  becomes ready leads to a switch;
- turnstiles and mutexes: no two owners, no waiter forgotten, records
  conserved, priority inherited along chains and returned afterwards;
- sleep queues and condition variables: no wakeup, signal or timeout lost, and
  each sleep says truly why it ended;
- callouts: what is due runs, and what was stopped or drained does not run;
- processes: no child's death, stop or continuation is missed by a parent that
  waits for it, also when children change parents; groups and sessions live as
  long as their members, and job control counters match their definition;
- pipes and descriptors: bytes come out as they went in, nobody sleeps who could
  go on, and a pipe is freed once, after its last user;
- physical memory: every page is free or given out once, and what can be merged
  is merged.

`PROJECT.json` lists every component, and under `hazards` the places in the
code where these are at risk.

## 2. Modules

| module | models |
|---|---|
| `TailQueue` | TAILQ operations as operators on sequences |
| `Sched` | `runq.c`, `sched.c` |
| `Turnstile` | `turnstile.c`, on top of `Sched` |
| `Mutex` | `mutex.c` and its clients, on top of `Turnstile`; the specification `Spec` |
| `AbstractLock` | what a mutex promises |
| `MutexInv` | the inductive invariant of `Mutex` |
| `SleepQueue` | `sleepq.c` |
| `Condvar` | `condvar.c`, the sleeping side of `sleepq.c`, signals and timeouts, on top of `SleepQueue` |
| `Callout` | `callout.c`, `clock.c`, with owners as in `time.c` |
| `Pgrp` | the process tree, groups, sessions and job control of `proc.c` |
| `Proc` | `proc.c`, `fork.c`, stop and continue in `signal.c`, on top of `Pgrp` |
| `Ringbuf` | `ringbuf.c`, as operators on records |
| `Filedesc` | `filedesc.c`, `file.c`: tables and reference counts |
| `Pipe` | `pipe.c`, with reading, writing, closing and forking processes, on top of `Ringbuf` and `Filedesc` |
| `AbstractPipe` | what a pipe promises |
| `Physmem` | `vm_physmem.c` |
| `TailQueueProofs` | lemmas on sequences |
| `MutexProofs`, `PriorityProofs`, `CondvarProofs`, `CalloutProofs`, `ProcProofs`, `PipeProofs`, `PhysmemProofs` | theorems; `MutexProofs` has the lemmas on the run queue |
| `MCMutex`, `MCCondvar`, `MCProc`, `MCPipe`, `MCPhysmem` | symmetry sets and constants for TLC |

Names follow the source: variables are fields (`td_prio`, `ts_blocked`,
`sq_free`, `c_time`), flags are sets of threads or callouts that have them
(`td_borrowing` is TDF_BORROWING, `c_pending` is CALLOUT_PENDING), operators and
actions are functions, or parts of functions between two points where another
thread can run.

**Atomicity.** The kernel runs on one processor. A section with interrupts
disabled (every spin lock disables them) or with preemption disabled and no
interrupt that touches the same data is one step. Elsewhere a thread can be
switched out between any two steps: `mtx_lock` is three (compare and exchange,
the section without preemption up to the switch, `preempt_enable`), as is
`mtx_unlock`; `sleepq_abort` is two, since it reads `td_wchan` before it locks
the chain. The function of a callout runs with everything enabled.

**`Mutex`.** `curthread` executes; `Interrupt` is a clock tick, which may end the
time slice; `Preempt` is the return from an interrupt. Clients lock mutexes in
increasing order (what lockdep enforces) and release them in any order. A
failed assertion of `sched_lend_prio` sets `panicked`, where the system stays;
the assertions on turnstiles are the invariant `AssertionsHold`. A mutex may be
locked any number of times, and a recursive one to the depth `MaxCount`. Of
`thread_exit` there is the last switch. Mutexes do not share hash chains, and `td_rtime` and other statistics are left out.

**`Condvar`.** Threads call the operations in any order within `MaxOps`. The lock
of the condition variable is abstract (`lk_acquire` of a free lock): `Mutex` shows
what stands behind it. One process lock serialises senders of signals. Signals
are those that the target neither ignores nor blocks. Which runnable thread
runs is left open, so the checks hold for every scheduler.

**`Callout`.** `last` is both `ci.last` and the system time: `clock_cb` sets both in
one interrupt. An interrupt may skip ticks. A function may reschedule its
callout, even to a time in the past, as `evdev.c` does. With `LateReturns` FALSE
a function that rescheduled has returned before the new time; TRUE drops this
assumption. A callout has one owner at a time, who waits before scheduling it
again, as `kitimer_stop` does; `evdev.c` does not (see `hazards`).
`quiet` is a history variable: the callouts whose owner was told that they will
not run.

**`Proc`.** A step is a section under `all_proc_mtx` or under a process lock.
`do_waitpid` and `proc_exit` hold `all_proc_mtx` while others may still stop,
continue or sleep under process locks alone, so they take several steps with
`all_proc` as owner: the scan of the children is one step per child. The thread
of a process that stops runs on after the process lock is released (`td_stopping`
is TDF_STOPPING). Signals have their default actions, and SIGCHLD may be set to
SIG_IGN, with which children reap themselves. Sending a signal to a group is one
step. A pid is any free one, `pid_alloc` takes the next. init neither dies nor gets
signals, and is in the state that `start_init` leaves it in. Terminals are left out, so
`pgrp_remove` and `session_leave` have no terminal to detach. `miscounted` is a
history variable: groups whose `pg_jobc` the code adjusts for a zombie, or whose
members init adopts from within its own session (see "also visible" below).

**`Pipe`.** What `pipe_read`, `pipe_write` and `pipe_close` do under the pipe's
mutex is a step, up to a sleep; `pipe_free` is a step of its own, without the
mutex. `uiomove` may fault before each of the two segments of a transfer, and a
signal may end a sleep. Reads and writes have one vector. A table belongs to one
process of one thread, so the hold that a call takes on its file is implied.
`said`, `silent` and `leaked` are history variables: how the last call ended, whether
a fault has cut a transfer after bytes moved, and holds that `dup2` took for
no entry. `AbstractPipe` sees the bytes of the ring buffer in order, the two ends,
and the calls.

**`Physmem`.** One call at a time holds `physmem_lock`; each split, merge and
insertion is a step, and the properties hold in between. Pages are indices, and
segments are given as `vm_boot_alloc` leaves them, at any alignment. A list
allocation that cannot be served returns ENOMEM and changes nothing. Memory past
the arrays of free lists is not modelled (finding 3). The pages at which the loop of
`init_vm_page` stops are the least set closed under its step (`LoopClosed`).

Operators named `X_Something` and marked "Variant" are wrong versions of `X`, of
the kind a change of the code could bring; each run's properties are
tested against one.

## 3. Runs

| run | instance | shows |
|---|---|---|
| `mutex` | 3 threads, 2 priorities, a plain and a recursive mutex, 1 change of base priority | run queue, turnstile and mutex invariants, with `sched_set_prio`; exact priority inheritance without it; refinement of `AbstractLock`; `mtx_lock` returns; no deadlock (253,476 states) |
| `mutex_panic` | 3 threads, 3 priorities, 2 plain mutexes, no change of base priority | violation: finding 1 |
| `callout` | 2 callouts, 2 buckets, time to 5, skips to 3 | wheel, stop and drain, wakeups, punctuality, liveness |
| `callout_late` | 1 callout, late returns | violation: finding 2 |
| `condvar` | 3 threads, 2 channels, 2 priorities, 4 calls | sleep queue invariants, no lost wakeup or signal |
| `condvar_live` | 3 threads, 3 calls | timed sleeps end, signals interrupt |
| `condvar_timed` | 2 threads, 2 calls | violation: finding 4 |
| `proc` | 4 pids, 6 calls, no signals but hang-ups | tree, groups, sessions, `pg_jobc`, no missed child |
| `proc_stop` | 3 pids, 5 calls, SIGKILL, SIGSTOP, SIGTSTP, SIGCONT, options of `wait4` for any child, the own group or one child | types, stopping and continuing, `wait4` returns |
| `pipe` | 3 processes, 2 descriptors each, buffer of 2, writes of 1 and 3, 5 calls | sleepers, reference counts and the end of the pipe, refinement of `AbstractPipe` |
| `physmem` | 3 free lists, 3 segments from page 1 on, 9 pages, 3 holders | conservation, exact lists and counters, assertions, merging of buddies by index; no deadlock (300,955 states) |
| `physmem_large` | 3 free lists, 8 pages | violation: finding 3 |

**Bounds.** Three threads are the least for a chain (one blocked on the owner of a
mutex who is blocked on another), for a queue with a middle, and for a waiter,
an owner and an intruder. Two mutexes give chains and owners of two. Two
priorities are enough for a thread that is passed over and for one that is
lent a priority; re-sorting a queue in the middle of a chain takes four
threads, and is left to the proof of `QueuesSorted`. Two
buckets with skips of three ticks cover fewer, exactly as many and more ticks
than buckets; five ticks let a callout go round the wheel twice. Four calls are
the least for two sleepers, a waker and a sender of signals. Four pids give
init, a parent, a child and a grandchild that init adopts, and six calls let
one of them be reaped and its pid be used again while it names a group. Three
pids are enough for a process that stops, its parent and a sender. A buffer of
two wraps around, and a write of three never fits; two descriptors give both ends and
`dup2` onto either. Three free lists and free segments of five and two pages have
splits and merges over two sizes, a start at page 1 (where the boards plug
memory from PAGESIZE on), and a used segment between two others. `MaxOps`,
`MaxTime` and `MaxSetPrio` bound the length of behaviours, `MaxHeld` and
`MaxCount` what callers hold at a time and the depth of recursion; they are in the
guards. No bound limits how often mutexes are locked, so that the liveness of
`mtx_lock` does not come from threads that run out of calls. The proofs of section 4 do not depend on any of them. Deadlock is
checked for mutexes, where all threads exit and the idle thread and the
interrupts go on, and for physical memory, where a call is always possible; the other
systems may rest when the calls or the time are used up.

**Fairness.** `Mutex`: the processor keeps executing the current thread, and the
idle thread looks for work; nothing is assumed of clock ticks or of the thread
that waits. `Condvar`: the clock ticks and the callout thread runs, and a
runnable thread in the middle of an operation goes on (that is the scheduler's
part). `Callout`: the callout thread, of the highest kernel priority, takes what
is delegated, functions return, and an owner woken up in `callout_drain` runs.
`Proc`: the processor runs some process as long as one can go on with what it has
begun; no process is preferred and none is assumed to make a call.
Nobody is assumed to lock, unlock, signal or sleep - except that a mutex owner
that runs does one of the things open to it.

`LocksReturn` has a condition for this reason: it says that every call of
`mtx_lock` under way returns once calls of `mtx_lock` cease to come. The code gives
no more: `turnstile_broadcast` wakes up all waiters and hands the mutex to none, so
a thread that unlocks and locks again before its time slice ends leaves those it
has woken up to fail and block again, as often as it likes, under the same
fairness. What `LocksReturn` shows is that no wakeup on the way is lost.

**Findings.**

1. `sched_unlend_prio` fails the assertion of `sched_lend_prio` (`sched.c:95`) when
   the owner of two contested mutexes unlocks one and a waiter of the other has
   a priority above the owner's base priority.
2. A callout that rescheduled itself and is delegated again before its function
   returns loses CALLOUT_ACTIVE (`callout.c:72`): `callout_drain` returns too early,
   and the callout thread's assertion fails later.
3. Two free neighbours of the largest size are merged to a block for which there
   is no free list (`vm_physmem.c:296`): `FREELIST` and `PAGECOUNT` go past the arrays.
4. A sleep with a timeout is not interruptible (`sleepq.c:317` sets TDF_SLPTIMED
   instead of TDF_SLPINTR, and `sleepq.c:306` looks at pending signals only without
   a timeout), against "Timed sleep is also interruptible." (`sleepq.h:34`).

Also visible in the models, without a run of their own:

- `callout.c:169`: when exactly CALLOUT_BUCKETS ticks pass between two clock
  interrupts only one bucket is visited, and callouts that are due wait for the
  next round, against the comment at `callout.c:40`. `DueAreDelegated` excludes
  this case, and shows that it is the only one.
- `sleepq.c:334`: the result of `callout_stop` is ignored. A timeout that was
  delegated for one sleep may be executed during the next sleep with a timeout
  and end it early; no property excludes that.
- `sleepq.c:313`: reusing `td_slpcallout` while the callout thread still has it ends
  in a failed assertion (`panicked` in `Condvar`).
- `proc.c:245`: `pg_jobc` is adjusted for zombie children, and not when init adopts
  a process of its own session; such counters differ from the comment at
  `proc.c:229`, and may keep a group from being orphaned (`miscounted`).
- `proc.c:432`: `setpgid` moves a process into a group without a notice to those who
  wait for the members of that group; a child that has been continued and then
  joins the group is reported only after the next change. `NoMissedChild` and
  `WaitReturns` speak of waits for any child and for a given one (`WaitsByPid`).
- `filedesc.c:206`: `dup2` onto a descriptor of the same file takes a hold that is
  never dropped (`leaked`; `PipeLife` counts it as a reference, so it does not catch
  that such a pipe is never freed).
- `pipe.c:73` and `pipe.c:100`: a fault after the first of two segments skips the
  broadcast, so that the other side may sleep next to bytes or space (`silent`). The
  bytes that a read had copied before the fault are lost (`AbstractPipe!Fail`).
- `vm_physmem.c:167`: buddies are paired by index in the segment, initial blocks are
  made by address. In a segment that starts at an odd page, like the first one of
  every board, the halves of a block that was split are not always buddies, so
  memory may stay in smaller blocks than it came in. `BuddiesMerged` holds there
  too: it speaks of the pairs that `pm_find_buddy` goes by.

## 4. Proofs

Proved with TLAPS, for all values of the constants that satisfy the modules'
`ASSUME`s, which say no more than that the parameters make sense (finite sets of
threads and processes, at least one priority, bucket or byte, NULL not a thread).
Where a theorem needs more it says so below. Each theorem rests on an inductive
invariant, which TLC checked on an instance before it was proved; a step of the
proof is one lemma per action.

| module | theorem | property |
|---|---|---|
| `MutexProofs` | `Invariance`, `TypeCorrect`, `RunqSafe`, `WaitersFound`, `TurnstilesSafe`, `AssertionsSafe` | `IInv`, `TypeOK`, `RunqConsistent`, `NoLostWaiter`, `TurnstilesConserved`, `AssertionsHold` |
| | `Refinement` | `ImplementsLock` |
| `PriorityProofs` | `QueuesSorted`, `InheritanceExact`, `PreemptionSafe` | `BlockedSorted`, `PriorityInherited`, `NoMissedPreemption` |
| `CondvarProofs` | `TypeCorrect`, `SleepersSafe`, `RecordsSafe`, `WaitersCounted`, `SignalsSafe`, `StatusSafe` | `TypeOK`, `SleepersFound`, `SleepQueuesConserved`, `CvWaitersCounted`, `NoLostSignal`, `SleepStatus` |
| `CalloutProofs` | `TypeCorrect`, `WheelSafe`, `StoppedStayQuiet`, `SleepersHaveReason`, `DueFound` | `TypeOK`, `WheelConsistent`, `QuietCalloutsDoNotRun`, `NobodySleepsForNothing`, `DueAreDelegated` |
| `ProcProofs` | `TypeCorrect`, `GroupsSafe`, `StopsSafe`, `ChildrenNoticed`, `JobcSafe` | `TypeOK`, `GroupsConsistent`, `StopsAgree`, `NoMissedChild`, `JobcExact` |
| `PipeProofs` | `TypeCorrect`, `SleepersHaveReason`, `FreedOnce` | `TypeOK`, `NoForgottenSleeper`, `PipeLife` |
| | `Refinement` | `ImplementsChannel` |
| `PhysmemProofs` | `PhysmemInvariant`, `PagesAreConserved`, `FreeListsAreExact`, `AllocationNeverRunsDry`, `BuddiesAreMerged` | `IInv`, `PagesConserved`, `FreeListsExact`, `NeverRunsDry`, `BuddiesMerged` |

**Mutexes.** `IInv` is type correctness, the consistency of the run queue, and
`TurnstileInv`. The last is needed because `NoLostWaiter` alone is not inductive:
that a thread waits for a mutex is recorded in the thread, in a turnstile, in the
mutex and in the place of the thread's own turnstile, and each action relies on
the others' agreement. E.g. `turnstile_broadcast` hands out `ts_free`, so the list
must be as long as the queue less one, without repetition, of records nobody else
has. In the refinement each action maps to a step of `AbstractLock` or to a
stutter; mutual exclusion and "whoever releases wakes up everybody" are steps of
`AbstractLock`.

**Priorities.** The invariant adds `LockOrder` (who waits for a mutex owns only
smaller ones) and that the queues of turnstiles are sorted. `LockOrder` makes the
mutexes ascend along the walk of `propagate_priority`, so the walk meets no thread
twice and a pigeonhole argument bounds it; the threads it lends to are a chain of
borrowers, no two of which are blocked at one turnstile, so that each sorted queue
has at most one thread to move. That the head of a sorted queue is its best thread
makes `unlend_self` exact. `InheritanceExact` and `PreemptionSafe` say that the
properties hold while `setprios = 0`, i.e. until the first `sched_set_prio`; the condition
is part of the properties that the run `mutex` checks.

**Condition variables.** `SleepersFound` and `SleepQueuesConserved` are not inductive
without `RecordsOK`: threads sleep exactly while they have a channel, and a record
that is not in use has no free records and is on one free list at most. It is the
analogue of `TurnstileInv` for queues in which anybody may be woken from the middle
(by a signal or a timeout). `SignalsOK` says of the thread that holds the process
lock which target it is about to abort the sleep of, and what it has seen of it.
`StatusOK` adds to `SleepStatus` that no sleep has both flags even before its wakeup,
which is how finding 4 looks from the inside: `sleepq_wait_timed` sets one of them.

**Callouts.** Under the assumption `~ LateReturns` of the run `callout` (without it
finding 2 shows the invariant to fail). `ThreadOK` says that a callout is ACTIVE
exactly while the callout thread has it. `DueFound` needs arithmetic on the
remainders of times by the number of buckets: a callout that is due lies in
a bucket that the loop from `last + 1` to the current time visits.

**Processes.** `LifeOK` ties the state of a process to the place of its thread and to
the owner of `all_proc_mtx`; `TreeOK` has parents that have not given their children
away yet, which is stronger than "not a zombie" and closes the gap between
`proc_reparent` and the zombie; `LeadersOK` and `NamesOK` are what makes pids of groups
and sessions safe; `SessionsCounted` turns `s_count` into a cardinality. `Informed` is
`NoMissedChild` for a parent anywhere between its scan and its sleep. `JobsOK` is
`JobcExact` for all groups, also those that do not exist: a new group starts from a
counter that must be zero. The steps of `_pgrp_enter` are a calculation with the
members that stop and start to qualify a group; zombies among them cancel out
exactly if the group is not put into `miscounted`.

**Pipes.** `RingOK` is the invariant of `ringbuf.c` (the distance from head to tail is
the count, modulo the size), `CountsOK` that reference counts are the numbers of
table entries plus `leaked` ones and that a process in a call has the descriptor,
`LifeOK` that between the close of the second end and `pipe_free` there is
exactly one process that closes. The refinement of `AbstractPipe` follows from lemmas on what `produce` and
`consume` do to the contents in order, for copies in one and in two segments.

**Physical memory.** Under the hypothesis `SmallSegs`: no free segment is as long as
two of the largest blocks, i.e. 256 MB with 16 lists and pages of 4 KB. Without it
finding 3 occurs and the invariant fails; the instance of the run `physmem` satisfies
it. `IInv` says that the blocks on the lists, those that callers have and those in the
call under way partition the free segments (`Tiles`), each of a power of two of pages;
that the lists agree with sizes, flags and counters (`ListsOK`, `FlagsOK`); that no page
is in two callers' lists (`HandsOK`); and that what a `vm_pagelist_alloc` still needs
is on the lists it has left to look at (`OpOK`). The last is what makes `NeverRunsDry`
inductive: the sums are computed once and then adjusted, so they must stay equal to
what the counters would give for the lists below the current one (`SumsExact`),
while the sums above it go stale.

The initial layout is the hard part of `Tiles`. The arithmetic of `ctz` and of the highest
differing bit shows that `InitialSize` is a power of two that does not leave the
segment; that the pages at which the loop stops are the least closed set gives, by
removing a page from the set, that their blocks do not overlap and leave no gap. In
the step that merges, the buddies are neighbours in one segment and by `SmallSegs`
their sum fits a free list.

`BuddiesMerged` speaks of states between calls and of every segment, wherever it
starts. Two blocks of a pair by index may both be free only if `init_vm_page` made
them so, which the arithmetic of `InitialSize` limits to the pair at the start of a
segment whose address is no multiple of the pair's size (`LoopAligned`). The inductive
form `MergeInv` has, besides, the blocks that the call under way is sure to take or
split next (`Loose`): a split makes two new blocks at the head of a list, one of
which may be a buddy by index of the other or of an older block of that list.
`vm_page_alloc` takes or splits the first block, and since it has passed empty lists
only, its halves meet no older ones; `vm_pagelist_alloc` needs more than its sums
leave below the list, which pays for as many of its first blocks as may be in such a
pair.

The library's induction principles take an operator as a parameter, which the
installed provers cannot instantiate. Where an induction is needed (the length of a
walk, the buckets visited, sorted queues, the initial blocks) it is one over a set of numbers:
the set of counterexamples has a least element, which leads to a contradiction.

On top of the runs of section 3, TLC checked the strengthened invariants: `LockOrder`
and sorted queues with 3 threads, 2 mutexes and a change of priority (253,476 states), the parts of `ProcProofs!IInv` with 3 pids and 6 calls (3,734,838 states), and
`JobsOK` with 4 pids and 6 calls (236,434 states), and `IInv` and `MergeInv` of
`PhysmemProofs` on eight layouts of memory with segments that start at pages 1 to 6 and 8.

Only model-checked: the liveness properties (`LocksReturn`, `DelegatedRun`,
`DrainReturns`, `TimedSleepsEnd`, `SignalsInterrupt`, `WaitReturns`), which are out of the
prover's reach.

## 5. Plan

All safety properties of the passing runs are proved. What is left is breadth:
interrupt events and threads (removal of a handler during its service), virtual
memory (resizing of entries), terminals (job control from the background),
`thread_join` and the reaper.

## 6. Not modelled

File systems, program loading, drivers and buses, page tables and assembly,
allocators for kernel memory, diagnostics and user land: see the notes in
`PROJECT.json`. By lines most of the repository is user land (the C library, the
shell and other programs, largely ported from other systems) and drivers. Of the
modelled components these operations are left out: signal handlers and masks,
login names, the terminal of a session, growing descriptor tables,
close-on-exec, the SIGPIPE of a failed write, `readv` and `writev`, and the bytewise use of ring buffers by
terminals. Times of execution, logging, and the hash tables of channels are
left out of the modelled components.
