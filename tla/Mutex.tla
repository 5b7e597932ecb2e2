------------------------------- MODULE Mutex -------------------------------
(***************************************************************************)
(* The sleep mutexes of sys/kern/mutex.c on top of turnstiles and the      *)
(* scheduler.  A thread can be switched out between any two of the steps   *)
(* below unless preemption is disabled; the sections under                 *)
(* WITH_NO_PREEMPTION are one step up to the context switch in it, and     *)
(* preempt_enable at their end is another one.                             *)
(*                                                                         *)
(* Clients follow the rules lockdep checks: mutexes are taken in the order *)
(* of Mutexes, and only those in Recursive are locked again by the owner.  *)
(***************************************************************************)
EXTENDS Turnstile

CONSTANTS
  Recursive,   \* mutexes with LK_RECURSIVE
  MaxCount,    \* bound on how often the owner locks a recursive mutex again
  MaxSetPrio   \* bound on the calls of sched_set_prio

ASSUME MutexAssumption ==
  /\ Mutexes \in SUBSET Nat
  /\ NULL \notin Mutexes
  /\ Recursive \in SUBSET Mutexes
  /\ MaxCount \in Nat /\ MaxSetPrio \in Nat

VARIABLES
  m_owner,      \* [Mutexes -> Threads \cup {NULL}], the pointer in m_owner
  m_contested,  \* mutexes with MTX_CONTESTED set in m_owner
  m_count,      \* extra acquisitions of a recursive mutex
  td_pc,        \* where a thread is: see Pc
  td_mtx,       \* the mutex of the operation td_pc is in, or NULL
  setprios,     \* sched_set_prio calls so far
  panicked      \* an assertion has failed

mtxVars == <<m_owner, m_contested, m_count>>
pcVars == <<td_pc, td_mtx>>
vars == <<schedVars, tsVars, mtxVars, pcVars, setprios, panicked>>

(***************************************************************************)
(*  "run"         outside of the operations on mutexes                     *)
(*  "cas"         in mtx_lock, about to try the fast path again            *)
(*  "slow"        the compare and exchange failed, preemption still on     *)
(*  "enable_cas"  blocked, or woken up, before preempt_enable in mtx_lock  *)
(*  "xchg"        in mtx_unlock, the fast path failed, preemption still on *)
(*  "enable_run"  before preempt_enable in mtx_unlock                      *)
(*  "done"        exited                                                   *)
(***************************************************************************)
Pc == {"run", "cas", "slow", "enable_cas", "xchg", "enable_run", "done"}

preempt_disabled(td) == td_pc[td] \in {"enable_cas", "enable_run"}

Held(td) == {m \in Mutexes : m_owner[m] = td}

At(td, pc) == curthread = td /\ td_pc[td] = pc

Goto(td, pc, m) ==
  /\ td_pc' = [td_pc EXCEPT ![td] = pc]
  /\ td_mtx' = [td_mtx EXCEPT ![td] = m]

Init ==
  /\ SchedInit
  /\ TurnstileInit
  /\ m_owner = [m \in Mutexes |-> NULL]
  /\ m_contested = {}
  /\ m_count = [m \in Mutexes |-> 0]
  /\ td_pc = [td \in Threads |-> "run"]
  /\ td_mtx = [td \in Threads |-> NULL]
  /\ setprios = 0
  /\ panicked = FALSE

(***************************************************************************)
(* mtx_lock                                                                *)
(***************************************************************************)

\* The compare and exchange at the top of the loop.
TryAcquire(td, m) ==
  /\ IF m_owner[m] = NULL
     THEN /\ m_owner' = [m_owner EXCEPT ![m] = td]
          /\ Goto(td, "run", NULL)
     ELSE /\ Goto(td, "slow", m)
          /\ UNCHANGED m_owner
  /\ UNCHANGED <<schedVars, tsVars, m_contested, m_count, setprios>>

MtxLock(td, m) ==
  /\ At(td, "run")
  /\ \A h \in Held(td) : h < m
  /\ TryAcquire(td, m)

\* Variant: a thread that was woken up takes the mutex for its own.
MtxRetry_Handoff(td) ==
  /\ At(td, "cas")
  /\ m_owner' = [m_owner EXCEPT ![td_mtx[td]] = td]
  /\ Goto(td, "run", NULL)
  /\ UNCHANGED <<schedVars, tsVars, m_contested, m_count, setprios>>

MtxRetry(td) ==
  /\ At(td, "cas")
  /\ TryAcquire(td, td_mtx[td])

MtxLockRecursive(td, m) ==
  /\ At(td, "run")
  /\ m_owner[m] = td
  /\ m \in Recursive
  /\ m_count[m] < MaxCount
  /\ m_count' = [m_count EXCEPT ![m] = @ + 1]
  /\ UNCHANGED <<schedVars, tsVars, m_owner, m_contested, td_pc, td_mtx,
                 setprios>>

\* The section without preemption: the mutex may have been released since the
\* compare and exchange (turnstile_give)...
MtxLockReleased(td) ==
  /\ At(td, "slow")
  /\ m_owner[td_mtx[td]] = NULL
  /\ Goto(td, "enable_cas", td_mtx[td])
  /\ UNCHANGED <<schedVars, tsVars, mtxVars, setprios>>

\* ...or the thread blocks, and marks the mutex contested if it is the first.
MtxLockBlock(td) ==
  LET m     == td_mtx[td]
      owner == m_owner[m]
  IN  /\ At(td, "slow")
      /\ owner # NULL
      /\ \/ /\ turnstile_wait_first(td, m, owner)
            /\ m_contested' = m_contested \cup {m}
         \/ /\ turnstile_wait_next(td, m, owner)
            /\ UNCHANGED m_contested
      /\ Goto(td, "enable_cas", m)
      /\ UNCHANGED <<m_owner, m_count, setprios>>

(***************************************************************************)
(* mtx_unlock                                                              *)
(***************************************************************************)
\* Variant: the count is decremented once too often.
MtxUnlockRecursive_OneTooMany(td, m) ==
  /\ At(td, "run")
  /\ m_owner[m] = td
  /\ m_count' = [m_count EXCEPT ![m] = @ - 1]
  /\ UNCHANGED <<schedVars, tsVars, m_owner, m_contested, pcVars, setprios>>

MtxUnlockRecursive(td, m) ==
  /\ At(td, "run")
  /\ m_owner[m] = td
  /\ m_count[m] > 0
  /\ m_count' = [m_count EXCEPT ![m] = @ - 1]
  /\ UNCHANGED <<schedVars, tsVars, m_owner, m_contested, pcVars, setprios>>

\* Variant: the owner field is cleared whether or not the mutex is contested.
MtxUnlock_Unconditional(td, m) ==
  /\ At(td, "run")
  /\ m_owner[m] = td
  /\ m_count[m] = 0
  /\ m_owner' = [m_owner EXCEPT ![m] = NULL]
  /\ UNCHANGED <<schedVars, tsVars, m_contested, m_count, pcVars, setprios>>

\* The fast path: the compare and exchange fails if the mutex is contested.
MtxUnlock(td, m) ==
  /\ At(td, "run")
  /\ m_owner[m] = td
  /\ m_count[m] = 0
  /\ IF m \in m_contested
     THEN Goto(td, "xchg", m) /\ UNCHANGED m_owner
     ELSE /\ m_owner' = [m_owner EXCEPT ![m] = NULL]
          /\ UNCHANGED <<td_pc, td_mtx>>
  /\ UNCHANGED <<schedVars, tsVars, m_contested, m_count, setprios>>

\* The section without preemption.
MtxUnlockBroadcast(td) ==
  LET m == td_mtx[td]
  IN  /\ At(td, "xchg")
      /\ m_owner' = [m_owner EXCEPT ![m] = NULL]
      /\ m_contested' = m_contested \ {m}
      /\ turnstile_broadcast(td, m)
      /\ Goto(td, "enable_run", NULL)
      /\ UNCHANGED <<m_count, setprios>>

MtxUnlockPanic(td) ==
  /\ At(td, "xchg")
  /\ BroadcastPanics(td, td_mtx[td])
  /\ panicked' = TRUE
  /\ UNCHANGED <<schedVars, tsVars, mtxVars, pcVars, setprios>>

(***************************************************************************)
(* preempt_enable at the end of the sections, and thread_exit.             *)
(***************************************************************************)
PreemptEnable(td) ==
  /\ curthread = td
  /\ \/ At(td, "enable_cas") /\ Goto(td, "cas", td_mtx[td])
     \/ At(td, "enable_run") /\ Goto(td, "run", NULL)
  /\ IF td \in td_needswitch
     THEN SwitchOut
     ELSE UNCHANGED schedVars
  /\ UNCHANGED <<tsVars, mtxVars, setprios>>

\* The end of thread_exit; a thread does not exit with a mutex held.
Exit(td) ==
  /\ At(td, "run")
  /\ Held(td) = {}
  /\ Goto(td, "done", NULL)
  /\ sched_switch("DEAD", runq, td_prio)
  /\ UNCHANGED <<td_prio, td_base_prio, td_borrowing, tsVars, mtxVars, setprios>>

(***************************************************************************)
(* Interrupts, and sched_set_prio called by some thread.                   *)
(***************************************************************************)
Preempt ==
  /\ curthread # Idle => ~ preempt_disabled(curthread)
  /\ SwitchOut
  /\ UNCHANGED <<tsVars, mtxVars, pcVars, setprios>>

Interrupt ==
  /\ Tick
  /\ UNCHANGED <<tsVars, mtxVars, pcVars, setprios>>

Start(td) ==
  /\ SchedAdd(td)
  /\ UNCHANGED <<tsVars, mtxVars, pcVars, setprios>>

SetPrio(self, td, prio) ==
  /\ At(self, "run")
  /\ setprios < MaxSetPrio
  /\ td_state[td] \notin {"INACTIVE", "DEAD"}
  /\ setprios' = setprios + 1
  /\ sched_set_prio(td, prio)
  /\ UNCHANGED <<mtxVars, pcVars>>

\* A step of the client or of the operation the current thread is in.
ThreadStep(td) ==
  \/ \E m \in Mutexes : \/ MtxLock(td, m)
                        \/ MtxLockRecursive(td, m)
                        \/ MtxUnlockRecursive(td, m)
                        \/ MtxUnlock(td, m)
  \/ MtxRetry(td)
  \/ MtxLockReleased(td)
  \/ MtxLockBlock(td)
  \/ MtxUnlockBroadcast(td)
  \/ PreemptEnable(td)
  \/ Exit(td)

KernelStep ==
  \/ \E td \in Threads : \/ ThreadStep(td)
                         \/ Start(td)
                         \/ \E u \in Threads, p \in Prio : SetPrio(td, u, p)
  \/ Preempt
  \/ Interrupt

Next ==
  \/ ~ panicked /\ KernelStep /\ UNCHANGED panicked
  \/ ~ panicked /\ \E td \in Threads : MtxUnlockPanic(td)
  \/ panicked /\ UNCHANGED vars

Spec == Init /\ [][Next]_vars

(***************************************************************************)
(* Fairness: the processor does not stop.  It keeps executing the current  *)
(* thread, whichever that is, and the idle thread keeps looking for work.  *)
(***************************************************************************)
CurrentThreadRuns ==
  /\ ~ panicked
  /\ \E td \in Threads : \/ ThreadStep(td) /\ UNCHANGED panicked
                         \/ MtxUnlockPanic(td)

IdleThreadRuns ==
  ~ panicked /\ curthread = Idle /\ Preempt /\ UNCHANGED panicked

FairSpec == Spec /\ WF_vars(CurrentThreadRuns) /\ WF_vars(IdleThreadRuns)

-----------------------------------------------------------------------------
TypeOK ==
  /\ SchedTypeOK
  /\ TurnstileTypeOK
  /\ m_owner \in [Mutexes -> Threads \cup {NULL}]
  /\ m_contested \in SUBSET Mutexes
  /\ m_count \in [Mutexes -> Nat]
  /\ td_pc \in [Threads -> Pc]
  /\ td_mtx \in [Threads -> Mutexes \cup {NULL}]
  /\ setprios \in 0..MaxSetPrio
  /\ panicked \in BOOLEAN

\* No waiter is lost: whenever a thread is blocked in mtx_lock, the mutex has
\* another owner, MTX_CONTESTED is set so that this owner must take the slow
\* path in mtx_unlock, and turnstile_lookup in turnstile_broadcast will find
\* the queue the thread is on, which knows the same owner.
NoLostWaiter ==
  \A td \in Threads :
    td_state[td] = "BLOCKED" =>
      LET m  == td_mtx[td]
          ts == td_blocked[td]
      IN  /\ td_pc[td] = "enable_cas"
          /\ m_owner[m] \notin {NULL, td}
          /\ m \in m_contested
          /\ InUse(ts, m)
          /\ ts_owner[ts] = m_owner[m]
          /\ td \in Range(ts_blocked[ts])

\* Turnstiles are neither lost nor shared while they pass from thread to thread
\* (turnstile_wait, give_back_turnstiles): a thread has a turnstile of its own
\* unless it is blocked, and the turnstiles of blocked threads are the one they
\* wait on and the ones on its ts_free list, one per thread.
TurnstilesConserved ==
  /\ \A td, u \in Threads :
       td_turnstile[td] # NULL /\ td_turnstile[td] = td_turnstile[u] => td = u
  /\ \A td \in Threads :
       /\ td_turnstile[td] = NULL <=> td_state[td] = "BLOCKED"
       /\ td_turnstile[td] # NULL =>
            ts_state[td_turnstile[td]] = "FREE_UNBLOCKED"
  /\ \A ts \in Turnstiles :
       ts_state[ts] = "USED_BLOCKED" =>
         /\ Len(ts_blocked[ts]) = Len(ts_free[ts]) + 1
         /\ \A u \in Range(ts_free[ts]) : ts_state[u] = "FREE_BLOCKED"

\* "blocked threads sorted by decreasing active priority" (turnstile.c:47),
\* through insertion, lending along chains of owners and sched_set_prio.
BlockedSorted ==
  \A ts \in Turnstiles :
    \A i, j \in DOMAIN ts_blocked[ts] :
      i < j => ~ prio_lt(td_prio[ts_blocked[ts][i]], td_prio[ts_blocked[ts][j]])

\* No ready thread of a better run queue is passed over as long as nobody has
\* called sched_set_prio, also when mtx_unlock takes a lent priority away.
NoMissedPreemption == setprios = 0 => NoBetterReady

\* Priorities are inherited exactly: the active priority of a thread is the best
\* of its base priority and of the active priorities of the threads blocked on
\* the mutexes it owns, so that inheritance is transitive, and lent priority
\* goes away with its lender.
WaitersFor(td) ==
  {w \in Threads : td_blocked[w] # NULL /\ ts_owner[td_blocked[w]] = td}

InheritedExactly ==
  \A td \in Threads :
    /\ \A w \in WaitersFor(td) : ~ prio_lt(td_prio[td], td_prio[w])
    /\ \/ td_prio[td] = td_base_prio[td] /\ td \notin td_borrowing
       \/ /\ td \in td_borrowing
          /\ prio_gt(td_prio[td], td_base_prio[td])
          /\ \E w \in WaitersFor(td) : td_prio[w] = td_prio[td]

\* That is so as long as nobody has called sched_set_prio, over any sequence of
\* blocking and unlocking along chains of owners.
PriorityInherited == setprios = 0 => InheritedExactly

\* These assertions of turnstile_take, turnstile_wait, turnstile_broadcast and
\* give_back_turnstiles hold when the current thread comes to them: the thread
\* has a clean turnstile of its own to wait with, and one that it is about to
\* broadcast on is in use, its own, and has enough turnstiles to give back.
AssertionsHold ==
  \A td \in Threads :
    LET m  == td_mtx[td]
        ts == td_turnstile[td]
    IN  /\ At(td, "slow") /\ m_owner[m] # NULL =>
             /\ ts # NULL /\ ts_state[ts] = "FREE_UNBLOCKED"
             /\ ~ Contended(m) =>
                  ts_blocked[ts] = <<>> /\ ts_free[ts] = <<>> /\ ts_owner[ts] = NULL
             /\ \A u \in Turnstiles : InUse(u, m) => ts_owner[u] = m_owner[m]
        /\ At(td, "xchg") =>
             \E u \in Turnstiles :
               /\ InUse(u, m)
               /\ ts_owner[u] = td
               /\ ts_blocked[u] # <<>>
               /\ Len(ts_blocked[u]) - 1 <= Len(ts_free[u])
               /\ \A v \in OwnedElsewhere(td, u) : ts_blocked[v] # <<>>

\* The kernel does not panic: sched_unlend_prio is documented to lend the
\* offered priority if it is higher than the base priority (sched.h:69).
NoPanic == ~ panicked

\* The mutexes implement AbstractLock: a thread wants a mutex while it is in
\* mtx_lock after a failed compare and exchange, and sleeps while it is blocked.
Abstract == INSTANCE AbstractLock WITH
  holder <- m_owner,
  depth  <- m_count,
  wants  <- [td \in Threads |->
               IF td_pc[td] \in {"cas", "slow", "enable_cas"}
               THEN td_mtx[td] ELSE NULL],
  asleep <- {td \in Threads : td_state[td] = "BLOCKED"}

ImplementsLock == Abstract!LockSpec

\* A thread calls mtx_lock.
NewCall == \E td \in Threads, m \in Mutexes : MtxLock(td, m) \/ MtxLockRecursive(td, m)

\* Once the calls of mtx_lock cease to come, every call under way returns (or
\* the kernel panics): the owner gets the processor, finds the contested bit and
\* broadcasts, and those it wakes up get the mutex one after the other, although
\* they race for it.  Nothing is handed over, so no more can be said: while
\* threads keep calling mtx_lock, a thread that was woken up may find the mutex
\* taken and block again each time.
LocksReturn ==
  \/ []<><<NewCall>>_vars
  \/ \A td \in Threads :
       td_pc[td] \in {"cas", "slow", "enable_cas"} ~> (td_pc[td] = "run" \/ panicked)
=============================================================================
