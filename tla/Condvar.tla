------------------------------ MODULE Condvar ------------------------------
(***************************************************************************)
(* Threads that sleep and wake each other up: condition variables          *)
(* (sys/kern/condvar.c), plain, interruptible and timed sleeps             *)
(* (sys/kern/sleepq.c), the part of sig_kill that interrupts a sleep       *)
(* (sys/kern/signal.c) and the sleep timeouts, executed by the callout     *)
(* thread.                                                                 *)
(*                                                                         *)
(* cv_wait and the sections under a spin lock run with interrupts          *)
(* disabled, and a condition variable is signalled with its lock held, so  *)
(* each is one step.  Between steps any runnable thread may go on.         *)
(***************************************************************************)
EXTENDS SleepQueue

CONSTANTS
  Cv,       \* the channel that is a condition variable
  MaxOps    \* bound: calls that threads make to sleep, wake up or kill

ASSUME CondvarAssumption == Cv \in Wchans /\ MaxOps \in Nat

VARIABLES
  cv_waiters,    \* waiters of the condition variable
  lk_owner,      \* owner of the lock that goes with it, or NULL
  td_needsigchk, \* threads with TDF_NEEDSIGCHK
  p_lock,        \* owner of the process lock, or NULL
  td_pc,
  td_timeout,    \* threads whose current sleep has a timeout
  td_status,     \* what the last sleep of a thread returned
  td_target,     \* the thread that sig_kill is to interrupt, or NULL
  td_seen,       \* the channel sc_acquire has looked up for that, or NULL
  td_slpcallout, \* [Threads -> {"idle", "pending", "delegated", "running"}]
  ct_td,         \* the thread whose timeout the callout thread executes
  ct_pc,         \* where it is in it: "idle", "abort", "finish"
  ct_seen,       \* the channel it has looked up
  ops,           \* calls so far
  panicked

sigVars == <<td_needsigchk, p_lock, td_target, td_seen>>
ctVars == <<ct_td, ct_pc, ct_seen>>
vars == <<sqVars, cv_waiters, lk_owner, sigVars, td_pc, td_timeout, td_status,
          td_slpcallout, ctVars, ops, panicked>>

(***************************************************************************)
(*  "run"       outside of the operations below                            *)
(*  "wait"      in sleepq_wait          "cv_wait"   in cv_wait             *)
(*  "timed"     in sleepq_wait_timed    "cv_timed"  in cv_wait_timed       *)
(*  "stop"      in sleepq_wait_timed, before callout_stop                  *)
(*  "relock"    about to take the lock again after cv_wait                 *)
(*  "abort"     in sig_kill, about to call sleepq_abort                    *)
(*  "aborting"  in sleepq_abort, about to lock the chain                   *)
(***************************************************************************)
Pc == {"run", "wait", "cv_wait", "timed", "cv_timed", "stop", "relock",
       "abort", "aborting"}

At(td, pc) == td_state[td] = "READY" /\ td_pc[td] = pc

Goto(td, pc) == td_pc' = [td_pc EXCEPT ![td] = pc]

\* A call made by td outside of the other operations.
Call(td) ==
  /\ At(td, "run")
  /\ ops < MaxOps
  /\ ops' = ops + 1

Init ==
  /\ SleepQueueInit
  /\ cv_waiters = 0
  /\ lk_owner = NULL
  /\ td_needsigchk = {}
  /\ p_lock = NULL
  /\ td_pc = [td \in Threads |-> "run"]
  /\ td_timeout = {}
  /\ td_status = [td \in Threads |-> "none"]
  /\ td_target = NULL
  /\ td_seen = NULL
  /\ td_slpcallout = [td \in Threads |-> "idle"]
  /\ ct_td = NULL /\ ct_pc = "idle" /\ ct_seen = NULL
  /\ ops = 0
  /\ panicked = FALSE

(***************************************************************************)
(* Going to sleep.                                                         *)
(***************************************************************************)
\* sleepq_wait by drivers, interrupt threads and callout_drain.
Sleep(td, wchan) ==
  /\ Call(td)
  /\ lk_owner # td
  /\ sq_enter(td, wchan)
  /\ Goto(td, "wait")
  /\ UNCHANGED <<td_slpintr, td_slptimed, cv_waiters, lk_owner, sigVars,
                 td_timeout, td_status, td_slpcallout, ctVars, panicked>>

CvWait(td) ==
  /\ Call(td)
  /\ lk_owner = td
  /\ cv_waiters' = cv_waiters + 1
  /\ lk_owner' = NULL
  /\ sq_enter(td, Cv)
  /\ Goto(td, "cv_wait")
  /\ UNCHANGED <<td_slpintr, td_slptimed, sigVars, td_timeout, td_status,
                 td_slpcallout, ctVars, panicked>>

\* Variant: pending signals are not looked at.
PendingSignal_Unchecked(td, timeout) == FALSE

\* The check for signals before an interruptible sleep.
PendingSignal(td, timeout) == td \in td_needsigchk /\ ~ timeout

\* sleepq_wait_timed up to the context switch, in a call at pc.  Setting up
\* the callout again while it is linked on the queue of the callout thread
\* clears CALLOUT_ACTIVE, which callout_thread asserts.
sleepq_wait_timed(td, wchan, timeout, pc) ==
  /\ ~ PendingSignal(td, timeout)
  /\ IF timeout
     THEN /\ td_slpcallout' = [td_slpcallout EXCEPT ![td] = "pending"]
          /\ panicked' = (td_slpcallout[td] = "delegated")
          /\ td_timeout' = td_timeout \cup {td}
          /\ td_slptimed' = td_slptimed \cup {td}
          /\ UNCHANGED td_slpintr
     ELSE /\ td_timeout' = td_timeout \ {td}
          /\ td_slpintr' = td_slpintr \cup {td}
          /\ UNCHANGED <<td_slpcallout, td_slptimed, panicked>>
  /\ sq_enter(td, wchan)
  /\ Goto(td, pc)
  /\ UNCHANGED td_status

\* sleepq_wait_timed without a timeout when a signal is pending.
InterruptedAtOnce(td, timeout, pc) ==
  /\ PendingSignal(td, timeout)
  /\ td_status' = [td_status EXCEPT ![td] = "EINTR"]
  /\ Goto(td, pc)
  /\ UNCHANGED <<sqVars, td_timeout, td_slpcallout, panicked>>

\* do_clock_nanosleep (with a timeout) and do_sigsuspend (without one).
SleepTimed(td, wchan, timeout) ==
  /\ Call(td)
  /\ lk_owner # td
  /\ \/ sleepq_wait_timed(td, wchan, timeout, "timed")
     \/ InterruptedAtOnce(td, timeout, "run")
  /\ UNCHANGED <<cv_waiters, lk_owner, sigVars, ctVars>>

CvWaitTimed(td, timeout) ==
  /\ Call(td)
  /\ lk_owner = td
  /\ cv_waiters' = cv_waiters + 1
  /\ lk_owner' = NULL
  /\ \/ sleepq_wait_timed(td, Cv, timeout, "cv_timed")
     \/ InterruptedAtOnce(td, timeout, "relock")
  /\ UNCHANGED <<sigVars, ctVars>>

(***************************************************************************)
(* Coming back.                                                            *)
(***************************************************************************)
\* The end of sleepq_wait, with its assertion.
WaitReturn(td) ==
  /\ \/ At(td, "wait") /\ Goto(td, "run")
     \/ At(td, "cv_wait") /\ Goto(td, "relock")
  /\ panicked' = (td \in td_slpintr \cup td_slptimed)
  /\ UNCHANGED <<sqVars, cv_waiters, lk_owner, sigVars, td_timeout, td_status,
                 td_slpcallout, ctVars, ops>>

Status(td) == IF td \in td_slpintr THEN "EINTR"
              ELSE IF td \in td_slptimed THEN "ETIMEDOUT" ELSE "ok"

\* callout_stop: too late for a callout that the callout thread has already.
Stopped(td) ==
  IF td_slpcallout[td] = "pending" /\ td \in td_timeout
  THEN [td_slpcallout EXCEPT ![td] = "idle"] ELSE td_slpcallout

\* The end of sleepq_wait_timed; in cv_wait_timed all of it happens with
\* interrupts disabled.
TimedReturn(td) ==
  /\ \/ /\ At(td, "timed")
        /\ Goto(td, IF td \in td_timeout THEN "stop" ELSE "run")
        /\ UNCHANGED td_slpcallout
     \/ /\ At(td, "cv_timed")
        /\ Goto(td, "relock")
        /\ td_slpcallout' = Stopped(td)
  /\ td_status' = [td_status EXCEPT ![td] = Status(td)]
  /\ td_slpintr' = td_slpintr \ {td}
  /\ td_slptimed' = td_slptimed \ {td}
  /\ UNCHANGED <<td_state, td_prio, td_wchan, td_sleepqueue, sq_wchan,
                 sq_blocked, sq_free, cv_waiters, lk_owner, sigVars,
                 td_timeout, ctVars, ops, panicked>>

StopCallout(td) ==
  /\ At(td, "stop")
  /\ Goto(td, "run")
  /\ td_slpcallout' = Stopped(td)
  /\ UNCHANGED <<sqVars, cv_waiters, lk_owner, sigVars, td_timeout, td_status,
                 ctVars, ops, panicked>>

\* lk_acquire, by a client or at the end of cv_wait.
Acquire(td) ==
  /\ lk_owner = NULL
  /\ lk_owner' = td
  /\ At(td, "relock") \/ At(td, "run")
  /\ Goto(td, "run")
  /\ UNCHANGED <<sqVars, cv_waiters, sigVars, td_timeout, td_status,
                 td_slpcallout, ctVars, ops, panicked>>

Release(td) ==
  /\ At(td, "run")
  /\ lk_owner = td
  /\ lk_owner' = NULL
  /\ UNCHANGED <<sqVars, cv_waiters, sigVars, td_pc, td_timeout, td_status,
                 td_slpcallout, ctVars, ops, panicked>>

(***************************************************************************)
(* Waking up others.                                                       *)
(***************************************************************************)
\* Variants: cv_signal counts like cv_broadcast, or counts twice.
CvSignalled_Once == 0

CvSignalled_Twice == cv_waiters - 2

\* The number of waiters that cv_signal leaves.
CvSignalled == cv_waiters - 1

CvSignal(td) ==
  /\ Call(td)
  /\ lk_owner = td
  /\ IF cv_waiters > 0
     THEN cv_waiters' = CvSignalled /\ sleepq_signal(Cv)
     ELSE UNCHANGED <<cv_waiters, sqVars>>
  /\ UNCHANGED <<lk_owner, sigVars, td_pc, td_timeout, td_status,
                 td_slpcallout, ctVars, panicked>>

CvBroadcast(td) ==
  /\ Call(td)
  /\ lk_owner = td
  /\ IF cv_waiters > 0
     THEN cv_waiters' = 0 /\ sleepq_broadcast(Cv)
     ELSE UNCHANGED <<cv_waiters, sqVars>>
  /\ UNCHANGED <<lk_owner, sigVars, td_pc, td_timeout, td_status,
                 td_slpcallout, ctVars, panicked>>

\* sleepq_signal and sleepq_broadcast of other channels.
Wake(td, wchan) ==
  /\ Call(td)
  /\ sleepq_signal(wchan) \/ sleepq_broadcast(wchan)
  /\ UNCHANGED <<cv_waiters, lk_owner, sigVars, td_pc, td_timeout, td_status,
                 td_slpcallout, ctVars, panicked>>

(***************************************************************************)
(* Signals.                                                                *)
(***************************************************************************)
\* Variant: the wrong flag.
td_is_interruptible_Timed(td) == td_state[td] = "SLEEPING" /\ td \in td_slptimed

td_is_interruptible(td) == td_state[td] = "SLEEPING" /\ td \in td_slpintr

\* The end of sig_kill for a signal that target neither ignores nor blocks:
\* the flag is set and, if need be, td goes on to call sleepq_abort.
SigKill(td, target) ==
  /\ Call(td)
  /\ target # td
  /\ lk_owner # td
  /\ p_lock = NULL
  /\ td_needsigchk' = td_needsigchk \cup {target}
  /\ IF td_is_interruptible(target)
     THEN p_lock' = td /\ td_target' = target /\ Goto(td, "abort")
     ELSE UNCHANGED <<p_lock, td_target, td_pc>>
  /\ UNCHANGED <<sqVars, cv_waiters, lk_owner, td_seen, td_timeout, td_status,
                 td_slpcallout, ctVars, panicked>>

\* sleepq_abort without td_lock: td_wchan is read before the chain is locked.
AbortLookup(td) ==
  /\ At(td, "abort")
  /\ td_seen' = td_wchan[td_target]
  /\ Goto(td, "aborting")
  /\ UNCHANGED <<sqVars, cv_waiters, lk_owner, td_needsigchk, p_lock, td_target,
                 td_timeout, td_status, td_slpcallout, ctVars, ops, panicked>>

Abort(td) ==
  /\ At(td, "aborting")
  /\ sleepq_abort(td_target, td_seen, "EINTR")
  /\ p_lock' = NULL /\ td_target' = NULL /\ td_seen' = NULL
  /\ Goto(td, "run")
  /\ UNCHANGED <<cv_waiters, lk_owner, td_needsigchk, td_timeout, td_status,
                 td_slpcallout, ctVars, ops, panicked>>

\* on_user_exc_leave and sig_check: td delivers its signals.
SigCheck(td) ==
  /\ At(td, "run")
  /\ td \in td_needsigchk
  /\ lk_owner # td
  /\ p_lock = NULL
  /\ td_needsigchk' = td_needsigchk \ {td}
  /\ td_status' = [td_status EXCEPT ![td] = "none"]
  /\ UNCHANGED <<sqVars, cv_waiters, lk_owner, p_lock, td_target, td_seen,
                 td_pc, td_timeout, td_slpcallout, ctVars, ops, panicked>>

(***************************************************************************)
(* Timeouts: the clock interrupt and the callout thread (see Callout).     *)
(***************************************************************************)
Expire(td) ==
  /\ td_slpcallout[td] = "pending"
  /\ td_slpcallout' = [td_slpcallout EXCEPT ![td] = "delegated"]
  /\ UNCHANGED <<sqVars, cv_waiters, lk_owner, sigVars, td_pc, td_timeout,
                 td_status, ctVars, ops, panicked>>

\* The callout thread takes a callout and calls sq_timeout.
TimeoutLookup(td) ==
  /\ ct_pc = "idle"
  /\ td_slpcallout[td] = "delegated"
  /\ td_slpcallout' = [td_slpcallout EXCEPT ![td] = "running"]
  /\ ct_td' = td
  /\ ct_seen' = td_wchan[td]
  /\ ct_pc' = "abort"
  /\ UNCHANGED <<sqVars, cv_waiters, lk_owner, sigVars, td_pc, td_timeout,
                 td_status, ops, panicked>>

Timeout ==
  /\ ct_pc = "abort"
  /\ sleepq_abort(ct_td, ct_seen, "ETIMEDOUT")
  /\ ct_pc' = "finish"
  /\ UNCHANGED <<cv_waiters, lk_owner, sigVars, td_pc, td_timeout, td_status,
                 td_slpcallout, ct_td, ct_seen, ops, panicked>>

\* Back in callout_thread CALLOUT_ACTIVE is cleared, even if the callout has
\* been set up again and expired since; then the next assertion fails.
TimeoutFinish ==
  /\ ct_pc = "finish"
  /\ td_slpcallout' = IF td_slpcallout[ct_td] = "running"
                      THEN [td_slpcallout EXCEPT ![ct_td] = "idle"]
                      ELSE td_slpcallout
  /\ panicked' = (td_slpcallout[ct_td] = "delegated")
  /\ ct_td' = NULL /\ ct_seen' = NULL /\ ct_pc' = "idle"
  /\ UNCHANGED <<sqVars, cv_waiters, lk_owner, sigVars, td_pc, td_timeout,
                 td_status, ops>>

(***************************************************************************)
Timer ==
  \/ \E td \in Threads : Expire(td) \/ TimeoutLookup(td)
  \/ Timeout
  \/ TimeoutFinish

\* The rest of an operation that td is in.
Continue(td) ==
  \/ WaitReturn(td)
  \/ TimedReturn(td)
  \/ StopCallout(td)
  \/ AbortLookup(td)
  \/ Abort(td)

Operation(td) ==
  \/ \E wchan \in Wchans \ {Cv} :
       \/ Sleep(td, wchan)
       \/ \E timeout \in BOOLEAN : SleepTimed(td, wchan, timeout)
       \/ Wake(td, wchan)
  \/ \E timeout \in BOOLEAN : CvWaitTimed(td, timeout)
  \/ CvWait(td)
  \/ Acquire(td)
  \/ Release(td)
  \/ CvSignal(td)
  \/ CvBroadcast(td)
  \/ \E target \in Threads : SigKill(td, target)
  \/ SigCheck(td)

Next ==
  /\ ~ panicked
  /\ Timer \/ \E td \in Threads : Continue(td) \/ Operation(td)

Spec == Init /\ [][Next]_vars

\* The clock ticks, the callout thread runs, and a thread that is in the middle
\* of an operation and not asleep gets the processor.
FairSpec ==
  /\ Spec
  /\ WF_vars(~ panicked /\ Timer)
  /\ \A td \in Threads : WF_vars(~ panicked /\ Continue(td))

-----------------------------------------------------------------------------
TypeOK ==
  /\ SleepQueueTypeOK
  /\ cv_waiters \in Nat
  /\ lk_owner \in Threads \cup {NULL}
  /\ td_needsigchk \in SUBSET Threads
  /\ p_lock \in Threads \cup {NULL}
  /\ td_pc \in [Threads -> Pc]
  /\ td_timeout \in SUBSET Threads
  /\ td_status \in [Threads -> {"none", "ok", "EINTR", "ETIMEDOUT"}]
  /\ td_target \in Threads \cup {NULL}
  /\ td_seen \in Wchans \cup {NULL}
  /\ td_slpcallout \in [Threads -> {"idle", "pending", "delegated", "running"}]
  /\ ct_td \in Threads \cup {NULL}
  /\ ct_pc \in {"idle", "abort", "finish"}
  /\ ct_seen \in Wchans \cup {NULL}
  /\ ops \in 0..MaxOps
  /\ panicked \in BOOLEAN

\* cv_signal and cv_broadcast skip the sleep queue when waiters is 0: it never
\* is while a thread sleeps there, although sleeps that end by a signal or a
\* timeout do not give their count back.
CvWaitersCounted ==
  Cardinality({td \in Threads : td_wchan[td] = Cv}) <= cv_waiters

\* No signal is slept through: a thread with a signal to check is not in an
\* interruptible sleep unless its sender is on the way to end it.  sig_kill
\* lets go of td_lock, and sleepq_abort looks up the channel without it.
NoLostSignal ==
  \A td \in Threads :
    /\ td_state[td] = "SLEEPING"
    /\ td \in td_slpintr \cap td_needsigchk
    => td_target = td

\* What a sleep returns is what happened to it: EINTR only to a thread with a
\* signal to check, ETIMEDOUT only if the sleep had a timeout.  After a wakeup
\* "only one of the following flags may be set" (sleepq_wait_timed), and no
\* flag outlives its sleep (the assertion of sleepq_wait).
SleepStatus ==
  \A td \in Threads :
    /\ td_status[td] = "EINTR" => td \in td_needsigchk
    /\ td_status[td] = "ETIMEDOUT" =>
         td \in td_timeout \/ td_pc[td] \in {"timed", "cv_timed"}
    /\ td_state[td] = "READY" => td \notin td_slpintr \cap td_slptimed
    /\ td \in td_slptimed => td \in td_timeout
    /\ td \in td_slpintr \cup td_slptimed => td_pc[td] \in {"timed", "cv_timed"}

\* "Timed sleep is also interruptible." (sleepq.h:34): like NoLostSignal, for
\* a sleep with a timeout.  It does not hold: such a sleep has TDF_SLPTIMED
\* and not TDF_SLPINTR, and looks for no signals before it begins.
TimedSleepsInterruptible ==
  \A td \in Threads :
    /\ td_state[td] = "SLEEPING"
    /\ td \in td_slptimed \cap td_needsigchk
    => td_target = td

\* Every timed sleep ends, whichever of the wakeup, the timeout and the stop
\* of its callout comes first.
TimedSleepsEnd ==
  \A td \in Threads :
    (td_state[td] = "SLEEPING" /\ td \in td_slptimed)
      ~> (td_state[td] = "READY" \/ panicked)

\* A signal ends an interruptible sleep.
SignalsInterrupt ==
  \A td \in Threads :
    (td_state[td] = "SLEEPING" /\ td \in td_slpintr \cap td_needsigchk)
      ~> (td_state[td] = "READY" \/ panicked)
=============================================================================
