------------------------------ MODULE Callout ------------------------------
(***************************************************************************)
(* The timing wheel of sys/kern/callout.c: callouts wait in buckets, the   *)
(* clock interrupt moves those whose time has come to the delegated queue, *)
(* and the callout thread executes them.  Every access to a callout is     *)
(* made with interrupts disabled (ci.lock is a spin lock), so each such    *)
(* section is one step; the function of a callout runs with interrupts     *)
(* enabled, and clock ticks and the owners of callouts interleave with it. *)
(*                                                                         *)
(* Each callout has one owner, as the interval timer of a process has      *)
(* (kitimer_stop and kitimer_setup in sys/kern/time.c): it schedules the   *)
(* callout, stops it, and drains it.  Time starts at 0 and does not reach  *)
(* the width of systime_t (49 days of ticks).                              *)
(***************************************************************************)
EXTENDS TailQueue

CONSTANTS
  Callouts,
  NULL,
  CALLOUT_BUCKETS,
  MaxTime,       \* bound on the clock
  MaxSkip,       \* bound on the ticks between two clock interrupts
  MaxDelay,      \* bound on how far ahead a callout is scheduled
  LateReturns    \* whether a function that has rescheduled its callout can
                 \* still be running when the new time comes

ASSUME CalloutAssumption ==
  /\ IsFiniteSet(Callouts) /\ NULL \notin Callouts
  /\ CALLOUT_BUCKETS \in Nat \ {0}
  /\ MaxTime \in Nat /\ MaxSkip \in Nat /\ MaxDelay \in Nat
  /\ LateReturns \in BOOLEAN

VARIABLES
  last,       \* ci.last, and getsystime(): clock_cb updates both at once
  heads,      \* ci.heads, [Buckets -> Seq(Callouts)]
  delegated,  \* callouts the callout thread is to execute
  c_time,     \* [Callouts -> 0..MaxTime]
  c_active, c_pending, c_stopped,  \* callouts with the flag of this name
  ct_pc,      \* where the callout thread is
  elem,       \* the callout it executes, or NULL
  draining,   \* [Callouts -> {"no", "asleep", "woken"}]: its owner
  quiet,      \* callouts whose owner was told that they will not run
  panicked

wheelVars == <<last, heads, delegated, c_time, c_active, c_pending, c_stopped>>
threadVars == <<ct_pc, elem>>
ownerVars == <<draining, quiet>>
vars == <<wheelVars, threadVars, ownerVars, panicked>>

Buckets == 0..(CALLOUT_BUCKETS - 1)

ListOf(c) == c_time[c] % CALLOUT_BUCKETS

Init ==
  /\ last = 0
  /\ heads = [b \in Buckets |-> <<>>]
  /\ delegated = <<>>
  /\ c_time = [c \in Callouts |-> 0]
  /\ c_active = {} /\ c_pending = {} /\ c_stopped = {}
  /\ ct_pc = "ready"
  /\ elem = NULL
  /\ draining = [c \in Callouts |-> "no"]
  /\ quiet = Callouts
  /\ panicked = FALSE

(***************************************************************************)
(* Owners.                                                                 *)
(***************************************************************************)
\* Variant: one tick is added to the time twice.
_callout_schedule_Rounded(c, tm) ==
  /\ c_pending' = c_pending \cup {c}
  /\ c_time' = [c_time EXCEPT ![c] = tm + 1]
  /\ heads' = [heads EXCEPT ![(tm + 1) % CALLOUT_BUCKETS] = Append(@, c)]

_callout_schedule(c, tm) ==
  /\ c_pending' = c_pending \cup {c}
  /\ c_time' = [c_time EXCEPT ![c] = tm]
  /\ heads' = [heads EXCEPT ![tm % CALLOUT_BUCKETS] = Append(@, c)]

\* callout_schedule and callout_schedule_abs.  The owner waits for a callout
\* that is active or pending before it schedules it again.  (Were the callout
\* linked on delegated without CALLOUT_ACTIVE, it would now be linked on a
\* second list with the same c_link.)
Schedule(c, tm) ==
  /\ draining[c] = "no"
  /\ c \notin c_active \cup c_pending
  /\ tm \in last..(last + MaxDelay)
  /\ _callout_schedule(c, tm)
  /\ c_stopped' = c_stopped \ {c}
  /\ quiet' = quiet \ {c}
  /\ panicked' = (c \in Range(delegated))
  /\ UNCHANGED <<last, delegated, c_active, threadVars, draining>>

\* Variant: a callout that is not pending counts as stopped.
StopSucceeds_NotPending(c) == c \notin c_pending

\* What callout_stop returns: the callout is not active.
StopSucceeds(c) == c \notin c_active

Stop(c) ==
  /\ draining[c] = "no"
  /\ c_stopped' = c_stopped \cup {c}
  /\ IF c \in c_pending
     THEN /\ c_pending' = c_pending \ {c}
          /\ heads' = [heads EXCEPT ![ListOf(c)] = TAILQ_REMOVE(@, c)]
     ELSE UNCHANGED <<c_pending, heads>>
  /\ quiet' = IF StopSucceeds(c) THEN quiet \cup {c} ELSE quiet
  /\ UNCHANGED <<last, delegated, c_time, c_active, threadVars, draining,
                 panicked>>

\* callout_drain: the first check, and the one after every wakeup.
Drain(c) ==
  /\ draining[c] \in {"no", "woken"}
  /\ IF c \in c_pending \cup c_active
     THEN /\ draining' = [draining EXCEPT ![c] = "asleep"]
          /\ UNCHANGED quiet
     ELSE /\ draining' = [draining EXCEPT ![c] = "no"]
          /\ quiet' = quiet \cup {c}
  /\ UNCHANGED <<wheelVars, threadVars, panicked>>

(***************************************************************************)
(* The clock interrupt.                                                    *)
(***************************************************************************)

\* Variant: the bucket of the current time is not visited.
LastOffset_TooFew(time) == (time - last - 1) % CALLOUT_BUCKETS

\* The last of the buckets callout_process visits, as an offset from the first.
LastOffset(time) ==
  LET last_bucket == IF time - last > CALLOUT_BUCKETS
                     THEN (last - 1) % CALLOUT_BUCKETS
                     ELSE time % CALLOUT_BUCKETS
  IN  (last_bucket - last) % CALLOUT_BUCKETS

\* Variant: every callout of a bucket is taken for due.
Triggered_Any(time) == c_pending

Triggered(time) == {c \in c_pending : c_time[c] <= time}

\* The triggered callouts of the first n buckets visited, in order.
Detached(time) ==
  LET detached[n \in 0..CALLOUT_BUCKETS] ==
        IF n = 0 THEN <<>>
        ELSE detached[n - 1] \o
               Sublist(heads[(last + n - 1) % CALLOUT_BUCKETS], Triggered(time))
  IN  detached[LastOffset(time) + 1]

\* Variant: the callout thread is not woken up.
Signalled_Forgotten(queue) == ct_pc

\* sleepq_signal(&delegated) unless there is nothing to do.
Signalled(queue) ==
  IF ct_pc = "asleep" /\ queue # <<>> THEN "ready" ELSE ct_pc

\* clock_cb and callout_process.
Tick(time) ==
  LET det == Detached(time)
  IN  /\ time \in (last + 1)..(last + MaxSkip)
      /\ LateReturns \/ elem \notin Range(det)
      /\ last' = time
      /\ c_active' = c_active \cup Range(det)
      /\ c_pending' = c_pending \ Range(det)
      /\ heads' = [b \in Buckets |-> Sublist(heads[b], Callouts \ Range(det))]
      /\ delegated' = delegated \o det
      /\ ct_pc' = Signalled(delegated')
      /\ UNCHANGED <<c_time, c_stopped, elem, ownerVars, panicked>>

(***************************************************************************)
(* The callout thread.                                                     *)
(***************************************************************************)
ThreadSleep ==
  /\ ct_pc = "ready"
  /\ delegated = <<>>
  /\ ct_pc' = "asleep"
  /\ UNCHANGED <<wheelVars, elem, ownerVars, panicked>>

\* The assertions on the flags of the callout are checked right away.
ThreadTake ==
  /\ ct_pc = "ready"
  /\ delegated # <<>>
  /\ delegated' = Tail(delegated)
  /\ elem' = Head(delegated)
  /\ ct_pc' = "call"
  /\ panicked' = (elem' \notin c_active \/ elem' \in c_pending)
  /\ UNCHANGED <<last, heads, c_time, c_active, c_pending, c_stopped,
                 ownerVars>>

\* callout_reschedule by the function of the callout.  evdev_repeat_callout
\* passes an interval for tm, which is a time in the past.
Reschedule(tm) ==
  /\ ct_pc = "call"
  /\ elem \notin c_stopped
  /\ tm \in 0..(last + MaxDelay)
  /\ panicked' = (elem \notin c_active \/ elem \in c_pending)
  /\ _callout_schedule(elem, tm)
  /\ quiet' = quiet \ {elem}
  /\ ct_pc' = "rescheduled"
  /\ UNCHANGED <<last, delegated, c_active, c_stopped, elem, draining>>

\* Variant: drainers are woken up only if nothing else is left to execute.
Drained_WhenEmpty(c) ==
  IF delegated = <<>> /\ c \notin c_pending /\ draining[c] = "asleep"
  THEN [draining EXCEPT ![c] = "woken"] ELSE draining

\* sleepq_broadcast(elem) unless the callout has been rescheduled.
Drained(c) ==
  IF c \notin c_pending /\ draining[c] = "asleep"
  THEN [draining EXCEPT ![c] = "woken"] ELSE draining

\* The function has returned.
ThreadFinish ==
  /\ ct_pc \in {"call", "rescheduled"}
  /\ c_active' = c_active \ {elem}
  /\ draining' = Drained(elem)
  /\ ct_pc' = "ready"
  /\ elem' = NULL
  /\ UNCHANGED <<last, heads, delegated, c_time, c_pending, c_stopped, quiet,
                 panicked>>

CalloutThread ==
  \/ ThreadSleep
  \/ ThreadTake
  \/ \E tm \in 0..MaxTime : Reschedule(tm)
  \/ ThreadFinish

Owner(c) ==
  \/ \E tm \in 0..MaxTime : Schedule(c, tm)
  \/ Stop(c)
  \/ Drain(c)

Next ==
  /\ ~ panicked
  /\ \/ \E c \in Callouts : Owner(c)
     \/ \E time \in 0..MaxTime : Tick(time)
     \/ CalloutThread

Spec == Init /\ [][Next]_vars

\* The callout thread has a high priority and its functions do not loop; the
\* owner that was woken up in callout_drain gets to run.
FairSpec ==
  /\ Spec
  /\ WF_vars(~ panicked /\ ThreadTake)
  /\ WF_vars(~ panicked /\ ThreadFinish)
  /\ \A c \in Callouts : WF_vars(~ panicked /\ draining[c] = "woken" /\ Drain(c))

-----------------------------------------------------------------------------
TypeOK ==
  /\ last \in 0..MaxTime
  /\ heads \in [Buckets -> Seq(Callouts)]
  /\ delegated \in Seq(Callouts)
  /\ c_time \in [Callouts -> 0..MaxTime]
  /\ c_active \in SUBSET Callouts
  /\ c_pending \in SUBSET Callouts
  /\ c_stopped \in SUBSET Callouts
  /\ ct_pc \in {"ready", "asleep", "call", "rescheduled"}
  /\ elem \in Callouts \cup {NULL}
  /\ draining \in [Callouts -> {"no", "asleep", "woken"}]
  /\ quiet \in SUBSET Callouts
  /\ panicked \in BOOLEAN

\* A callout is linked on at most one list, once: on the bucket of its time
\* exactly while CALLOUT_PENDING is set, although its function can reschedule
\* it while its owner stops it.  One link (c_link) serves all the lists.
WheelConsistent ==
  /\ \A b \in Buckets : /\ Distinct(heads[b])
                        /\ \A c \in Range(heads[b]) : ListOf(c) = b
  /\ \A c \in Callouts : c \in c_pending <=> c \in Range(heads[ListOf(c)])
  /\ Distinct(delegated)
  /\ \A c \in Range(delegated) : c \notin c_pending /\ c_time[c] <= last

\* What is due in the buckets that a clock interrupt passes is delegated.
DueStep ==
  /\ last' # last
  /\ last' - last # CALLOUT_BUCKETS
  => \A c \in c_pending :
       /\ c_time[c] <= last'
       /\ \E x \in last..last' : x % CALLOUT_BUCKETS = ListOf(c)
       => c \in Range(delegated')

\* callout_process finds every callout whose time has come since the previous
\* tick, and every overdue one in the buckets it passes, however many ticks
\* were skipped - except when exactly CALLOUT_BUCKETS ticks have gone by:
\* the test in line 169 is > where >= is needed.
DueAreDelegated == [][DueStep]_vars

\* After callout_stop has returned true, or callout_drain has returned, the
\* callout thread does not have the callout and will not get it (callout.h:
\* "the callout is guaranteed not to run in the future, provided it's not
\* scheduled again"), so that its memory can be reused.
QuietCalloutsDoNotRun ==
  \A c \in quiet : /\ c \notin c_pending
                   /\ c \notin Range(delegated)
                   /\ c # elem

\* The callout thread does not sleep while callouts are delegated to it, and
\* nobody sleeps in callout_drain for a callout that has been executed: the
\* checks before these sleeps and the wakeups do not miss each other.
NobodySleepsForNothing ==
  /\ ct_pc = "asleep" => delegated = <<>>
  /\ \A c \in Callouts :
       draining[c] = "asleep" => c \in c_pending \cup c_active

\* What is delegated is executed, and the owner that waits in callout_drain
\* for a callout that is not pending any more gets to return.
DelegatedRun ==
  \A c \in Callouts : c \in Range(delegated) ~> (elem = c \/ panicked)

DrainReturns ==
  \A c \in Callouts :
    (draining[c] # "no" /\ c \in c_stopped)
      ~> (draining[c] = "no" \/ panicked)
=============================================================================
