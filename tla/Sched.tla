------------------------------- MODULE Sched -------------------------------
(***************************************************************************)
(* The uniprocessor scheduler of sys/kern/sched.c and the run queue of     *)
(* sys/kern/runq.c.  Only the thread in curthread executes; the kernel     *)
(* switches to another one in sched_switch, called with the new state of   *)
(* the current thread already decided.                                     *)
(*                                                                         *)
(* Time accounting (td_rtime, td_slptime, td_nctxsw, the slice countdown)  *)
(* is left out: sched_clock may end the time slice at any moment.          *)
(***************************************************************************)
EXTENDS TailQueue

CONSTANTS
  Threads,     \* threads other than the idle thread
  Idle,        \* the idle thread (thread0 after sched_run)
  NULL,
  LowestPrio,  \* the numerically greatest priority: prio_uthread(255)
  RQ_PPQ       \* priorities per run queue

ASSUME SchedAssumption ==
  /\ IsFiniteSet(Threads)
  /\ Idle \notin Threads
  /\ NULL \notin Threads \cup {Idle}
  /\ LowestPrio \in Nat
  /\ RQ_PPQ \in Nat \ {0}

VARIABLES
  curthread,      \* PCPU_GET(curthread)
  td_state,       \* [Threads -> TdState]
  td_prio,        \* active priority
  td_base_prio,   \* base priority
  td_borrowing,   \* threads with TDF_BORROWING
  td_needswitch,  \* threads with TDF_NEEDSWITCH
  runq            \* [Queues -> Seq(Threads)]

schedVars == <<curthread, td_state, td_prio, td_base_prio, td_borrowing,
               td_needswitch, runq>>

TdState == {"INACTIVE", "READY", "RUNNING", "SLEEPING", "BLOCKED",
            "STOPPED", "DEAD"}

(***************************************************************************)
(* Priorities: a greater number is a lower priority.                       *)
(***************************************************************************)
Prio == 0..LowestPrio

prio_lt(p1, p2) == p1 > p2

prio_gt(p1, p2) == p1 < p2

prio_le(p1, p2) == p1 >= p2

(***************************************************************************)
(* Run queues.                                                             *)
(***************************************************************************)
QueueOf(p) == p \div RQ_PPQ

Queues == {QueueOf(p) : p \in Prio}

runq_add(rq, td, p) == [rq EXCEPT ![QueueOf(p)] = Append(@, td)]

runq_remove(rq, td, p) == [rq EXCEPT ![QueueOf(p)] = TAILQ_REMOVE(@, td)]

\* newtd is the thread sched_choose finds: the head of the first nonempty
\* queue, or the idle thread.
sched_choose(rq, newtd) ==
  \/ /\ newtd = Idle
     /\ \A q \in Queues : rq[q] = <<>>
  \/ \E q \in Queues :
       /\ rq[q] # <<>>
       /\ newtd = Head(rq[q])
       /\ \A r \in Queues : r < q => rq[r] = <<>>

(***************************************************************************)
(* sched_switch: the current thread, whose state has just been set to      *)
(* state, gives up the processor.  rq and prio are the run queue and the   *)
(* priorities at the time of the call.                                     *)
(***************************************************************************)
sched_switch(state, rq, prio) ==
  LET td  == curthread
      rq1 == IF td # Idle /\ state = "READY"
             THEN runq_add(rq, td, prio[td]) ELSE rq
      st1 == IF td = Idle THEN td_state
             ELSE [td_state EXCEPT ![td] = state]
  IN  \E newtd \in Threads \cup {Idle} :
        /\ sched_choose(rq1, newtd)
        /\ curthread' = newtd
        /\ td_needswitch' = td_needswitch \ {td}
        /\ IF newtd = Idle
           THEN runq' = rq1 /\ td_state' = st1
           ELSE /\ runq' = runq_remove(rq1, newtd, prio[newtd])
                /\ td_state' = [st1 EXCEPT ![newtd] = "RUNNING"]

(***************************************************************************)
(* sched_wakeup of the threads in the sequence tds, one after another:     *)
(* each goes to the tail of its queue, and the current thread is told to   *)
(* switch if one of them has a higher priority.                            *)
(***************************************************************************)
WokenRunq(tds, prio) ==
  [q \in Queues |->
     runq[q] \o Sublist(tds, {td \in Threads : QueueOf(prio[td]) = q})]

\* Variant for checking the properties: wakeup without preemption.
WokenNeedSwitch_Forgotten(tds, prio) == td_needswitch

WokenNeedSwitch(tds, prio) ==
  IF curthread # Idle
     /\ \E td \in Range(tds) : prio_gt(prio[td], prio[curthread])
  THEN td_needswitch \cup {curthread} ELSE td_needswitch

sched_wakeup(tds, prio) ==
  /\ td_state' = [td \in Threads |->
                    IF td \in Range(tds) THEN "READY" ELSE td_state[td]]
  /\ runq' = WokenRunq(tds, prio)
  /\ td_needswitch' = WokenNeedSwitch(tds, prio)

(***************************************************************************)
(* sched_set_active_prio of threads whose active priority changes to prio: *)
(* a thread on a run queue goes to the tail of the queue of its new        *)
(* priority.  (At most one of the threads is on a run queue.)              *)
(***************************************************************************)
WithPrio(tds, prio) ==
  [td \in Threads |-> IF td \in tds THEN prio ELSE td_prio[td]]

\* Variant: the priority changes, the run queue does not.
Requeued_InPlace(tds, prio) == runq

Requeued(tds, prio) ==
  LET queued == {td \in tds : td_state[td] = "READY"}
  IN  [q \in Queues |->
         Sublist(runq[q], Threads \ queued)
           \o (IF q = QueueOf(prio) THEN SetToSeq(queued) ELSE <<>>)]

(***************************************************************************)
(* The actions of the scheduler itself.                                    *)
(***************************************************************************)

\* sched_add: a thread made by thread_create becomes runnable.
SchedAdd(td) ==
  /\ td_state[td] = "INACTIVE"
  /\ sched_wakeup(<<td>>, td_prio)
  /\ UNCHANGED <<curthread, td_prio, td_base_prio, td_borrowing>>

\* sched_clock: the clock interrupt that ends the time slice.
Tick ==
  /\ curthread # Idle
  /\ td_needswitch' = td_needswitch \cup {curthread}
  /\ UNCHANGED <<curthread, td_state, td_prio, td_base_prio, td_borrowing,
                 runq>>

\* on_exc_leave on the way out of an interrupt, sched_maybe_preempt, and
\* thread_yield: the current thread goes back to the run queue.  The idle
\* thread sets its own TDF_NEEDSWITCH all the time.
SwitchOut ==
  /\ curthread \in td_needswitch \cup {Idle}
  /\ sched_switch("READY", runq, td_prio)
  /\ UNCHANGED <<td_prio, td_base_prio, td_borrowing>>

\* init_sched and thread_create: every thread starts inactive, with the
\* priority its creator chose; thread0 is the idle thread.
SchedInit ==
  /\ curthread = Idle
  /\ td_state = [td \in Threads |-> "INACTIVE"]
  /\ td_base_prio \in [Threads -> Prio]
  /\ td_prio = td_base_prio
  /\ td_borrowing = {}
  /\ td_needswitch = {}
  /\ runq = [q \in Queues |-> <<>>]

SchedTypeOK ==
  /\ curthread \in Threads \cup {Idle}
  /\ td_state \in [Threads -> TdState]
  /\ td_prio \in [Threads -> Prio]
  /\ td_base_prio \in [Threads -> Prio]
  /\ td_borrowing \in SUBSET Threads
  /\ td_needswitch \in SUBSET Threads
  /\ runq \in [Queues -> Seq(Threads)]

\* A thread waits on a run queue exactly when it is ready, it waits there once,
\* on the queue of its active priority, and the current thread is the one that
\* is running.  Lending, unlending and changing priorities move threads
\* between queues (sched_set_active_prio); runq_remove on the wrong queue
\* would corrupt two lists.
RunqConsistent ==
  /\ \A td \in Threads :
       td_state[td] = "READY" <=> td \in Range(runq[QueueOf(td_prio[td])])
  /\ \A q \in Queues :
       /\ Distinct(runq[q])
       /\ \A td \in Range(runq[q]) : QueueOf(td_prio[td]) = q
  /\ \A td \in Threads : td_state[td] = "RUNNING" <=> td = curthread

\* If the current thread need not switch, nobody waits on a queue above its own.
\* (Threads of one queue are served in FIFO order whatever their priority.)
NoBetterReady ==
  curthread \in Threads \ td_needswitch =>
    \A td \in Threads :
      td_state[td] = "READY" =>
        QueueOf(td_prio[curthread]) <= QueueOf(td_prio[td])
=============================================================================
