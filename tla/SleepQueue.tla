----------------------------- MODULE SleepQueue -----------------------------
(***************************************************************************)
(* The sleep queues of sys/kern/sleepq.c: the queues of threads that sleep *)
(* on a waiting channel until another thread signals the channel, a signal *)
(* interrupts the sleep or a timeout ends it.                              *)
(*                                                                         *)
(* As with turnstiles, every thread is created with one sleep queue        *)
(* record, named here by the thread, gives it away when it falls asleep    *)
(* and takes one back when it is woken up.  A record is linked on the      *)
(* chain of its channel exactly while sq_wchan is set; channels do not     *)
(* share chains here (SC_HASH is injective on Wchans).  sq_nblocked is the *)
(* length of sq_blocked and td_waitpt serves debuggers only.               *)
(*                                                                         *)
(* Which of the runnable threads executes is the business of Sched: here   *)
(* sched_switch only stops the thread and sched_wakeup only makes it       *)
(* runnable again.                                                         *)
(***************************************************************************)
EXTENDS TailQueue

CONSTANTS Threads, Wchans, NULL, LowestPrio

ASSUME SleepQueueAssumption ==
  /\ IsFiniteSet(Threads)
  /\ NULL \notin Threads \cup Wchans
  /\ LowestPrio \in Nat

VARIABLES
  td_state,       \* "READY" (or running) or "SLEEPING"
  td_prio,
  td_wchan,       \* channel a thread sleeps on, or NULL
  td_sleepqueue,  \* the record a thread has, or NULL while it sleeps
  td_slpintr,     \* threads with TDF_SLPINTR
  td_slptimed,    \* threads with TDF_SLPTIMED
  sq_wchan,       \* channel of a record in use, or NULL
  sq_blocked,     \* threads asleep, in the order they arrived
  sq_free         \* records of the threads that arrived after the first

sqVars == <<td_state, td_prio, td_wchan, td_sleepqueue, td_slpintr,
            td_slptimed, sq_wchan, sq_blocked, sq_free>>

SleepQueues == Threads

\* sq_ctor for the record of every thread.
SleepQueueInit ==
  /\ td_state = [td \in Threads |-> "READY"]
  /\ td_prio \in [Threads -> 0..LowestPrio]
  /\ td_wchan = [td \in Threads |-> NULL]
  /\ td_sleepqueue = [td \in Threads |-> td]
  /\ td_slpintr = {}
  /\ td_slptimed = {}
  /\ sq_wchan = [sq \in SleepQueues |-> NULL]
  /\ sq_blocked = [sq \in SleepQueues |-> <<>>]
  /\ sq_free = [sq \in SleepQueues |-> <<>>]

\* sq_lookup finds sq for wchan.
sq_lookup(sq, wchan) == wchan # NULL /\ sq_wchan[sq] = wchan

\* Variant: the chain is not searched.
NoQueue_Unsearched(wchan) == TRUE

NoQueue(wchan) == \A sq \in SleepQueues : ~ sq_lookup(sq, wchan)

\* sq_enter: the record of the first thread becomes the queue, those of the
\* others go to its free list.
sq_enter(td, wchan) ==
  LET td_sq == td_sleepqueue[td]
  IN  /\ \/ /\ NoQueue(wchan)
            /\ sq_wchan' = [sq_wchan EXCEPT ![td_sq] = wchan]
            /\ sq_blocked' = [sq_blocked EXCEPT ![td_sq] = Append(@, td)]
            /\ UNCHANGED sq_free
         \/ \E sq \in SleepQueues :
              /\ sq_lookup(sq, wchan)
              /\ sq_free' = [sq_free EXCEPT ![sq] = <<td_sq>> \o @]
              /\ sq_blocked' = [sq_blocked EXCEPT ![sq] = Append(@, td)]
              /\ UNCHANGED sq_wchan
      /\ td_wchan' = [td_wchan EXCEPT ![td] = wchan]
      /\ td_sleepqueue' = [td_sleepqueue EXCEPT ![td] = NULL]
      /\ td_state' = [td_state EXCEPT ![td] = "SLEEPING"]
      /\ UNCHANGED td_prio

\* Variant: the queue record is given to a thread that is not the last.
LeavesWith_First(sq, i) == IF i = 1 THEN sq ELSE sq_free[sq][i - 1]

\* The record the i-th of the threads that leave sq gets: one from the free
\* list, or sq itself if nobody stays behind.
LeavesWith(sq, i) ==
  IF i = Len(sq_blocked[sq]) THEN sq ELSE sq_free[sq][i]

\* sq_leave for the threads tds of sq, one after another.
sq_leave(tds, sq) ==
  LET blocked == Sublist(sq_blocked[sq], Threads \ Range(tds))
  IN  /\ sq_blocked' = [sq_blocked EXCEPT ![sq] = blocked]
      /\ sq_wchan' = [sq_wchan EXCEPT ![sq] = IF blocked = <<>> THEN NULL ELSE @]
      /\ sq_free' = [sq_free EXCEPT ![sq] = SubSeq(@, Len(tds) + 1, Len(@))]
      /\ td_sleepqueue' = [td \in Threads |->
                             IF td \in Range(tds)
                             THEN LeavesWith(sq, IndexOf(tds, td))
                             ELSE td_sleepqueue[td]]
      /\ td_wchan' = [td \in Threads |->
                        IF td \in Range(tds) THEN NULL ELSE td_wchan[td]]
      /\ td_state' = [td \in Threads |->
                        IF td \in Range(tds) THEN "READY" ELSE td_state[td]]
      /\ UNCHANGED td_prio

\* The first of the threads of highest priority on a queue.
BestOf(blocked) ==
  LET best == {i \in DOMAIN blocked : \A j \in DOMAIN blocked :
                 td_prio[blocked[j]] >= td_prio[blocked[i]]}
  IN  blocked[CHOOSE i \in best : \A j \in best : i <= j]

\* Variant: the flags of the sleep are left as they are.
RegularWakeup_KeepFlags(tds, sq) ==
  sq_leave(tds, sq) /\ UNCHANGED <<td_slpintr, td_slptimed>>

\* sq_wakeup with a wakeup of 0, from sleepq_signal and sleepq_broadcast.
RegularWakeup(tds, sq) ==
  /\ td_slpintr' = td_slpintr \ Range(tds)
  /\ td_slptimed' = td_slptimed \ Range(tds)
  /\ sq_leave(tds, sq)

sleepq_signal(wchan) ==
  \/ /\ NoQueue(wchan)
     /\ UNCHANGED sqVars
  \/ \E sq \in SleepQueues :
       /\ sq_lookup(sq, wchan)
       /\ RegularWakeup(<<BestOf(sq_blocked[sq])>>, sq)

sleepq_broadcast(wchan) ==
  \/ /\ NoQueue(wchan)
     /\ UNCHANGED sqVars
  \/ \E sq \in SleepQueues :
       /\ sq_lookup(sq, wchan)
       /\ RegularWakeup(sq_blocked[sq], sq)

\* Variant: timeouts need an interruptible sleep.
MayWake_IntrOnly(td, wakeup) == td \in td_slpintr

\* sq_wakeup with EINTR ends interruptible sleeps only, with ETIMEDOUT timed
\* ones only.
MayWake(td, wakeup) == \/ wakeup = "EINTR" /\ td \in td_slpintr
                       \/ wakeup = "ETIMEDOUT" /\ td \in td_slptimed

\* _sleepq_abort of td, which was on channel wchan when the chain to lock was
\* looked up: a thread that has gone to another channel since is not found.
sleepq_abort(td, wchan, wakeup) ==
  \/ \E sq \in SleepQueues :
       /\ sq_lookup(sq, td_wchan[td])
       /\ td_wchan[td] = wchan
       /\ MayWake(td, wakeup)
       /\ td_slptimed' = IF wakeup = "EINTR" THEN td_slptimed \ {td}
                         ELSE td_slptimed
       /\ td_slpintr' = IF wakeup = "ETIMEDOUT" THEN td_slpintr \ {td}
                        ELSE td_slpintr
       /\ sq_leave(<<td>>, sq)
  \/ /\ NoQueue(td_wchan[td]) \/ td_wchan[td] # wchan \/ ~ MayWake(td, wakeup)
     /\ UNCHANGED sqVars

SleepQueueTypeOK ==
  /\ td_state \in [Threads -> {"READY", "SLEEPING"}]
  /\ td_prio \in [Threads -> 0..LowestPrio]
  /\ td_wchan \in [Threads -> Wchans \cup {NULL}]
  /\ td_sleepqueue \in [Threads -> SleepQueues \cup {NULL}]
  /\ td_slpintr \in SUBSET Threads
  /\ td_slptimed \in SUBSET Threads
  /\ sq_wchan \in [SleepQueues -> Wchans \cup {NULL}]
  /\ sq_blocked \in [SleepQueues -> Seq(Threads)]
  /\ sq_free \in [SleepQueues -> Seq(SleepQueues)]

\* A sleeping thread can be found by those who want to wake it up: it is on the
\* one queue of its channel, and everybody on that queue is asleep there.
SleepersFound ==
  /\ \A td \in Threads :
       td_state[td] = "SLEEPING" =>
         \E sq \in SleepQueues : /\ sq_lookup(sq, td_wchan[td])
                                 /\ td \in Range(sq_blocked[sq])
  /\ \A sq \in SleepQueues :
       /\ Distinct(sq_blocked[sq])
       /\ \A td \in Range(sq_blocked[sq]) :
            td_state[td] = "SLEEPING" /\ td_wchan[td] = sq_wchan[sq]
       /\ sq_blocked[sq] = <<>> <=> sq_wchan[sq] = NULL
  /\ \A sq, sr \in SleepQueues :
       sq_wchan[sq] # NULL /\ sq_wchan[sq] = sq_wchan[sr] => sq = sr

\* Records are neither lost nor shared when threads leave a queue in any order,
\* by signals, timeouts and broadcasts: an awake thread has a record that
\* nobody else has and that is clean (the assertions of sq_enter), and a queue
\* has one free record for each thread on it but one (those of sq_leave).
SleepQueuesConserved ==
  /\ \A td \in Threads :
       LET sq == td_sleepqueue[td]
       IN  IF td_state[td] = "SLEEPING" THEN sq = NULL
           ELSE /\ sq # NULL
                /\ sq_wchan[sq] = NULL
                /\ sq_blocked[sq] = <<>> /\ sq_free[sq] = <<>>
  /\ \A td, u \in Threads :
       td_sleepqueue[td] # NULL /\ td_sleepqueue[td] = td_sleepqueue[u] => td = u
  /\ \A sq \in SleepQueues :
       /\ sq_wchan[sq] # NULL => Len(sq_blocked[sq]) = Len(sq_free[sq]) + 1
       /\ Distinct(sq_free[sq])
       /\ \A fsq \in Range(sq_free[sq]) : /\ sq_wchan[fsq] = NULL
                                          /\ \A td \in Threads :
                                               td_sleepqueue[td] # fsq
=============================================================================
