---------------------------- MODULE MutexProofs ----------------------------
(***************************************************************************)
(* IInv is an invariant of Mutex for any finite set of threads, any set of *)
(* mutexes and any priorities, and what follows from it; and the mutexes   *)
(* implement AbstractLock.                                                 *)
(***************************************************************************)
EXTENDS MutexInv, TailQueueProofs

(***************************************************************************)
(* The scheduler: its operations keep the run queues consistent.  The      *)
(* lemmas are about arbitrary run queues, priorities and sets of ready     *)
(* threads, because sched_switch is called with queues and priorities that *)
(* the same step has already changed.                                      *)
(***************************************************************************)

\* rq holds exactly the threads in ready, each once, on the queue of its
\* priority.
RunqOf(rq, prio, ready) ==
  /\ rq \in [Queues -> Seq(Threads)]
  /\ \A q \in Queues : Distinct(rq[q])
  /\ \A q \in Queues, td \in Threads :
       td \in Range(rq[q]) <=> td \in ready /\ q = QueueOf(prio[td])

Ready == {td \in Threads : td_state[td] = "READY"}

OneRunning == \A td \in Threads : td_state[td] = "RUNNING" <=> td = curthread

\* Every priority has its run queue.
LEMMA QueueExists ==
  ASSUME NEW prio \in [Threads -> Prio], NEW td \in Threads
  PROVE  QueueOf(prio[td]) \in Queues
  BY DEF Queues

\* RunqConsistent in terms of RunqOf.
LEMMA RunqConsistentForm ==
  SchedTypeOK => (RunqConsistent <=> RunqOf(runq, td_prio, Ready) /\ OneRunning)
<1> SUFFICES ASSUME SchedTypeOK
             PROVE  RunqConsistent <=> RunqOf(runq, td_prio, Ready) /\ OneRunning
  OBVIOUS
<1>1. \A td \in Threads : QueueOf(td_prio[td]) \in Queues
  BY QueueExists DEF SchedTypeOK
<1>2. \A q \in Queues : runq[q] \in Seq(Threads)
  BY DEF SchedTypeOK
<1>3. \A q \in Queues : Range(runq[q]) \subseteq Threads
  BY <1>2, ElementOfSeq, LenProperties DEF Range
<1>4. runq \in [Queues -> Seq(Threads)]
  BY DEF SchedTypeOK
<1>5. ASSUME RunqConsistent
      PROVE  RunqOf(runq, td_prio, Ready) /\ OneRunning
  BY <1>1, <1>3, <1>4, <1>5 DEF RunqConsistent, RunqOf, Ready, OneRunning
<1>6. ASSUME RunqOf(runq, td_prio, Ready), OneRunning
      PROVE  RunqConsistent
  BY <1>1, <1>3, <1>6 DEF RunqConsistent, RunqOf, Ready, OneRunning
<1> QED  BY <1>5, <1>6

\* The same in the next state.
LEMMA RunqConsistentFormNext ==
  (SchedTypeOK =>
     (RunqConsistent <=> RunqOf(runq, td_prio, Ready) /\ OneRunning))'
  BY RunqConsistentForm, PTL

\* runq_add of a thread that is not queued.
LEMMA RunqAdd ==
  ASSUME NEW rq, NEW prio \in [Threads -> Prio], NEW ready \in SUBSET Threads,
         RunqOf(rq, prio, ready), NEW td \in Threads, td \notin ready
  PROVE  RunqOf(runq_add(rq, td, prio[td]), prio, ready \cup {td})
<1> DEFINE c == QueueOf(prio[td])
           s == rq[c]
           r == runq_add(rq, td, prio[td])
<1>1. c \in Queues /\ s \in Seq(Threads) /\ Distinct(s) /\ td \notin Range(s)
  BY QueueExists DEF RunqOf
<1>2. r = [rq EXCEPT ![c] = Append(s, td)]
  BY DEF runq_add, RunqOf
<1> HIDE DEF s, r
<1>3. /\ Append(s, td) \in Seq(Threads) /\ Distinct(Append(s, td))
      /\ Range(Append(s, td)) = Range(s) \cup {td}
  BY <1>1, AppendRange
<1>4. r \in [Queues -> Seq(Threads)] /\ \A q \in Queues : Distinct(r[q])
  BY <1>1, <1>2, <1>3 DEF RunqOf
<1>5. \A q \in Queues : Range(r[q]) = IF q = c THEN Range(s) \cup {td} ELSE Range(rq[q])
  BY <1>1, <1>2, <1>3 DEF RunqOf
<1>6. \A q \in Queues, u \in Threads :
        u \in Range(r[q]) <=> u \in ready \cup {td} /\ q = QueueOf(prio[u])
  BY <1>1, <1>5 DEF RunqOf, s
<1> QED  BY <1>4, <1>6 DEF RunqOf, r

\* runq_remove of a thread that is queued.
LEMMA RunqRemove ==
  ASSUME NEW rq, NEW prio \in [Threads -> Prio], NEW ready \in SUBSET Threads,
         RunqOf(rq, prio, ready), NEW td \in ready
  PROVE  RunqOf(runq_remove(rq, td, prio[td]), prio, ready \ {td})
<1> DEFINE c == QueueOf(prio[td])
           s == rq[c]
           r == runq_remove(rq, td, prio[td])
<1>1. c \in Queues /\ s \in Seq(Threads) /\ Distinct(s) /\ td \in Range(s)
  BY QueueExists DEF RunqOf
<1>2. r = [rq EXCEPT ![c] = TAILQ_REMOVE(s, td)]
  BY DEF runq_remove, RunqOf
<1> HIDE DEF s, r
<1>3. /\ TAILQ_REMOVE(s, td) \in Seq(Threads) /\ Distinct(TAILQ_REMOVE(s, td))
      /\ Range(TAILQ_REMOVE(s, td)) = Range(s) \ {td}
  BY <1>1, RemoveRange
<1>4. r \in [Queues -> Seq(Threads)] /\ \A q \in Queues : Distinct(r[q])
  BY <1>1, <1>2, <1>3 DEF RunqOf
<1>5. \A q \in Queues : Range(r[q]) = IF q = c THEN Range(s) \ {td} ELSE Range(rq[q])
  BY <1>1, <1>2, <1>3 DEF RunqOf
<1>6. \A q \in Queues, u \in Threads :
        u \in Range(r[q]) <=> u \in ready \ {td} /\ q = QueueOf(prio[u])
  BY <1>1, <1>5 DEF RunqOf, s
<1> QED  BY <1>4, <1>6 DEF RunqOf, r

\* Queues are numbered, in the order of priorities.
LEMMA QueueOrder ==
  ASSUME SchedAssumption
  PROVE  /\ \A q \in Queues : q \in Nat
         /\ \A p1, p2 \in Prio : p1 <= p2 => QueueOf(p1) <= QueueOf(p2)
<1> USE DEF SchedAssumption
<1>1. ASSUME NEW p \in Nat
      PROVE  /\ QueueOf(p) \in Nat
             /\ RQ_PPQ * QueueOf(p) <= p /\ p < RQ_PPQ * (QueueOf(p) + 1)
  BY DEF QueueOf
<1>2. Prio \subseteq Nat
  BY DEF Prio
<1>3. ASSUME NEW a \in Nat, NEW b \in Nat, a + 1 <= b
      PROVE  RQ_PPQ * (a + 1) <= RQ_PPQ * b
  BY <1>3
<1>4. ASSUME NEW p1 \in Prio, NEW p2 \in Prio, p1 <= p2 PROVE QueueOf(p1) <= QueueOf(p2)
  <2>1. PICK a, b \in Nat : a = QueueOf(p1) /\ b = QueueOf(p2)
    BY <1>1, <1>2
  <2>2. RQ_PPQ * a <= p1 /\ p2 < RQ_PPQ * (b + 1) /\ p1 \in Nat /\ p2 \in Nat
    BY <1>1, <1>2, <2>1
  <2>3. RQ_PPQ * a \in Nat /\ RQ_PPQ * (b + 1) \in Nat
    OBVIOUS
  <2>4. ~ (b + 1 <= a)
    BY <1>3, <1>4, <2>2, <2>3
  <2> QED  BY <2>1, <2>4
<1> QED  BY <1>1, <1>2, <1>4 DEF Queues

\* sched_choose finds a ready thread, of which none is on a better queue, or the
\* idle thread.
LEMMA ChooseReady ==
  ASSUME SchedAssumption, NEW rq, NEW prio \in [Threads -> Prio],
         NEW ready \in SUBSET Threads,
         RunqOf(rq, prio, ready), NEW newtd, sched_choose(rq, newtd)
  PROVE  \/ newtd = Idle
         \/ /\ newtd \in ready
            /\ \A td \in ready : QueueOf(prio[newtd]) <= QueueOf(prio[td])
<1> SUFFICES ASSUME NEW q \in Queues, rq[q] # <<>>, newtd = Head(rq[q]),
                    \A r \in Queues : r < q => rq[r] = <<>>
             PROVE  /\ newtd \in ready
                    /\ \A td \in ready : QueueOf(prio[newtd]) <= QueueOf(prio[td])
  BY DEF sched_choose
<1>1. rq[q] \in Seq(Threads)
  BY DEF RunqOf
<1>2. Head(rq[q]) \in Range(rq[q]) /\ Head(rq[q]) \in Threads
  <2> DEFINE s == rq[q]
  <2>1. s \in Seq(Threads) /\ s # <<>>
    BY <1>1
  <2> HIDE DEF s
  <2>2. 1 \in DOMAIN s /\ Head(s) = s[1] /\ s[1] \in Threads
    BY <2>1
  <2> QED  BY <2>2 DEF Range, s
<1>3. newtd \in ready /\ q = QueueOf(prio[newtd])
  BY <1>2 DEF RunqOf
<1>4. ASSUME NEW td \in ready PROVE q <= QueueOf(prio[td])
  <2>1. PICK r \in Queues : r = QueueOf(prio[td])
    BY QueueExists
  <2>2. td \in Range(rq[r])
    BY <2>1 DEF RunqOf
  <2>3. rq[r] # <<>>
    BY <2>2 DEF Range
  <2>4. ~ (r < q) /\ r \in Nat /\ q \in Nat
    BY <2>3, QueueOrder
  <2> QED  BY <2>1, <2>4
<1> QED  BY <1>3, <1>4

\* sched_switch: the old thread leaves the processor in the given state, the
\* new one was ready and runs, nobody else is touched, and nobody is left
\* waiting on a better queue.
LEMMA SwitchKeepsRunq ==
  ASSUME SchedAssumption, curthread \in Threads \cup {Idle},
         td_state \in [Threads -> TdState], td_needswitch \in SUBSET Threads,
         OneRunning, NEW rq, NEW prio \in [Threads -> Prio],
         RunqOf(rq, prio, Ready), NEW state \in {"READY", "BLOCKED", "DEAD"},
         sched_switch(state, rq, prio)
  PROVE  /\ curthread' \in Threads \cup {Idle}
         /\ td_state' \in [Threads -> TdState]
         /\ td_needswitch' \in SUBSET Threads
         /\ OneRunning'
         /\ RunqOf(runq', prio, Ready')
         /\ \A td \in Threads :
              td_state'[td] = "BLOCKED" <=>
                IF td = curthread THEN state = "BLOCKED" ELSE td_state[td] = "BLOCKED"
         /\ curthread' # Idle =>
              \A td \in Ready' : QueueOf(prio[curthread']) <= QueueOf(prio[td])
<1> DEFINE rq1 == IF curthread # Idle /\ state = "READY"
                  THEN runq_add(rq, curthread, prio[curthread]) ELSE rq
           st1 == IF curthread = Idle THEN td_state
                  ELSE [td_state EXCEPT ![curthread] = state]
           ready1 == {td \in Threads : st1[td] = "READY"}
<1>1. PICK newtd \in Threads \cup {Idle} :
        /\ sched_choose(rq1, newtd)
        /\ curthread' = newtd
        /\ td_needswitch' = td_needswitch \ {curthread}
        /\ IF newtd = Idle
           THEN runq' = rq1 /\ td_state' = st1
           ELSE /\ runq' = runq_remove(rq1, newtd, prio[newtd])
                /\ td_state' = [st1 EXCEPT ![newtd] = "RUNNING"]
  BY DEF sched_switch
<1>2. /\ st1 \in [Threads -> TdState]
      /\ \A td \in Threads : st1[td] = IF td = curthread THEN state ELSE td_state[td]
  BY DEF SchedAssumption, TdState
<1>3. ready1 = IF curthread # Idle /\ state = "READY"
               THEN Ready \cup {curthread} ELSE Ready
  BY <1>2 DEF Ready, OneRunning, SchedAssumption
<1>4. RunqOf(rq1, prio, ready1)
  <2>1. CASE curthread # Idle /\ state = "READY"
    <3>1. curthread \in Threads /\ curthread \notin Ready
      BY <2>1 DEF OneRunning, Ready
    <3>2. Ready \in SUBSET Threads
      BY DEF Ready
    <3>3. RunqOf(runq_add(rq, curthread, prio[curthread]), prio, Ready \cup {curthread})
      BY <3>1, <3>2, RunqAdd
    <3> QED  BY <2>1, <1>3, <3>3
  <2>2. CASE ~ (curthread # Idle /\ state = "READY")
    BY <2>2, <1>3
  <2> QED  BY <2>1, <2>2
<1>5. ready1 \in SUBSET Threads
  OBVIOUS
<1>6. \/ newtd = Idle
      \/ /\ newtd \in ready1
         /\ \A td \in ready1 : QueueOf(prio[newtd]) <= QueueOf(prio[td])
  <2> HIDE DEF rq1, ready1
  <2> QED  BY <1>1, <1>4, <1>5, ChooseReady
<1>7. \A td \in Threads : st1[td] # "RUNNING"
  BY <1>2 DEF OneRunning
<1>8. td_needswitch' \in SUBSET Threads /\ curthread' \in Threads \cup {Idle}
  BY <1>1
<1>9. CASE newtd = Idle
  <2>1. Ready' = ready1 /\ td_state' = st1 /\ runq' = rq1 /\ curthread' = Idle
    BY <1>1, <1>9 DEF Ready
  <2> HIDE DEF st1, rq1, ready1
  <2>2. OneRunning'
    BY <1>7, <2>1 DEF OneRunning, SchedAssumption
  <2>3. RunqOf(runq', prio, Ready')
    BY <1>4, <2>1
  <2> QED  BY <1>2, <1>8, <2>1, <2>2, <2>3
<1>10. CASE newtd # Idle
  <2>1. newtd \in ready1
    BY <1>6, <1>10
  <2>2. st1[newtd] = "READY" /\ newtd \in Threads
    BY <2>1
  <2>3. /\ td_state' = [st1 EXCEPT ![newtd] = "RUNNING"]
        /\ runq' = runq_remove(rq1, newtd, prio[newtd])
        /\ curthread' = newtd
    BY <1>1, <1>10
  <2>4. /\ td_state' \in [Threads -> TdState]
        /\ \A td \in Threads :
             td_state'[td] = IF td = newtd THEN "RUNNING" ELSE st1[td]
    <3> HIDE DEF st1
    <3> QED  BY <1>2, <2>2, <2>3 DEF TdState
  <2>5. Ready' = ready1 \ {newtd}
    BY <2>4 DEF Ready
  <2>6. RunqOf(runq', prio, Ready')
    <3> HIDE DEF rq1, ready1
    <3>1. RunqOf(runq_remove(rq1, newtd, prio[newtd]), prio, ready1 \ {newtd})
      BY <1>4, <1>5, <2>1, RunqRemove
    <3> QED  BY <2>3, <2>5, <3>1
  <2> HIDE DEF st1, rq1, ready1
  <2>7. OneRunning'
    BY <1>7, <2>3, <2>4 DEF OneRunning
  <2>8. \A td \in Threads :
          td_state'[td] = "BLOCKED" <=>
            IF td = curthread THEN state = "BLOCKED" ELSE td_state[td] = "BLOCKED"
    BY <1>2, <2>2, <2>4
  <2>9. \A td \in Ready' : QueueOf(prio[curthread']) <= QueueOf(prio[td])
    BY <1>6, <1>10, <2>3, <2>5
  <2> QED  BY <1>8, <2>4, <2>6, <2>7, <2>8, <2>9
<1> QED  BY <1>9, <1>10

\* sched_wakeup of all the threads of a queue, none of which is runnable.
LEMMA WakeupKeepsRunq ==
  ASSUME SchedAssumption, curthread \in Threads \cup {Idle},
         td_state \in [Threads -> TdState], td_needswitch \in SUBSET Threads,
         OneRunning, NEW prio \in [Threads -> Prio], RunqOf(runq, prio, Ready),
         NEW tds \in Seq(Threads), Distinct(tds),
         \A td \in Range(tds) : td_state[td] \notin {"READY", "RUNNING"},
         sched_wakeup(tds, prio), curthread' = curthread
  PROVE  /\ td_state' \in [Threads -> TdState]
         /\ td_needswitch' \in SUBSET Threads
         /\ OneRunning'
         /\ RunqOf(runq', prio, Ready')
         /\ \A td \in Threads :
              td_state'[td] = "BLOCKED" <=>
                td \notin Range(tds) /\ td_state[td] = "BLOCKED"
<1> DEFINE on(q) == {td \in Threads : QueueOf(prio[td]) = q}
<1>1. /\ td_state' = [td \in Threads |->
                        IF td \in Range(tds) THEN "READY" ELSE td_state[td]]
      /\ runq' = [q \in Queues |-> runq[q] \o Sublist(tds, on(q))]
      /\ td_needswitch' = WokenNeedSwitch(tds, prio)
  BY DEF sched_wakeup, WokenRunq
<1>2. td_state' \in [Threads -> TdState] /\ td_needswitch' \in SUBSET Threads
  BY <1>1 DEF WokenNeedSwitch, TdState
<1>3. Range(tds) \subseteq Threads
  BY ElementOfSeq, LenProperties DEF Range
<1>4. OneRunning'
  BY <1>1, <1>3 DEF OneRunning
<1>5. Ready' = Ready \cup Range(tds) /\ Ready \cap Range(tds) = {}
  BY <1>1, <1>3 DEF Ready
<1>6. ASSUME NEW q \in Queues
      PROVE  /\ runq'[q] \in Seq(Threads) /\ Distinct(runq'[q])
             /\ Range(runq'[q]) = Range(runq[q]) \cup (Range(tds) \cap on(q))
  <2> DEFINE s == runq[q]
             t == Sublist(tds, on(q))
  <2>1. runq'[q] = s \o t
    BY <1>1
  <2>2. s \in Seq(Threads) /\ Distinct(s) /\ Range(s) \cap Range(tds) = {}
    BY <1>3, <1>5 DEF RunqOf
  <2>3. /\ t \in Seq(Threads) /\ Distinct(t) /\ Range(t) = Range(tds) \cap on(q)
    <3> HIDE DEF on
    <3> QED  BY SublistRange
  <2> HIDE DEF s, t, on
  <2>4. Range(s) \cap Range(t) = {}
    BY <2>2, <2>3
  <2>5. /\ s \o t \in Seq(Threads) /\ Distinct(s \o t)
        /\ Range(s \o t) = Range(s) \cup Range(t)
    BY <2>2, <2>3, <2>4, ConcatRange
  <2> QED  BY <2>1, <2>3, <2>5 DEF s
<1>7. RunqOf(runq', prio, Ready')
  <2>1. runq' \in [Queues -> Seq(Threads)] /\ \A q \in Queues : Distinct(runq'[q])
    BY <1>1, <1>6
  <2>2. \A q \in Queues, td \in Threads :
          td \in Range(runq'[q]) <=> td \in Ready' /\ q = QueueOf(prio[td])
    BY <1>5, <1>6 DEF RunqOf
  <2> QED  BY <2>1, <2>2 DEF RunqOf
<1>8. \A td \in Threads :
        td_state'[td] = "BLOCKED" <=> td \notin Range(tds) /\ td_state[td] = "BLOCKED"
  BY <1>1
<1> QED  BY <1>2, <1>4, <1>7, <1>8

\* sched_set_active_prio of threads whose priority changes to p.
LEMMA RequeueKeepsRunq ==
  ASSUME SchedAssumption, td_prio \in [Threads -> Prio],
         RunqOf(runq, td_prio, Ready), NEW tds \in SUBSET Threads, NEW p \in Prio
  PROVE  /\ WithPrio(tds, p) \in [Threads -> Prio]
         /\ RunqOf(Requeued(tds, p), WithPrio(tds, p), Ready)
<1> DEFINE queued == {td \in tds : td_state[td] = "READY"}
           prio == WithPrio(tds, p)
           rq == Requeued(tds, p)
           tail(q) == IF q = QueueOf(p) THEN SetToSeq(queued) ELSE <<>>
<1>1. prio \in [Threads -> Prio]
      /\ \A td \in Threads : prio[td] = IF td \in tds THEN p ELSE td_prio[td]
  BY DEF WithPrio
<1>2. rq = [q \in Queues |-> Sublist(runq[q], Threads \ queued) \o tail(q)]
  BY DEF Requeued
<1>3. queued = tds \cap Ready
  BY DEF Ready
<1>4. IsFiniteSet(queued)
  <2>1. queued \in SUBSET Threads
    BY <1>3 DEF Ready
  <2> HIDE DEF queued
  <2> QED  BY <2>1, FS_Subset DEF SchedAssumption
<1> HIDE DEF prio, rq, queued
<1>5. ASSUME NEW q \in Queues
      PROVE  /\ rq[q] \in Seq(Threads) /\ Distinct(rq[q])
             /\ Range(rq[q]) = (Range(runq[q]) \ queued)
                                 \cup (IF q = QueueOf(p) THEN queued ELSE {})
  <2> DEFINE s == Sublist(runq[q], Threads \ queued)
             t == tail(q)
  <2>1. runq[q] \in Seq(Threads) /\ Distinct(runq[q])
    BY DEF RunqOf
  <2>2. Range(runq[q]) \subseteq Threads
    BY <2>1, ElementOfSeq, LenProperties DEF Range
  <2>3. /\ s \in Seq(Threads) /\ Distinct(s)
        /\ Range(s) = Range(runq[q]) \cap (Threads \ queued)
    BY <2>1, SublistRange
  <2>4. /\ t \in Seq(Threads) /\ Distinct(t)
        /\ Range(t) = IF q = QueueOf(p) THEN queued ELSE {}
    <3>1. CASE q = QueueOf(p)
      <4>1. /\ SetToSeq(queued) \in Seq(queued) /\ Distinct(SetToSeq(queued))
            /\ Range(SetToSeq(queued)) = queued
        BY <1>4, SetToSeqRange
      <4>2. queued \subseteq Threads
        BY <1>3
      <4>3. SetToSeq(queued) \in Seq(Threads)
        BY <4>1, <4>2
      <4> QED  BY <3>1, <4>1, <4>3
    <3>2. CASE q # QueueOf(p)
      BY <3>2 DEF Distinct, Range
    <3> QED  BY <3>1, <3>2
  <2>5. rq[q] = s \o t
    BY <1>2
  <2> HIDE DEF s, t, tail
  <2>6. Range(s) \cap Range(t) = {}
    BY <2>3, <2>4
  <2>7. /\ s \o t \in Seq(Threads) /\ Distinct(s \o t)
        /\ Range(s \o t) = Range(s) \cup Range(t)
    BY <2>3, <2>4, <2>6, ConcatRange
  <2> QED  BY <2>2, <2>3, <2>4, <2>5, <2>7
<1>6. rq \in [Queues -> Seq(Threads)] /\ \A q \in Queues : Distinct(rq[q])
  BY <1>2, <1>5
<1>7. \A q \in Queues, td \in Threads :
        td \in Range(rq[q]) <=> td \in Ready /\ q = QueueOf(prio[td])
  BY <1>1, <1>3, <1>5 DEF RunqOf
<1> QED  BY <1>1, <1>6, <1>7 DEF RunqOf, prio, rq

(***************************************************************************)
(* The queues of blocked threads.                                          *)
(***************************************************************************)

\* The queues have the same threads, possibly in another order.
SameQueues(old, new) ==
  /\ new \in [Turnstiles -> Seq(Threads)]
  /\ \A ts \in Turnstiles : /\ Len(new[ts]) = Len(old[ts])
                            /\ Range(new[ts]) = Range(old[ts])
                            /\ Distinct(new[ts])

\* propagate_priority lends to threads of lower priority only.
LEMMA BorrowersAreBelow ==
  ASSUME NEW owner, NEW p
  PROVE  Borrowers(owner, p) \subseteq Below(p) /\ Below(p) \subseteq Threads
  BY DEF Borrowers, Below

\* adjust_thread moves a thread on the queue it is on.
LEMMA AdjustKeepsQueue ==
  ASSUME NEW s \in Seq(Threads), Distinct(s), NEW td \in Range(s), NEW p
  PROVE  /\ adjust_thread(s, td, p) \in Seq(Threads)
         /\ Len(adjust_thread(s, td, p)) = Len(s)
         /\ Range(adjust_thread(s, td, p)) = Range(s)
         /\ Distinct(adjust_thread(s, td, p))
<1> DEFINE i == IndexOf(s, td)
           f == i - RunBefore(s, i, Below(p))
           b == i + RunAfter(s, i, Above(p))
<1>1. i \in 1..Len(s) /\ Len(s) \in Nat
  BY IndexOfProperty, LenProperties
<1> HIDE DEF i
<1>2. RunBefore(s, i, Below(p)) \in 0..(i - 1)
  BY <1>1, WalkBounds
<1>3. RunAfter(s, i, Above(p)) \in 0..(Len(s) - i)
  BY <1>1, WalkBounds
<1>4. f \in 1..Len(s) /\ b \in 1..Len(s)
  BY <1>1, <1>2, <1>3
<1>5. \/ adjust_thread(s, td, p) = Move(s, i, f)
      \/ adjust_thread(s, td, p) = Move(s, i, b)
      \/ adjust_thread(s, td, p) = s
  BY DEF adjust_thread, i
<1> HIDE DEF f, b
<1>6. /\ Move(s, i, f) \in Seq(Threads) /\ Len(Move(s, i, f)) = Len(s)
      /\ Range(Move(s, i, f)) = Range(s) /\ Distinct(Move(s, i, f))
  BY <1>1, <1>4, MoveRange
<1>7. /\ Move(s, i, b) \in Seq(Threads) /\ Len(Move(s, i, b)) = Len(s)
      /\ Range(Move(s, i, b)) = Range(s) /\ Distinct(Move(s, i, b))
  BY <1>1, <1>4, MoveRange
<1> QED  BY <1>5, <1>6, <1>7

\* The queues through which priority is propagated keep their threads.
LEMMA LendingKeepsQueues ==
  ASSUME NEW blocked \in [Turnstiles -> Seq(Threads)],
         \A ts \in Turnstiles : Distinct(blocked[ts]),
         NEW borrowers \in SUBSET Threads, NEW p,
         \A td \in borrowers, ts \in Turnstiles :
           td_blocked[td] = ts => td \in Range(blocked[ts])
  PROVE  SameQueues(blocked, LentBlocked(blocked, borrowers, p))
<1> DEFINE new == LentBlocked(blocked, borrowers, p)
           on(ts) == CHOOSE td \in borrowers : td_blocked[td] = ts
<1>1. new = [ts \in Turnstiles |->
               IF \E td \in borrowers : td_blocked[td] = ts
               THEN adjust_thread(blocked[ts], on(ts), p) ELSE blocked[ts]]
  BY DEF LentBlocked
<1>2. ASSUME NEW ts \in Turnstiles
      PROVE  /\ new[ts] \in Seq(Threads) /\ Len(new[ts]) = Len(blocked[ts])
             /\ Range(new[ts]) = Range(blocked[ts]) /\ Distinct(new[ts])
  <2>1. blocked[ts] \in Seq(Threads) /\ Distinct(blocked[ts])
    OBVIOUS
  <2>2. CASE \E td \in borrowers : td_blocked[td] = ts
    <3>1. on(ts) \in Range(blocked[ts])
      BY <2>2
    <3>2. new[ts] = adjust_thread(blocked[ts], on(ts), p)
      BY <1>1, <2>2
    <3> HIDE DEF new, on
    <3> QED  BY <2>1, <3>1, <3>2, AdjustKeepsQueue
  <2>3. CASE ~ \E td \in borrowers : td_blocked[td] = ts
    <3>1. new[ts] = blocked[ts]
      BY <1>1, <2>3
    <3> QED  BY <2>1, <3>1
  <2> QED  BY <2>2, <2>3
<1> QED  BY <1>1, <1>2 DEF SameQueues

\* switch_away: the thread blocks, priority is lent along the chain of owners,
\* and the run queues and the queues of blocked threads stay well formed.
LEMMA SwitchAway ==
  ASSUME SchedTypeOK, TurnstileTypeOK, RunqConsistent,
         NEW td \in Threads, curthread = td, NEW ts \in Turnstiles, NEW owner,
         NEW blocked \in [Turnstiles -> Seq(Threads)],
         \A us \in Turnstiles : Distinct(blocked[us]),
         \A u \in Threads, us \in Turnstiles :
           td_blocked[u] = us => u \in Range(blocked[us]),
         switch_away(td, ts, owner, blocked)
  PROVE  /\ SchedTypeOK' /\ RunqConsistent'
         /\ SameQueues(blocked, ts_blocked')
         /\ td_turnstile' = [td_turnstile EXCEPT ![td] = NULL]
         /\ td_blocked' = [td_blocked EXCEPT ![td] = ts]
         /\ \A u \in Threads :
              td_state'[u] = "BLOCKED" <=> u = td \/ td_state[u] = "BLOCKED"
<1> DEFINE p  == td_prio[td]
           B  == Borrowers(owner, p)
           rq == Requeued(B, p)
           pr == WithPrio(B, p)
<1>1. B \in SUBSET Threads
  BY BorrowersAreBelow
<1>2. p \in Prio
  BY DEF SchedTypeOK
<1>3. /\ td_turnstile' = [td_turnstile EXCEPT ![td] = NULL]
      /\ td_blocked' = [td_blocked EXCEPT ![td] = ts]
      /\ td_prio' = pr
      /\ td_borrowing' = td_borrowing \cup B
      /\ ts_blocked' = LentBlocked(blocked, B, p)
      /\ sched_switch("BLOCKED", rq, pr)
      /\ td_base_prio' = td_base_prio
  BY DEF switch_away
<1> HIDE DEF p, B
<1>4. SameQueues(blocked, ts_blocked')
  BY <1>1, <1>3, LendingKeepsQueues
<1>5. RunqOf(runq, td_prio, Ready) /\ OneRunning
  BY RunqConsistentForm
<1>6. pr \in [Threads -> Prio] /\ RunqOf(rq, pr, Ready)
  BY <1>1, <1>2, <1>5, SchedAssumption, RequeueKeepsRunq DEF SchedTypeOK
<1> HIDE DEF rq, pr
<1>7. /\ curthread' \in Threads \cup {Idle}
      /\ td_state' \in [Threads -> TdState]
      /\ td_needswitch' \in SUBSET Threads
      /\ OneRunning'
      /\ RunqOf(runq', pr, Ready')
      /\ \A u \in Threads :
           td_state'[u] = "BLOCKED" <=>
             IF u = curthread THEN "BLOCKED" = "BLOCKED" ELSE td_state[u] = "BLOCKED"
  <2>1. "BLOCKED" \in {"READY", "BLOCKED", "DEAD"}
    OBVIOUS
  <2> QED  BY <1>3, <1>5, <1>6, <2>1, SchedAssumption, SwitchKeepsRunq
              DEF SchedTypeOK
<1>8. SchedTypeOK'
  BY <1>1, <1>3, <1>6, <1>7 DEF SchedTypeOK, RunqOf
<1>9. RunqConsistent'
  <2>1. RunqOf(runq', td_prio', Ready')
    BY <1>3, <1>7
  <2> QED  BY <1>7, <1>8, <2>1, RunqConsistentFormNext
<1> QED  BY <1>3, <1>4, <1>7, <1>8, <1>9

(***************************************************************************)
(* The initial states.                                                     *)
(***************************************************************************)
LEMMA InitIInv == Init => IInv
<1> SUFFICES ASSUME Init PROVE IInv
  OBVIOUS
<1> USE SchedAssumption, MutexAssumption
<1>1. <<>> \in Seq(Threads) /\ Range(<<>>) = {} /\ Distinct(<<>>) /\ Len(<<>>) = 0
  BY DEF Range, Distinct
<1>2. SchedTypeOK
  BY <1>1 DEF Init, SchedInit, SchedTypeOK, TdState
<1>3. TurnstileTypeOK
  BY <1>1 DEF Init, TurnstileInit, TurnstileTypeOK, TsState, Turnstiles
<1>4. TypeOK
  <2>1. panicked \in BOOLEAN
    BY DEF Init
  <2>2. setprios \in 0..MaxSetPrio
    BY DEF Init
  <2>3. m_owner \in [Mutexes -> Threads \cup {NULL}] /\ m_contested \in SUBSET Mutexes
        /\ m_count \in [Mutexes -> Nat]
    BY DEF Init
  <2>4. td_pc \in [Threads -> Pc] /\ td_mtx \in [Threads -> Mutexes \cup {NULL}]
    BY DEF Init, Pc
  <2> QED  BY <1>2, <1>3, <2>1, <2>2, <2>3, <2>4 DEF TypeOK
<1>5. RunqConsistent
  <2>1. \A td \in Threads : QueueOf(td_prio[td]) \in Queues
    BY <1>2, QueueExists DEF SchedTypeOK
  <2> QED  BY <1>1, <2>1 DEF Init, SchedInit, RunqConsistent
<1>6. BlockedLinks /\ OwnTurnstiles
  BY <1>1 DEF Init, SchedInit, TurnstileInit, BlockedLinks, OwnTurnstiles, Turnstiles
<1>7. FreeTurnstiles /\ UsedTurnstiles
  <2>1. FreeTurnstiles
    BY <1>1 DEF Init, TurnstileInit, FreeTurnstiles
  <2>2. UsedTurnstiles
    BY <1>1 DEF Init, TurnstileInit, UsedTurnstiles
  <2> QED  BY <2>1, <2>2
<1>8. ControlPoints
  BY DEF Init, TurnstileInit, ControlPoints
<1> QED  BY <1>4, <1>5, <1>6, <1>7, <1>8 DEF IInv, TurnstileInv

(***************************************************************************)
(* Steps that leave turnstiles and mutexes alone: context switches,        *)
(* interrupts, thread_exit.                                                *)
(***************************************************************************)

\* Nobody blocks or is unblocked.
SameBlocked ==
  \A td \in Threads : td_state'[td] = "BLOCKED" <=> td_state[td] = "BLOCKED"

LEMMA SchedulerStep ==
  ASSUME TurnstileInv, SameBlocked, UNCHANGED <<tsVars, m_owner, m_contested>>
  PROVE  BlockedLinks' /\ OwnTurnstiles' /\ FreeTurnstiles' /\ UsedTurnstiles'
<1> USE DEF TurnstileInv, tsVars
<1>1. BlockedLinks'
  BY DEF BlockedLinks, SameBlocked
<1>2. OwnTurnstiles'
  BY DEF OwnTurnstiles
<1>3. FreeTurnstiles'
  BY DEF FreeTurnstiles
<1>4. UsedTurnstiles'
  BY DEF UsedTurnstiles, Contended, InUse
<1> QED  BY <1>1, <1>2, <1>3, <1>4

LEMMA SamePcs ==
  ASSUME ControlPoints,
         UNCHANGED <<td_blocked, ts_wchan, td_pc, td_mtx, mtxVars>>
  PROVE  ControlPoints'
  BY DEF ControlPoints, mtxVars

\* sched_switch of a thread that does not block.
LEMMA SwitchStep ==
  ASSUME SchedTypeOK, RunqConsistent, NEW state \in {"READY", "DEAD"},
         sched_switch(state, runq, td_prio),
         curthread \in Threads => td_state[curthread] # "BLOCKED",
         UNCHANGED <<td_prio, td_base_prio, td_borrowing>>
  PROVE  SchedTypeOK' /\ RunqConsistent' /\ SameBlocked
<1>1. RunqOf(runq, td_prio, Ready) /\ OneRunning
  BY RunqConsistentForm
<1>2. /\ curthread' \in Threads \cup {Idle}
      /\ td_state' \in [Threads -> TdState]
      /\ td_needswitch' \in SUBSET Threads
      /\ OneRunning'
      /\ RunqOf(runq', td_prio, Ready')
      /\ \A u \in Threads :
           td_state'[u] = "BLOCKED" <=>
             IF u = curthread THEN state = "BLOCKED" ELSE td_state[u] = "BLOCKED"
  <2>1. state \in {"READY", "BLOCKED", "DEAD"}
    OBVIOUS
  <2> HIDE DEF OneRunning, Ready
  <2> QED  BY <1>1, <2>1, SchedAssumption, SwitchKeepsRunq DEF SchedTypeOK
<1>3. SchedTypeOK'
  BY <1>2 DEF SchedTypeOK, RunqOf
<1>4. RunqConsistent'
  <2>1. RunqOf(runq', td_prio', Ready')
    BY <1>2
  <2> QED  BY <1>2, <1>3, <2>1, RunqConsistentFormNext
<1>5. SameBlocked
  BY <1>2 DEF SameBlocked
<1> QED  BY <1>3, <1>4, <1>5

\* The current thread is not blocked.
LEMMA CurrentNotBlocked ==
  ASSUME RunqConsistent, TurnstileInv, NEW td \in Threads, curthread = td
  PROVE  /\ td_state[td] = "RUNNING"
         /\ td_blocked[td] = NULL
         /\ td_turnstile[td] # NULL
  BY DEF RunqConsistent, TurnstileInv, BlockedLinks

\* SwitchOut.
LEMMA SwitchOutStep ==
  ASSUME IInv, SwitchOut
  PROVE  SchedTypeOK' /\ RunqConsistent' /\ SameBlocked
<1>1. curthread \in Threads => td_state[curthread] # "BLOCKED"
  BY CurrentNotBlocked DEF IInv
<1> QED  BY <1>1, SwitchStep DEF IInv, TypeOK, SwitchOut

LEMMA PreemptStep ==
  ASSUME IInv, Preempt, UNCHANGED panicked
  PROVE  IInv'
<1>1. SchedTypeOK' /\ RunqConsistent' /\ SameBlocked
  BY SwitchOutStep DEF Preempt
<1>2. UNCHANGED <<tsVars, mtxVars, pcVars, setprios, panicked>>
  BY DEF Preempt
<1>3. BlockedLinks' /\ OwnTurnstiles' /\ FreeTurnstiles' /\ UsedTurnstiles'
  BY <1>1, <1>2, SchedulerStep DEF IInv, mtxVars
<1>4. ControlPoints'
  BY <1>2, SamePcs DEF IInv, TurnstileInv, mtxVars, tsVars, pcVars
<1>5. TypeOK'
  BY <1>1, <1>2 DEF IInv, TypeOK, TurnstileTypeOK, tsVars, mtxVars, pcVars
<1> QED  BY <1>1, <1>3, <1>4, <1>5 DEF IInv, TurnstileInv

LEMMA InterruptStep ==
  ASSUME IInv, Interrupt, UNCHANGED panicked
  PROVE  IInv'
<1>1. SchedTypeOK' /\ RunqConsistent' /\ SameBlocked
  BY SchedAssumption DEF IInv, TypeOK, SchedTypeOK, Interrupt, Tick,
       RunqConsistent, SameBlocked
<1>2. UNCHANGED <<tsVars, mtxVars, pcVars, setprios, panicked>>
  BY DEF Interrupt
<1>3. BlockedLinks' /\ OwnTurnstiles' /\ FreeTurnstiles' /\ UsedTurnstiles'
  BY <1>1, <1>2, SchedulerStep DEF IInv, mtxVars
<1>4. ControlPoints'
  BY <1>2, SamePcs DEF IInv, TurnstileInv, mtxVars, tsVars, pcVars
<1>5. TypeOK'
  BY <1>1, <1>2 DEF IInv, TypeOK, TurnstileTypeOK, tsVars, mtxVars, pcVars
<1> QED  BY <1>1, <1>3, <1>4, <1>5 DEF IInv, TurnstileInv

LEMMA StartStep ==
  ASSUME IInv, NEW td \in Threads, Start(td), UNCHANGED panicked
  PROVE  IInv'
<1> DEFINE tds == <<td>>
<1>1. /\ td_state[td] = "INACTIVE" /\ sched_wakeup(tds, td_prio)
      /\ UNCHANGED <<curthread, td_prio, td_base_prio, td_borrowing>>
      /\ UNCHANGED <<tsVars, mtxVars, pcVars, setprios, panicked>>
  BY DEF Start, SchedAdd
<1>2. tds \in Seq(Threads) /\ Distinct(tds) /\ Range(tds) = {td}
  BY DEF Distinct, Range
<1> HIDE DEF tds
<1>3. RunqOf(runq, td_prio, Ready) /\ OneRunning
  BY RunqConsistentForm DEF IInv, TypeOK
<1>4. \A u \in Range(tds) : td_state[u] \notin {"READY", "RUNNING"}
  BY <1>1, <1>2
<1>5. /\ td_state' \in [Threads -> TdState]
      /\ td_needswitch' \in SUBSET Threads
      /\ OneRunning'
      /\ RunqOf(runq', td_prio, Ready')
      /\ \A u \in Threads : td_state'[u] = "BLOCKED" <=>
                              u \notin Range(tds) /\ td_state[u] = "BLOCKED"
  BY <1>1, <1>2, <1>3, <1>4, SchedAssumption, WakeupKeepsRunq
     DEF IInv, TypeOK, SchedTypeOK
<1>6. SchedTypeOK'
  BY <1>1, <1>5 DEF IInv, TypeOK, SchedTypeOK, RunqOf
<1>7. RunqConsistent'
  <2>1. RunqOf(runq', td_prio', Ready')
    BY <1>1, <1>5
  <2> QED  BY <1>5, <1>6, <2>1, RunqConsistentFormNext
<1>8. SameBlocked
  BY <1>1, <1>2, <1>5 DEF SameBlocked
<1>9. BlockedLinks' /\ OwnTurnstiles' /\ FreeTurnstiles' /\ UsedTurnstiles'
  BY <1>1, <1>8, SchedulerStep DEF IInv, mtxVars
<1>10. ControlPoints'
  BY <1>1, SamePcs DEF IInv, TurnstileInv, mtxVars, tsVars, pcVars
<1>11. TypeOK'
  BY <1>1, <1>6 DEF IInv, TypeOK, TurnstileTypeOK, tsVars, mtxVars, pcVars
<1> QED  BY <1>7, <1>9, <1>10, <1>11 DEF IInv, TurnstileInv

LEMMA PreemptEnableStep ==
  ASSUME IInv, NEW td \in Threads, PreemptEnable(td), UNCHANGED panicked
  PROVE  IInv'
<1>1. /\ curthread = td
      /\ UNCHANGED <<tsVars, mtxVars, setprios, panicked>>
      /\ \/ td_pc[td] = "enable_cas" /\ Goto(td, "cas", td_mtx[td])
         \/ td_pc[td] = "enable_run" /\ Goto(td, "run", NULL)
  BY DEF PreemptEnable, At
<1>2. SchedTypeOK' /\ RunqConsistent' /\ SameBlocked
  <2>1. CASE td \in td_needswitch
    BY <2>1, SwitchOutStep DEF PreemptEnable
  <2>2. CASE td \notin td_needswitch
    <3>1. UNCHANGED schedVars
      BY <2>2 DEF PreemptEnable
    <3> QED  BY <3>1 DEF IInv, TypeOK, SchedTypeOK, schedVars, RunqConsistent,
                         SameBlocked
  <2> QED  BY <2>1, <2>2
<1>3. BlockedLinks' /\ OwnTurnstiles' /\ FreeTurnstiles' /\ UsedTurnstiles'
  BY <1>1, <1>2, SchedulerStep DEF IInv, mtxVars
<1>4. td_blocked[td] = NULL
  BY <1>1, CurrentNotBlocked DEF IInv
<1>5. ControlPoints'
  BY <1>1, <1>4 DEF IInv, TypeOK, TurnstileInv, ControlPoints, Goto, mtxVars, tsVars
<1>6. TypeOK'
  BY <1>1, <1>2 DEF IInv, TypeOK, TurnstileTypeOK, tsVars, mtxVars, Goto, Pc
<1> QED  BY <1>2, <1>3, <1>5, <1>6 DEF IInv, TurnstileInv

LEMMA ExitStep ==
  ASSUME IInv, NEW td \in Threads, Exit(td), UNCHANGED panicked
  PROVE  IInv'
<1>1. /\ curthread = td /\ Goto(td, "done", NULL)
      /\ UNCHANGED <<tsVars, mtxVars, setprios, panicked>>
  BY DEF Exit, At
<1>2. td_state[td] = "RUNNING" /\ td_blocked[td] = NULL
  BY <1>1, CurrentNotBlocked DEF IInv
<1>3. SchedTypeOK' /\ RunqConsistent' /\ SameBlocked
  BY <1>1, <1>2, SwitchStep DEF Exit, IInv, TypeOK
<1>4. BlockedLinks' /\ OwnTurnstiles' /\ FreeTurnstiles' /\ UsedTurnstiles'
  BY <1>1, <1>3, SchedulerStep DEF IInv, mtxVars
<1>5. ControlPoints'
  BY <1>1, <1>2 DEF IInv, TypeOK, TurnstileInv, ControlPoints, Goto, mtxVars, tsVars
<1>6. TypeOK'
  BY <1>1, <1>3 DEF IInv, TypeOK, TurnstileTypeOK, tsVars, mtxVars, Goto, Pc
<1> QED  BY <1>3, <1>4, <1>5, <1>6 DEF IInv, TurnstileInv

(***************************************************************************)
(* The steps of mtx_lock and mtx_unlock that leave the turnstiles alone.   *)
(***************************************************************************)

\* Nothing of the scheduler and of the turnstiles changes.
LEMMA SchedUnchanged ==
  ASSUME IInv, UNCHANGED <<schedVars, tsVars>>
  PROVE  /\ SchedTypeOK' /\ TurnstileTypeOK' /\ RunqConsistent'
         /\ BlockedLinks' /\ OwnTurnstiles' /\ FreeTurnstiles'
  BY DEF IInv, TypeOK, SchedTypeOK, TurnstileTypeOK, schedVars, tsVars,
         RunqConsistent, TurnstileInv, BlockedLinks, OwnTurnstiles, FreeTurnstiles

\* The compare and exchange in mtx_lock.
LEMMA TryAcquireStep ==
  ASSUME IInv, NEW td \in Threads, NEW m \in Mutexes, TryAcquire(td, m),
         curthread = td, m_owner[m] # td, td_pc[td] # "xchg",
         UNCHANGED panicked
  PROVE  IInv'
<1>1. UNCHANGED <<schedVars, tsVars, m_contested, m_count, setprios>>
  BY DEF TryAcquire
<1>2. /\ SchedTypeOK' /\ TurnstileTypeOK' /\ RunqConsistent'
      /\ BlockedLinks' /\ OwnTurnstiles' /\ FreeTurnstiles'
  BY <1>1, SchedUnchanged
<1>3. td_blocked[td] = NULL
  BY CurrentNotBlocked DEF IInv
<1>4. CASE m_owner[m] = NULL
  <2>1. m_owner' = [m_owner EXCEPT ![m] = td] /\ Goto(td, "run", NULL)
    BY <1>4 DEF TryAcquire
  <2>2. TypeOK'
    BY <1>1, <1>2, <2>1 DEF IInv, TypeOK, Goto, Pc
  <2>3. UsedTurnstiles'
    BY <1>1, <1>4, <2>1 DEF IInv, TypeOK, TurnstileInv, UsedTurnstiles, Contended,
                            InUse, tsVars
  <2>4. ControlPoints'
    BY <1>1, <1>3, <1>4, <2>1, SchedAssumption
       DEF IInv, TypeOK, TurnstileInv, ControlPoints, Goto, tsVars
  <2> QED  BY <1>2, <2>2, <2>3, <2>4 DEF IInv, TurnstileInv
<1>5. CASE m_owner[m] # NULL
  <2>1. UNCHANGED m_owner /\ Goto(td, "slow", m)
    BY <1>5 DEF TryAcquire
  <2>2. TypeOK'
    BY <1>1, <1>2, <2>1 DEF IInv, TypeOK, Goto, Pc
  <2>3. UsedTurnstiles'
    BY <1>1, <2>1 DEF IInv, TurnstileInv, UsedTurnstiles, Contended, InUse, tsVars
  <2>4. ControlPoints'
    BY <1>1, <1>3, <2>1 DEF IInv, TypeOK, TurnstileInv, ControlPoints, Goto, tsVars
  <2> QED  BY <1>2, <2>2, <2>3, <2>4 DEF IInv, TurnstileInv
<1> QED  BY <1>4, <1>5

LEMMA MtxLockStep ==
  ASSUME IInv, NEW td \in Threads, NEW m \in Mutexes, MtxLock(td, m),
         UNCHANGED panicked
  PROVE  IInv'
<1>1. curthread = td /\ td_pc[td] # "xchg" /\ TryAcquire(td, m)
  BY DEF MtxLock, At
<1>2. m_owner[m] # td
  BY MutexAssumption DEF MtxLock, Held
<1> QED  BY <1>1, <1>2, TryAcquireStep

LEMMA MtxRetryStep ==
  ASSUME IInv, NEW td \in Threads, MtxRetry(td), UNCHANGED panicked
  PROVE  IInv'
<1> DEFINE m == td_mtx[td]
<1>1. curthread = td /\ td_pc[td] = "cas" /\ TryAcquire(td, m)
  BY DEF MtxRetry, At
<1>2. m \in Mutexes /\ m_owner[m] # td
  BY <1>1 DEF IInv, TurnstileInv, ControlPoints
<1> HIDE DEF m
<1> QED  BY <1>1, <1>2, TryAcquireStep

\* Recursive locking and unlocking change m_count only.
LEMMA RecursiveStep ==
  ASSUME IInv, NEW td \in Threads, NEW m \in Mutexes,
         MtxLockRecursive(td, m) \/ MtxUnlockRecursive(td, m), UNCHANGED panicked
  PROVE  IInv'
<1>1. UNCHANGED <<schedVars, tsVars, m_owner, m_contested, td_pc, td_mtx, setprios>>
  BY DEF MtxLockRecursive, MtxUnlockRecursive, pcVars
<1>2. /\ SchedTypeOK' /\ TurnstileTypeOK' /\ RunqConsistent'
      /\ BlockedLinks' /\ OwnTurnstiles' /\ FreeTurnstiles'
  BY <1>1, SchedUnchanged
<1>3. m_count' \in [Mutexes -> Nat]
  BY DEF MtxLockRecursive, MtxUnlockRecursive, IInv, TypeOK
<1>4. TypeOK'
  BY <1>1, <1>2, <1>3 DEF IInv, TypeOK
<1>5. UsedTurnstiles'
  BY <1>1 DEF IInv, TurnstileInv, UsedTurnstiles, Contended, InUse, tsVars
<1>6. ControlPoints'
  <2>1. \A n \in Mutexes : n # m => m_count'[n] = m_count[n]
    BY DEF MtxLockRecursive, MtxUnlockRecursive, IInv, TypeOK
  <2>2. m_owner[m] = td /\ td_pc[td] = "run"
    BY DEF MtxLockRecursive, MtxUnlockRecursive, At
  <2> QED  BY <1>1, <2>1, <2>2 DEF IInv, TypeOK, TurnstileInv, ControlPoints, tsVars
<1> QED  BY <1>2, <1>4, <1>5, <1>6 DEF IInv, TurnstileInv

LEMMA MtxLockReleasedStep ==
  ASSUME IInv, NEW td \in Threads, MtxLockReleased(td), UNCHANGED panicked
  PROVE  IInv'
<1>1. /\ curthread = td /\ td_pc[td] = "slow" /\ Goto(td, "enable_cas", td_mtx[td])
      /\ UNCHANGED <<schedVars, tsVars, mtxVars, setprios>>
  BY DEF MtxLockReleased, At
<1>2. /\ SchedTypeOK' /\ TurnstileTypeOK' /\ RunqConsistent'
      /\ BlockedLinks' /\ OwnTurnstiles' /\ FreeTurnstiles'
  BY <1>1, SchedUnchanged
<1>3. td_blocked[td] = NULL
  BY <1>1, CurrentNotBlocked DEF IInv
<1>4. TypeOK'
  BY <1>1, <1>2 DEF IInv, TypeOK, mtxVars, Goto, Pc
<1>5. UsedTurnstiles'
  BY <1>1 DEF IInv, TurnstileInv, UsedTurnstiles, Contended, InUse, tsVars, mtxVars
<1>6. ControlPoints'
  BY <1>1, <1>3 DEF IInv, TypeOK, TurnstileInv, ControlPoints, Goto, tsVars, mtxVars
<1> QED  BY <1>2, <1>4, <1>5, <1>6 DEF IInv, TurnstileInv

\* The fast path of mtx_unlock.
LEMMA MtxUnlockStep ==
  ASSUME IInv, NEW td \in Threads, NEW m \in Mutexes, MtxUnlock(td, m),
         UNCHANGED panicked
  PROVE  IInv'
<1>1. /\ curthread = td /\ td_pc[td] = "run" /\ m_owner[m] = td /\ m_count[m] = 0
      /\ UNCHANGED <<schedVars, tsVars, m_contested, m_count, setprios>>
  BY DEF MtxUnlock, At
<1>2. /\ SchedTypeOK' /\ TurnstileTypeOK' /\ RunqConsistent'
      /\ BlockedLinks' /\ OwnTurnstiles' /\ FreeTurnstiles'
  BY <1>1, SchedUnchanged
<1>3. td_blocked[td] = NULL
  BY <1>1, CurrentNotBlocked DEF IInv
<1>4. CASE m \in m_contested
  <2>1. Goto(td, "xchg", m) /\ UNCHANGED m_owner
    BY <1>4 DEF MtxUnlock
  <2>2. TypeOK'
    BY <1>1, <1>2, <2>1 DEF IInv, TypeOK, Goto, Pc
  <2>3. UsedTurnstiles'
    BY <1>1, <2>1 DEF IInv, TurnstileInv, UsedTurnstiles, Contended, InUse, tsVars
  <2>4. ControlPoints'
    BY <1>1, <1>3, <1>4, <2>1
       DEF IInv, TypeOK, TurnstileInv, ControlPoints, Goto, tsVars
  <2> QED  BY <1>2, <2>2, <2>3, <2>4 DEF IInv, TurnstileInv
<1>5. CASE m \notin m_contested
  <2>1. m_owner' = [m_owner EXCEPT ![m] = NULL] /\ UNCHANGED <<td_pc, td_mtx>>
    BY <1>5 DEF MtxUnlock
  <2>2. TypeOK'
    BY <1>1, <1>2, <2>1 DEF IInv, TypeOK
  <2>3. UsedTurnstiles'
    BY <1>1, <1>5, <2>1
       DEF IInv, TypeOK, TurnstileInv, UsedTurnstiles, Contended, InUse, tsVars
  <2>4. ControlPoints'
    BY <1>1, <1>5, <2>1, SchedAssumption
       DEF IInv, TypeOK, TurnstileInv, ControlPoints, tsVars
  <2> QED  BY <1>2, <2>2, <2>3, <2>4 DEF IInv, TurnstileInv
<1> QED  BY <1>4, <1>5

(***************************************************************************)
(* Blocking in mtx_lock.                                                   *)
(***************************************************************************)

\* The facts about the thread that is about to block: it has a turnstile of its
\* own, which is clean and nowhere else.
LEMMA BeforeBlocking ==
  ASSUME IInv, NEW td \in Threads, curthread = td
  PROVE  /\ td_blocked[td] = NULL
         /\ td_turnstile[td] \in Turnstiles
         /\ ts_state[td_turnstile[td]] = "FREE_UNBLOCKED"
         /\ ts_blocked[td_turnstile[td]] = <<>>
         /\ ts_free[td_turnstile[td]] = <<>>
         /\ \A u \in Threads \ {td} : td_turnstile[u] # td_turnstile[td]
         /\ \A ts \in Turnstiles : td_turnstile[td] \notin Range(ts_free[ts])
         /\ \A ts \in Turnstiles : td \notin Range(ts_blocked[ts])
<1>1. td_blocked[td] = NULL /\ td_turnstile[td] # NULL
  BY CurrentNotBlocked DEF IInv
<1>2. td_turnstile[td] \in Turnstiles
  BY <1>1 DEF IInv, TypeOK, TurnstileTypeOK
<1>3. ts_state[td_turnstile[td]] = "FREE_UNBLOCKED"
  BY <1>1 DEF IInv, TurnstileInv, OwnTurnstiles
<1>4. ts_blocked[td_turnstile[td]] = <<>> /\ ts_free[td_turnstile[td]] = <<>>
  BY <1>2, <1>3 DEF IInv, TurnstileInv, UsedTurnstiles
<1>5. \A u \in Threads \ {td} : td_turnstile[u] # td_turnstile[td]
  BY <1>1 DEF IInv, TurnstileInv, OwnTurnstiles
<1>6. \A ts \in Turnstiles : td_turnstile[td] \notin Range(ts_free[ts])
  BY <1>3 DEF IInv, TurnstileInv, FreeTurnstiles
<1>7. \A ts \in Turnstiles : td \notin Range(ts_blocked[ts])
  BY <1>1, SchedAssumption DEF IInv, TurnstileInv, BlockedLinks, Turnstiles
<1> QED  BY <1>1, <1>2, <1>3, <1>4, <1>5, <1>6, <1>7

\* turnstile_wait of the first waiter.
LEMMA BlockFirstStep ==
  ASSUME IInv, NEW td \in Threads, UNCHANGED panicked, MtxLockBlock(td),
         turnstile_wait_first(td, td_mtx[td], m_owner[td_mtx[td]]),
         m_contested' = m_contested \cup {td_mtx[td]}
  PROVE  IInv'
<1> DEFINE m == td_mtx[td]
           owner == m_owner[m]
           ts == td_turnstile[td]
           blocked == [ts_blocked EXCEPT ![ts] = Append(@, td)]
<1>1. /\ curthread = td /\ td_pc[td] = "slow" /\ owner # NULL
      /\ Goto(td, "enable_cas", m)
      /\ UNCHANGED <<m_owner, m_count, setprios>>
  BY DEF MtxLockBlock, At
<1>2. m \in Mutexes /\ owner \in Threads /\ owner # td
  BY <1>1 DEF IInv, TypeOK, TurnstileInv, ControlPoints
<1>3. /\ td_blocked[td] = NULL /\ ts \in Turnstiles
      /\ ts_state[ts] = "FREE_UNBLOCKED"
      /\ ts_blocked[ts] = <<>> /\ ts_free[ts] = <<>>
      /\ \A u \in Threads \ {td} : td_turnstile[u] # ts
      /\ \A us \in Turnstiles : ts \notin Range(ts_free[us])
      /\ \A us \in Turnstiles : td \notin Range(ts_blocked[us])
  BY <1>1, BeforeBlocking
<1>4. /\ ~ Contended(m)
      /\ ts_wchan' = [ts_wchan EXCEPT ![ts] = m]
      /\ ts_owner' = [ts_owner EXCEPT ![ts] = owner]
      /\ ts_state' = [ts_state EXCEPT ![ts] = "USED_BLOCKED"]
      /\ switch_away(td, ts, owner, blocked)
      /\ UNCHANGED ts_free
  BY DEF turnstile_wait_first
<1>5. TurnstileTypeOK /\ SchedTypeOK /\ RunqConsistent /\ TurnstileInv
  BY DEF IInv, TypeOK
<1>6. /\ Append(<<>>, td) \in Seq(Threads) /\ Range(Append(<<>>, td)) = {td}
      /\ Len(Append(<<>>, td)) = 1 /\ Distinct(Append(<<>>, td))
  BY DEF Range, Distinct
<1>7. /\ blocked \in [Turnstiles -> Seq(Threads)]
      /\ \A us \in Turnstiles :
           /\ Distinct(blocked[us])
           /\ Range(blocked[us]) = IF us = ts THEN {td} ELSE Range(ts_blocked[us])
           /\ Len(blocked[us]) = IF us = ts THEN 1 ELSE Len(ts_blocked[us])
  <2>1. /\ ts_blocked \in [Turnstiles -> Seq(Threads)]
        /\ \A us \in Turnstiles : Distinct(ts_blocked[us])
    BY <1>5 DEF TurnstileTypeOK, TurnstileInv, BlockedLinks
  <2>2. PICK one \in Seq(Threads) :
          one = Append(<<>>, td) /\ Range(one) = {td} /\ Len(one) = 1 /\ Distinct(one)
    BY <1>6
  <2>3. blocked = [ts_blocked EXCEPT ![ts] = one]
    BY <1>3, <2>1, <2>2
  <2> HIDE DEF blocked
  <2>4. /\ blocked \in [Turnstiles -> Seq(Threads)]
        /\ \A us \in Turnstiles : blocked[us] = IF us = ts THEN one ELSE ts_blocked[us]
    BY <2>1, <2>3
  <2> QED  BY <2>1, <2>2, <2>4
<1>8. \A u \in Threads, us \in Turnstiles :
        td_blocked[u] = us => u \in Range(blocked[us])
  <2>1. Range(<<>>) = {}
    BY DEF Range
  <2> HIDE DEF blocked, ts
  <2> QED  BY <1>3, <1>5, <1>7, <2>1 DEF TurnstileInv, BlockedLinks
<1> HIDE DEF blocked, ts, m, owner
<1>9. /\ SchedTypeOK' /\ RunqConsistent'
      /\ SameQueues(blocked, ts_blocked')
      /\ td_turnstile' = [td_turnstile EXCEPT ![td] = NULL]
      /\ td_blocked' = [td_blocked EXCEPT ![td] = ts]
      /\ \A u \in Threads :
           td_state'[u] = "BLOCKED" <=> u = td \/ td_state[u] = "BLOCKED"
  BY <1>1, <1>3, <1>4, <1>5, <1>7, <1>8, SwitchAway
<1>10. /\ ts_blocked' \in [Turnstiles -> Seq(Threads)]
       /\ \A us \in Turnstiles :
            /\ Distinct(ts_blocked'[us])
            /\ Range(ts_blocked'[us]) = IF us = ts THEN {td} ELSE Range(ts_blocked[us])
            /\ Len(ts_blocked'[us]) = IF us = ts THEN 1 ELSE Len(ts_blocked[us])
  BY <1>7, <1>9 DEF SameQueues
<1>11. TurnstileTypeOK'
  BY <1>2, <1>3, <1>4, <1>5, <1>9, <1>10 DEF TurnstileTypeOK, TsState
<1>12. TypeOK'
  <2>1. m_contested' \in SUBSET Mutexes
    BY <1>2 DEF IInv, TypeOK, m
  <2> QED  BY <1>1, <1>2, <1>9, <1>11, <2>1 DEF IInv, TypeOK, Goto, Pc
<1>13. BlockedLinks'
  <2>1. \A u \in Threads : /\ td_state'[u] = "BLOCKED" <=> td_blocked'[u] # NULL
                           /\ td_turnstile'[u] = NULL <=> td_blocked'[u] # NULL
    BY <1>3, <1>5, <1>9, SchedAssumption
       DEF TurnstileTypeOK, TurnstileInv, BlockedLinks, Turnstiles
  <2>2. \A u \in Threads, us \in Turnstiles :
          td_blocked'[u] = us <=> u \in Range(ts_blocked'[us])
    <3>1. Range(<<>>) = {}
      BY DEF Range
    <3> QED  BY <1>3, <1>5, <1>9, <1>10, <3>1, SchedAssumption
                DEF TurnstileTypeOK, TurnstileInv, BlockedLinks, Turnstiles
  <2> QED  BY <1>10, <2>1, <2>2 DEF BlockedLinks
<1>14. OwnTurnstiles'
  BY <1>3, <1>4, <1>5, <1>9 DEF TurnstileTypeOK, TurnstileInv, OwnTurnstiles
<1>15. FreeTurnstiles'
  BY <1>3, <1>4, <1>5 DEF TurnstileTypeOK, TurnstileInv, FreeTurnstiles
<1>16. UsedTurnstiles'
  <2>1. m_contested' = m_contested \cup {m} /\ m_owner' = m_owner
    BY <1>1 DEF m
  <2>2. ASSUME NEW us \in Turnstiles
        PROVE  IF ts_state'[us] = "USED_BLOCKED"
               THEN /\ ts_wchan'[us] \in m_contested'
                    /\ ts_owner'[us] # NULL
                    /\ ts_owner'[us] = m_owner'[ts_wchan'[us]]
                    /\ Len(ts_blocked'[us]) = Len(ts_free'[us]) + 1
               ELSE /\ ts_wchan'[us] = NULL /\ ts_owner'[us] = NULL
                    /\ ts_blocked'[us] = <<>> /\ ts_free'[us] = <<>>
    <3>1. CASE us = ts
      <4>1. Len(ts_blocked'[us]) = 1 /\ Len(ts_free'[us]) = 0
        BY <1>3, <1>4, <1>10, <3>1
      <4> QED  BY <1>1, <1>3, <1>4, <1>5, <2>1, <3>1, <4>1
                  DEF TurnstileTypeOK, owner
    <3>2. CASE us # ts
      <4>1. /\ ts_state'[us] = ts_state[us] /\ ts_wchan'[us] = ts_wchan[us]
            /\ ts_owner'[us] = ts_owner[us] /\ ts_free'[us] = ts_free[us]
        BY <1>3, <1>4, <1>5, <3>2 DEF TurnstileTypeOK
      <4>2. Len(ts_blocked'[us]) = Len(ts_blocked[us])
        BY <1>10, <3>2
      <4>3. ts_blocked[us] = <<>> => ts_blocked'[us] = <<>>
        BY <1>10, <4>2, EmptySeq
      <4> QED  BY <1>5, <2>1, <4>1, <4>2, <4>3 DEF TurnstileInv, UsedTurnstiles
    <3> QED  BY <3>1, <3>2
  <2>3. \A n \in m_contested' : Contended(n)'
    BY <1>3, <1>4, <1>5, <2>1
       DEF TurnstileTypeOK, TurnstileInv, UsedTurnstiles, Contended, InUse
  <2>4. \A a, b \in Turnstiles :
          /\ ts_state'[a] = "USED_BLOCKED" /\ ts_state'[b] = "USED_BLOCKED"
          /\ ts_wchan'[a] = ts_wchan'[b]
          => a = b
    BY <1>3, <1>4, <1>5
       DEF TurnstileTypeOK, TurnstileInv, UsedTurnstiles, Contended, InUse
  <2> QED  BY <2>2, <2>3, <2>4 DEF UsedTurnstiles
<1>17. ControlPoints'
  <2>1. m_contested' = m_contested \cup {m} /\ m_owner' = m_owner
    BY <1>1 DEF m
  <2>2. \A u \in Threads : td_blocked[u] # ts
    <3>1. Range(<<>>) = {}
      BY DEF Range
    <3> QED  BY <1>3, <1>5, <3>1 DEF TurnstileInv, BlockedLinks
  <2> QED  BY <1>1, <1>2, <1>3, <1>4, <1>5, <1>9, <2>1, <2>2
              DEF IInv, TypeOK, TurnstileTypeOK, TurnstileInv, ControlPoints, Goto, owner
<1> QED  BY <1>9, <1>12, <1>13, <1>14, <1>15, <1>16, <1>17 DEF IInv, TurnstileInv

\* The queue of blocked threads gets one more.
LEMMA InsertBlockedQueue ==
  ASSUME NEW s \in Seq(Threads), Len(s) >= 1, Distinct(s), NEW td \in Threads,
         td \notin Range(s)
  PROVE  /\ InsertBlocked(s, td) \in Seq(Threads)
         /\ Len(InsertBlocked(s, td)) = Len(s) + 1
         /\ Range(InsertBlocked(s, td)) = Range(s) \cup {td}
         /\ Distinct(InsertBlocked(s, td))
<1> DEFINE k == RunAhead(s, Above(td_prio[td])) + 1
<1>1. 1 \in 1..Len(s) /\ Len(s) \in Nat
  BY LenProperties
<1>2. RunAhead(s, Above(td_prio[td])) \in 0..Len(s)
  BY <1>1, WalkBounds
<1>3. k \in 1..(Len(s) + 1)
  BY <1>1, <1>2
<1>4. InsertBlocked(s, td) = InsertAt(s, k, td)
  BY DEF InsertBlocked
<1> HIDE DEF k
<1> QED  BY <1>3, <1>4, InsertAtRange

\* turnstile_wait of a later waiter.
LEMMA BlockNextStep ==
  ASSUME IInv, NEW td \in Threads, UNCHANGED panicked, MtxLockBlock(td),
         turnstile_wait_next(td, td_mtx[td], m_owner[td_mtx[td]]),
         UNCHANGED m_contested
  PROVE  IInv'
<1> DEFINE m == td_mtx[td]
           owner == m_owner[m]
           nts == td_turnstile[td]
<1>1. /\ curthread = td /\ td_pc[td] = "slow" /\ owner # NULL
      /\ Goto(td, "enable_cas", m)
      /\ UNCHANGED <<m_owner, m_count, setprios>>
  BY DEF MtxLockBlock, At
<1>2. m \in Mutexes /\ owner # td
  BY <1>1 DEF IInv, TurnstileInv, ControlPoints
<1>3. /\ td_blocked[td] = NULL /\ nts \in Turnstiles
      /\ ts_state[nts] = "FREE_UNBLOCKED"
      /\ ts_blocked[nts] = <<>> /\ ts_free[nts] = <<>>
      /\ \A u \in Threads \ {td} : td_turnstile[u] # nts
      /\ \A us \in Turnstiles : nts \notin Range(ts_free[us])
      /\ \A us \in Turnstiles : td \notin Range(ts_blocked[us])
  BY <1>1, BeforeBlocking
<1>4. PICK ts \in Turnstiles :
        /\ InUse(ts, m)
        /\ ts_state' = [ts_state EXCEPT ![nts] = "FREE_BLOCKED"]
        /\ ts_free' = [ts_free EXCEPT ![ts] = <<nts>> \o @]
        /\ switch_away(td, ts, owner,
                       [ts_blocked EXCEPT ![ts] = InsertBlocked(@, td)])
        /\ UNCHANGED <<ts_wchan, ts_owner>>
  BY DEF turnstile_wait_next
<1> DEFINE blocked == [ts_blocked EXCEPT ![ts] = InsertBlocked(@, td)]
<1>5. TurnstileTypeOK /\ SchedTypeOK /\ RunqConsistent /\ TurnstileInv
  BY DEF IInv, TypeOK
<1>6. /\ ts_state[ts] = "USED_BLOCKED" /\ ts_wchan[ts] = m /\ ts # nts
      /\ Len(ts_blocked[ts]) = Len(ts_free[ts]) + 1
  BY <1>3, <1>4, <1>5 DEF InUse, TurnstileInv, UsedTurnstiles
<1>7. /\ InsertBlocked(ts_blocked[ts], td) \in Seq(Threads)
      /\ Len(InsertBlocked(ts_blocked[ts], td)) = Len(ts_blocked[ts]) + 1
      /\ Range(InsertBlocked(ts_blocked[ts], td)) = Range(ts_blocked[ts]) \cup {td}
      /\ Distinct(InsertBlocked(ts_blocked[ts], td))
  <2> DEFINE s == ts_blocked[ts]
  <2>1. s \in Seq(Threads) /\ Distinct(s) /\ td \notin Range(s)
    BY <1>3, <1>5 DEF TurnstileTypeOK, TurnstileInv, BlockedLinks
  <2>2. ts_free[ts] \in Seq(Turnstiles)
    BY <1>5 DEF TurnstileTypeOK
  <2>3. Len(s) >= 1
    BY <1>6, <2>2, LenProperties
  <2> HIDE DEF s
  <2>4. /\ InsertBlocked(s, td) \in Seq(Threads)
        /\ Len(InsertBlocked(s, td)) = Len(s) + 1
        /\ Range(InsertBlocked(s, td)) = Range(s) \cup {td}
        /\ Distinct(InsertBlocked(s, td))
    BY <2>1, <2>3, InsertBlockedQueue
  <2> QED  BY <2>4 DEF s
<1>8. /\ blocked \in [Turnstiles -> Seq(Threads)]
      /\ \A us \in Turnstiles :
           /\ Distinct(blocked[us])
           /\ Range(blocked[us]) = IF us = ts THEN Range(ts_blocked[us]) \cup {td}
                                   ELSE Range(ts_blocked[us])
           /\ Len(blocked[us]) = IF us = ts THEN Len(ts_blocked[us]) + 1
                                 ELSE Len(ts_blocked[us])
  <2>1. /\ ts_blocked \in [Turnstiles -> Seq(Threads)]
        /\ \A us \in Turnstiles : Distinct(ts_blocked[us])
    BY <1>5 DEF TurnstileTypeOK, TurnstileInv, BlockedLinks
  <2>2. PICK new \in Seq(Threads) :
          /\ new = InsertBlocked(ts_blocked[ts], td) /\ Distinct(new)
          /\ Len(new) = Len(ts_blocked[ts]) + 1 /\ Range(new) = Range(ts_blocked[ts]) \cup {td}
    BY <1>7
  <2>3. blocked = [ts_blocked EXCEPT ![ts] = new]
    BY <2>2
  <2> HIDE DEF blocked
  <2>4. /\ blocked \in [Turnstiles -> Seq(Threads)]
        /\ \A us \in Turnstiles : blocked[us] = IF us = ts THEN new ELSE ts_blocked[us]
    BY <2>1, <2>3
  <2> QED  BY <2>1, <2>2, <2>4
<1>9. /\ <<nts>> \o ts_free[ts] \in Seq(Turnstiles)
      /\ Len(<<nts>> \o ts_free[ts]) = Len(ts_free[ts]) + 1
      /\ Range(<<nts>> \o ts_free[ts]) = Range(ts_free[ts]) \cup {nts}
      /\ Distinct(<<nts>> \o ts_free[ts])
  <2> DEFINE a == <<nts>>
             b == ts_free[ts]
  <2>1. /\ a \in Seq(Turnstiles) /\ Range(a) = {nts} /\ Distinct(a) /\ Len(a) = 1
    BY <1>3 DEF Range, Distinct
  <2>2. b \in Seq(Turnstiles) /\ Distinct(b) /\ nts \notin Range(b) /\ Len(b) \in Nat
    BY <1>3, <1>5, LenProperties DEF TurnstileTypeOK, TurnstileInv, FreeTurnstiles
  <2> HIDE DEF a, b
  <2>3. /\ a \o b \in Seq(Turnstiles) /\ Len(a \o b) = Len(a) + Len(b)
        /\ Range(a \o b) = Range(a) \cup Range(b) /\ Distinct(a \o b)
    <3>1. Range(a) \cap Range(b) = {}
      BY <2>1, <2>2
    <3>2. /\ a \o b \in Seq(Turnstiles) /\ Len(a \o b) = Len(a) + Len(b)
          /\ Range(a \o b) = Range(a) \cup Range(b)
          /\ Distinct(a) /\ Distinct(b) /\ Range(a) \cap Range(b) = {}
               => Distinct(a \o b)
      <4>1. a \in Seq(Turnstiles) /\ b \in Seq(Turnstiles)
        BY <2>1, <2>2
      <4> QED  BY <4>1, ConcatRange
    <3> QED  BY <2>1, <2>2, <3>1, <3>2
  <2>4. Len(a \o b) = Len(b) + 1 /\ Range(a \o b) = Range(b) \cup {nts}
    BY <2>1, <2>2, <2>3
  <2> QED  BY <2>3, <2>4 DEF a, b
<1> HIDE DEF nts, m, owner
<1>10. /\ ts_free' \in [Turnstiles -> Seq(Turnstiles)]
       /\ \A us \in Turnstiles :
            /\ Distinct(ts_free'[us])
            /\ Range(ts_free'[us]) = IF us = ts THEN Range(ts_free[us]) \cup {nts}
                                     ELSE Range(ts_free[us])
            /\ us = ts => Len(ts_free'[us]) = Len(ts_free[us]) + 1
            /\ us # ts => ts_free'[us] = ts_free[us]
  BY <1>4, <1>5, <1>9 DEF TurnstileTypeOK, TurnstileInv, FreeTurnstiles
<1>11. \A u \in Threads, us \in Turnstiles :
         td_blocked[u] = us => u \in Range(blocked[us])
  <2> HIDE DEF blocked
  <2> QED  BY <1>5, <1>8 DEF TurnstileInv, BlockedLinks
<1>12. switch_away(td, ts, owner, blocked)
  BY <1>4
<1> HIDE DEF blocked
<1>13. /\ SchedTypeOK' /\ RunqConsistent'
       /\ SameQueues(blocked, ts_blocked')
       /\ td_turnstile' = [td_turnstile EXCEPT ![td] = NULL]
       /\ td_blocked' = [td_blocked EXCEPT ![td] = ts]
       /\ \A u \in Threads :
            td_state'[u] = "BLOCKED" <=> u = td \/ td_state[u] = "BLOCKED"
  BY <1>1, <1>5, <1>8, <1>11, <1>12, SwitchAway
<1>14. /\ ts_blocked' \in [Turnstiles -> Seq(Threads)]
       /\ \A us \in Turnstiles :
            /\ Distinct(ts_blocked'[us])
            /\ Range(ts_blocked'[us]) = IF us = ts THEN Range(ts_blocked[us]) \cup {td}
                                        ELSE Range(ts_blocked[us])
            /\ Len(ts_blocked'[us]) = IF us = ts THEN Len(ts_blocked[us]) + 1
                                      ELSE Len(ts_blocked[us])
  BY <1>8, <1>13 DEF SameQueues
<1>15. TurnstileTypeOK'
  BY <1>3, <1>4, <1>5, <1>10, <1>13, <1>14 DEF TurnstileTypeOK, TsState
<1>16. TypeOK'
  BY <1>1, <1>2, <1>13, <1>15 DEF IInv, TypeOK, Goto, Pc
<1>17. BlockedLinks'
  <2>1. \A u \in Threads : /\ td_state'[u] = "BLOCKED" <=> td_blocked'[u] # NULL
                           /\ td_turnstile'[u] = NULL <=> td_blocked'[u] # NULL
    BY <1>3, <1>5, <1>13, SchedAssumption
       DEF TurnstileTypeOK, TurnstileInv, BlockedLinks, Turnstiles
  <2>2. ASSUME NEW u \in Threads, NEW us \in Turnstiles
        PROVE  td_blocked'[u] = us <=> u \in Range(ts_blocked'[us])
    <3>1. td_blocked'[u] = IF u = td THEN ts ELSE td_blocked[u]
      BY <1>5, <1>13 DEF TurnstileTypeOK
    <3>2. td_blocked[u] = us <=> u \in Range(ts_blocked[us])
      BY <1>5 DEF TurnstileInv, BlockedLinks
    <3>3. CASE us = ts
      <4>1. Range(ts_blocked'[us]) = Range(ts_blocked[us]) \cup {td}
        BY <1>14, <3>3
      <4> QED  BY <3>1, <3>2, <3>3, <4>1
    <3>4. CASE us # ts
      <4>1. Range(ts_blocked'[us]) = Range(ts_blocked[us])
        BY <1>14, <3>4
      <4> QED  BY <1>3, <3>1, <3>2, <3>4, <4>1
    <3> QED  BY <3>3, <3>4
  <2> QED  BY <1>14, <2>1, <2>2 DEF BlockedLinks
<1>18. OwnTurnstiles'
  BY <1>3, <1>4, <1>5, <1>13 DEF TurnstileTypeOK, TurnstileInv, OwnTurnstiles
<1>19. FreeTurnstiles'
  <2>1. \A us \in Turnstiles : \A u \in Range(ts_free'[us]) :
          ts_state'[u] = "FREE_BLOCKED"
    <3>1. \A u \in Turnstiles :
            ts_state'[u] = IF u = nts THEN "FREE_BLOCKED" ELSE ts_state[u]
      BY <1>4, <1>5 DEF TurnstileTypeOK
    <3>2. \A us \in Turnstiles : Range(ts_free[us]) \subseteq Turnstiles
      BY <1>5, ElementOfSeq, LenProperties DEF TurnstileTypeOK, Range
    <3>3. \A us \in Turnstiles : \A u \in Range(ts_free'[us]) :
            u = nts \/ u \in Range(ts_free[us])
      BY <1>10
    <3>4. \A us \in Turnstiles : \A u \in Range(ts_free[us]) :
            ts_state[u] = "FREE_BLOCKED"
      BY <1>5 DEF TurnstileInv, FreeTurnstiles
    <3> QED  BY <1>3, <3>1, <3>2, <3>3, <3>4
  <2>2. \A a, b \in Turnstiles : Range(ts_free'[a]) \cap Range(ts_free'[b]) # {} => a = b
    BY <1>3, <1>5, <1>10 DEF TurnstileInv, FreeTurnstiles
  <2> QED  BY <1>10, <2>1, <2>2 DEF FreeTurnstiles
<1>20. \A us \in Turnstiles :
         ts_state'[us] = "USED_BLOCKED" <=> ts_state[us] = "USED_BLOCKED"
  BY <1>3, <1>4, <1>5 DEF TurnstileTypeOK
<1>21. UsedTurnstiles'
  <2>1. ASSUME NEW us \in Turnstiles
        PROVE  IF ts_state'[us] = "USED_BLOCKED"
               THEN /\ ts_wchan'[us] \in m_contested'
                    /\ ts_owner'[us] # NULL
                    /\ ts_owner'[us] = m_owner'[ts_wchan'[us]]
                    /\ Len(ts_blocked'[us]) = Len(ts_free'[us]) + 1
               ELSE /\ ts_wchan'[us] = NULL /\ ts_owner'[us] = NULL
                    /\ ts_blocked'[us] = <<>> /\ ts_free'[us] = <<>>
    <3>1. CASE us = ts
      <4>1. Len(ts_blocked'[us]) = Len(ts_free'[us]) + 1
        BY <1>6, <1>10, <1>14, <3>1
      <4> QED  BY <1>1, <1>4, <1>5, <1>6, <1>20, <3>1, <4>1
                  DEF TurnstileInv, UsedTurnstiles
    <3>2. CASE us # ts
      <4>1. Len(ts_blocked'[us]) = Len(ts_blocked[us]) /\ ts_free'[us] = ts_free[us]
        BY <1>10, <1>14, <3>2
      <4>2. ts_blocked[us] = <<>> => ts_blocked'[us] = <<>>
        BY <1>14, <4>1, EmptySeq
      <4> QED  BY <1>1, <1>4, <1>5, <1>20, <4>1, <4>2 DEF TurnstileInv, UsedTurnstiles
    <3> QED  BY <3>1, <3>2
  <2>2. \A n \in m_contested' : Contended(n)'
    BY <1>4, <1>5, <1>20 DEF TurnstileInv, UsedTurnstiles, Contended, InUse
  <2>3. \A a, b \in Turnstiles :
          /\ ts_state'[a] = "USED_BLOCKED" /\ ts_state'[b] = "USED_BLOCKED"
          /\ ts_wchan'[a] = ts_wchan'[b]
          => a = b
    BY <1>4, <1>5, <1>20 DEF TurnstileInv, UsedTurnstiles
  <2> QED  BY <2>1, <2>2, <2>3 DEF UsedTurnstiles
<1>22. ControlPoints'
  BY <1>1, <1>2, <1>4, <1>5, <1>6, <1>13
     DEF IInv, TypeOK, TurnstileTypeOK, TurnstileInv, ControlPoints, Goto, owner
<1> QED  BY <1>13, <1>16, <1>17, <1>18, <1>19, <1>21, <1>22 DEF IInv, TurnstileInv

(***************************************************************************)
(* turnstile_broadcast in mtx_unlock.                                      *)
(***************************************************************************)

\* give_back_turnstiles: every thread of the queue gets a turnstile of its own,
\* from ts_free or the queue itself, and nothing is left over.
LEMMA GiveBack ==
  ASSUME TurnstileTypeOK, TurnstileInv, NEW ts \in Turnstiles,
         ts_state[ts] = "USED_BLOCKED", give_back_turnstiles(ts)
  PROVE  /\ td_turnstile' \in [Threads -> Turnstiles \cup {NULL}]
         /\ \A u \in Threads : u \notin Range(ts_blocked[ts]) =>
              td_turnstile'[u] = td_turnstile[u]
         /\ \A u \in Range(ts_blocked[ts]) :
              td_turnstile'[u] \in Range(ts_free[ts]) \cup {ts}
         /\ \A u, v \in Range(ts_blocked[ts]) :
              td_turnstile'[u] = td_turnstile'[v] => u = v
         /\ ts_state' = [u \in Turnstiles |->
                           IF u \in Range(ts_free[ts]) \cup {ts}
                           THEN "FREE_UNBLOCKED" ELSE ts_state[u]]
         /\ ts_wchan' = [ts_wchan EXCEPT ![ts] = NULL]
         /\ ts_free' = [ts_free EXCEPT ![ts] = <<>>]
<1> DEFINE b == ts_blocked[ts]
           f == ts_free[ts]
           n == Len(f)
           G(i) == GivenBack(ts, i)
           given == {G(i) : i \in DOMAIN b}
<1>1. /\ b \in Seq(Threads) /\ Distinct(b) /\ f \in Seq(Turnstiles) /\ Distinct(f)
      /\ Len(b) = n + 1
  BY DEF TurnstileTypeOK, TurnstileInv, BlockedLinks, FreeTurnstiles, UsedTurnstiles
<1>2. ts \notin Range(f)
  BY DEF TurnstileInv, FreeTurnstiles
<1>3. /\ td_turnstile' = [u \in Threads |-> IF u \in Range(b) THEN G(IndexOf(b, u))
                                            ELSE td_turnstile[u]]
      /\ ts_state' = [u \in Turnstiles |->
                        IF u \in given THEN "FREE_UNBLOCKED" ELSE ts_state[u]]
      /\ ts_wchan' = [u \in Turnstiles |->
                        IF u = ts /\ ts \in given THEN NULL ELSE ts_wchan[u]]
      /\ ts_free' = [ts_free EXCEPT ![ts] = SubSeq(@, Len(b) + 1, Len(@))]
  BY DEF give_back_turnstiles
<1>4. \A i \in 1..(n + 1) : G(i) = IF i <= n THEN f[i] ELSE ts
  BY DEF GivenBack
<1> HIDE DEF b, f, G
<1>5. n \in Nat /\ DOMAIN f = 1..n /\ DOMAIN b = 1..(n + 1)
  BY <1>1, LenProperties
<1> HIDE DEF n
<1>6. \A i \in 1..n : f[i] \in Turnstiles /\ f[i] \in Range(f)
  BY <1>1, <1>5, ElementOfSeq DEF Range, n
<1>7. given = Range(f) \cup {ts}
  <2>1. given = {G(i) : i \in 1..(n + 1)}
    BY <1>5
  <2>2. \A x \in given : x \in Range(f) \cup {ts}
    BY <1>4, <1>5, <1>6, <2>1
  <2>3. ts \in given
    <3>1. n + 1 \in 1..(n + 1) /\ G(n + 1) = ts
      BY <1>4, <1>5
    <3> QED  BY <2>1, <3>1
  <2>4. \A i \in 1..n : f[i] \in given
    <3> SUFFICES ASSUME NEW i \in 1..n PROVE f[i] \in given
      OBVIOUS
    <3>1. i \in 1..(n + 1) /\ G(i) = f[i]
      BY <1>4, <1>5
    <3> QED  BY <2>1, <3>1
  <2>5. Range(f) \subseteq given
    BY <1>5, <2>4 DEF Range
  <2> QED  BY <2>2, <2>3, <2>5
<1>8. \A i, j \in 1..(n + 1) : G(i) = G(j) => i = j
  <2> SUFFICES ASSUME NEW i \in 1..(n + 1), NEW j \in 1..(n + 1), G(i) = G(j)
               PROVE  i = j
    OBVIOUS
  <2>1. CASE i <= n /\ j <= n
    <3>1. i \in DOMAIN f /\ j \in DOMAIN f /\ f[i] = f[j]
      BY <1>4, <1>5, <2>1
    <3> QED  BY <1>1, <3>1 DEF Distinct
  <2>2. ASSUME NEW k \in 1..(n + 1), k <= n PROVE G(k) # ts
    BY <1>2, <1>4, <1>5, <1>6, <2>2
  <2>3. G(n + 1) = ts
    BY <1>4, <1>5
  <2> QED  BY <1>5, <2>1, <2>2, <2>3
<1>9. ASSUME NEW u \in Range(b)
      PROVE  IndexOf(b, u) \in 1..(n + 1) /\ b[IndexOf(b, u)] = u
  BY <1>1, IndexOfProperty
<1>10. \A u \in Range(b) : u \in Threads /\ td_turnstile'[u] = G(IndexOf(b, u))
  <2>1. \A u \in Range(b) : u \in Threads
    BY <1>1, ElementOfSeq, LenProperties DEF Range
  <2> QED  BY <1>3, <2>1
<1>11. \A u \in Range(b) : td_turnstile'[u] \in Range(f) \cup {ts}
  BY <1>4, <1>5, <1>6, <1>9, <1>10
<1>12. \A u, v \in Range(b) : td_turnstile'[u] = td_turnstile'[v] => u = v
  BY <1>8, <1>9, <1>10
<1>13. td_turnstile' \in [Threads -> Turnstiles \cup {NULL}]
  <2>1. Range(f) \subseteq Turnstiles
    BY <1>5, <1>6 DEF Range
  <2>2. \A u \in Threads : td_turnstile'[u] \in Turnstiles \cup {NULL}
    <3> SUFFICES ASSUME NEW u \in Threads
                 PROVE  td_turnstile'[u] \in Turnstiles \cup {NULL}
      OBVIOUS
    <3>1. CASE u \in Range(b)
      BY <1>11, <2>1, <3>1
    <3>2. CASE u \notin Range(b)
      BY <1>3, <3>2 DEF TurnstileTypeOK
    <3> QED  BY <3>1, <3>2
  <2> QED  BY <1>3, <2>2
<1>14. ts_wchan' = [ts_wchan EXCEPT ![ts] = NULL]
  <2>1. ts \in given
    BY <1>7
  <2> HIDE DEF given
  <2> QED  BY <1>3, <2>1 DEF TurnstileTypeOK
<1>15. ts_free' = [ts_free EXCEPT ![ts] = <<>>]
  <2>1. SubSeq(f, Len(b) + 1, Len(f)) = <<>>
    <3>1. Len(b) + 1 \in Int /\ Len(f) \in Int /\ Len(b) + 1 > Len(f)
      BY <1>1, <1>5 DEF n
    <3>2. \A i \in (Len(b) + 1)..Len(f) : f[i] \in Turnstiles
      BY <3>1
    <3>3. /\ SubSeq(f, Len(b) + 1, Len(f)) \in Seq(Turnstiles)
          /\ Len(SubSeq(f, Len(b) + 1, Len(f))) =
               IF Len(b) + 1 <= Len(f) THEN Len(f) - (Len(b) + 1) + 1 ELSE 0
      BY <3>1, <3>2, SubSeqProperties
    <3>4. Len(SubSeq(f, Len(b) + 1, Len(f))) = 0
      BY <3>1, <3>3
    <3> HIDE DEF b
    <3> QED  BY <3>3, <3>4, EmptySeq
  <2> QED  BY <1>3, <2>1 DEF f
<1>16. \A u \in Threads : u \notin Range(b) => td_turnstile'[u] = td_turnstile[u]
  BY <1>3
<1>17. ts_state' = [u \in Turnstiles |-> IF u \in Range(f) \cup {ts}
                                         THEN "FREE_UNBLOCKED" ELSE ts_state[u]]
  BY <1>3, <1>7
<1> QED  BY <1>11, <1>12, <1>13, <1>14, <1>15, <1>16, <1>17 DEF b, f

\* turnstile_broadcast and the release of the mutex.
LEMMA BroadcastStep ==
  ASSUME IInv, NEW td \in Threads, MtxUnlockBroadcast(td), UNCHANGED panicked
  PROVE  IInv'
<1> DEFINE m == td_mtx[td]
<1>1. /\ curthread = td /\ td_pc[td] = "xchg"
      /\ m_owner' = [m_owner EXCEPT ![m] = NULL]
      /\ m_contested' = m_contested \ {m}
      /\ turnstile_broadcast(td, m)
      /\ Goto(td, "enable_run", NULL)
      /\ UNCHANGED <<m_count, setprios>>
  BY DEF MtxUnlockBroadcast, At
<1>2. m \in m_contested /\ m \in Mutexes /\ m_owner[m] = td
  BY <1>1 DEF IInv, TypeOK, TurnstileInv, ControlPoints
<1>3. PICK ts \in Turnstiles, prio \in Prio :
        /\ InUse(ts, m)
        /\ give_back_turnstiles(ts)
        /\ ts_owner' = [ts_owner EXCEPT ![ts] = NULL]
        /\ td_prio' = [td_prio EXCEPT ![td] = UnlentPrio(td, prio)]
        /\ td_borrowing' = UnlentBorrowing(td, prio)
        /\ td_blocked' = [u \in Threads |-> IF u \in Range(ts_blocked[ts])
                                            THEN NULL ELSE td_blocked[u]]
        /\ ts_blocked' = [ts_blocked EXCEPT ![ts] = <<>>]
        /\ sched_wakeup(ts_blocked[ts], td_prio')
        /\ UNCHANGED <<curthread, td_base_prio>>
  BY <1>1 DEF turnstile_broadcast
<1> HIDE DEF m
<1> DEFINE b == ts_blocked[ts]
           f == ts_free[ts]
<1>4. TurnstileTypeOK /\ SchedTypeOK /\ RunqConsistent /\ TurnstileInv
  BY DEF IInv, TypeOK
<1>5. ts_state[ts] = "USED_BLOCKED" /\ ts_wchan[ts] = m
  BY <1>3 DEF InUse
<1>6. /\ td_turnstile' \in [Threads -> Turnstiles \cup {NULL}]
      /\ \A u \in Threads : u \notin Range(b) => td_turnstile'[u] = td_turnstile[u]
      /\ \A u \in Range(b) : td_turnstile'[u] \in Range(f) \cup {ts}
      /\ \A u, v \in Range(b) : td_turnstile'[u] = td_turnstile'[v] => u = v
      /\ ts_state' = [u \in Turnstiles |-> IF u \in Range(f) \cup {ts}
                                           THEN "FREE_UNBLOCKED" ELSE ts_state[u]]
      /\ ts_wchan' = [ts_wchan EXCEPT ![ts] = NULL]
      /\ ts_free' = [ts_free EXCEPT ![ts] = <<>>]
  BY <1>3, <1>4, <1>5, GiveBack
<1>7. /\ b \in Seq(Threads) /\ Distinct(b) /\ Range(b) \subseteq Threads
      /\ \A u \in Range(b) : td_blocked[u] = ts /\ td_state[u] = "BLOCKED"
  <2>1. b \in Seq(Threads) /\ Distinct(b)
    BY <1>4 DEF TurnstileTypeOK, TurnstileInv, BlockedLinks
  <2>2. Range(b) \subseteq Threads
    BY <2>1, ElementOfSeq, LenProperties DEF Range
  <2> QED  BY <1>4, <2>1, <2>2, SchedAssumption DEF TurnstileInv, BlockedLinks, Turnstiles
<1>8. /\ f \in Seq(Turnstiles) /\ Range(f) \subseteq Turnstiles
      /\ \A u \in Range(f) : ts_state[u] = "FREE_BLOCKED"
  <2>1. f \in Seq(Turnstiles)
    BY <1>4 DEF TurnstileTypeOK
  <2>2. Range(f) \subseteq Turnstiles
    BY <2>1, ElementOfSeq, LenProperties DEF Range
  <2> QED  BY <1>4, <2>1, <2>2 DEF TurnstileInv, FreeTurnstiles
<1>9. <<>> \in Seq(Threads) /\ <<>> \in Seq(Turnstiles) /\ Range(<<>>) = {} /\ Distinct(<<>>)
  BY DEF Range, Distinct
<1>10. \A u \in Threads : td_blocked[u] = ts <=> u \in Range(b)
  BY <1>4 DEF TurnstileInv, BlockedLinks
<1>11. td_state[td] = "RUNNING" /\ td_blocked[td] = NULL
  BY <1>1, <1>4, CurrentNotBlocked
<1>12. /\ SchedTypeOK' /\ RunqConsistent'
       /\ \A u \in Threads : td_state'[u] = "BLOCKED" <=>
                               u \notin Range(b) /\ td_state[u] = "BLOCKED"
  <2> DEFINE pr == [td_prio EXCEPT ![td] = UnlentPrio(td, prio)]
  <2>1. pr \in [Threads -> Prio] /\ \A u \in Threads : u # td => pr[u] = td_prio[u]
    BY <1>4 DEF SchedTypeOK, UnlentPrio
  <2>2. RunqOf(runq, td_prio, Ready) /\ OneRunning
    BY <1>4, RunqConsistentForm
  <2>3. td_prio' = pr /\ sched_wakeup(b, pr) /\ curthread' = curthread
    BY <1>3
  <2> HIDE DEF pr, b
  <2>4. td \notin Ready
    BY <1>11 DEF Ready
  <2>5. RunqOf(runq, pr, Ready)
    BY <2>1, <2>2, <2>4 DEF RunqOf
  <2>6. \A u \in Range(b) : td_state[u] \notin {"READY", "RUNNING"}
    BY <1>7
  <2>7. /\ td_state' \in [Threads -> TdState]
        /\ td_needswitch' \in SUBSET Threads
        /\ OneRunning'
        /\ RunqOf(runq', pr, Ready')
        /\ \A u \in Threads : td_state'[u] = "BLOCKED" <=>
                                u \notin Range(b) /\ td_state[u] = "BLOCKED"
    <3>1. b \in Seq(Threads) /\ Distinct(b)
      BY <1>7
    <3> QED  BY <1>4, <2>1, <2>2, <2>3, <2>5, <2>6, <3>1, SchedAssumption,
                WakeupKeepsRunq DEF SchedTypeOK
  <2>8. td_borrowing' \in SUBSET Threads
    BY <1>3, <1>4 DEF UnlentBorrowing, SchedTypeOK
  <2>9. SchedTypeOK'
    BY <1>3, <1>4, <2>1, <2>3, <2>7, <2>8 DEF SchedTypeOK, RunqOf
  <2>10. RunqOf(runq', td_prio', Ready')
    BY <2>3, <2>7
  <2>11. RunqConsistent'
    BY <2>7, <2>9, <2>10, RunqConsistentFormNext
  <2> QED  BY <2>7, <2>9, <2>11
<1> HIDE DEF b, f
<1>13. TurnstileTypeOK'
  BY <1>3, <1>4, <1>6, <1>9 DEF TurnstileTypeOK, TsState
<1>14. TypeOK'
  BY <1>1, <1>2, <1>12, <1>13 DEF IInv, TypeOK, Goto, Pc
<1>15. \A us \in Turnstiles :
         /\ ts_state'[us] = "USED_BLOCKED" <=> us # ts /\ ts_state[us] = "USED_BLOCKED"
         /\ us # ts => /\ ts_wchan'[us] = ts_wchan[us] /\ ts_owner'[us] = ts_owner[us]
                       /\ ts_blocked'[us] = ts_blocked[us] /\ ts_free'[us] = ts_free[us]
  BY <1>3, <1>4, <1>6, <1>8 DEF TurnstileTypeOK
<1>16. /\ ts_wchan'[ts] = NULL /\ ts_owner'[ts] = NULL
       /\ ts_blocked'[ts] = <<>> /\ ts_free'[ts] = <<>>
  BY <1>3, <1>4, <1>6 DEF TurnstileTypeOK
<1>17. BlockedLinks'
  <2>1. \A u \in Threads : /\ td_state'[u] = "BLOCKED" <=> td_blocked'[u] # NULL
                           /\ td_turnstile'[u] = NULL <=> td_blocked'[u] # NULL
    <3> SUFFICES ASSUME NEW u \in Threads
                 PROVE  /\ td_state'[u] = "BLOCKED" <=> td_blocked'[u] # NULL
                        /\ td_turnstile'[u] = NULL <=> td_blocked'[u] # NULL
      OBVIOUS
    <3>1. CASE u \in Range(b)
      <4>1. td_turnstile'[u] \in Turnstiles
        BY <1>6, <1>8, <3>1
      <4> QED  BY <1>3, <1>12, <3>1, <4>1, SchedAssumption DEF Turnstiles, b
    <3>2. CASE u \notin Range(b)
      BY <1>3, <1>4, <1>6, <1>12, <3>2 DEF TurnstileInv, BlockedLinks, b
    <3> QED  BY <3>1, <3>2
  <2>2. ASSUME NEW u \in Threads, NEW us \in Turnstiles
        PROVE  td_blocked'[u] = us <=> u \in Range(ts_blocked'[us])
    <3>1. td_blocked'[u] = IF u \in Range(b) THEN NULL ELSE td_blocked[u]
      BY <1>3 DEF b
    <3>2. td_blocked[u] = us <=> u \in Range(ts_blocked[us])
      BY <1>4 DEF TurnstileInv, BlockedLinks
    <3>3. us # NULL
      BY SchedAssumption DEF Turnstiles
    <3>4. CASE us = ts
      BY <1>9, <1>10, <1>16, <3>1, <3>3, <3>4
    <3>5. CASE us # ts
      BY <1>7, <1>15, <3>1, <3>2, <3>3, <3>5
    <3> QED  BY <3>4, <3>5
  <2>3. \A us \in Turnstiles : Distinct(ts_blocked'[us])
    BY <1>4, <1>9, <1>15, <1>16 DEF TurnstileInv, BlockedLinks
  <2> QED  BY <2>1, <2>2, <2>3 DEF BlockedLinks
<1>18. OwnTurnstiles'
  <2>1. \A u \in Threads : u \notin Range(b) /\ td_turnstile[u] # NULL =>
          /\ td_turnstile'[u] = td_turnstile[u]
          /\ ts_state[td_turnstile[u]] = "FREE_UNBLOCKED"
          /\ td_turnstile[u] \notin Range(f) \cup {ts}
    BY <1>4, <1>5, <1>6, <1>8 DEF TurnstileInv, OwnTurnstiles
  <2>2. \A u, v \in Threads :
          td_turnstile'[u] # NULL /\ td_turnstile'[u] = td_turnstile'[v] => u = v
    <3> SUFFICES ASSUME NEW u \in Threads, NEW v \in Threads,
                        td_turnstile'[u] # NULL, td_turnstile'[u] = td_turnstile'[v]
                 PROVE  u = v
      OBVIOUS
    <3>1. CASE u \in Range(b) /\ v \in Range(b)
      BY <1>6, <3>1
    <3>2. CASE u \notin Range(b) /\ v \notin Range(b)
      BY <1>4, <1>6, <3>2 DEF TurnstileInv, OwnTurnstiles
    <3>3. CASE u \in Range(b) /\ v \notin Range(b)
      BY <1>6, <2>1, <3>3
    <3>4. CASE u \notin Range(b) /\ v \in Range(b)
      BY <1>6, <2>1, <3>4
    <3> QED  BY <3>1, <3>2, <3>3, <3>4
  <2>3. \A u \in Threads :
          td_turnstile'[u] # NULL => ts_state'[td_turnstile'[u]] = "FREE_UNBLOCKED"
    <3> SUFFICES ASSUME NEW u \in Threads, td_turnstile'[u] # NULL
                 PROVE  ts_state'[td_turnstile'[u]] = "FREE_UNBLOCKED"
      OBVIOUS
    <3>1. td_turnstile'[u] \in Turnstiles
      BY <1>6
    <3>2. CASE u \in Range(b)
      BY <1>6, <3>1, <3>2
    <3>3. CASE u \notin Range(b)
      BY <1>6, <2>1, <3>1, <3>3
    <3> QED  BY <3>2, <3>3
  <2> QED  BY <2>2, <2>3 DEF OwnTurnstiles
<1>19. FreeTurnstiles'
  <2>1. \A us \in Turnstiles : Range(ts_free'[us]) = IF us = ts THEN {}
                                                     ELSE Range(ts_free[us])
    BY <1>9, <1>15, <1>16
  <2>2. \A us \in Turnstiles : Distinct(ts_free'[us])
    BY <1>4, <1>9, <1>15, <1>16 DEF TurnstileInv, FreeTurnstiles
  <2>3. ASSUME NEW us \in Turnstiles, NEW u \in Range(ts_free'[us])
        PROVE  ts_state'[u] = "FREE_BLOCKED"
    <3>1. us # ts /\ u \in Range(ts_free[us])
      BY <2>1, <2>3
    <3>2. ts_free[us] \in Seq(Turnstiles)
      BY <1>4 DEF TurnstileTypeOK
    <3>3. u \in Turnstiles
      BY <3>1, <3>2, ElementOfSeq, LenProperties DEF Range
    <3>4. ts_state[u] = "FREE_BLOCKED"
      BY <1>4, <3>1 DEF TurnstileInv, FreeTurnstiles
    <3>5. u \notin Range(f)
      BY <1>4, <3>1 DEF TurnstileInv, FreeTurnstiles, f
    <3> QED  BY <1>5, <1>6, <3>3, <3>4, <3>5
  <2>4. \A a, c \in Turnstiles : Range(ts_free'[a]) \cap Range(ts_free'[c]) # {} => a = c
    BY <1>4, <2>1 DEF TurnstileInv, FreeTurnstiles
  <2> QED  BY <2>2, <2>3, <2>4 DEF FreeTurnstiles
<1>20. \A us \in Turnstiles \ {ts} : ts_state[us] = "USED_BLOCKED" => ts_wchan[us] # m
  BY <1>4, <1>5 DEF TurnstileInv, UsedTurnstiles
<1>21. UsedTurnstiles'
  <2>1. ASSUME NEW us \in Turnstiles
        PROVE  IF ts_state'[us] = "USED_BLOCKED"
               THEN /\ ts_wchan'[us] \in m_contested'
                    /\ ts_owner'[us] # NULL
                    /\ ts_owner'[us] = m_owner'[ts_wchan'[us]]
                    /\ Len(ts_blocked'[us]) = Len(ts_free'[us]) + 1
               ELSE /\ ts_wchan'[us] = NULL /\ ts_owner'[us] = NULL
                    /\ ts_blocked'[us] = <<>> /\ ts_free'[us] = <<>>
    <3>1. CASE us = ts
      BY <1>15, <1>16, <3>1
    <3>2. CASE us # ts
      <4>1. \A n \in Mutexes : n # m => m_owner'[n] = m_owner[n]
        BY <1>1 DEF IInv, TypeOK
      <4>2. m_contested \subseteq Mutexes /\ m_contested' = m_contested \ {m}
        BY <1>1 DEF IInv, TypeOK
      <4>3. IF ts_state[us] = "USED_BLOCKED"
            THEN /\ ts_wchan[us] \in m_contested
                 /\ ts_owner[us] # NULL
                 /\ ts_owner[us] = m_owner[ts_wchan[us]]
                 /\ Len(ts_blocked[us]) = Len(ts_free[us]) + 1
            ELSE /\ ts_wchan[us] = NULL /\ ts_owner[us] = NULL
                 /\ ts_blocked[us] = <<>> /\ ts_free[us] = <<>>
        BY <1>4 DEF TurnstileInv, UsedTurnstiles
      <4>4. /\ ts_state'[us] = "USED_BLOCKED" <=> ts_state[us] = "USED_BLOCKED"
            /\ ts_wchan'[us] = ts_wchan[us] /\ ts_owner'[us] = ts_owner[us]
            /\ ts_blocked'[us] = ts_blocked[us] /\ ts_free'[us] = ts_free[us]
        BY <1>15, <3>2
      <4> QED  BY <1>20, <3>2, <4>1, <4>2, <4>3, <4>4
    <3> QED  BY <3>1, <3>2
  <2>2. \A n \in m_contested' : Contended(n)'
    BY <1>1, <1>4, <1>5, <1>15 DEF TurnstileInv, UsedTurnstiles, Contended, InUse
  <2>3. \A a, c \in Turnstiles :
          /\ ts_state'[a] = "USED_BLOCKED" /\ ts_state'[c] = "USED_BLOCKED"
          /\ ts_wchan'[a] = ts_wchan'[c]
          => a = c
    BY <1>4, <1>15 DEF TurnstileInv, UsedTurnstiles
  <2> QED  BY <2>1, <2>2, <2>3 DEF UsedTurnstiles
<1>22. ControlPoints'
  <2> SUFFICES ASSUME NEW u \in Threads
               PROVE  /\ td_blocked'[u] # NULL =>
                           /\ td_pc'[u] = "enable_cas"
                           /\ td_mtx'[u] = ts_wchan'[td_blocked'[u]]
                      /\ td_pc'[u] \in {"cas", "slow", "enable_cas"} =>
                           td_mtx'[u] \in Mutexes /\ m_owner'[td_mtx'[u]] # u
                      /\ td_pc'[u] = "xchg" =>
                           /\ td_mtx'[u] \in m_contested' /\ m_owner'[td_mtx'[u]] = u
                           /\ m_count'[td_mtx'[u]] = 0
    BY DEF ControlPoints
  <2>1. CASE u = td
    <3>1. td_blocked'[u] = NULL
      BY <1>3, <1>11, <2>1
    <3>2. td_pc'[u] = "enable_run"
      BY <1>1, <2>1 DEF IInv, TypeOK, Goto
    <3> QED  BY <3>1, <3>2
  <2>2. CASE u # td
    <3>1. td_pc'[u] = td_pc[u] /\ td_mtx'[u] = td_mtx[u]
      BY <1>1, <2>2 DEF IInv, TypeOK, Goto
    <3>2. td_blocked'[u] # NULL => /\ td_blocked'[u] = td_blocked[u]
                                   /\ td_blocked[u] \in Turnstiles \ {ts}
      BY <1>3, <1>4, <1>10 DEF TurnstileTypeOK, b
    <3>3. \A n \in Mutexes : m_owner'[n] = IF n = m THEN NULL ELSE m_owner[n]
      BY <1>1 DEF IInv, TypeOK
    <3>4. td_pc[u] = "xchg" => td_mtx[u] \in m_contested /\ td_mtx[u] # m
                               /\ m_owner[td_mtx[u]] = u /\ td_mtx[u] \in Mutexes
                               /\ m_count[td_mtx[u]] = 0
      BY <1>2, <2>2 DEF IInv, TypeOK, TurnstileInv, ControlPoints
    <3>5. td_blocked'[u] # NULL => /\ td_pc'[u] = "enable_cas"
                                   /\ td_mtx'[u] = ts_wchan'[td_blocked'[u]]
      BY <1>4, <1>15, <3>1, <3>2 DEF TurnstileInv, ControlPoints
    <3>6. td_pc'[u] \in {"cas", "slow", "enable_cas"} =>
            td_mtx'[u] \in Mutexes /\ m_owner'[td_mtx'[u]] # u
      BY <1>4, <3>1, <3>3, SchedAssumption DEF TurnstileInv, ControlPoints
    <3>7. td_pc'[u] = "xchg" =>
            /\ td_mtx'[u] \in m_contested' /\ m_owner'[td_mtx'[u]] = u
            /\ m_count'[td_mtx'[u]] = 0
      BY <1>1, <3>1, <3>3, <3>4
    <3> QED  BY <3>5, <3>6, <3>7
  <2> QED  BY <2>1, <2>2
<1> QED  BY <1>12, <1>14, <1>17, <1>18, <1>19, <1>21, <1>22 DEF IInv, TurnstileInv

(***************************************************************************)
(* sched_set_prio.                                                         *)
(***************************************************************************)
LEMMA SetPrioStep ==
  ASSUME IInv, NEW self \in Threads, NEW td \in Threads, NEW p \in Prio,
         SetPrio(self, td, p), UNCHANGED panicked
  PROVE  IInv'
<1>1. /\ setprios < MaxSetPrio /\ setprios' = setprios + 1
      /\ sched_set_prio(td, p) /\ UNCHANGED <<mtxVars, pcVars>>
  BY DEF SetPrio
<1>2. /\ td_base_prio' = [td_base_prio EXCEPT ![td] = p]
      /\ UNCHANGED <<curthread, td_state, td_needswitch, ts_state, ts_wchan,
                     ts_owner, ts_free, td_turnstile, td_blocked>>
  BY <1>1 DEF sched_set_prio
<1>3. TurnstileTypeOK /\ SchedTypeOK /\ RunqConsistent /\ TurnstileInv
  BY DEF IInv, TypeOK
<1>4. /\ td_prio' \in [Threads -> Prio] /\ td_borrowing' \in SUBSET Threads
      /\ RunqOf(runq', td_prio', Ready)
      /\ SameQueues(ts_blocked, ts_blocked')
  <2> DEFINE old == td_prio[td]
             keep == td \in td_borrowing /\ prio_gt(old, p)
             adjusted == IF td_blocked[td] = NULL THEN ts_blocked
                         ELSE [ts_blocked EXCEPT ![td_blocked[td]] =
                                 adjust_thread(@, td, p)]
             propagate == /\ td_blocked[td] # NULL
                          /\ Head(adjusted[td_blocked[td]]) = td
                          /\ prio_gt(p, old)
             B == IF propagate THEN Borrowers(ts_owner[td_blocked[td]], p) ELSE {}
             C == B \cup (IF p = old THEN {} ELSE {td})
  <2>1. RunqOf(runq, td_prio, Ready)
    BY <1>3, RunqConsistentForm
  <2>2. CASE keep
    <3>1. UNCHANGED <<td_prio, runq, ts_blocked, td_borrowing>>
      BY <1>1, <2>2 DEF sched_set_prio
    <3>2. SameQueues(ts_blocked, ts_blocked)
      BY <1>3 DEF SameQueues, TurnstileTypeOK, TurnstileInv, BlockedLinks
    <3> QED  BY <1>3, <2>1, <3>1, <3>2 DEF SchedTypeOK
  <2>3. CASE ~ keep
    <3>1. /\ td_prio' = WithPrio(C, p)
          /\ ts_blocked' = LentBlocked(adjusted, B, p)
          /\ runq' = Requeued(C, p)
          /\ td_borrowing' = td_borrowing \cup B
      BY <1>1, <2>3 DEF sched_set_prio
    <3>2. B \in SUBSET Threads /\ C \in SUBSET Threads
      <4>1. Borrowers(ts_owner[td_blocked[td]], p) \in SUBSET Threads
        BY BorrowersAreBelow
      <4> QED  BY <4>1
    <3>3. SameQueues(ts_blocked, adjusted)
      <4>1. CASE td_blocked[td] = NULL
        BY <1>3, <4>1 DEF SameQueues, TurnstileTypeOK, TurnstileInv, BlockedLinks
      <4>2. CASE td_blocked[td] # NULL
        <5> DEFINE ts == td_blocked[td]
                   s == ts_blocked[ts]
                   r == adjust_thread(s, td, p)
        <5>1. ts \in Turnstiles
          BY <1>3, <4>2 DEF TurnstileTypeOK
        <5>2. s \in Seq(Threads) /\ Distinct(s) /\ td \in Range(s)
          BY <1>3, <5>1 DEF TurnstileTypeOK, TurnstileInv, BlockedLinks
        <5>3. adjusted = [ts_blocked EXCEPT ![ts] = r]
          BY <4>2
        <5> HIDE DEF s, ts, adjusted
        <5>4. /\ r \in Seq(Threads) /\ Len(r) = Len(s)
              /\ Range(r) = Range(s) /\ Distinct(r)
          BY <5>2, AdjustKeepsQueue
        <5> HIDE DEF r
        <5> QED  BY <1>3, <5>1, <5>3, <5>4
                    DEF SameQueues, TurnstileTypeOK, TurnstileInv, BlockedLinks, s
      <4> QED  BY <4>1, <4>2
    <3> HIDE DEF B, C, adjusted
    <3>4. SameQueues(adjusted, LentBlocked(adjusted, B, p))
      <4>1. /\ adjusted \in [Turnstiles -> Seq(Threads)]
            /\ \A ts \in Turnstiles : Distinct(adjusted[ts])
        BY <3>3 DEF SameQueues
      <4>2. \A u \in B, ts \in Turnstiles :
              td_blocked[u] = ts => u \in Range(adjusted[ts])
        BY <1>3, <3>2, <3>3 DEF SameQueues, TurnstileInv, BlockedLinks
      <4> QED  BY <3>2, <4>1, <4>2, LendingKeepsQueues
    <3>5. SameQueues(ts_blocked, ts_blocked')
      BY <3>1, <3>3, <3>4 DEF SameQueues
    <3>6. WithPrio(C, p) \in [Threads -> Prio]
          /\ RunqOf(Requeued(C, p), WithPrio(C, p), Ready)
      BY <1>3, <2>1, <3>2, SchedAssumption, RequeueKeepsRunq DEF SchedTypeOK
    <3> QED  BY <1>3, <3>1, <3>2, <3>5, <3>6 DEF SchedTypeOK
  <2> QED  BY <2>2, <2>3
<1>5. SchedTypeOK'
  BY <1>2, <1>3, <1>4 DEF SchedTypeOK, RunqOf
<1>6. RunqConsistent'
  <2>1. Ready' = Ready
    BY <1>2 DEF Ready
  <2>2. OneRunning'
    BY <1>2, <1>3 DEF OneRunning, RunqConsistent
  <2>3. RunqOf(runq', td_prio', Ready')
    BY <1>4, <2>1
  <2> QED  BY <1>5, <2>2, <2>3, RunqConsistentFormNext
<1>7. TypeOK'
  BY <1>1, <1>2, <1>3, <1>4, <1>5, MutexAssumption
     DEF IInv, TypeOK, TurnstileTypeOK, SameQueues, mtxVars, pcVars
<1>8. BlockedLinks'
  BY <1>2, <1>3, <1>4 DEF TurnstileInv, BlockedLinks, SameQueues
<1>9. OwnTurnstiles' /\ FreeTurnstiles'
  BY <1>2, <1>3 DEF TurnstileInv, OwnTurnstiles, FreeTurnstiles
<1>10. UsedTurnstiles'
  <2>1. \A ts \in Turnstiles : /\ Len(ts_blocked'[ts]) = Len(ts_blocked[ts])
                               /\ ts_blocked[ts] = <<>> => ts_blocked'[ts] = <<>>
    <3> SUFFICES ASSUME NEW ts \in Turnstiles
                 PROVE  /\ Len(ts_blocked'[ts]) = Len(ts_blocked[ts])
                        /\ ts_blocked[ts] = <<>> => ts_blocked'[ts] = <<>>
      OBVIOUS
    <3>1. ts_blocked'[ts] \in Seq(Threads) /\ Len(ts_blocked'[ts]) = Len(ts_blocked[ts])
      BY <1>4 DEF SameQueues
    <3> QED  BY <3>1, EmptySeq
  <2> QED  BY <1>1, <1>2, <1>3, <2>1
              DEF TurnstileInv, UsedTurnstiles, Contended, InUse, mtxVars
<1>11. ControlPoints'
  BY <1>1, <1>2, <1>3, SamePcs DEF TurnstileInv, mtxVars, pcVars
<1> QED  BY <1>6, <1>7, <1>8, <1>9, <1>10, <1>11 DEF IInv, TurnstileInv

(***************************************************************************)
(* The theorems.                                                           *)
(***************************************************************************)

\* IInv holds in every reachable state: every step of mtx_lock, mtx_unlock,
\* sched_switch, sched_wakeup, sched_set_prio, and of an interrupt keeps it.
THEOREM Invariance == Spec => []IInv
<1>1. IInv /\ [Next]_vars => IInv'
  <2> SUFFICES ASSUME IInv, [Next]_vars PROVE IInv'
    OBVIOUS
  <2>1. CASE UNCHANGED vars
    BY <2>1 DEF vars, schedVars, tsVars, mtxVars, pcVars, IInv, TypeOK,
       SchedTypeOK, TurnstileTypeOK, RunqConsistent, TurnstileInv, BlockedLinks,
       OwnTurnstiles, FreeTurnstiles, UsedTurnstiles, Contended, InUse, ControlPoints
  <2>2. ASSUME KernelStep, UNCHANGED panicked PROVE IInv'
    <3>1. ASSUME NEW td \in Threads, ThreadStep(td) PROVE IInv'
      <4>1. ASSUME NEW m \in Mutexes, MtxLock(td, m) PROVE IInv'
        BY <2>2, <4>1, MtxLockStep
      <4>2. ASSUME NEW m \in Mutexes, MtxLockRecursive(td, m) \/ MtxUnlockRecursive(td, m)
            PROVE  IInv'
        BY <2>2, <4>2, RecursiveStep
      <4>3. ASSUME NEW m \in Mutexes, MtxUnlock(td, m) PROVE IInv'
        BY <2>2, <4>3, MtxUnlockStep
      <4>4. CASE MtxRetry(td)
        BY <2>2, <4>4, MtxRetryStep
      <4>5. CASE MtxLockReleased(td)
        BY <2>2, <4>5, MtxLockReleasedStep
      <4>6. CASE MtxLockBlock(td)
        <5>1. \/ /\ turnstile_wait_first(td, td_mtx[td], m_owner[td_mtx[td]])
                 /\ m_contested' = m_contested \cup {td_mtx[td]}
              \/ /\ turnstile_wait_next(td, td_mtx[td], m_owner[td_mtx[td]])
                 /\ UNCHANGED m_contested
          BY <4>6 DEF MtxLockBlock
        <5> QED  BY <2>2, <4>6, <5>1, BlockFirstStep, BlockNextStep
      <4>7. CASE MtxUnlockBroadcast(td)
        BY <2>2, <4>7, BroadcastStep
      <4>8. CASE PreemptEnable(td)
        BY <2>2, <4>8, PreemptEnableStep
      <4>9. CASE Exit(td)
        BY <2>2, <4>9, ExitStep
      <4> QED  BY <3>1, <4>1, <4>2, <4>3, <4>4, <4>5, <4>6, <4>7, <4>8, <4>9
                  DEF ThreadStep
    <3>2. ASSUME NEW td \in Threads, Start(td) PROVE IInv'
      BY <2>2, <3>2, StartStep
    <3>3. ASSUME NEW td \in Threads, NEW u \in Threads, NEW p \in Prio, SetPrio(td, u, p)
          PROVE  IInv'
      BY <2>2, <3>3, SetPrioStep
    <3>4. CASE Preempt
      BY <2>2, <3>4, PreemptStep
    <3>5. CASE Interrupt
      BY <2>2, <3>5, InterruptStep
    <3> QED  BY <2>2, <3>1, <3>2, <3>3, <3>4, <3>5 DEF KernelStep
  <2>3. ASSUME NEW td \in Threads, MtxUnlockPanic(td) PROVE IInv'
    <3>1. panicked' = TRUE /\ UNCHANGED <<schedVars, tsVars, mtxVars, pcVars, setprios>>
      BY <2>3 DEF MtxUnlockPanic
    <3>2. panicked' \in BOOLEAN
      BY <3>1
    <3>3. /\ SchedTypeOK' /\ TurnstileTypeOK' /\ RunqConsistent'
          /\ BlockedLinks' /\ OwnTurnstiles' /\ FreeTurnstiles'
      BY <3>1, SchedUnchanged
    <3>4. TypeOK'
      BY <3>1, <3>2, <3>3 DEF IInv, TypeOK, mtxVars, pcVars
    <3>5. UsedTurnstiles' /\ ControlPoints'
      BY <3>1 DEF IInv, TurnstileInv, UsedTurnstiles, Contended, InUse,
                  ControlPoints, mtxVars, tsVars, pcVars
    <3> QED  BY <3>3, <3>4, <3>5 DEF IInv, TurnstileInv
  <2> QED  BY <2>1, <2>2, <2>3 DEF Next
<1> QED  BY <1>1, InitIInv, PTL DEF Spec

\* Type correctness: no step of the mutexes, the turnstiles or the scheduler
\* leaves a value outside of its type.
THEOREM TypeCorrect == Spec => []TypeOK
  BY Invariance, PTL DEF IInv

\* runq_add, runq_remove and the requeueing in sched_set_active_prio keep every
\* ready thread on exactly the queue of its priority.
THEOREM RunqSafe == Spec => []RunqConsistent
  BY Invariance, PTL DEF IInv

\* A thread blocked in mtx_lock is always found by the mtx_unlock of the owner.
THEOREM WaitersFound == Spec => []NoLostWaiter
<1>1. IInv => NoLostWaiter
  <2> SUFFICES ASSUME IInv, NEW td \in Threads, td_state[td] = "BLOCKED"
               PROVE  LET m  == td_mtx[td]
                          ts == td_blocked[td]
                      IN  /\ td_pc[td] = "enable_cas"
                          /\ m_owner[m] \notin {NULL, td}
                          /\ m \in m_contested
                          /\ InUse(ts, m)
                          /\ ts_owner[ts] = m_owner[m]
                          /\ td \in Range(ts_blocked[ts])
    BY DEF NoLostWaiter
  <2> DEFINE ts == td_blocked[td]
  <2>1. ts # NULL
    BY DEF IInv, TurnstileInv, BlockedLinks
  <2>2. ts \in Turnstiles
    BY <2>1 DEF IInv, TypeOK, TurnstileTypeOK
  <2>3. td \in Range(ts_blocked[ts])
    BY <2>2 DEF IInv, TurnstileInv, BlockedLinks
  <2>4. ts_state[ts] = "USED_BLOCKED"
    <3>1. ts_blocked[ts] # <<>>
      BY <2>3 DEF Range
    <3> QED  BY <2>2, <3>1 DEF IInv, TurnstileInv, UsedTurnstiles
  <2>5. td_pc[td] = "enable_cas" /\ td_mtx[td] = ts_wchan[ts]
    BY <2>1 DEF IInv, TurnstileInv, ControlPoints
  <2>6. m_owner[td_mtx[td]] # td
    BY <2>5 DEF IInv, TurnstileInv, ControlPoints
  <2>7. /\ ts_wchan[ts] \in m_contested /\ ts_owner[ts] # NULL
        /\ ts_owner[ts] = m_owner[ts_wchan[ts]]
    BY <2>2, <2>4 DEF IInv, TurnstileInv, UsedTurnstiles
  <2> QED  BY <2>3, <2>4, <2>5, <2>6, <2>7 DEF InUse
<1> QED  BY <1>1, Invariance, PTL

\* Turnstiles are conserved by turnstile_wait and give_back_turnstiles.
THEOREM TurnstilesSafe == Spec => []TurnstilesConserved
<1>1. IInv => TurnstilesConserved
  BY DEF IInv, TurnstileInv, BlockedLinks, OwnTurnstiles, FreeTurnstiles,
         UsedTurnstiles, TurnstilesConserved
<1> QED  BY <1>1, Invariance, PTL

\* The assertions in turnstile_take, turnstile_wait, turnstile_broadcast and
\* give_back_turnstiles never fail.
THEOREM AssertionsSafe == Spec => []AssertionsHold
<1>1. IInv => AssertionsHold
  <2> SUFFICES ASSUME IInv, NEW td \in Threads
               PROVE  LET m  == td_mtx[td]
                          ts == td_turnstile[td]
                      IN  /\ At(td, "slow") /\ m_owner[m] # NULL =>
                               /\ ts # NULL /\ ts_state[ts] = "FREE_UNBLOCKED"
                               /\ ~ Contended(m) => /\ ts_blocked[ts] = <<>>
                                                    /\ ts_free[ts] = <<>>
                                                    /\ ts_owner[ts] = NULL
                               /\ \A u \in Turnstiles : InUse(u, m) => ts_owner[u] = m_owner[m]
                          /\ At(td, "xchg") =>
                               \E u \in Turnstiles :
                                 /\ InUse(u, m)
                                 /\ ts_owner[u] = td
                                 /\ ts_blocked[u] # <<>>
                                 /\ Len(ts_blocked[u]) - 1 <= Len(ts_free[u])
                                 /\ \A v \in OwnedElsewhere(td, u) : ts_blocked[v] # <<>>
    BY DEF AssertionsHold
  <2> DEFINE m == td_mtx[td]
             ts == td_turnstile[td]
  <2>1. \A u \in Turnstiles : ts_owner[u] # NULL =>
          /\ ts_state[u] = "USED_BLOCKED"
          /\ ts_blocked[u] # <<>>
          /\ Len(ts_blocked[u]) - 1 <= Len(ts_free[u])
    <3> SUFFICES ASSUME NEW u \in Turnstiles, ts_owner[u] # NULL
                 PROVE  /\ ts_state[u] = "USED_BLOCKED"
                        /\ ts_blocked[u] # <<>>
                        /\ Len(ts_blocked[u]) - 1 <= Len(ts_free[u])
      OBVIOUS
    <3>1. ts_state[u] = "USED_BLOCKED" /\ Len(ts_blocked[u]) = Len(ts_free[u]) + 1
      BY DEF IInv, TurnstileInv, UsedTurnstiles
    <3>2. ts_free[u] \in Seq(Turnstiles)
      BY DEF IInv, TypeOK, TurnstileTypeOK
    <3>3. Len(ts_free[u]) \in Nat /\ Len(<<>>) = 0
      BY <3>2, LenProperties
    <3> QED  BY <3>1, <3>3
  <2>2. CASE At(td, "slow") /\ m_owner[m] # NULL
    <3>1. ts \in Turnstiles /\ ts # NULL /\ ts_state[ts] = "FREE_UNBLOCKED"
          /\ ts_blocked[ts] = <<>> /\ ts_free[ts] = <<>>
      BY <2>2, BeforeBlocking, SchedAssumption DEF At, Turnstiles
    <3>2. ts_owner[ts] = NULL
      BY <3>1 DEF IInv, TurnstileInv, UsedTurnstiles
    <3>3. \A u \in Turnstiles : InUse(u, m) => ts_owner[u] = m_owner[m]
      BY DEF IInv, TurnstileInv, UsedTurnstiles, InUse
    <3>4. td_pc[td] # "xchg"
      BY <2>2 DEF At
    <3> QED  BY <3>1, <3>2, <3>3, <3>4 DEF At
  <2>3. CASE At(td, "xchg")
    <3>1. m \in m_contested /\ m_owner[m] = td
      BY <2>3 DEF IInv, TurnstileInv, ControlPoints, At
    <3>2. PICK u \in Turnstiles : InUse(u, m)
      BY <3>1 DEF IInv, TurnstileInv, UsedTurnstiles, Contended
    <3>3. ts_owner[u] = td /\ td # NULL
      BY <3>1, <3>2, SchedAssumption DEF IInv, TurnstileInv, UsedTurnstiles, InUse
    <3>4. \A v \in OwnedElsewhere(td, u) : ts_blocked[v] # <<>>
      BY <2>1, <3>3 DEF OwnedElsewhere
    <3>5. td_pc[td] # "slow"
      BY <2>3 DEF At
    <3> QED  BY <2>1, <3>2, <3>3, <3>4, <3>5 DEF At
  <2> QED  BY <2>2, <2>3
<1> QED  BY <1>1, Invariance, PTL

(***************************************************************************)
(* The mutexes implement AbstractLock: every step of Mutex is a step of    *)
(* the abstract lock or changes nothing there.                             *)
(***************************************************************************)
Wants == [td \in Threads |-> IF td_pc[td] \in {"cas", "slow", "enable_cas"}
                             THEN td_mtx[td] ELSE NULL]

Asleep == {td \in Threads : td_state[td] = "BLOCKED"}

\* A thread sleeps exactly while it is on a turnstile.
LEMMA AsleepForm == IInv => Asleep = {td \in Threads : td_blocked[td] # NULL}
  BY DEF IInv, TurnstileInv, BlockedLinks, Asleep

LEMMA AsleepFormNext ==
  (IInv => Asleep = {td \in Threads : td_blocked[td] # NULL})'
  BY AsleepForm, PTL

\* Steps that the abstract lock does not see.
LEMMA Stutter ==
  ASSUME IInv, IInv', UNCHANGED <<m_owner, m_count, td_blocked>>, Wants' = Wants
  PROVE  UNCHANGED Abstract!lockVars
<1>1. Asleep' = Asleep
  BY AsleepForm, AsleepFormNext
<1> QED  BY <1>1 DEF Abstract!lockVars, Wants, Asleep

\* The compare and exchange either takes a free mutex or requests it.
LEMMA TryAcquireRefines ==
  ASSUME IInv, IInv', NEW td \in Threads, NEW m \in Mutexes, TryAcquire(td, m),
         curthread = td, m_owner[m] # td,
         td_pc[td] = "run" \/ (td_pc[td] = "cas" /\ td_mtx[td] = m)
  PROVE  Abstract!LockNext \/ UNCHANGED Abstract!lockVars
<1>1. UNCHANGED <<td_blocked, m_count>>
  BY DEF TryAcquire, tsVars
<1>2. td_blocked[td] = NULL
  BY CurrentNotBlocked DEF IInv
<1>3. td \notin Asleep /\ Asleep' = Asleep
  BY <1>1, <1>2, AsleepForm, AsleepFormNext
<1>4. Wants[td] = IF td_pc[td] = "run" THEN NULL ELSE m
  BY DEF Wants
<1>5. CASE m_owner[m] = NULL
  <2>1. m_owner' = [m_owner EXCEPT ![m] = td] /\ Goto(td, "run", NULL)
    BY <1>5 DEF TryAcquire
  <2>2. Wants' = [Wants EXCEPT ![td] = NULL]
    BY <2>1 DEF Wants, Goto, IInv, TypeOK
  <2>3. Abstract!Grab(td, m)
    BY <1>1, <1>3, <1>4, <1>5, <2>1, <2>2 DEF Abstract!Grab, Wants, Asleep
  <2> QED  BY <2>3 DEF Abstract!LockNext
<1>6. CASE m_owner[m] # NULL
  <2>1. UNCHANGED m_owner /\ Goto(td, "slow", m)
    BY <1>6 DEF TryAcquire
  <2>2. Wants' = [Wants EXCEPT ![td] = m]
    BY <2>1 DEF Wants, Goto, IInv, TypeOK
  <2>3. CASE td_pc[td] = "run"
    <3>1. Abstract!Request(td, m)
      BY <1>1, <1>3, <1>4, <1>6, <2>1, <2>2, <2>3 DEF Abstract!Request, Wants, Asleep
    <3> QED  BY <3>1 DEF Abstract!LockNext
  <2>4. CASE td_pc[td] # "run"
    <3>1. Wants' = Wants
      BY <1>4, <2>2, <2>4 DEF Wants
    <3> QED  BY <1>1, <2>1, <3>1, Stutter
  <2> QED  BY <2>3, <2>4
<1> QED  BY <1>5, <1>6

\* turnstile_wait puts the thread to sleep.
LEMMA BlockRefines ==
  ASSUME IInv, IInv', NEW td \in Threads, MtxLockBlock(td)
  PROVE  Abstract!LockNext
<1> DEFINE m == td_mtx[td]
<1>1. /\ curthread = td /\ td_pc[td] = "slow" /\ m_owner[m] # NULL
      /\ Goto(td, "enable_cas", m) /\ UNCHANGED <<m_owner, m_count>>
  BY DEF MtxLockBlock, At
<1>2. m \in Mutexes /\ m_owner[m] # td
  BY <1>1 DEF IInv, TurnstileInv, ControlPoints
<1>3. \E ts \in Turnstiles : td_blocked' = [td_blocked EXCEPT ![td] = ts]
  <2>1. CASE turnstile_wait_first(td, m, m_owner[m])
    <3>1. td_turnstile[td] \in Turnstiles
      BY <1>1, BeforeBlocking
    <3> QED  BY <2>1, <3>1 DEF turnstile_wait_first, switch_away
  <2>2. CASE turnstile_wait_next(td, m, m_owner[m])
    BY <2>2 DEF turnstile_wait_next, switch_away
  <2> QED  BY <2>1, <2>2 DEF MtxLockBlock
<1>4. Asleep' = Asleep \cup {td}
  <2>1. /\ Asleep = {u \in Threads : td_blocked[u] # NULL}
        /\ Asleep' = {u \in Threads : td_blocked'[u] # NULL}
    BY AsleepForm, AsleepFormNext
  <2>2. PICK ts \in Turnstiles : td_blocked' = [td_blocked EXCEPT ![td] = ts]
    BY <1>3
  <2>3. ts # NULL
    BY SchedAssumption DEF Turnstiles
  <2>4. \A u \in Threads : td_blocked'[u] # NULL <=> u = td \/ td_blocked[u] # NULL
    BY <2>2, <2>3 DEF IInv, TypeOK, TurnstileTypeOK
  <2> QED  BY <2>1, <2>4
<1>5. Wants' = Wants /\ Wants[td] = m
  BY <1>1 DEF Wants, Goto, IInv, TypeOK
<1>6. m # NULL
  BY <1>2, MutexAssumption
<1>7. Abstract!FallAsleep(td)
  BY <1>1, <1>2, <1>4, <1>5, <1>6 DEF Abstract!FallAsleep, Wants, Asleep
<1> QED  BY <1>7 DEF Abstract!LockNext

\* The fast path of mtx_unlock: nobody sleeps for a mutex that is not contested.
LEMMA UnlockRefines ==
  ASSUME IInv, IInv', NEW td \in Threads, NEW m \in Mutexes, MtxUnlock(td, m)
  PROVE  Abstract!LockNext \/ UNCHANGED Abstract!lockVars
<1>1. /\ curthread = td /\ td_pc[td] = "run" /\ m_owner[m] = td /\ m_count[m] = 0
      /\ UNCHANGED <<td_blocked, m_count>>
  BY DEF MtxUnlock, At, tsVars
<1>2. CASE m \in m_contested
  <2>1. Goto(td, "xchg", m) /\ UNCHANGED m_owner
    BY <1>2 DEF MtxUnlock
  <2>2. Wants' = Wants
    BY <1>1, <2>1 DEF Wants, Goto, IInv, TypeOK
  <2> QED  BY <1>1, <2>1, <2>2, Stutter
<1>3. CASE m \notin m_contested
  <2>1. m_owner' = [m_owner EXCEPT ![m] = NULL] /\ UNCHANGED <<td_pc, td_mtx>>
    BY <1>3 DEF MtxUnlock
  <2>2. Asleep' = Asleep
    BY <1>1, AsleepForm, AsleepFormNext
  <2>3. \A u \in Asleep : Wants[u] # m
    <3> SUFFICES ASSUME NEW u \in Threads, u \in Asleep PROVE Wants[u] # m
      BY DEF Asleep
    <3>1. td_blocked[u] # NULL
      BY AsleepForm
    <3>2. td_pc[u] = "enable_cas" /\ td_mtx[u] = ts_wchan[td_blocked[u]]
      BY <3>1 DEF IInv, TurnstileInv, ControlPoints
    <3>3. td_blocked[u] \in Turnstiles
      BY <3>1 DEF IInv, TypeOK, TurnstileTypeOK
    <3>4. td_mtx[u] \in m_contested
      <4>1. td_mtx[u] \in Mutexes
        BY <3>2 DEF IInv, TurnstileInv, ControlPoints
      <4> QED  BY <3>2, <3>3, <4>1, MutexAssumption DEF IInv, TurnstileInv, UsedTurnstiles
    <3> QED  BY <1>3, <3>2, <3>4 DEF Wants
  <2>4. Asleep' = {u \in Asleep : Wants[u] # m}
    BY <2>2, <2>3
  <2>5. Wants' = Wants
    BY <2>1 DEF Wants
  <2>6. Abstract!Release(td, m)
    BY <1>1, <2>1, <2>4, <2>5 DEF Abstract!Release, Wants, Asleep
  <2> QED  BY <2>6 DEF Abstract!LockNext
<1> QED  BY <1>2, <1>3

\* turnstile_broadcast wakes up exactly the threads that sleep for the mutex.
LEMMA BroadcastRefines ==
  ASSUME IInv, IInv', NEW td \in Threads, MtxUnlockBroadcast(td)
  PROVE  Abstract!LockNext
<1>0. PICK m \in Mutexes : m = td_mtx[td]
  BY DEF MtxUnlockBroadcast, At, IInv, TypeOK, TurnstileInv, ControlPoints
<1>1. /\ curthread = td /\ td_pc[td] = "xchg"
      /\ m_owner' = [m_owner EXCEPT ![m] = NULL] /\ UNCHANGED m_count
      /\ turnstile_broadcast(td, m) /\ Goto(td, "enable_run", NULL)
  BY <1>0 DEF MtxUnlockBroadcast, At
<1>2. m_owner[m] = td /\ m_count[m] = 0
  BY <1>0, <1>1 DEF IInv, TurnstileInv, ControlPoints
<1>3. PICK ts \in Turnstiles :
        /\ InUse(ts, m)
        /\ td_blocked' = [u \in Threads |-> IF u \in Range(ts_blocked[ts])
                                            THEN NULL ELSE td_blocked[u]]
  BY <1>1 DEF turnstile_broadcast
<1>4. ASSUME NEW u \in Threads, td_blocked[u] # NULL
      PROVE  Wants[u] = m <=> u \in Range(ts_blocked[ts])
  <2>1. td_pc[u] = "enable_cas" /\ td_mtx[u] = ts_wchan[td_blocked[u]]
    BY <1>4 DEF IInv, TurnstileInv, ControlPoints
  <2>2. td_blocked[u] \in Turnstiles
    BY <1>4 DEF IInv, TypeOK, TurnstileTypeOK
  <2>3. td_mtx[u] \in Mutexes
    BY <2>1 DEF IInv, TurnstileInv, ControlPoints
  <2>4. ts_state[td_blocked[u]] = "USED_BLOCKED"
    BY <2>1, <2>2, <2>3, MutexAssumption DEF IInv, TurnstileInv, UsedTurnstiles
  <2>5. ts_wchan[td_blocked[u]] = m <=> td_blocked[u] = ts
    BY <1>3, <2>2, <2>4 DEF IInv, TurnstileInv, UsedTurnstiles, InUse
  <2>6. td_blocked[u] = ts <=> u \in Range(ts_blocked[ts])
    BY DEF IInv, TurnstileInv, BlockedLinks
  <2> QED  BY <2>1, <2>5, <2>6 DEF Wants
<1>5. Asleep' = {u \in Asleep : Wants[u] # m}
  <2>1. Asleep = {u \in Threads : td_blocked[u] # NULL}
        /\ Asleep' = {u \in Threads : td_blocked'[u] # NULL}
    BY AsleepForm, AsleepFormNext
  <2>2. \A u \in Threads : td_blocked'[u] # NULL <=> td_blocked[u] # NULL /\ Wants[u] # m
    BY <1>3, <1>4
  <2> QED  BY <2>1, <2>2
<1>6. Wants' = Wants
  BY <1>1 DEF Wants, Goto, IInv, TypeOK
<1>7. Abstract!Release(td, m)
  BY <1>1, <1>2, <1>5, <1>6 DEF Abstract!Release, Wants, Asleep
<1> QED  BY <1>7 DEF Abstract!LockNext

\* Recursive locking and unlocking.
LEMMA RecursiveRefines ==
  ASSUME IInv, IInv', NEW td \in Threads, NEW m \in Mutexes,
         MtxLockRecursive(td, m) \/ MtxUnlockRecursive(td, m)
  PROVE  Abstract!LockNext
<1>1. /\ m_owner[m] = td /\ UNCHANGED <<m_owner, td_blocked, td_pc, td_mtx>>
      /\ \/ m_count' = [m_count EXCEPT ![m] = @ + 1]
         \/ m_count[m] > 0 /\ m_count' = [m_count EXCEPT ![m] = @ - 1]
  BY DEF MtxLockRecursive, MtxUnlockRecursive, tsVars, pcVars
<1>2. Asleep' = Asleep /\ Wants' = Wants
  <2>1. Wants' = Wants
    BY <1>1 DEF Wants
  <2> QED  BY <1>1, <2>1, AsleepForm, AsleepFormNext
<1>3. m_count[m] \in Nat
  BY DEF IInv, TypeOK
<1>4. \E d \in {1, -1} : m_count[m] + d >= 0 /\ m_count' = [m_count EXCEPT ![m] = @ + d]
  <2>1. CASE m_count' = [m_count EXCEPT ![m] = @ + 1]
    <3>1. 1 \in {1, -1} /\ m_count[m] + 1 >= 0
      BY <1>3
    <3> QED  BY <2>1, <3>1
  <2>2. CASE m_count[m] > 0 /\ m_count' = [m_count EXCEPT ![m] = @ - 1]
    <3>1. -1 \in {1, -1} /\ m_count[m] + (-1) >= 0 /\ m_count[m] - 1 = m_count[m] + (-1)
      BY <1>3, <2>2
    <3>2. m_count' = [m_count EXCEPT ![m] = m_count[m] + (-1)]
      BY <2>2, <3>1
    <3> QED  BY <3>1, <3>2
  <2> QED  BY <1>1, <2>1, <2>2
<1>5. Abstract!Reenter(td, m)
  BY <1>1, <1>2, <1>4 DEF Abstract!Reenter, Wants, Asleep
<1> QED  BY <1>5 DEF Abstract!LockNext

\* The mutexes of mutex.c implement the abstract lock: only the holder releases
\* a mutex, a thread sleeps only for a mutex that another one holds, and a
\* release wakes up every thread that sleeps for it.
THEOREM Refinement == Spec => ImplementsLock
<1>1. Init => Abstract!LockInit
  <2> SUFFICES ASSUME Init PROVE Abstract!LockInit
    OBVIOUS
  <2>1. Wants = [td \in Threads |-> NULL] /\ Asleep = {}
    BY DEF Init, SchedInit, Wants, Asleep
  <2> QED  BY <2>1 DEF Init, Abstract!LockInit, Wants, Asleep
<1>2. IInv /\ IInv' /\ [Next]_vars => [Abstract!LockNext]_(Abstract!lockVars)
  <2> SUFFICES ASSUME IInv, IInv', [Next]_vars
               PROVE  Abstract!LockNext \/ UNCHANGED Abstract!lockVars
    OBVIOUS
  <2>1. ASSUME UNCHANGED <<m_owner, m_count, td_blocked, td_pc, td_mtx>>
        PROVE  UNCHANGED Abstract!lockVars
    <3>1. Wants' = Wants
      BY <2>1 DEF Wants
    <3> QED  BY <2>1, <3>1, Stutter
  <2>2. CASE UNCHANGED vars
    BY <2>1, <2>2 DEF vars, tsVars, mtxVars, pcVars
  <2>3. ASSUME NEW td \in Threads, ThreadStep(td)
        PROVE  Abstract!LockNext \/ UNCHANGED Abstract!lockVars
    <3>1. ASSUME NEW m \in Mutexes, MtxLock(td, m)
          PROVE  Abstract!LockNext \/ UNCHANGED Abstract!lockVars
      <4>1. m_owner[m] # td
        BY <3>1, MutexAssumption DEF MtxLock, Held
      <4>2. TryAcquire(td, m)
        BY <3>1 DEF MtxLock
      <4>3. curthread = td /\ (td_pc[td] = "run" \/ (td_pc[td] = "cas" /\ td_mtx[td] = m))
        BY <3>1 DEF MtxLock, At
      <4> QED  BY <4>1, <4>2, <4>3, TryAcquireRefines
    <3>2. CASE MtxRetry(td)
      <4>1. PICK m \in Mutexes : m = td_mtx[td] /\ m_owner[m] # td
        BY <3>2 DEF MtxRetry, At, IInv, TurnstileInv, ControlPoints
      <4>2. TryAcquire(td, m)
        BY <3>2, <4>1 DEF MtxRetry
      <4>3. curthread = td /\ (td_pc[td] = "run" \/ (td_pc[td] = "cas" /\ td_mtx[td] = m))
        BY <3>2, <4>1 DEF MtxRetry, At
      <4>4. m_owner[m] # td
        BY <4>1
      <4> QED  BY <4>2, <4>3, <4>4, TryAcquireRefines
    <3>3. ASSUME NEW m \in Mutexes, MtxLockRecursive(td, m) \/ MtxUnlockRecursive(td, m)
          PROVE  Abstract!LockNext
      BY <3>3, RecursiveRefines
    <3>4. ASSUME NEW m \in Mutexes, MtxUnlock(td, m)
          PROVE  Abstract!LockNext \/ UNCHANGED Abstract!lockVars
      BY <3>4, UnlockRefines
    <3>5. CASE MtxLockReleased(td)
      <4>1. Wants' = Wants
        BY <3>5 DEF MtxLockReleased, At, Wants, Goto, IInv, TypeOK
      <4> QED  BY <3>5, <4>1, Stutter DEF MtxLockReleased, tsVars, mtxVars
    <3>6. CASE PreemptEnable(td)
      <4>1. Wants' = Wants
        BY <3>6 DEF PreemptEnable, At, Wants, Goto, IInv, TypeOK
      <4> QED  BY <3>6, <4>1, Stutter DEF PreemptEnable, tsVars, mtxVars
    <3>7. CASE Exit(td)
      <4>1. Wants' = Wants
        BY <3>7 DEF Exit, At, Wants, Goto, IInv, TypeOK
      <4> QED  BY <3>7, <4>1, Stutter DEF Exit, tsVars, mtxVars
    <3>8. CASE MtxLockBlock(td)
      BY <3>8, BlockRefines
    <3>9. CASE MtxUnlockBroadcast(td)
      BY <3>9, BroadcastRefines
    <3> QED  BY <2>3, <3>1, <3>2, <3>3, <3>4, <3>5, <3>6, <3>7, <3>8, <3>9
                DEF ThreadStep
  <2>4. ASSUME NEW td \in Threads, \/ Start(td) \/ MtxUnlockPanic(td)
                                   \/ \E u \in Threads, p \in Prio : SetPrio(td, u, p)
        PROVE  UNCHANGED Abstract!lockVars
    <3>1. CASE Start(td)
      BY <2>1, <3>1 DEF Start, tsVars, mtxVars, pcVars
    <3>2. CASE MtxUnlockPanic(td)
      BY <2>1, <3>2 DEF MtxUnlockPanic, tsVars, mtxVars, pcVars
    <3>3. ASSUME NEW u \in Threads, NEW p \in Prio, SetPrio(td, u, p)
          PROVE  UNCHANGED Abstract!lockVars
      <4>1. UNCHANGED td_blocked
        BY <3>3 DEF SetPrio, sched_set_prio
      <4> QED  BY <2>1, <3>3, <4>1 DEF SetPrio, mtxVars, pcVars
    <3> QED  BY <2>4, <3>1, <3>2, <3>3
  <2>5. CASE Preempt \/ Interrupt
    BY <2>1, <2>5 DEF Preempt, Interrupt, tsVars, mtxVars, pcVars
  <2> QED  BY <2>2, <2>3, <2>4, <2>5 DEF Next, KernelStep
<1> QED  BY <1>1, <1>2, Invariance, PTL DEF Spec, ImplementsLock, Abstract!LockSpec
=============================================================================
