--------------------------- MODULE CondvarProofs ---------------------------
(***************************************************************************)
(* What is proved of SleepQueue and Condvar, for any finite set of         *)
(* threads, any channels and priorities and any number of calls: sleeping  *)
(* threads are found by those who wake them up, queue records are neither  *)
(* lost nor shared, condition variables do not lose waiters, no signal is  *)
(* slept through, and sleeps return what happened.                         *)
(***************************************************************************)
EXTENDS Condvar, TailQueueProofs

\* A thread sleeps exactly while it has a channel; only a record in use has
\* free records, and no record is on two free lists.
RecordsOK ==
  /\ \A td \in Threads : td_state[td] = "SLEEPING" <=> td_wchan[td] # NULL
  /\ \A sq \in SleepQueues : sq_wchan[sq] = NULL => sq_free[sq] = <<>>
  /\ \A sq, sr \in SleepQueues :
       sq # sr => Range(sq_free[sq]) \cap Range(sq_free[sr]) = {}

QueuesOK ==
  /\ SleepQueueTypeOK
  /\ SleepersFound
  /\ SleepQueuesConserved
  /\ RecordsOK

\* The thread that holds the process lock is in sig_kill, with a target that
\* has a signal to check and, once the channel has been looked up, has not
\* gone to sleep interruptibly elsewhere.  A sleep that was interrupted was
\* interrupted by a signal.
SignalsOK ==
  /\ \A td \in Threads : td_pc[td] \in {"abort", "aborting"} <=> p_lock = td
  /\ p_lock = NULL => td_target = NULL
  /\ p_lock # NULL => td_target \in td_needsigchk
  /\ \A td \in Threads :
       /\ td_pc[td] = "aborting"
       /\ td_state[td_target] = "SLEEPING" /\ td_target \in td_slpintr
       => td_wchan[td_target] = td_seen
  /\ \A td \in td_slpintr : td_state[td] = "READY" => td \in td_needsigchk

\* SleepStatus, and a sleep that has a timeout is not marked interruptible.
StatusOK ==
  /\ SleepStatus
  /\ \A td \in Threads : td \notin td_slpintr \cap td_slptimed

FlagsOK == SignalsOK /\ NoLostSignal /\ StatusOK

IInv ==
  /\ TypeOK
  /\ QueuesOK
  /\ FlagsOK
  /\ CvWaitersCounted
  /\ ct_pc # "idle" => ct_td # NULL

-----------------------------------------------------------------------------
(* Going to sleep. *)

\* What is known of a record that a thread has in its hands.
LEMMA OwnRecord ==
  ASSUME QueuesOK, NEW td \in Threads, td_state[td] = "READY"
  PROVE  LET r == td_sleepqueue[td]
         IN  /\ r \in SleepQueues /\ r # NULL
             /\ sq_wchan[r] = NULL /\ sq_blocked[r] = <<>> /\ sq_free[r] = <<>>
             /\ \A u \in Threads : u # td => td_sleepqueue[u] # r
             /\ \A sq \in SleepQueues : r \notin Range(sq_free[sq])
             /\ \A sq \in SleepQueues : td \notin Range(sq_blocked[sq])
<1>1. td_state[td] # "SLEEPING"
  OBVIOUS
<1>2. /\ td_sleepqueue[td] \in SleepQueues \cup {NULL} /\ td_sleepqueue[td] # NULL
      /\ sq_wchan[td_sleepqueue[td]] = NULL
      /\ sq_blocked[td_sleepqueue[td]] = <<>> /\ sq_free[td_sleepqueue[td]] = <<>>
  BY <1>1 DEF QueuesOK, SleepQueueTypeOK, SleepQueuesConserved
<1>3. \A u \in Threads : u # td => td_sleepqueue[u] # td_sleepqueue[td]
  BY <1>2 DEF QueuesOK, SleepQueuesConserved
<1>4. \A sq \in SleepQueues : td_sleepqueue[td] \notin Range(sq_free[sq])
  BY DEF QueuesOK, SleepQueuesConserved
<1>5. \A sq \in SleepQueues : td \notin Range(sq_blocked[sq])
  BY <1>1 DEF QueuesOK, SleepersFound
<1> QED  BY <1>2, <1>3, <1>4, <1>5

\* The first thread on a channel.
LEMMA EnterFirst ==
  ASSUME QueuesOK, NEW td \in Threads, td_state[td] = "READY", NEW wchan \in Wchans,
         NoQueue(wchan),
         sq_wchan' = [sq_wchan EXCEPT ![td_sleepqueue[td]] = wchan],
         sq_blocked' = [sq_blocked EXCEPT ![td_sleepqueue[td]] = Append(@, td)],
         sq_free' = sq_free,
         td_wchan' = [td_wchan EXCEPT ![td] = wchan],
         td_sleepqueue' = [td_sleepqueue EXCEPT ![td] = NULL],
         td_state' = [td_state EXCEPT ![td] = "SLEEPING"],
         td_prio' = td_prio,
         td_slpintr' \in SUBSET Threads, td_slptimed' \in SUBSET Threads
  PROVE  QueuesOK'
<1>1. PICK r : r = td_sleepqueue[td]
  OBVIOUS
<1>2. /\ r \in SleepQueues /\ r # NULL
      /\ sq_wchan[r] = NULL /\ sq_blocked[r] = <<>> /\ sq_free[r] = <<>>
      /\ \A u \in Threads : u # td => td_sleepqueue[u] # r
      /\ \A sq \in SleepQueues : r \notin Range(sq_free[sq])
      /\ \A sq \in SleepQueues : td \notin Range(sq_blocked[sq])
  BY <1>1, OwnRecord
<1>3. wchan # NULL
  BY SleepQueueAssumption
<1>4. \A sq \in SleepQueues : sq_wchan[sq] # wchan
  BY <1>3 DEF NoQueue, sq_lookup
<1>5. /\ Append(<<>>, td) \in Seq(Threads) /\ Range(Append(<<>>, td)) = {td}
      /\ Distinct(Append(<<>>, td)) /\ Append(<<>>, td) # <<>> /\ Len(Append(<<>>, td)) = 1
  BY DEF Range, Distinct
<1>6. /\ \A sq \in SleepQueues :
           /\ sq_wchan'[sq] = IF sq = r THEN wchan ELSE sq_wchan[sq]
           /\ sq_blocked'[sq] = IF sq = r THEN Append(<<>>, td) ELSE sq_blocked[sq]
           /\ sq_free'[sq] = sq_free[sq]
      /\ \A u \in Threads :
           /\ td_wchan'[u] = IF u = td THEN wchan ELSE td_wchan[u]
           /\ td_sleepqueue'[u] = IF u = td THEN NULL ELSE td_sleepqueue[u]
           /\ td_state'[u] = IF u = td THEN "SLEEPING" ELSE td_state[u]
  BY <1>1, <1>2 DEF QueuesOK, SleepQueueTypeOK
<1>7. SleepQueueTypeOK'
  BY <1>1, <1>2, <1>5 DEF QueuesOK, SleepQueueTypeOK
<1>8. SleepersFound'
  <2>1. ASSUME NEW u \in Threads, td_state'[u] = "SLEEPING"
        PROVE  \E sq \in SleepQueues : /\ sq_lookup(sq, td_wchan[u])'
                                       /\ u \in Range(sq_blocked'[sq])
    <3>1. CASE u = td
      BY <1>2, <1>3, <1>5, <1>6, <3>1 DEF sq_lookup
    <3>2. CASE u # td
      <4>1. PICK sq \in SleepQueues : /\ sq_lookup(sq, td_wchan[u])
                                      /\ u \in Range(sq_blocked[sq])
        BY <1>6, <2>1, <3>2 DEF QueuesOK, SleepersFound
      <4>2. sq # r
        BY <1>2, <4>1 DEF sq_lookup
      <4> QED  BY <1>6, <3>2, <4>1, <4>2 DEF sq_lookup
    <3> QED  BY <3>1, <3>2
  <2>2. ASSUME NEW sq \in SleepQueues
        PROVE  /\ Distinct(sq_blocked'[sq])
               /\ \A u \in Range(sq_blocked'[sq]) :
                    td_state'[u] = "SLEEPING" /\ td_wchan'[u] = sq_wchan'[sq]
               /\ sq_blocked'[sq] = <<>> <=> sq_wchan'[sq] = NULL
    <3>1. CASE sq = r
      BY <1>3, <1>5, <1>6, <3>1
    <3>2. CASE sq # r
      <4>1. sq_blocked[sq] \in Seq(Threads)
        BY DEF QueuesOK, SleepQueueTypeOK
      <4>2. \A u \in Range(sq_blocked[sq]) : u \in Threads /\ u # td
        BY <1>2, <4>1 DEF Range
      <4>3. /\ Distinct(sq_blocked[sq])
            /\ \A u \in Range(sq_blocked[sq]) :
                 td_state[u] = "SLEEPING" /\ td_wchan[u] = sq_wchan[sq]
            /\ sq_blocked[sq] = <<>> <=> sq_wchan[sq] = NULL
        BY DEF QueuesOK, SleepersFound
      <4>4. sq_blocked'[sq] = sq_blocked[sq] /\ sq_wchan'[sq] = sq_wchan[sq]
        BY <1>6, <3>2
      <4>5. \A u \in Range(sq_blocked[sq]) :
              td_state'[u] = "SLEEPING" /\ td_wchan'[u] = sq_wchan[sq]
        BY <1>6, <4>2, <4>3
      <4> QED  BY <4>3, <4>4, <4>5
    <3> QED  BY <3>1, <3>2
  <2>3. \A sq, sr \in SleepQueues :
          sq_wchan'[sq] # NULL /\ sq_wchan'[sq] = sq_wchan'[sr] => sq = sr
    BY <1>4, <1>6 DEF QueuesOK, SleepersFound
  <2> QED  BY <2>1, <2>2, <2>3 DEF SleepersFound
<1>9. SleepQueuesConserved'
  <2>1. ASSUME NEW u \in Threads
        PROVE  LET sq == td_sleepqueue'[u]
               IN  IF td_state'[u] = "SLEEPING" THEN sq = NULL
                   ELSE /\ sq # NULL
                        /\ sq_wchan'[sq] = NULL
                        /\ sq_blocked'[sq] = <<>> /\ sq_free'[sq] = <<>>
    <3>1. CASE u = td
      BY <1>6, <3>1
    <3>2. CASE u # td
      <4>1. td_sleepqueue[u] \in SleepQueues \cup {NULL}
        BY DEF QueuesOK, SleepQueueTypeOK
      <4> QED  BY <1>2, <1>6, <3>2, <4>1 DEF QueuesOK, SleepQueuesConserved
    <3> QED  BY <3>1, <3>2
  <2>2. \A u, v \in Threads :
          td_sleepqueue'[u] # NULL /\ td_sleepqueue'[u] = td_sleepqueue'[v] => u = v
    BY <1>6 DEF QueuesOK, SleepQueuesConserved
  <2>3. ASSUME NEW sq \in SleepQueues
        PROVE  /\ sq_wchan'[sq] # NULL => Len(sq_blocked'[sq]) = Len(sq_free'[sq]) + 1
               /\ Distinct(sq_free'[sq])
    <3>1. CASE sq = r
      BY <1>2, <1>5, <1>6, <3>1 DEF QueuesOK, SleepQueuesConserved
    <3>2. CASE sq # r
      BY <1>6, <3>2 DEF QueuesOK, SleepQueuesConserved
    <3> QED  BY <3>1, <3>2
  <2>4. ASSUME NEW sq \in SleepQueues, NEW f \in Range(sq_free'[sq])
        PROVE  sq_wchan'[f] = NULL /\ \A u \in Threads : td_sleepqueue'[u] # f
    <3>1. f \in Range(sq_free[sq]) /\ f \in SleepQueues /\ f # r
      <4>1. sq_free[sq] \in Seq(SleepQueues)
        BY DEF QueuesOK, SleepQueueTypeOK
      <4> QED  BY <1>2, <1>6, <2>4, <4>1 DEF Range
    <3>2. f # NULL
      BY <3>1, SleepQueueAssumption DEF SleepQueues
    <3> QED  BY <1>6, <3>1, <3>2 DEF QueuesOK, SleepQueuesConserved
  <2> QED  BY <2>1, <2>2, <2>3, <2>4 DEF SleepQueuesConserved
<1>10. RecordsOK'
  <2>1. \A u \in Threads : td_state'[u] = "SLEEPING" <=> td_wchan'[u] # NULL
    BY <1>3, <1>6 DEF QueuesOK, RecordsOK
  <2>2. \A sq \in SleepQueues : sq_wchan'[sq] = NULL => sq_free'[sq] = <<>>
    BY <1>3, <1>6 DEF QueuesOK, RecordsOK
  <2>3. \A sq, sr \in SleepQueues :
          sq # sr => Range(sq_free'[sq]) \cap Range(sq_free'[sr]) = {}
    BY DEF QueuesOK, RecordsOK
  <2> QED  BY <2>1, <2>2, <2>3 DEF RecordsOK
<1> QED  BY <1>7, <1>8, <1>9, <1>10 DEF QueuesOK

\* A thread that joins others on a channel.
LEMMA EnterNext ==
  ASSUME QueuesOK, NEW td \in Threads, td_state[td] = "READY", NEW wchan \in Wchans,
         NEW q \in SleepQueues, sq_lookup(q, wchan),
         sq_free' = [sq_free EXCEPT ![q] = <<td_sleepqueue[td]>> \o @],
         sq_blocked' = [sq_blocked EXCEPT ![q] = Append(@, td)],
         sq_wchan' = sq_wchan,
         td_wchan' = [td_wchan EXCEPT ![td] = wchan],
         td_sleepqueue' = [td_sleepqueue EXCEPT ![td] = NULL],
         td_state' = [td_state EXCEPT ![td] = "SLEEPING"],
         td_prio' = td_prio,
         td_slpintr' \in SUBSET Threads, td_slptimed' \in SUBSET Threads
  PROVE  QueuesOK'
<1>1. PICK r : r = td_sleepqueue[td]
  OBVIOUS
<1>2. /\ r \in SleepQueues /\ r # NULL
      /\ sq_wchan[r] = NULL /\ sq_blocked[r] = <<>> /\ sq_free[r] = <<>>
      /\ \A u \in Threads : u # td => td_sleepqueue[u] # r
      /\ \A sq \in SleepQueues : r \notin Range(sq_free[sq])
      /\ \A sq \in SleepQueues : td \notin Range(sq_blocked[sq])
  BY <1>1, OwnRecord
<1>3. wchan # NULL /\ sq_wchan[q] = wchan /\ q # r
  BY <1>2, SleepQueueAssumption DEF sq_lookup
<1>4. /\ sq_blocked[q] \in Seq(Threads) /\ Distinct(sq_blocked[q])
      /\ sq_free[q] \in Seq(SleepQueues) /\ Distinct(sq_free[q])
      /\ Len(sq_blocked[q]) = Len(sq_free[q]) + 1
  BY <1>3 DEF QueuesOK, SleepQueueTypeOK, SleepersFound, SleepQueuesConserved
<1> DEFINE b == Append(sq_blocked[q], td)
           f == <<r>> \o sq_free[q]
<1>5. /\ b \in Seq(Threads) /\ Range(b) = Range(sq_blocked[q]) \cup {td}
      /\ Distinct(b) /\ b # <<>>
  <2>1. b \in Seq(Threads) /\ Range(b) = Range(sq_blocked[q]) \cup {td} /\ Distinct(b)
    BY <1>2, <1>4, AppendRange
  <2>2. b # <<>>
    BY <1>4, AppendProperties
  <2> QED  BY <2>1, <2>2
<1>6. /\ f \in Seq(SleepQueues) /\ Range(f) = Range(sq_free[q]) \cup {r}
      /\ Distinct(f) /\ Len(f) = Len(sq_free[q]) + 1
  <2>1. /\ <<r>> \in Seq(SleepQueues) /\ Range(<<r>>) = {r} /\ Distinct(<<r>>)
        /\ Len(<<r>>) = 1
    BY <1>2 DEF Range, Distinct
  <2>2. Range(<<r>>) \cap Range(sq_free[q]) = {}
    BY <1>2, <2>1
  <2>3. Len(sq_free[q]) \in Nat
    BY <1>4, LenProperties
  <2>4. /\ f \in Seq(SleepQueues)
        /\ Len(f) = Len(<<r>>) + Len(sq_free[q])
        /\ Range(f) = Range(<<r>>) \cup Range(sq_free[q])
        /\ Distinct(<<r>>) /\ Distinct(sq_free[q])
             /\ Range(<<r>>) \cap Range(sq_free[q]) = {} => Distinct(f)
    BY <1>4, <2>1, ConcatRange
  <2> QED  BY <1>4, <2>1, <2>2, <2>3, <2>4
<1>7. Len(b) = Len(f) + 1
  <2>1. Len(b) = Len(sq_blocked[q]) + 1 /\ Len(sq_blocked[q]) \in Nat
    BY <1>4, AppendProperties, LenProperties
  <2> QED  BY <1>4, <1>6, <2>1
<1>8. /\ \A sq \in SleepQueues :
           /\ sq_wchan'[sq] = sq_wchan[sq]
           /\ sq_blocked'[sq] = IF sq = q THEN b ELSE sq_blocked[sq]
           /\ sq_free'[sq] = IF sq = q THEN f ELSE sq_free[sq]
      /\ \A u \in Threads :
           /\ td_wchan'[u] = IF u = td THEN wchan ELSE td_wchan[u]
           /\ td_sleepqueue'[u] = IF u = td THEN NULL ELSE td_sleepqueue[u]
           /\ td_state'[u] = IF u = td THEN "SLEEPING" ELSE td_state[u]
  BY <1>1, <1>2 DEF QueuesOK, SleepQueueTypeOK
<1> HIDE DEF b, f
<1>9. SleepQueueTypeOK'
  <2>1. /\ sq_blocked' \in [SleepQueues -> Seq(Threads)]
        /\ sq_free' \in [SleepQueues -> Seq(SleepQueues)]
    BY <1>1, <1>5, <1>6 DEF QueuesOK, SleepQueueTypeOK, b, f
  <2> QED  BY <2>1 DEF QueuesOK, SleepQueueTypeOK
<1>10. SleepersFound'
  <2>1. ASSUME NEW u \in Threads, td_state'[u] = "SLEEPING"
        PROVE  \E sq \in SleepQueues : /\ sq_lookup(sq, td_wchan[u])'
                                       /\ u \in Range(sq_blocked'[sq])
    <3>1. CASE u = td
      BY <1>3, <1>5, <1>8, <3>1 DEF sq_lookup
    <3>2. CASE u # td
      <4>1. PICK sq \in SleepQueues : /\ sq_lookup(sq, td_wchan[u])
                                      /\ u \in Range(sq_blocked[sq])
        BY <1>8, <2>1, <3>2 DEF QueuesOK, SleepersFound
      <4>2. u \in Range(sq_blocked'[sq])
        BY <1>5, <1>8, <4>1
      <4> QED  BY <1>8, <3>2, <4>1, <4>2 DEF sq_lookup
    <3> QED  BY <3>1, <3>2
  <2>2. ASSUME NEW sq \in SleepQueues
        PROVE  /\ Distinct(sq_blocked'[sq])
               /\ \A u \in Range(sq_blocked'[sq]) :
                    td_state'[u] = "SLEEPING" /\ td_wchan'[u] = sq_wchan'[sq]
               /\ sq_blocked'[sq] = <<>> <=> sq_wchan'[sq] = NULL
    <3>1. sq_blocked[sq] \in Seq(Threads)
      BY DEF QueuesOK, SleepQueueTypeOK
    <3>2. \A u \in Range(sq_blocked[sq]) : u \in Threads /\ u # td
      BY <1>2, <3>1 DEF Range
    <3>3. /\ Distinct(sq_blocked[sq])
          /\ \A u \in Range(sq_blocked[sq]) :
               td_state[u] = "SLEEPING" /\ td_wchan[u] = sq_wchan[sq]
          /\ sq_blocked[sq] = <<>> <=> sq_wchan[sq] = NULL
      BY DEF QueuesOK, SleepersFound
    <3>4. \A u \in Range(sq_blocked[sq]) :
            td_state'[u] = "SLEEPING" /\ td_wchan'[u] = sq_wchan[sq]
      BY <1>8, <3>2, <3>3
    <3>5. CASE sq = q
      <4>1. sq_blocked'[sq] = b /\ sq_wchan'[sq] = wchan
        BY <1>3, <1>8, <3>5
      <4>2. td_state'[td] = "SLEEPING" /\ td_wchan'[td] = wchan
        BY <1>8
      <4>3. \A u \in Range(b) : td_state'[u] = "SLEEPING" /\ td_wchan'[u] = wchan
        BY <1>3, <1>5, <3>4, <3>5, <4>2
      <4> QED  BY <1>3, <1>5, <4>1, <4>3
    <3>6. CASE sq # q
      <4>1. sq_blocked'[sq] = sq_blocked[sq] /\ sq_wchan'[sq] = sq_wchan[sq]
        BY <1>8, <3>6
      <4> QED  BY <3>3, <3>4, <4>1
    <3> QED  BY <3>5, <3>6
  <2>3. \A sq, sr \in SleepQueues :
          sq_wchan'[sq] # NULL /\ sq_wchan'[sq] = sq_wchan'[sr] => sq = sr
    BY DEF QueuesOK, SleepersFound
  <2> QED  BY <2>1, <2>2, <2>3 DEF SleepersFound
<1>11. SleepQueuesConserved'
  <2>1. ASSUME NEW u \in Threads
        PROVE  LET sq == td_sleepqueue'[u]
               IN  IF td_state'[u] = "SLEEPING" THEN sq = NULL
                   ELSE /\ sq # NULL
                        /\ sq_wchan'[sq] = NULL
                        /\ sq_blocked'[sq] = <<>> /\ sq_free'[sq] = <<>>
    <3>1. CASE u = td
      BY <1>8, <3>1
    <3>2. CASE u # td
      <4>1. td_sleepqueue[u] \in SleepQueues \cup {NULL}
        BY DEF QueuesOK, SleepQueueTypeOK
      <4> QED  BY <1>3, <1>8, <3>2, <4>1 DEF QueuesOK, SleepQueuesConserved
    <3> QED  BY <3>1, <3>2
  <2>2. \A u, v \in Threads :
          td_sleepqueue'[u] # NULL /\ td_sleepqueue'[u] = td_sleepqueue'[v] => u = v
    BY <1>8 DEF QueuesOK, SleepQueuesConserved
  <2>3. ASSUME NEW sq \in SleepQueues
        PROVE  /\ sq_wchan'[sq] # NULL => Len(sq_blocked'[sq]) = Len(sq_free'[sq]) + 1
               /\ Distinct(sq_free'[sq])
    <3>1. CASE sq = q
      BY <1>6, <1>7, <1>8, <3>1
    <3>2. CASE sq # q
      BY <1>8, <3>2 DEF QueuesOK, SleepQueuesConserved
    <3> QED  BY <3>1, <3>2
  <2>4. ASSUME NEW sq \in SleepQueues, NEW e \in Range(sq_free'[sq])
        PROVE  sq_wchan'[e] = NULL /\ \A u \in Threads : td_sleepqueue'[u] # e
    <3>1. e = r \/ e \in Range(sq_free[sq])
      BY <1>6, <1>8, <2>4
    <3>2. e \in SleepQueues
      <4>1. sq_free[sq] \in Seq(SleepQueues)
        BY DEF QueuesOK, SleepQueueTypeOK
      <4> QED  BY <1>2, <3>1, <4>1 DEF Range
    <3>3. e # NULL
      BY <3>2, SleepQueueAssumption DEF SleepQueues
    <3>4. sq_wchan[e] = NULL /\ \A u \in Threads : u # td => td_sleepqueue[u] # e
      BY <1>2, <3>1 DEF QueuesOK, SleepQueuesConserved
    <3> QED  BY <1>8, <3>2, <3>3, <3>4
  <2> QED  BY <2>1, <2>2, <2>3, <2>4 DEF SleepQueuesConserved
<1>12. RecordsOK'
  <2>1. \A u \in Threads : td_state'[u] = "SLEEPING" <=> td_wchan'[u] # NULL
    BY <1>3, <1>8 DEF QueuesOK, RecordsOK
  <2>2. \A sq \in SleepQueues : sq_wchan'[sq] = NULL => sq_free'[sq] = <<>>
    BY <1>3, <1>8 DEF QueuesOK, RecordsOK
  <2>3. ASSUME NEW sq \in SleepQueues, NEW sr \in SleepQueues, sq # sr
        PROVE  Range(sq_free'[sq]) \cap Range(sq_free'[sr]) = {}
    <3>1. Range(sq_free[sq]) \cap Range(sq_free[sr]) = {}
      BY <2>3 DEF QueuesOK, RecordsOK
    <3> QED  BY <1>2, <1>6, <1>8, <2>3, <3>1
  <2> QED  BY <2>1, <2>2, <2>3 DEF RecordsOK
<1> QED  BY <1>9, <1>10, <1>11, <1>12 DEF QueuesOK

LEMMA EnterOK ==
  ASSUME QueuesOK, NEW td \in Threads, td_state[td] = "READY", NEW wchan \in Wchans,
         sq_enter(td, wchan),
         td_slpintr' \in SUBSET Threads, td_slptimed' \in SUBSET Threads
  PROVE  /\ QueuesOK'
         /\ td_state' = [td_state EXCEPT ![td] = "SLEEPING"]
         /\ td_wchan' = [td_wchan EXCEPT ![td] = wchan]
<1>1. /\ td_wchan' = [td_wchan EXCEPT ![td] = wchan]
      /\ td_sleepqueue' = [td_sleepqueue EXCEPT ![td] = NULL]
      /\ td_state' = [td_state EXCEPT ![td] = "SLEEPING"]
      /\ td_prio' = td_prio
  BY DEF sq_enter
<1>2. \/ /\ NoQueue(wchan)
         /\ sq_wchan' = [sq_wchan EXCEPT ![td_sleepqueue[td]] = wchan]
         /\ sq_blocked' = [sq_blocked EXCEPT ![td_sleepqueue[td]] = Append(@, td)]
         /\ sq_free' = sq_free
      \/ \E sq \in SleepQueues :
           /\ sq_lookup(sq, wchan)
           /\ sq_free' = [sq_free EXCEPT ![sq] = <<td_sleepqueue[td]>> \o @]
           /\ sq_blocked' = [sq_blocked EXCEPT ![sq] = Append(@, td)]
           /\ sq_wchan' = sq_wchan
  BY DEF sq_enter
<1>3. QueuesOK'
  BY <1>1, <1>2, EnterFirst, EnterNext
<1> QED  BY <1>1, <1>3

\* Nothing happens to the queues.
LEMMA Unmoved ==
  ASSUME QueuesOK,
         UNCHANGED <<td_state, td_prio, td_wchan, td_sleepqueue, sq_wchan, sq_blocked,
                     sq_free>>,
         td_slpintr' \in SUBSET Threads, td_slptimed' \in SUBSET Threads
  PROVE  QueuesOK'
<1>1. SleepQueueTypeOK'
  BY DEF QueuesOK, SleepQueueTypeOK
<1>2. SleepersFound'
  BY DEF QueuesOK, SleepersFound, sq_lookup
<1>3. SleepQueuesConserved'
  BY DEF QueuesOK, SleepQueuesConserved
<1>4. RecordsOK'
  BY DEF QueuesOK, RecordsOK
<1> QED  BY <1>1, <1>2, <1>3, <1>4 DEF QueuesOK

-----------------------------------------------------------------------------
(* Waking up. *)

\* tds are threads of the queue q, each once.
Leaving(tds, q) ==
  /\ q \in SleepQueues /\ sq_wchan[q] # NULL
  /\ tds \in Seq(Threads) /\ Distinct(tds)
  /\ Range(tds) \subseteq Range(sq_blocked[q])

\* What q keeps, and which records the threads get.
Remaining(tds, q) == Sublist(sq_blocked[q], Threads \ Range(tds))

Unused(tds, q) == SubSeq(sq_free[q], Len(tds) + 1, Len(sq_free[q]))

Gift(tds, q, td) == LeavesWith(q, IndexOf(tds, td))

LEMMA WhoStays ==
  ASSUME QueuesOK, NEW tds, NEW q, Leaving(tds, q)
  PROVE  /\ Remaining(tds, q) \in Seq(Threads) /\ Distinct(Remaining(tds, q))
         /\ Range(Remaining(tds, q)) = Range(sq_blocked[q]) \ Range(tds)
         /\ Len(Remaining(tds, q)) = Len(sq_blocked[q]) - Len(tds)
         /\ Len(tds) \in 0 .. Len(sq_blocked[q])
         /\ Len(sq_blocked[q]) = Len(sq_free[q]) + 1 /\ Len(sq_free[q]) \in Nat
<1> DEFINE b == sq_blocked[q]
           r == Remaining(tds, q)
<1>1. /\ b \in Seq(Threads) /\ Distinct(b) /\ tds \in Seq(Threads) /\ Distinct(tds)
      /\ Range(tds) \subseteq Range(b)
      /\ Len(b) = Len(sq_free[q]) + 1 /\ Len(sq_free[q]) \in Nat
  BY LenProperties
     DEF Leaving, QueuesOK, SleepQueueTypeOK, SleepersFound, SleepQueuesConserved
<1>2. /\ r \in Seq(Threads) /\ Distinct(r)
      /\ Range(r) = Range(b) \cap (Threads \ Range(tds))
  BY <1>1, SublistRange DEF Remaining
<1> HIDE DEF b, r
<1>3. Range(r) = Range(b) \ Range(tds)
  <2>1. Range(b) \subseteq Threads
    BY <1>1 DEF Range
  <2> QED  BY <1>2, <2>1
<1>4. /\ IsFiniteSet(Range(b)) /\ Cardinality(Range(b)) = Len(b)
      /\ IsFiniteSet(Range(tds)) /\ Cardinality(Range(tds)) = Len(tds)
      /\ IsFiniteSet(Range(r)) /\ Cardinality(Range(r)) = Len(r)
  BY <1>1, <1>2, DistinctCardinality
<1>5. Cardinality(Range(b) \ Range(tds))
        = Cardinality(Range(b)) - Cardinality(Range(b) \cap Range(tds))
  BY <1>4, FS_Difference
<1>6. Range(b) \cap Range(tds) = Range(tds)
  BY <1>1
<1>7. Len(r) = Len(b) - Len(tds)
  BY <1>3, <1>4, <1>5, <1>6
<1>8. Len(r) \in Nat /\ Len(b) \in Nat /\ Len(tds) \in Nat
  BY <1>1, <1>2, LenProperties
<1>9. Len(tds) \in 0 .. Len(b)
  BY <1>7, <1>8
<1> QED  BY <1>1, <1>2, <1>3, <1>7, <1>9 DEF b, r

LEMMA WhatIsUnused ==
  ASSUME QueuesOK, NEW tds, NEW q, Leaving(tds, q)
  PROVE  /\ Unused(tds, q) \in Seq(SleepQueues) /\ Distinct(Unused(tds, q))
         /\ Range(Unused(tds, q)) \subseteq Range(sq_free[q])
         /\ \A i \in 1 .. Len(sq_free[q]) :
              i <= Len(tds) => sq_free[q][i] \notin Range(Unused(tds, q))
         /\ Len(tds) = Len(sq_blocked[q]) => Unused(tds, q) = <<>>
         /\ Len(tds) # Len(sq_blocked[q]) =>
              Len(Remaining(tds, q)) = Len(Unused(tds, q)) + 1
<1>1. /\ Len(Remaining(tds, q)) = Len(sq_blocked[q]) - Len(tds)
      /\ Len(tds) \in 0 .. Len(sq_blocked[q])
      /\ Len(sq_blocked[q]) = Len(sq_free[q]) + 1 /\ Len(sq_free[q]) \in Nat
  BY WhoStays
<1>2. sq_free[q] \in Seq(SleepQueues) /\ Distinct(sq_free[q])
  BY DEF Leaving, QueuesOK, SleepQueueTypeOK, SleepQueuesConserved
<1>3. PICK n \in Nat, k \in Nat : n = Len(sq_free[q]) /\ k = Len(tds) /\ k <= n + 1
  BY <1>1
<1>4. CASE k = n + 1
  <2>1. Unused(tds, q) = <<>>
    <3>1. k + 1 \in Int /\ n \in Int /\ n < k + 1
      BY <1>4
    <3>2. SubSeq(sq_free[q], k + 1, n) = <<>>
      BY <3>1, SubSeqEmpty
    <3> QED  BY <1>3, <3>2 DEF Unused
  <2>2. Range(<<>>) = {} /\ Distinct(<<>>)
    BY DEF Range, Distinct
  <2>3. Len(tds) = Len(sq_blocked[q])
    BY <1>1, <1>3, <1>4
  <2> QED  BY <2>1, <2>2, <2>3
<1>5. CASE k # n + 1
  <2>1. k \in 0 .. n
    BY <1>3, <1>5
  <2>2. LET t == SubSeq(sq_free[q], k + 1, Len(sq_free[q]))
        IN  /\ t \in Seq(SleepQueues) /\ Len(t) = Len(sq_free[q]) - k /\ Distinct(t)
            /\ Range(t) \subseteq Range(sq_free[q])
            /\ \A i \in 1 .. k : sq_free[q][i] \notin Range(t)
    BY <1>2, <1>3, <2>1, DropRange
  <2>3. Unused(tds, q) = SubSeq(sq_free[q], k + 1, Len(sq_free[q]))
    BY <1>3 DEF Unused
  <2> DEFINE t == Unused(tds, q)
  <2> HIDE DEF t
  <2>4. /\ t \in Seq(SleepQueues) /\ Len(t) = n - k /\ Distinct(t)
        /\ Range(t) \subseteq Range(sq_free[q])
        /\ \A i \in 1 .. k : sq_free[q][i] \notin Range(t)
    BY <1>3, <2>2, <2>3 DEF t
  <2>5. Len(tds) # Len(sq_blocked[q])
    BY <1>1, <1>3, <1>5
  <2>6. Len(Remaining(tds, q)) = Len(t) + 1
    BY <1>1, <1>3, <2>4
  <2>7. \A i \in 1 .. Len(sq_free[q]) : i <= Len(tds) => i \in 1 .. k
    BY <1>3
  <2> QED  BY <2>4, <2>5, <2>6, <2>7 DEF t
<1> QED  BY <1>4, <1>5

LEMMA WhoGetsWhat ==
  ASSUME QueuesOK, NEW tds, NEW q, Leaving(tds, q)
  PROVE  /\ \A td \in Range(tds) :
              \/ Gift(tds, q, td) = q /\ Len(tds) = Len(sq_blocked[q])
              \/ /\ Gift(tds, q, td) \in Range(sq_free[q])
                 /\ Gift(tds, q, td) \notin Range(Unused(tds, q))
         /\ \A td, u \in Range(tds) : Gift(tds, q, td) = Gift(tds, q, u) => td = u
<1>1. /\ Len(tds) \in 0 .. Len(sq_blocked[q])
      /\ Len(sq_blocked[q]) = Len(sq_free[q]) + 1 /\ Len(sq_free[q]) \in Nat
  BY WhoStays
<1>2. /\ sq_free[q] \in Seq(SleepQueues) /\ Distinct(sq_free[q])
      /\ \A f \in Range(sq_free[q]) : sq_wchan[f] = NULL
      /\ tds \in Seq(Threads) /\ sq_wchan[q] # NULL
  BY DEF Leaving, QueuesOK, SleepQueueTypeOK, SleepQueuesConserved
<1>3. PICK n \in Nat, k \in Nat : /\ n = Len(sq_free[q]) /\ k = Len(tds) /\ k <= n + 1
                                  /\ Len(sq_blocked[q]) = n + 1
  BY <1>1
<1>4. DOMAIN sq_free[q] = 1 .. n
  BY <1>2, <1>3, LenProperties
<1>5. \A i \in 1 .. n : i <= k => sq_free[q][i] \notin Range(Unused(tds, q))
  BY <1>3, WhatIsUnused
<1>6. ASSUME NEW td \in Range(tds)
      PROVE  /\ IndexOf(tds, td) \in 1 .. k /\ tds[IndexOf(tds, td)] = td
             /\ Gift(tds, q, td) = IF IndexOf(tds, td) = n + 1 THEN q
                                   ELSE sq_free[q][IndexOf(tds, td)]
  <2>1. IndexOf(tds, td) \in 1 .. Len(tds) /\ tds[IndexOf(tds, td)] = td
    BY <1>2, IndexOfProperty
  <2> QED  BY <1>3, <2>1 DEF Gift, LeavesWith
<1>7. ASSUME NEW td \in Range(tds)
      PROVE  \/ Gift(tds, q, td) = q /\ Len(tds) = Len(sq_blocked[q])
             \/ /\ Gift(tds, q, td) \in Range(sq_free[q])
                /\ Gift(tds, q, td) \notin Range(Unused(tds, q))
  <2>1. PICK i \in 1 .. k : /\ i = IndexOf(tds, td)
                            /\ Gift(tds, q, td) = IF i = n + 1 THEN q ELSE sq_free[q][i]
    BY <1>6
  <2>2. CASE i = n + 1
    BY <1>3, <2>1, <2>2
  <2>3. CASE i # n + 1
    <3>1. i \in 1 .. n /\ i <= k
      BY <1>3, <2>3
    <3> QED  BY <1>4, <1>5, <2>1, <2>3, <3>1 DEF Range
  <2> QED  BY <2>2, <2>3
<1>8. ASSUME NEW td \in Range(tds), NEW u \in Range(tds),
             Gift(tds, q, td) = Gift(tds, q, u)
      PROVE  td = u
  <2>1. PICK i \in 1 .. k : /\ i = IndexOf(tds, td) /\ tds[i] = td
                            /\ Gift(tds, q, td) = IF i = n + 1 THEN q ELSE sq_free[q][i]
    BY <1>6
  <2>2. PICK j \in 1 .. k : /\ j = IndexOf(tds, u) /\ tds[j] = u
                            /\ Gift(tds, q, u) = IF j = n + 1 THEN q ELSE sq_free[q][j]
    BY <1>6
  <2>3. \A l \in 1 .. n : sq_free[q][l] # q
    BY <1>2, <1>4 DEF Range
  <2>4. (i # n + 1 => i \in 1 .. n) /\ (j # n + 1 => j \in 1 .. n)
    BY <1>3
  <2>5. i = j
    BY <1>2, <1>4, <1>8, <2>1, <2>2, <2>3, <2>4 DEF Distinct
  <2> QED  BY <2>1, <2>2, <2>5
<1> QED  BY <1>7, <1>8

\* The threads of W are awake now, and the others are as they were.
Woken(W) ==
  /\ td_state' = [td \in Threads |-> IF td \in W THEN "READY" ELSE td_state[td]]
  /\ td_wchan' = [td \in Threads |-> IF td \in W THEN NULL ELSE td_wchan[td]]

LEMMA LeaveOK ==
  ASSUME QueuesOK, NEW tds, NEW q, Leaving(tds, q), sq_leave(tds, q),
         td_slpintr' \in SUBSET Threads, td_slptimed' \in SUBSET Threads
  PROVE  QueuesOK' /\ Woken(Range(tds))
<1> DEFINE W == Range(tds)
           r == Remaining(tds, q)
           f == Unused(tds, q)
           g(td) == Gift(tds, q, td)
           All == Len(tds) = Len(sq_blocked[q])
<1>1. /\ q \in SleepQueues /\ sq_wchan[q] # NULL /\ W \subseteq Range(sq_blocked[q])
      /\ W \subseteq Threads
  BY DEF Leaving, Range
<1>2. /\ sq_blocked' = [sq_blocked EXCEPT ![q] = r]
      /\ sq_wchan' = [sq_wchan EXCEPT ![q] = IF r = <<>> THEN NULL ELSE @]
      /\ sq_free' = [sq_free EXCEPT ![q] = f]
      /\ td_sleepqueue' = [td \in Threads |-> IF td \in W THEN g(td) ELSE td_sleepqueue[td]]
      /\ td_wchan' = [td \in Threads |-> IF td \in W THEN NULL ELSE td_wchan[td]]
      /\ td_state' = [td \in Threads |-> IF td \in W THEN "READY" ELSE td_state[td]]
      /\ td_prio' = td_prio
  <2>1. /\ sq_blocked' = [sq_blocked EXCEPT ![q] = r]
        /\ sq_wchan' = [sq_wchan EXCEPT ![q] = IF r = <<>> THEN NULL ELSE @]
        /\ sq_free' = [sq_free EXCEPT ![q] = f]
    BY <1>1 DEF sq_leave, Remaining, Unused, QueuesOK, SleepQueueTypeOK
  <2>2. td_sleepqueue' = [td \in Threads |-> IF td \in W THEN g(td) ELSE td_sleepqueue[td]]
    BY DEF sq_leave, Gift
  <2> QED  BY <2>1, <2>2 DEF sq_leave
<1>3. /\ r \in Seq(Threads) /\ Distinct(r) /\ Range(r) = Range(sq_blocked[q]) \ W
      /\ r = <<>> <=> All
  <2>1. /\ r \in Seq(Threads) /\ Distinct(r) /\ Range(r) = Range(sq_blocked[q]) \ W
        /\ Len(r) = Len(sq_blocked[q]) - Len(tds)
        /\ Len(tds) \in 0 .. Len(sq_blocked[q])
        /\ Len(sq_blocked[q]) = Len(sq_free[q]) + 1 /\ Len(sq_free[q]) \in Nat
    BY WhoStays
  <2>2. r = <<>> <=> Len(r) = 0
    BY <2>1, EmptySeq
  <2> QED  BY <2>1, <2>2
<1>4. /\ f \in Seq(SleepQueues) /\ Distinct(f) /\ Range(f) \subseteq Range(sq_free[q])
      /\ All => f = <<>>
      /\ ~ All => Len(r) = Len(f) + 1
  BY WhatIsUnused
<1>5. /\ \A td \in W : \/ g(td) = q /\ All
                       \/ g(td) \in Range(sq_free[q]) /\ g(td) \notin Range(f)
      /\ \A td, u \in W : g(td) = g(u) => td = u
  BY WhoGetsWhat
<1> HIDE DEF W, r, f, g, All
<1>6. ASSUME NEW sq \in SleepQueues, NEW e \in Range(sq_free[sq])
      PROVE  /\ e \in SleepQueues /\ e # NULL /\ e # q
             /\ sq_wchan[e] = NULL /\ sq_blocked[e] = <<>> /\ sq_free[e] = <<>>
             /\ \A td \in Threads : td_sleepqueue[td] # e
             /\ \A sr \in SleepQueues : sr # sq => e \notin Range(sq_free[sr])
  <2>1. e \in SleepQueues
    <3>1. sq_free[sq] \in Seq(SleepQueues)
      BY DEF QueuesOK, SleepQueueTypeOK
    <3> QED  BY <1>6, <3>1 DEF Range
  <2>2. e # NULL
    BY <2>1, SleepQueueAssumption DEF SleepQueues
  <2>3. sq_wchan[e] = NULL /\ \A td \in Threads : td_sleepqueue[td] # e
    BY <1>6 DEF QueuesOK, SleepQueuesConserved
  <2>4. sq_blocked[e] = <<>> /\ sq_free[e] = <<>>
    BY <2>1, <2>3 DEF QueuesOK, SleepersFound, RecordsOK
  <2>5. \A sr \in SleepQueues : sr # sq => e \notin Range(sq_free[sr])
    BY <1>6 DEF QueuesOK, RecordsOK
  <2> QED  BY <1>1, <2>1, <2>2, <2>3, <2>4, <2>5
<1>7. /\ \A sq \in SleepQueues :
           /\ sq_blocked'[sq] = IF sq = q THEN r ELSE sq_blocked[sq]
           /\ sq_wchan'[sq] = IF sq = q /\ r = <<>> THEN NULL ELSE sq_wchan[sq]
           /\ sq_free'[sq] = IF sq = q THEN f ELSE sq_free[sq]
      /\ \A td \in Threads :
           /\ td_sleepqueue'[td] = IF td \in W THEN g(td) ELSE td_sleepqueue[td]
           /\ td_wchan'[td] = IF td \in W THEN NULL ELSE td_wchan[td]
           /\ td_state'[td] = IF td \in W THEN "READY" ELSE td_state[td]
  BY <1>1, <1>2 DEF QueuesOK, SleepQueueTypeOK
<1>8. \A td \in W : g(td) \in SleepQueues /\ g(td) # NULL
  <2>1. q # NULL
    BY <1>1, SleepQueueAssumption DEF SleepQueues
  <2> QED  BY <1>1, <1>5, <1>6, <2>1
<1>9. SleepQueueTypeOK'
  <2>1. td_sleepqueue' \in [Threads -> SleepQueues \cup {NULL}]
    BY <1>2, <1>8 DEF QueuesOK, SleepQueueTypeOK
  <2>2. /\ sq_blocked' \in [SleepQueues -> Seq(Threads)]
        /\ sq_free' \in [SleepQueues -> Seq(SleepQueues)]
    BY <1>2, <1>3, <1>4 DEF QueuesOK, SleepQueueTypeOK
  <2>3. sq_wchan' \in [SleepQueues -> Wchans \cup {NULL}]
    BY <1>2 DEF QueuesOK, SleepQueueTypeOK
  <2>4. /\ td_state' \in [Threads -> {"READY", "SLEEPING"}]
        /\ td_wchan' \in [Threads -> Wchans \cup {NULL}]
        /\ td_prio' \in [Threads -> 0 .. LowestPrio]
    BY <1>2 DEF QueuesOK, SleepQueueTypeOK
  <2> QED  BY <2>1, <2>2, <2>3, <2>4 DEF SleepQueueTypeOK
<1>10. ASSUME NEW sq \in SleepQueues, sq # q, NEW u \in Range(sq_blocked[sq])
       PROVE  u \in Threads /\ u \notin W
  <2>1. u \in Threads
    <3>1. sq_blocked[sq] \in Seq(Threads)
      BY DEF QueuesOK, SleepQueueTypeOK
    <3> QED  BY <1>10, <3>1 DEF Range
  <2>2. td_wchan[u] = sq_wchan[sq] /\ sq_wchan[sq] # NULL
    BY <1>10 DEF QueuesOK, SleepersFound, Range
  <2>3. \A w \in W : td_wchan[w] = sq_wchan[q]
    BY <1>1 DEF QueuesOK, SleepersFound
  <2>4. sq_wchan[sq] # sq_wchan[q]
    BY <1>1, <1>10 DEF QueuesOK, SleepersFound
  <2> QED  BY <2>1, <2>2, <2>3, <2>4
<1>11. SleepersFound'
  <2>1. ASSUME NEW u \in Threads, td_state'[u] = "SLEEPING"
        PROVE  \E sq \in SleepQueues : /\ sq_lookup(sq, td_wchan[u])'
                                       /\ u \in Range(sq_blocked'[sq])
    <3>1. u \notin W /\ td_state[u] = "SLEEPING"
      BY <1>7, <2>1
    <3>2. PICK sq \in SleepQueues : /\ sq_lookup(sq, td_wchan[u])
                                    /\ u \in Range(sq_blocked[sq])
      BY <3>1 DEF QueuesOK, SleepersFound
    <3>3. u \in Range(sq_blocked'[sq])
      BY <1>3, <1>7, <3>1, <3>2
    <3>4. sq = q => r # <<>>
      BY <1>3, <3>1, <3>2 DEF Range
    <3> QED  BY <1>7, <3>1, <3>2, <3>3, <3>4 DEF sq_lookup
  <2>2. ASSUME NEW sq \in SleepQueues
        PROVE  /\ Distinct(sq_blocked'[sq])
               /\ \A u \in Range(sq_blocked'[sq]) :
                    td_state'[u] = "SLEEPING" /\ td_wchan'[u] = sq_wchan'[sq]
               /\ sq_blocked'[sq] = <<>> <=> sq_wchan'[sq] = NULL
    <3>1. /\ Distinct(sq_blocked[sq])
          /\ \A u \in Range(sq_blocked[sq]) :
               u \in Threads /\ td_state[u] = "SLEEPING" /\ td_wchan[u] = sq_wchan[sq]
          /\ sq_blocked[sq] = <<>> <=> sq_wchan[sq] = NULL
      <4>1. sq_blocked[sq] \in Seq(Threads)
        BY DEF QueuesOK, SleepQueueTypeOK
      <4>2. \A u \in Range(sq_blocked[sq]) : u \in Threads
        BY <4>1 DEF Range
      <4> QED  BY <4>2 DEF QueuesOK, SleepersFound
    <3>2. CASE sq = q
      <4>1. /\ sq_blocked'[sq] = r
            /\ sq_wchan'[sq] = IF r = <<>> THEN NULL ELSE sq_wchan[sq]
        BY <1>7, <3>2
      <4>2. \A u \in Range(r) : u \in Range(sq_blocked[sq]) /\ u \notin W
        BY <1>3, <3>2
      <4>3. \A u \in Range(r) : td_state'[u] = "SLEEPING" /\ td_wchan'[u] = sq_wchan[sq]
        BY <1>7, <3>1, <4>2
      <4>4. Range(<<>>) = {}
        BY DEF Range
      <4> QED  BY <1>1, <1>3, <3>2, <4>1, <4>3, <4>4
    <3>3. CASE sq # q
      <4>1. sq_blocked'[sq] = sq_blocked[sq] /\ sq_wchan'[sq] = sq_wchan[sq]
        BY <1>7, <3>3
      <4>2. \A u \in Range(sq_blocked[sq]) :
              td_state'[u] = "SLEEPING" /\ td_wchan'[u] = sq_wchan[sq]
        BY <1>7, <1>10, <3>1, <3>3
      <4> QED  BY <3>1, <4>1, <4>2
    <3> QED  BY <3>2, <3>3
  <2>3. \A sq, sr \in SleepQueues :
          sq_wchan'[sq] # NULL /\ sq_wchan'[sq] = sq_wchan'[sr] => sq = sr
    BY <1>7 DEF QueuesOK, SleepersFound
  <2> QED  BY <2>1, <2>2, <2>3 DEF SleepersFound
<1>12. ASSUME NEW td \in Threads, td \notin W, td_sleepqueue[td] # NULL
       PROVE  /\ td_sleepqueue[td] \in SleepQueues /\ td_sleepqueue[td] # q
              /\ \A u \in W : g(u) # td_sleepqueue[td]
  <2>1. /\ td_sleepqueue[td] \in SleepQueues
        /\ sq_wchan[td_sleepqueue[td]] = NULL
    BY <1>12 DEF QueuesOK, SleepQueueTypeOK, SleepQueuesConserved
  <2>2. td_sleepqueue[td] # q
    BY <1>1, <2>1
  <2>3. \A e \in Range(sq_free[q]) : td_sleepqueue[td] # e
    BY <1>1, <1>6
  <2> QED  BY <1>5, <2>1, <2>2, <2>3
<1>13. SleepQueuesConserved'
  <2>1. ASSUME NEW u \in Threads
        PROVE  LET sq == td_sleepqueue'[u]
               IN  IF td_state'[u] = "SLEEPING" THEN sq = NULL
                   ELSE /\ sq # NULL
                        /\ sq_wchan'[sq] = NULL
                        /\ sq_blocked'[sq] = <<>> /\ sq_free'[sq] = <<>>
    <3>1. CASE u \in W
      <4>1. td_sleepqueue'[u] = g(u) /\ td_state'[u] # "SLEEPING"
        BY <1>7, <3>1
      <4>2. CASE g(u) = q /\ All
        BY <1>1, <1>3, <1>4, <1>7, <1>8, <3>1, <4>1, <4>2
      <4>3. CASE g(u) \in Range(sq_free[q])
        BY <1>1, <1>6, <1>7, <4>1, <4>3
      <4> QED  BY <1>5, <3>1, <4>2, <4>3
    <3>2. CASE u \notin W
      <4>1. td_sleepqueue'[u] = td_sleepqueue[u] /\ td_state'[u] = td_state[u]
        BY <1>7, <3>2
      <4>2. CASE td_state[u] = "SLEEPING"
        BY <4>1, <4>2 DEF QueuesOK, SleepQueuesConserved
      <4>3. CASE td_state[u] # "SLEEPING"
        <5>1. /\ td_sleepqueue[u] # NULL
              /\ sq_wchan[td_sleepqueue[u]] = NULL
              /\ sq_blocked[td_sleepqueue[u]] = <<>> /\ sq_free[td_sleepqueue[u]] = <<>>
          BY <4>3 DEF QueuesOK, SleepQueuesConserved
        <5>2. td_sleepqueue[u] \in SleepQueues /\ td_sleepqueue[u] # q
          BY <1>12, <3>2, <5>1
        <5> QED  BY <1>7, <4>1, <4>3, <5>1, <5>2
      <4> QED  BY <4>2, <4>3
    <3> QED  BY <3>1, <3>2
  <2>2. ASSUME NEW u \in Threads, NEW v \in Threads, td_sleepqueue'[u] # NULL,
               td_sleepqueue'[u] = td_sleepqueue'[v]
        PROVE  u = v
    <3>1. CASE u \in W /\ v \in W
      BY <1>5, <1>7, <2>2, <3>1
    <3>2. CASE u \notin W /\ v \notin W
      BY <1>7, <2>2, <3>2 DEF QueuesOK, SleepQueuesConserved
    <3>3. CASE u \in W /\ v \notin W
      BY <1>7, <1>12, <2>2, <3>3
    <3>4. CASE u \notin W /\ v \in W
      BY <1>7, <1>12, <2>2, <3>4
    <3> QED  BY <3>1, <3>2, <3>3, <3>4
  <2>3. ASSUME NEW sq \in SleepQueues
        PROVE  /\ sq_wchan'[sq] # NULL => Len(sq_blocked'[sq]) = Len(sq_free'[sq]) + 1
               /\ Distinct(sq_free'[sq])
    <3>1. CASE sq = q
      BY <1>3, <1>4, <1>7, <3>1
    <3>2. CASE sq # q
      BY <1>7, <3>2 DEF QueuesOK, SleepQueuesConserved
    <3> QED  BY <3>1, <3>2
  <2>4. ASSUME NEW sq \in SleepQueues, NEW e \in Range(sq_free'[sq])
        PROVE  sq_wchan'[e] = NULL /\ \A u \in Threads : td_sleepqueue'[u] # e
    <3>1. e \in Range(sq_free[sq]) /\ (sq = q => e \in Range(f))
      BY <1>4, <1>7, <2>4
    <3>2. /\ e \in SleepQueues /\ e # q /\ sq_wchan[e] = NULL
          /\ \A u \in Threads : td_sleepqueue[u] # e
          /\ \A sr \in SleepQueues : sr # sq => e \notin Range(sq_free[sr])
      BY <1>6, <3>1
    <3>3. \A u \in W : g(u) # e
      BY <1>1, <1>5, <3>1, <3>2
    <3> QED  BY <1>7, <3>2, <3>3
  <2> QED  BY <2>1, <2>2, <2>3, <2>4 DEF SleepQueuesConserved
<1>14. RecordsOK'
  <2>1. \A u \in Threads : td_state'[u] = "SLEEPING" <=> td_wchan'[u] # NULL
    BY <1>7 DEF QueuesOK, RecordsOK
  <2>2. \A sq \in SleepQueues : sq_wchan'[sq] = NULL => sq_free'[sq] = <<>>
    BY <1>1, <1>3, <1>4, <1>7 DEF QueuesOK, RecordsOK
  <2>3. ASSUME NEW sq \in SleepQueues, NEW sr \in SleepQueues, sq # sr
        PROVE  Range(sq_free'[sq]) \cap Range(sq_free'[sr]) = {}
    <3>1. Range(sq_free[sq]) \cap Range(sq_free[sr]) = {}
      BY <2>3 DEF QueuesOK, RecordsOK
    <3>2. /\ Range(sq_free'[sq]) \subseteq Range(sq_free[sq])
          /\ Range(sq_free'[sr]) \subseteq Range(sq_free[sr])
      BY <1>4, <1>7
    <3> QED  BY <3>1, <3>2
  <2> QED  BY <2>1, <2>2, <2>3 DEF RecordsOK
<1>15. Woken(Range(tds))
  BY <1>2 DEF Woken, W
<1> QED  BY <1>9, <1>11, <1>13, <1>14, <1>15 DEF QueuesOK

\* Who sleeps on a channel: the threads on its queue, if it has one.
Sleepers(wchan) == {td \in Threads : td_wchan[td] = wchan}

LEMMA QueueOfChannel ==
  ASSUME QueuesOK, NEW wchan \in Wchans
  PROVE  /\ NoQueue(wchan) => Sleepers(wchan) = {}
         /\ \A sq \in SleepQueues : sq_lookup(sq, wchan) =>
              /\ sq_wchan[sq] = wchan /\ wchan # NULL
              /\ sq_blocked[sq] \in Seq(Threads) /\ Distinct(sq_blocked[sq])
              /\ sq_blocked[sq] # <<>>
              /\ Range(sq_blocked[sq]) = Sleepers(wchan)
<1>1. wchan # NULL
  BY SleepQueueAssumption
<1>2. ASSUME NEW td \in Sleepers(wchan)
      PROVE  \E sq \in SleepQueues : sq_lookup(sq, wchan) /\ td \in Range(sq_blocked[sq])
  <2>1. td \in Threads /\ td_wchan[td] = wchan
    BY DEF Sleepers
  <2>2. td_state[td] = "SLEEPING"
    BY <1>1, <2>1 DEF QueuesOK, RecordsOK
  <2> QED  BY <2>1, <2>2 DEF QueuesOK, SleepersFound
<1>3. NoQueue(wchan) => Sleepers(wchan) = {}
  BY <1>2 DEF NoQueue
<1>4. ASSUME NEW sq \in SleepQueues, sq_lookup(sq, wchan)
      PROVE  /\ sq_wchan[sq] = wchan
             /\ sq_blocked[sq] \in Seq(Threads) /\ Distinct(sq_blocked[sq])
             /\ sq_blocked[sq] # <<>>
             /\ Range(sq_blocked[sq]) = Sleepers(wchan)
  <2>1. sq_wchan[sq] = wchan
    BY <1>4 DEF sq_lookup
  <2>2. /\ sq_blocked[sq] \in Seq(Threads) /\ Distinct(sq_blocked[sq])
        /\ sq_blocked[sq] # <<>>
        /\ \A td \in Range(sq_blocked[sq]) : td_wchan[td] = wchan
    BY <1>1, <2>1 DEF QueuesOK, SleepQueueTypeOK, SleepersFound
  <2>3. \A td \in Range(sq_blocked[sq]) : td \in Threads
    BY <2>2 DEF Range
  <2>4. \A sr \in SleepQueues : sq_lookup(sr, wchan) => sr = sq
    BY <1>1, <2>1 DEF QueuesOK, SleepersFound, sq_lookup
  <2>5. \A td \in Sleepers(wchan) : td \in Range(sq_blocked[sq])
    BY <1>2, <2>4
  <2> QED  BY <2>1, <2>2, <2>3, <2>5 DEF Sleepers
<1> QED  BY <1>1, <1>3, <1>4

\* The thread that sleepq_signal picks is one of the queue.
LEMMA BestIsOnQueue ==
  ASSUME SleepQueueTypeOK, NEW b \in Seq(Threads), b # <<>>
  PROVE  BestOf(b) \in Range(b)
<1>1. Len(b) \in Nat \ {0} /\ DOMAIN b = 1 .. Len(b) /\ \A i \in DOMAIN b : b[i] \in Threads
  BY EmptySeq, LenProperties, ElementOfSeq
<1> DEFINE n == Len(b)
           prio(i) == td_prio[b[i]]
           best == {i \in DOMAIN b : \A j \in DOMAIN b : prio(j) >= prio(i)}
           I == {p \in 1 .. (LowestPrio + 1) : \E i \in DOMAIN b : p = prio(i) + 1}
<1>2. \A i \in DOMAIN b : prio(i) \in 0 .. LowestPrio
  BY <1>1 DEF SleepQueueTypeOK
<1> HIDE DEF prio, n
<1>3. LowestPrio + 1 \in Nat /\ LowestPrio \in Nat
  BY SleepQueueAssumption
<1>4. \A i \in DOMAIN b : prio(i) + 1 \in I
  BY <1>2, <1>3
<1>5. I # {} /\ I \in SUBSET (1 .. (LowestPrio + 1))
  <2>1. 1 \in DOMAIN b
    BY <1>1
  <2> QED  BY <1>4, <2>1
<1>6. PICK p \in I : \A k \in I : p <= k
  <2> HIDE DEF I
  <2> QED  BY <1>3, <1>5, FirstPosition
<1>7. PICK i \in DOMAIN b : p = prio(i) + 1
  OBVIOUS
<1>8. i \in best
  <2>1. ASSUME NEW l \in DOMAIN b PROVE prio(l) >= prio(i)
    <3>1. prio(l) + 1 >= prio(i) + 1
      BY <1>4, <1>6, <1>7
    <3> QED  BY <1>2, <3>1
  <2> QED  BY <2>1
<1> HIDE DEF best
<1>9. best # {} /\ best \in SUBSET (1 .. n)
  BY <1>1, <1>8 DEF best, n
<1>10. \E l \in best : \A k \in best : l <= k
  <2>1. n \in Nat
    BY <1>1 DEF n
  <2> QED  BY <1>9, <2>1, FirstPosition
<1>11. PICK c : c = CHOOSE l \in best : \A k \in best : l <= k
  OBVIOUS
<1>12. c \in best
  BY <1>10, <1>11
<1>13. BestOf(b) = b[c]
  BY <1>11 DEF BestOf, best, prio
<1> QED  BY <1>12, <1>13 DEF best, Range

LEMMA SignalOK ==
  ASSUME QueuesOK, NEW wchan \in Wchans, sleepq_signal(wchan)
  PROVE  /\ QueuesOK'
         /\ \E W \in SUBSET Sleepers(wchan) :
              /\ Woken(W) /\ (W = {} => Sleepers(wchan) = {})
              /\ td_slpintr' = td_slpintr \ W /\ td_slptimed' = td_slptimed \ W
<1>1. CASE NoQueue(wchan) /\ UNCHANGED sqVars
  <2>1. UNCHANGED <<td_state, td_prio, td_wchan, td_sleepqueue, td_slpintr,
                    td_slptimed, sq_wchan, sq_blocked, sq_free>>
    BY <1>1 DEF sqVars
  <2>2. QueuesOK'
    <3>1. td_slpintr' \in SUBSET Threads /\ td_slptimed' \in SUBSET Threads
      BY <2>1 DEF QueuesOK, SleepQueueTypeOK
    <3> QED  BY <2>1, <3>1, Unmoved
  <2>3. Sleepers(wchan) = {}
    BY <1>1, QueueOfChannel
  <2>4. Woken({})
    BY <2>1 DEF Woken, QueuesOK, SleepQueueTypeOK
  <2> QED  BY <2>1, <2>2, <2>3, <2>4
<1>2. ASSUME NEW sq \in SleepQueues, sq_lookup(sq, wchan),
             RegularWakeup(<<BestOf(sq_blocked[sq])>>, sq)
      PROVE  /\ QueuesOK'
             /\ \E W \in SUBSET Sleepers(wchan) :
                  /\ Woken(W) /\ (W = {} => Sleepers(wchan) = {})
                  /\ td_slpintr' = td_slpintr \ W /\ td_slptimed' = td_slptimed \ W
  <2>1. /\ sq_wchan[sq] = wchan /\ wchan # NULL
        /\ sq_blocked[sq] \in Seq(Threads) /\ sq_blocked[sq] # <<>>
        /\ Range(sq_blocked[sq]) = Sleepers(wchan)
    BY <1>2, QueueOfChannel
  <2>2. PICK td : td = BestOf(sq_blocked[sq])
    OBVIOUS
  <2>3. td \in Sleepers(wchan) /\ td \in Threads
    BY <2>1, <2>2, BestIsOnQueue DEF QueuesOK, Sleepers
  <2>4. <<td>> \in Seq(Threads) /\ Range(<<td>>) = {td} /\ Distinct(<<td>>)
    BY <2>3 DEF Range, Distinct
  <2>5. Leaving(<<td>>, sq)
    BY <1>2, <2>1, <2>3, <2>4 DEF Leaving
  <2>6. /\ sq_leave(<<td>>, sq)
        /\ td_slpintr' = td_slpintr \ {td} /\ td_slptimed' = td_slptimed \ {td}
    BY <1>2, <2>2, <2>4 DEF RegularWakeup
  <2>7. td_slpintr' \in SUBSET Threads /\ td_slptimed' \in SUBSET Threads
    BY <2>6 DEF QueuesOK, SleepQueueTypeOK
  <2>8. QueuesOK' /\ Woken({td})
    BY <2>4, <2>5, <2>6, <2>7, LeaveOK
  <2> QED  BY <2>3, <2>6, <2>8
<1> QED  BY <1>1, <1>2 DEF sleepq_signal

LEMMA BroadcastOK ==
  ASSUME QueuesOK, NEW wchan \in Wchans, sleepq_broadcast(wchan)
  PROVE  /\ QueuesOK'
         /\ Woken(Sleepers(wchan))
         /\ td_slpintr' = td_slpintr \ Sleepers(wchan)
         /\ td_slptimed' = td_slptimed \ Sleepers(wchan)
<1>1. CASE NoQueue(wchan) /\ UNCHANGED sqVars
  <2>1. UNCHANGED <<td_state, td_prio, td_wchan, td_sleepqueue, td_slpintr,
                    td_slptimed, sq_wchan, sq_blocked, sq_free>>
    BY <1>1 DEF sqVars
  <2>2. QueuesOK'
    <3>1. td_slpintr' \in SUBSET Threads /\ td_slptimed' \in SUBSET Threads
      BY <2>1 DEF QueuesOK, SleepQueueTypeOK
    <3> QED  BY <2>1, <3>1, Unmoved
  <2>3. Sleepers(wchan) = {}
    BY <1>1, QueueOfChannel
  <2>4. Woken({})
    BY <2>1 DEF Woken, QueuesOK, SleepQueueTypeOK
  <2> QED  BY <2>1, <2>2, <2>3, <2>4
<1>2. ASSUME NEW sq \in SleepQueues, sq_lookup(sq, wchan),
             RegularWakeup(sq_blocked[sq], sq)
      PROVE  /\ QueuesOK'
             /\ Woken(Sleepers(wchan))
             /\ td_slpintr' = td_slpintr \ Sleepers(wchan)
             /\ td_slptimed' = td_slptimed \ Sleepers(wchan)
  <2>1. /\ sq_wchan[sq] = wchan /\ wchan # NULL
        /\ sq_blocked[sq] \in Seq(Threads) /\ Distinct(sq_blocked[sq])
        /\ Range(sq_blocked[sq]) = Sleepers(wchan)
    BY <1>2, QueueOfChannel
  <2>2. Leaving(sq_blocked[sq], sq)
    BY <1>2, <2>1 DEF Leaving
  <2>3. /\ sq_leave(sq_blocked[sq], sq)
        /\ td_slpintr' = td_slpintr \ Sleepers(wchan)
        /\ td_slptimed' = td_slptimed \ Sleepers(wchan)
    BY <1>2, <2>1 DEF RegularWakeup
  <2>4. td_slpintr' \in SUBSET Threads /\ td_slptimed' \in SUBSET Threads
    BY <2>3 DEF QueuesOK, SleepQueueTypeOK
  <2>5. QueuesOK' /\ Woken(Range(sq_blocked[sq]))
    BY <2>2, <2>3, <2>4, LeaveOK
  <2> QED  BY <2>1, <2>3, <2>5
<1> QED  BY <1>1, <1>2 DEF sleepq_broadcast

\* An abort ends the sleep, or the thread is not asleep any more, sleeps on
\* another channel or in a way that this wakeup does not end.
LEMMA AbortOK ==
  ASSUME QueuesOK, NEW td \in Threads, NEW wchan, NEW wakeup \in {"EINTR", "ETIMEDOUT"},
         sleepq_abort(td, wchan, wakeup)
  PROVE  /\ QueuesOK'
         /\ \/ /\ UNCHANGED <<td_state, td_wchan, td_slpintr, td_slptimed>>
               /\ \/ td_state[td] # "SLEEPING"
                  \/ td_wchan[td] # wchan \/ ~ MayWake(td, wakeup)
            \/ /\ Woken({td}) /\ MayWake(td, wakeup)
               /\ td_state[td] = "SLEEPING"
               /\ td_slptimed' = IF wakeup = "EINTR" THEN td_slptimed \ {td}
                                 ELSE td_slptimed
               /\ td_slpintr' = IF wakeup = "ETIMEDOUT" THEN td_slpintr \ {td}
                                ELSE td_slpintr
<1>1. CASE /\ NoQueue(td_wchan[td]) \/ td_wchan[td] # wchan \/ ~ MayWake(td, wakeup)
           /\ UNCHANGED sqVars
  <2>1. UNCHANGED <<td_state, td_prio, td_wchan, td_sleepqueue, td_slpintr,
                    td_slptimed, sq_wchan, sq_blocked, sq_free>>
    BY <1>1 DEF sqVars
  <2>2. QueuesOK'
    <3>1. td_slpintr' \in SUBSET Threads /\ td_slptimed' \in SUBSET Threads
      BY <2>1 DEF QueuesOK, SleepQueueTypeOK
    <3> QED  BY <2>1, <3>1, Unmoved
  <2>3. td_state[td] = "SLEEPING" => ~ NoQueue(td_wchan[td])
    BY DEF QueuesOK, SleepersFound, NoQueue
  <2> QED  BY <1>1, <2>1, <2>2, <2>3
<1>2. ASSUME NEW sq \in SleepQueues, sq_lookup(sq, td_wchan[td]),
             td_wchan[td] = wchan, MayWake(td, wakeup),
             td_slptimed' = IF wakeup = "EINTR" THEN td_slptimed \ {td} ELSE td_slptimed,
             td_slpintr' = IF wakeup = "ETIMEDOUT" THEN td_slpintr \ {td} ELSE td_slpintr,
             sq_leave(<<td>>, sq)
      PROVE  QueuesOK' /\ Woken({td}) /\ td_state[td] = "SLEEPING"
  <2>1. td_wchan[td] \in Wchans /\ td_wchan[td] # NULL
    BY <1>2 DEF sq_lookup, QueuesOK, SleepQueueTypeOK
  <2>2. PICK ch \in Wchans : ch = td_wchan[td]
    BY <2>1
  <2>3. sq_wchan[sq] = ch /\ ch # NULL /\ Range(sq_blocked[sq]) = Sleepers(ch)
    BY <1>2, <2>2, QueueOfChannel
  <2>4. <<td>> \in Seq(Threads) /\ Range(<<td>>) = {td} /\ Distinct(<<td>>)
    BY DEF Range, Distinct
  <2>5. Leaving(<<td>>, sq)
    BY <1>2, <2>2, <2>3, <2>4 DEF Leaving, Sleepers
  <2>6. td_slpintr' \in SUBSET Threads /\ td_slptimed' \in SUBSET Threads
    BY <1>2 DEF QueuesOK, SleepQueueTypeOK
  <2>7. QueuesOK' /\ Woken({td})
    BY <1>2, <2>4, <2>5, <2>6, LeaveOK
  <2>8. td_state[td] = "SLEEPING"
    BY <2>1 DEF QueuesOK, RecordsOK
  <2> QED  BY <2>7, <2>8
<1> QED  BY <1>1, <1>2 DEF sleepq_abort

-----------------------------------------------------------------------------
(* Flags, signals and counts. *)

\* What wakeups do to the flags and to the count of waiters.
LEMMA WakeupKeepsFlags ==
  ASSUME TypeOK, FlagsOK, NEW W \in SUBSET Threads, Woken(W),
         td_slpintr' \subseteq td_slpintr, td_slptimed' \subseteq td_slptimed,
         \A td \in W : td \in td_slpintr' => td \in td_needsigchk,
         UNCHANGED <<td_pc, td_status, td_timeout, sigVars>>
  PROVE  FlagsOK'
<1>1. UNCHANGED <<td_pc, td_status, td_timeout, td_needsigchk, p_lock, td_target, td_seen>>
  BY DEF sigVars
<1>2. \A td \in Threads :
        /\ td_state'[td] = IF td \in W THEN "READY" ELSE td_state[td]
        /\ td_wchan'[td] = IF td \in W THEN NULL ELSE td_wchan[td]
  BY DEF Woken
<1>3. td_slpintr \subseteq Threads /\ td_slptimed \subseteq Threads
  BY DEF TypeOK, SleepQueueTypeOK
<1>4. SignalsOK'
  <2>1. ASSUME NEW td \in Threads, td_pc[td] = "aborting",
               td_state'[td_target] = "SLEEPING", td_target \in td_slpintr'
        PROVE  td_wchan'[td_target] = td_seen
    <3>1. td_target \in Threads /\ td_target \in td_slpintr
      BY <1>3, <2>1
    <3>2. td_target \notin W
      BY <1>2, <2>1, <3>1
    <3> QED  BY <1>2, <2>1, <3>1, <3>2 DEF FlagsOK, SignalsOK
  <2>2. ASSUME NEW td \in td_slpintr', td_state'[td] = "READY"
        PROVE  td \in td_needsigchk
    <3>1. td \in Threads /\ td \in td_slpintr
      BY <1>3, <2>2
    <3>2. CASE td \in W
      BY <2>2, <3>2
    <3>3. CASE td \notin W
      BY <1>2, <2>2, <3>1, <3>3 DEF FlagsOK, SignalsOK
    <3> QED  BY <3>2, <3>3
  <2>3. \A td \in Threads : td_pc'[td] \in {"abort", "aborting"} <=> p_lock' = td
    BY <1>1 DEF FlagsOK, SignalsOK
  <2>4. /\ p_lock' = NULL => td_target' = NULL
        /\ p_lock' # NULL => td_target' \in td_needsigchk'
    BY <1>1 DEF FlagsOK, SignalsOK
  <2> QED  BY <1>1, <2>1, <2>2, <2>3, <2>4 DEF SignalsOK
<1>5. NoLostSignal'
  BY <1>1, <1>2 DEF FlagsOK, NoLostSignal
<1>6. StatusOK'
  BY <1>1 DEF FlagsOK, StatusOK, SleepStatus
<1> QED  BY <1>4, <1>5, <1>6 DEF FlagsOK

LEMMA WakeupCount ==
  ASSUME TypeOK, NEW W \in SUBSET Threads, Woken(W)
  PROVE  /\ Sleepers(Cv)' = Sleepers(Cv) \ W
         /\ Cardinality(Sleepers(Cv)') \in Nat /\ Cardinality(Sleepers(Cv)) \in Nat
         /\ Cardinality(Sleepers(Cv)') <= Cardinality(Sleepers(Cv))
         /\ W \cap Sleepers(Cv) # {} =>
              Cardinality(Sleepers(Cv)') <= Cardinality(Sleepers(Cv)) - 1
<1>1. Cv # NULL
  BY SleepQueueAssumption, CondvarAssumption
<1>2. Sleepers(Cv)' = Sleepers(Cv) \ W
  BY <1>1 DEF Woken, Sleepers
<1> DEFINE A == Sleepers(Cv)
           B == Sleepers(Cv)'
<1>3. A \in SUBSET Threads /\ B = A \ W
  BY <1>2 DEF Sleepers
<1> HIDE DEF A, B
<1>4. IsFiniteSet(A) /\ Cardinality(A) \in Nat
  BY <1>3, SleepQueueAssumption, FS_Subset, FS_CardinalityType
<1>5. IsFiniteSet(B) /\ Cardinality(B) \in Nat /\ Cardinality(B) <= Cardinality(A)
  BY <1>3, <1>4, FS_Subset, FS_CardinalityType
<1>6. ASSUME W \cap A # {} PROVE Cardinality(B) <= Cardinality(A) - 1
  <2>1. PICK w : w \in W /\ w \in A
    BY <1>6
  <2>2. Cardinality(A \ {w}) = Cardinality(A) - 1 /\ IsFiniteSet(A \ {w})
    BY <1>4, <2>1, FS_RemoveElement
  <2>3. B \in SUBSET (A \ {w})
    BY <1>3, <2>1
  <2>4. Cardinality(B) <= Cardinality(A \ {w})
    BY <2>2, <2>3, FS_Subset
  <2> QED  BY <2>2, <2>4
<1> QED  BY <1>2, <1>4, <1>5, <1>6 DEF A, B

LEMMA CountByName ==
  /\ CvWaitersCounted <=> Cardinality(Sleepers(Cv)) <= cv_waiters
  /\ CvWaitersCounted' <=> Cardinality(Sleepers(Cv)') <= cv_waiters'
BY DEF CvWaitersCounted, Sleepers

\* A thread goes to sleep on wchan; the waiters of Cv are counted before.
LEMMA EnterCount ==
  ASSUME TypeOK, CvWaitersCounted, NEW td \in Threads, NEW wchan \in Wchans,
         td_wchan' = [td_wchan EXCEPT ![td] = wchan],
         \/ wchan = Cv /\ cv_waiters' = cv_waiters + 1
         \/ wchan # Cv /\ cv_waiters' = cv_waiters
  PROVE  CvWaitersCounted'
<1> DEFINE A == Sleepers(Cv)
           B == Sleepers(Cv)'
<1>1. A \in SUBSET Threads /\ B \in SUBSET Threads
  BY DEF Sleepers
<1>2. wchan = Cv => B \subseteq A \cup {td}
  BY DEF Sleepers, TypeOK, SleepQueueTypeOK
<1>3. wchan # Cv => B \subseteq A
  BY DEF Sleepers, TypeOK, SleepQueueTypeOK
<1>4. Cardinality(A) <= cv_waiters /\ cv_waiters \in Nat
  BY CountByName DEF TypeOK
<1> HIDE DEF A, B
<1>5. IsFiniteSet(A) /\ Cardinality(A) \in Nat
  BY <1>1, SleepQueueAssumption, FS_Subset, FS_CardinalityType
<1>6. CASE wchan = Cv
  <2>1. IsFiniteSet(A \cup {td}) /\ Cardinality(A \cup {td}) <= Cardinality(A) + 1
    BY <1>5, FS_AddElement
  <2>2. /\ Cardinality(B) <= Cardinality(A \cup {td})
        /\ Cardinality(B) \in Nat /\ Cardinality(A \cup {td}) \in Nat
    BY <1>2, <1>6, <2>1, FS_Subset, FS_CardinalityType
  <2>3. Cardinality(B) <= cv_waiters'
    BY <1>4, <1>5, <1>6, <2>1, <2>2
  <2> QED  BY <2>3, CountByName DEF B
<1>7. CASE wchan # Cv
  <2>1. Cardinality(B) <= Cardinality(A) /\ Cardinality(B) \in Nat
    BY <1>3, <1>5, <1>7, FS_Subset, FS_CardinalityType
  <2>2. Cardinality(B) <= cv_waiters'
    BY <1>4, <1>5, <1>7, <2>1
  <2> QED  BY <2>2, CountByName DEF B
<1> QED  BY <1>6, <1>7

\* A thread that was running goes to sleep with the flags intr and timed.
LEMMA EnterKeepsFlags ==
  ASSUME TypeOK, FlagsOK, NEW td \in Threads, At(td, "run"), NEW wchan,
         NEW pc \in {"wait", "cv_wait", "timed", "cv_timed"},
         td_state' = [td_state EXCEPT ![td] = "SLEEPING"],
         td_wchan' = [td_wchan EXCEPT ![td] = wchan],
         Goto(td, pc),
         \/ /\ UNCHANGED <<td_slpintr, td_slptimed, td_timeout>>
         \/ /\ pc \in {"timed", "cv_timed"}
            /\ td_slpintr' = td_slpintr /\ td_slptimed' = td_slptimed \cup {td}
            /\ td_timeout' = td_timeout \cup {td}
         \/ /\ pc \in {"timed", "cv_timed"} /\ td \notin td_needsigchk
            /\ td_slpintr' = td_slpintr \cup {td} /\ td_slptimed' = td_slptimed
            /\ td_timeout' = td_timeout \ {td},
         UNCHANGED <<td_status, sigVars>>
  PROVE  FlagsOK'
<1>1. UNCHANGED <<td_status, td_needsigchk, p_lock, td_target, td_seen>>
  BY DEF sigVars
<1>2. td_state[td] = "READY" /\ td_pc[td] = "run"
  BY DEF At
<1>3. \A u \in Threads :
        /\ td_state'[u] = IF u = td THEN "SLEEPING" ELSE td_state[u]
        /\ td_wchan'[u] = IF u = td THEN wchan ELSE td_wchan[u]
        /\ td_pc'[u] = IF u = td THEN pc ELSE td_pc[u]
  BY DEF TypeOK, SleepQueueTypeOK, Goto
<1>4. td \notin td_slpintr /\ td \notin td_slptimed
  BY <1>2 DEF FlagsOK, StatusOK, SleepStatus
<1>5. /\ td_slpintr' \subseteq Threads /\ td_slpintr \subseteq Threads
      /\ \A u \in td_slpintr' : u # td => u \in td_slpintr
      /\ td \in td_slpintr' => td \notin td_needsigchk
  BY <1>4 DEF TypeOK, SleepQueueTypeOK
<1>6. SignalsOK'
  <2>1. \A u \in Threads : td_pc'[u] \in {"abort", "aborting"} <=> p_lock' = u
    <3>1. \A u \in Threads : td_pc[u] \in {"abort", "aborting"} <=> p_lock = u
      BY DEF FlagsOK, SignalsOK
    <3>2. td_pc'[td] \notin {"abort", "aborting"} /\ td_pc[td] \notin {"abort", "aborting"}
      BY <1>2, <1>3
    <3> QED  BY <1>1, <1>3, <3>1, <3>2
  <2>2. /\ p_lock' = NULL => td_target' = NULL
        /\ p_lock' # NULL => td_target' \in td_needsigchk'
    BY <1>1 DEF FlagsOK, SignalsOK
  <2>3. ASSUME NEW u \in Threads, td_pc'[u] = "aborting",
               td_state'[td_target] = "SLEEPING", td_target \in td_slpintr'
        PROVE  td_wchan'[td_target] = td_seen
    <3>1. u # td /\ td_pc[u] = "aborting" /\ u # NULL
      BY <1>3, <2>3, SleepQueueAssumption
    <3>2. td_target \in td_needsigchk
      BY <3>1 DEF FlagsOK, SignalsOK
    <3>3. td_target \in Threads /\ td_target # td /\ td_target \in td_slpintr
      BY <1>5, <2>3, <3>2
    <3> QED  BY <1>3, <2>3, <3>1, <3>3 DEF FlagsOK, SignalsOK
  <2>4. ASSUME NEW u \in td_slpintr', td_state'[u] = "READY"
        PROVE  u \in td_needsigchk
    <3>1. u \in Threads /\ u # td
      BY <1>3, <1>5, <2>4
    <3> QED  BY <1>3, <1>5, <2>4, <3>1 DEF FlagsOK, SignalsOK
  <2> QED  BY <1>1, <2>1, <2>2, <2>3, <2>4 DEF SignalsOK
<1>7. NoLostSignal'
  BY <1>1, <1>3, <1>5 DEF FlagsOK, NoLostSignal
<1>8. StatusOK'
  <2> SUFFICES ASSUME NEW u \in Threads
               PROVE  /\ td_status'[u] = "EINTR" => u \in td_needsigchk'
                      /\ td_status'[u] = "ETIMEDOUT" =>
                           u \in td_timeout' \/ td_pc'[u] \in {"timed", "cv_timed"}
                      /\ u \notin td_slpintr' \cap td_slptimed'
                      /\ u \in td_slptimed' => u \in td_timeout'
                      /\ u \in td_slpintr' \cup td_slptimed' =>
                           td_pc'[u] \in {"timed", "cv_timed"}
    BY DEF StatusOK, SleepStatus
  <2>1. /\ td_status[u] = "EINTR" => u \in td_needsigchk
        /\ td_status[u] = "ETIMEDOUT" =>
             u \in td_timeout \/ td_pc[u] \in {"timed", "cv_timed"}
        /\ u \notin td_slpintr \cap td_slptimed
        /\ u \in td_slptimed => u \in td_timeout
        /\ u \in td_slpintr \cup td_slptimed => td_pc[u] \in {"timed", "cv_timed"}
    BY DEF FlagsOK, StatusOK, SleepStatus
  <2>2. CASE u = td
    BY <1>1, <1>2, <1>3, <1>4, <2>1, <2>2
  <2>3. CASE u # td
    BY <1>1, <1>3, <2>1, <2>3
  <2> QED  BY <2>2, <2>3
<1> QED  BY <1>6, <1>7, <1>8 DEF FlagsOK

-----------------------------------------------------------------------------
(* The inductive step, action by action. *)

LEMMA SleepKeeps ==
  ASSUME IInv, NEW td \in Threads, NEW wchan \in Wchans \ {Cv}, Sleep(td, wchan)
  PROVE  IInv'
<1>1. /\ At(td, "run") /\ ops' = ops + 1 /\ ops < MaxOps
      /\ sq_enter(td, wchan) /\ Goto(td, "wait")
      /\ UNCHANGED <<td_slpintr, td_slptimed, cv_waiters, lk_owner, sigVars,
                     td_timeout, td_status, td_slpcallout, ctVars, panicked>>
  BY DEF Sleep, Call
<1>2. td_state[td] = "READY" /\ wchan \in Wchans /\ wchan # Cv
  BY <1>1 DEF At
<1>3. td_slpintr' \in SUBSET Threads /\ td_slptimed' \in SUBSET Threads
  BY <1>1 DEF IInv, TypeOK, SleepQueueTypeOK
<1>4. /\ QueuesOK'
      /\ td_state' = [td_state EXCEPT ![td] = "SLEEPING"]
      /\ td_wchan' = [td_wchan EXCEPT ![td] = wchan]
  BY <1>1, <1>2, <1>3, EnterOK DEF IInv
<1>5. FlagsOK'
  BY <1>1, <1>4, EnterKeepsFlags DEF IInv
<1>6. CvWaitersCounted'
  BY <1>1, <1>2, <1>4, EnterCount DEF IInv
<1>7. TypeOK'
  <2>1. SleepQueueTypeOK'
    BY <1>4 DEF QueuesOK
  <2>2. ops' \in 0 .. MaxOps
    BY <1>1, CondvarAssumption DEF IInv, TypeOK
  <2>3. td_pc' \in [Threads -> Pc]
    BY <1>1 DEF IInv, TypeOK, Goto, Pc
  <2> QED  BY <1>1, <2>1, <2>2, <2>3 DEF IInv, TypeOK, sigVars, ctVars
<1>8. ct_pc' # "idle" => ct_td' # NULL
  BY <1>1 DEF IInv, ctVars
<1> QED  BY <1>4, <1>5, <1>6, <1>7, <1>8 DEF IInv

LEMMA CvWaitKeeps ==
  ASSUME IInv, NEW td \in Threads, CvWait(td)
  PROVE  IInv'
<1>1. /\ At(td, "run") /\ ops' = ops + 1 /\ ops < MaxOps
      /\ cv_waiters' = cv_waiters + 1 /\ lk_owner' = NULL
      /\ sq_enter(td, Cv) /\ Goto(td, "cv_wait")
      /\ UNCHANGED <<td_slpintr, td_slptimed, sigVars, td_timeout, td_status,
                     td_slpcallout, ctVars, panicked>>
  BY DEF CvWait, Call
<1>2. td_state[td] = "READY" /\ Cv \in Wchans
  BY <1>1, CondvarAssumption DEF At
<1>3. td_slpintr' \in SUBSET Threads /\ td_slptimed' \in SUBSET Threads
  BY <1>1 DEF IInv, TypeOK, SleepQueueTypeOK
<1>4. /\ QueuesOK'
      /\ td_state' = [td_state EXCEPT ![td] = "SLEEPING"]
      /\ td_wchan' = [td_wchan EXCEPT ![td] = Cv]
  BY <1>1, <1>2, <1>3, EnterOK DEF IInv
<1>5. FlagsOK'
  BY <1>1, <1>4, EnterKeepsFlags DEF IInv
<1>6. CvWaitersCounted'
  BY <1>1, <1>2, <1>4, EnterCount DEF IInv
<1>7. TypeOK'
  <2>1. SleepQueueTypeOK'
    BY <1>4 DEF QueuesOK
  <2>2. ops' \in 0 .. MaxOps /\ cv_waiters' \in Nat
    BY <1>1, CondvarAssumption DEF IInv, TypeOK
  <2>3. td_pc' \in [Threads -> Pc]
    BY <1>1 DEF IInv, TypeOK, Goto, Pc
  <2> QED  BY <1>1, <2>1, <2>2, <2>3 DEF IInv, TypeOK, sigVars, ctVars
<1>8. ct_pc' # "idle" => ct_td' # NULL
  BY <1>1 DEF IInv, ctVars
<1> QED  BY <1>4, <1>5, <1>6, <1>7, <1>8 DEF IInv

\* sleepq_wait_timed up to the context switch.
LEMMA WaitTimedOK ==
  ASSUME IInv, NEW td \in Threads, At(td, "run"), NEW wchan \in Wchans,
         NEW timeout \in BOOLEAN, NEW pc \in {"timed", "cv_timed"},
         sleepq_wait_timed(td, wchan, timeout, pc), UNCHANGED sigVars
  PROVE  /\ QueuesOK' /\ FlagsOK'
         /\ td_wchan' = [td_wchan EXCEPT ![td] = wchan]
         /\ td_pc' \in [Threads -> Pc] /\ td_timeout' \in SUBSET Threads
         /\ td_status' = td_status /\ panicked' \in BOOLEAN
         /\ td_slpcallout' \in [Threads -> {"idle", "pending", "delegated", "running"}]
<1>1. /\ sq_enter(td, wchan) /\ Goto(td, pc) /\ td_status' = td_status
      /\ ~ PendingSignal(td, timeout)
  BY DEF sleepq_wait_timed
<1>2. td_state[td] = "READY"
  BY DEF At
<1>3. \/ /\ pc \in {"timed", "cv_timed"}
         /\ td_slpintr' = td_slpintr /\ td_slptimed' = td_slptimed \cup {td}
         /\ td_timeout' = td_timeout \cup {td}
      \/ /\ pc \in {"timed", "cv_timed"} /\ td \notin td_needsigchk
         /\ td_slpintr' = td_slpintr \cup {td} /\ td_slptimed' = td_slptimed
         /\ td_timeout' = td_timeout \ {td}
  <2>1. CASE timeout
    BY <2>1 DEF sleepq_wait_timed
  <2>2. CASE ~ timeout
    BY <1>1, <2>2 DEF sleepq_wait_timed, PendingSignal
  <2> QED  BY <2>1, <2>2
<1>4. td_slpintr' \in SUBSET Threads /\ td_slptimed' \in SUBSET Threads
  BY <1>3 DEF IInv, TypeOK, SleepQueueTypeOK
<1>5. /\ QueuesOK'
      /\ td_state' = [td_state EXCEPT ![td] = "SLEEPING"]
      /\ td_wchan' = [td_wchan EXCEPT ![td] = wchan]
  BY <1>1, <1>2, <1>4, EnterOK DEF IInv
<1>6. FlagsOK'
  BY <1>1, <1>3, <1>5, EnterKeepsFlags DEF IInv
<1>7. td_pc' \in [Threads -> Pc]
  BY <1>1 DEF IInv, TypeOK, Goto, Pc
<1>8. td_timeout' \in SUBSET Threads
  BY <1>3 DEF IInv, TypeOK
<1>9. td_slpcallout' \in [Threads -> {"idle", "pending", "delegated", "running"}]
  <2>1. CASE timeout
    BY <2>1 DEF sleepq_wait_timed, IInv, TypeOK
  <2>2. CASE ~ timeout
    BY <2>2 DEF sleepq_wait_timed, IInv, TypeOK
  <2> QED  BY <2>1, <2>2
<1>10. panicked' \in BOOLEAN
  <2>1. CASE timeout
    BY <2>1 DEF sleepq_wait_timed
  <2>2. CASE ~ timeout
    BY <2>2 DEF sleepq_wait_timed, IInv, TypeOK
  <2> QED  BY <2>1, <2>2
<1> QED  BY <1>1, <1>5, <1>6, <1>7, <1>8, <1>9, <1>10

\* An interruptible sleep that does not begin because of a signal.
LEMMA AtOnceOK ==
  ASSUME IInv, NEW td \in Threads, At(td, "run"), NEW timeout \in BOOLEAN,
         NEW pc \in {"run", "relock"}, InterruptedAtOnce(td, timeout, pc),
         UNCHANGED sigVars
  PROVE  /\ QueuesOK' /\ FlagsOK' /\ td_wchan' = td_wchan
         /\ td_pc' \in [Threads -> Pc]
         /\ td_status' \in [Threads -> {"none", "ok", "EINTR", "ETIMEDOUT"}]
         /\ UNCHANGED <<td_timeout, td_slpcallout, panicked>>
<1>1. /\ td \in td_needsigchk
      /\ td_status' = [td_status EXCEPT ![td] = "EINTR"] /\ Goto(td, pc)
      /\ UNCHANGED <<td_state, td_prio, td_wchan, td_sleepqueue, td_slpintr, td_slptimed,
                     sq_wchan, sq_blocked, sq_free>>
      /\ UNCHANGED <<td_timeout, td_slpcallout, panicked>>
      /\ UNCHANGED <<td_needsigchk, p_lock, td_target, td_seen>>
  BY DEF InterruptedAtOnce, PendingSignal, sqVars, sigVars
<1>2. QueuesOK'
  <2>1. td_slpintr' \in SUBSET Threads /\ td_slptimed' \in SUBSET Threads
    BY <1>1 DEF IInv, TypeOK, SleepQueueTypeOK
  <2> QED  BY <1>1, <2>1, Unmoved DEF IInv
<1>3. \A u \in Threads : /\ td_pc'[u] = IF u = td THEN pc ELSE td_pc[u]
                         /\ td_status'[u] = IF u = td THEN "EINTR" ELSE td_status[u]
  BY <1>1 DEF Goto, IInv, TypeOK
<1>4. td_pc[td] = "run"
  BY DEF At
<1>5. SignalsOK'
  <2>1. \A u \in Threads : /\ td_pc'[u] \in {"abort", "aborting"}
                                <=> td_pc[u] \in {"abort", "aborting"}
                           /\ td_pc'[u] = "aborting" <=> td_pc[u] = "aborting"
    BY <1>3, <1>4
  <2> QED  BY <1>1, <2>1 DEF IInv, FlagsOK, SignalsOK
<1>6. NoLostSignal'
  BY <1>1 DEF IInv, FlagsOK, NoLostSignal
<1>7. StatusOK'
  BY <1>1, <1>3, <1>4 DEF IInv, FlagsOK, StatusOK, SleepStatus
<1>8. /\ td_pc' \in [Threads -> Pc]
      /\ td_status' \in [Threads -> {"none", "ok", "EINTR", "ETIMEDOUT"}]
  BY <1>1 DEF IInv, TypeOK, Goto, Pc
<1> QED  BY <1>1, <1>2, <1>5, <1>6, <1>7, <1>8 DEF FlagsOK

LEMMA SleepTimedKeeps ==
  ASSUME IInv, NEW td \in Threads, NEW wchan \in Wchans \ {Cv},
         NEW timeout \in BOOLEAN, SleepTimed(td, wchan, timeout)
  PROVE  IInv'
<1>1. /\ At(td, "run") /\ ops' = ops + 1 /\ ops < MaxOps
      /\ UNCHANGED <<cv_waiters, lk_owner, sigVars, ctVars>>
  BY DEF SleepTimed, Call
<1>2. ops' \in 0 .. MaxOps
  BY <1>1, CondvarAssumption DEF IInv, TypeOK
<1>3. ct_pc' # "idle" => ct_td' # NULL
  BY <1>1 DEF IInv, ctVars
<1>4. CASE sleepq_wait_timed(td, wchan, timeout, "timed")
  <2>1. wchan \in Wchans /\ wchan # Cv /\ UNCHANGED sigVars
    BY <1>1
  <2>2. /\ QueuesOK' /\ FlagsOK'
        /\ td_wchan' = [td_wchan EXCEPT ![td] = wchan]
        /\ td_pc' \in [Threads -> Pc] /\ td_timeout' \in SUBSET Threads
        /\ td_status' = td_status /\ panicked' \in BOOLEAN
        /\ td_slpcallout' \in [Threads -> {"idle", "pending", "delegated", "running"}]
    BY <1>1, <1>4, <2>1, WaitTimedOK
  <2>3. CvWaitersCounted'
    BY <1>1, <2>1, <2>2, EnterCount DEF IInv
  <2>4. TypeOK'
    BY <1>1, <1>2, <2>2 DEF IInv, QueuesOK, TypeOK, sigVars, ctVars
  <2> QED  BY <1>3, <2>2, <2>3, <2>4 DEF IInv
<1>5. CASE InterruptedAtOnce(td, timeout, "run")
  <2>1. /\ QueuesOK' /\ FlagsOK' /\ td_wchan' = td_wchan
        /\ td_pc' \in [Threads -> Pc]
        /\ td_status' \in [Threads -> {"none", "ok", "EINTR", "ETIMEDOUT"}]
        /\ UNCHANGED <<td_timeout, td_slpcallout, panicked>>
    <3>1. UNCHANGED sigVars
      BY <1>1
    <3> QED  BY <1>1, <1>5, <3>1, AtOnceOK
  <2>2. CvWaitersCounted'
    BY <1>1, <2>1 DEF IInv, CvWaitersCounted
  <2>3. TypeOK'
    BY <1>1, <1>2, <2>1 DEF IInv, QueuesOK, TypeOK, sigVars, ctVars
  <2> QED  BY <1>3, <2>1, <2>2, <2>3 DEF IInv
<1> QED  BY <1>4, <1>5 DEF SleepTimed

LEMMA CvWaitTimedKeeps ==
  ASSUME IInv, NEW td \in Threads, NEW timeout \in BOOLEAN, CvWaitTimed(td, timeout)
  PROVE  IInv'
<1>1. /\ At(td, "run") /\ ops' = ops + 1 /\ ops < MaxOps
      /\ cv_waiters' = cv_waiters + 1 /\ lk_owner' = NULL
      /\ UNCHANGED <<sigVars, ctVars>>
  BY DEF CvWaitTimed, Call
<1>2. ops' \in 0 .. MaxOps /\ cv_waiters' \in Nat /\ cv_waiters \in Nat
  BY <1>1, CondvarAssumption DEF IInv, TypeOK
<1>3. ct_pc' # "idle" => ct_td' # NULL
  BY <1>1 DEF IInv, ctVars
<1>4. CASE sleepq_wait_timed(td, Cv, timeout, "cv_timed")
  <2>1. Cv \in Wchans /\ UNCHANGED sigVars
    BY <1>1, CondvarAssumption
  <2>2. /\ QueuesOK' /\ FlagsOK'
        /\ td_wchan' = [td_wchan EXCEPT ![td] = Cv]
        /\ td_pc' \in [Threads -> Pc] /\ td_timeout' \in SUBSET Threads
        /\ td_status' = td_status /\ panicked' \in BOOLEAN
        /\ td_slpcallout' \in [Threads -> {"idle", "pending", "delegated", "running"}]
    BY <1>1, <1>4, <2>1, WaitTimedOK
  <2>3. CvWaitersCounted'
    BY <1>1, <2>1, <2>2, EnterCount DEF IInv
  <2>4. TypeOK'
    BY <1>1, <1>2, <2>2 DEF IInv, QueuesOK, TypeOK, sigVars, ctVars
  <2> QED  BY <1>3, <2>2, <2>3, <2>4 DEF IInv
<1>5. CASE InterruptedAtOnce(td, timeout, "relock")
  <2>1. /\ QueuesOK' /\ FlagsOK' /\ td_wchan' = td_wchan
        /\ td_pc' \in [Threads -> Pc]
        /\ td_status' \in [Threads -> {"none", "ok", "EINTR", "ETIMEDOUT"}]
        /\ UNCHANGED <<td_timeout, td_slpcallout, panicked>>
    <3>1. UNCHANGED sigVars
      BY <1>1
    <3> QED  BY <1>1, <1>5, <3>1, AtOnceOK
  <2>2. CvWaitersCounted'
    <3>1. Sleepers(Cv)' = Sleepers(Cv)
      BY <2>1 DEF Sleepers
    <3>2. Cardinality(Sleepers(Cv)) \in Nat
      <4>1. Sleepers(Cv) \in SUBSET Threads
        BY DEF Sleepers
      <4> QED  BY <4>1, SleepQueueAssumption, FS_Subset, FS_CardinalityType
    <3>3. Cardinality(Sleepers(Cv)) <= cv_waiters
      BY CountByName DEF IInv
    <3>4. Cardinality(Sleepers(Cv)') <= cv_waiters'
      BY <1>1, <1>2, <3>1, <3>2, <3>3
    <3> QED  BY <3>4, CountByName
  <2>3. TypeOK'
    BY <1>1, <1>2, <2>1 DEF IInv, QueuesOK, TypeOK, sigVars, ctVars
  <2> QED  BY <1>3, <2>1, <2>2, <2>3 DEF IInv
<1> QED  BY <1>4, <1>5 DEF CvWaitTimed

\* A thread goes on, outside of timed sleeps and of sig_kill.
LEMMA GoesOn ==
  ASSUME IInv, NEW td \in Threads,
         td_pc[td] \notin {"timed", "cv_timed", "abort", "aborting"},
         NEW pc \in Pc \ {"abort", "aborting"}, Goto(td, pc),
         UNCHANGED <<sqVars, cv_waiters, sigVars, td_timeout, td_status>>
  PROVE  /\ QueuesOK' /\ FlagsOK' /\ CvWaitersCounted'
         /\ td_pc' \in [Threads -> Pc] /\ SleepQueueTypeOK'
<1>1. /\ UNCHANGED <<td_state, td_prio, td_wchan, td_sleepqueue, td_slpintr, td_slptimed,
                     sq_wchan, sq_blocked, sq_free>>
      /\ UNCHANGED <<td_needsigchk, p_lock, td_target, td_seen>>
      /\ UNCHANGED <<cv_waiters, td_timeout, td_status>>
  BY DEF sqVars, sigVars
<1>2. QueuesOK'
  <2>1. td_slpintr' \in SUBSET Threads /\ td_slptimed' \in SUBSET Threads
    BY <1>1 DEF IInv, TypeOK, SleepQueueTypeOK
  <2> QED  BY <1>1, <2>1, Unmoved DEF IInv
<1>3. \A u \in Threads : td_pc'[u] = IF u = td THEN pc ELSE td_pc[u]
  BY DEF Goto, IInv, TypeOK
<1>4. td \notin td_slpintr /\ td \notin td_slptimed
  BY DEF IInv, FlagsOK, StatusOK, SleepStatus
<1>5. SignalsOK'
  <2>1. \A u \in Threads : /\ td_pc'[u] \in {"abort", "aborting"}
                                <=> td_pc[u] \in {"abort", "aborting"}
                           /\ td_pc'[u] = "aborting" <=> td_pc[u] = "aborting"
    BY <1>3
  <2> QED  BY <1>1, <2>1 DEF IInv, FlagsOK, SignalsOK
<1>6. NoLostSignal'
  BY <1>1 DEF IInv, FlagsOK, NoLostSignal
<1>7. StatusOK'
  BY <1>1, <1>3, <1>4 DEF IInv, FlagsOK, StatusOK, SleepStatus
<1>8. td_pc' \in [Threads -> Pc]
  BY DEF IInv, TypeOK, Goto
<1>9. CvWaitersCounted'
  BY <1>1 DEF IInv, CvWaitersCounted
<1> QED  BY <1>2, <1>5, <1>6, <1>7, <1>8, <1>9 DEF FlagsOK, QueuesOK

LEMMA WaitReturnKeeps ==
  ASSUME IInv, NEW td \in Threads, WaitReturn(td)
  PROVE  IInv'
<1>1. /\ \E pc \in {"run", "relock"} : Goto(td, pc)
      /\ td_pc[td] \in {"wait", "cv_wait"}
      /\ UNCHANGED <<sqVars, cv_waiters, lk_owner, sigVars, td_timeout, td_status,
                     td_slpcallout, ctVars, ops>>
      /\ panicked' \in BOOLEAN
  BY DEF WaitReturn, At
<1>2. PICK pc \in Pc \ {"abort", "aborting"} : Goto(td, pc)
  BY <1>1 DEF Pc
<1>3. /\ QueuesOK' /\ FlagsOK' /\ CvWaitersCounted'
      /\ td_pc' \in [Threads -> Pc] /\ SleepQueueTypeOK'
  BY <1>1, <1>2, GoesOn
<1>4. TypeOK' /\ (ct_pc' # "idle" => ct_td' # NULL)
  BY <1>1, <1>3 DEF IInv, TypeOK, sigVars, ctVars
<1> QED  BY <1>3, <1>4 DEF IInv

LEMMA StopCalloutKeeps ==
  ASSUME IInv, NEW td \in Threads, StopCallout(td)
  PROVE  IInv'
<1>1. /\ Goto(td, "run") /\ td_pc[td] = "stop" /\ td_slpcallout' = Stopped(td)
      /\ UNCHANGED <<sqVars, cv_waiters, lk_owner, sigVars, td_timeout, td_status,
                     ctVars, ops, panicked>>
  BY DEF StopCallout, At
<1>2. /\ QueuesOK' /\ FlagsOK' /\ CvWaitersCounted'
      /\ td_pc' \in [Threads -> Pc] /\ SleepQueueTypeOK'
  <2>1. "run" \in Pc \ {"abort", "aborting"}
    BY DEF Pc
  <2> QED  BY <1>1, <2>1, GoesOn
<1>3. td_slpcallout' \in [Threads -> {"idle", "pending", "delegated", "running"}]
  BY <1>1 DEF Stopped, IInv, TypeOK
<1>4. TypeOK' /\ (ct_pc' # "idle" => ct_td' # NULL)
  BY <1>1, <1>2, <1>3 DEF IInv, TypeOK, sigVars, ctVars
<1> QED  BY <1>2, <1>4 DEF IInv

LEMMA AcquireKeeps ==
  ASSUME IInv, NEW td \in Threads, Acquire(td)
  PROVE  IInv'
<1>1. /\ Goto(td, "run") /\ td_pc[td] \in {"run", "relock"} /\ lk_owner' = td
      /\ UNCHANGED <<sqVars, cv_waiters, sigVars, td_timeout, td_status,
                     td_slpcallout, ctVars, ops, panicked>>
  BY DEF Acquire, At
<1>2. /\ QueuesOK' /\ FlagsOK' /\ CvWaitersCounted'
      /\ td_pc' \in [Threads -> Pc] /\ SleepQueueTypeOK'
  <2>1. "run" \in Pc \ {"abort", "aborting"}
    BY DEF Pc
  <2> QED  BY <1>1, <2>1, GoesOn
<1>3. TypeOK' /\ (ct_pc' # "idle" => ct_td' # NULL)
  BY <1>1, <1>2 DEF IInv, TypeOK, sigVars, ctVars
<1> QED  BY <1>2, <1>3 DEF IInv

\* Steps that leave the queues, the flags and the signals alone.
LEMMA Aside ==
  ASSUME IInv, UNCHANGED <<sqVars, cv_waiters, sigVars, td_pc, td_timeout, td_status>>
  PROVE  QueuesOK' /\ FlagsOK' /\ CvWaitersCounted' /\ SleepQueueTypeOK'
<1>1. /\ UNCHANGED <<td_state, td_prio, td_wchan, td_sleepqueue, td_slpintr, td_slptimed,
                     sq_wchan, sq_blocked, sq_free>>
      /\ UNCHANGED <<td_needsigchk, p_lock, td_target, td_seen>>
      /\ UNCHANGED <<cv_waiters, td_pc, td_timeout, td_status>>
  BY DEF sqVars, sigVars
<1>2. QueuesOK'
  <2>1. td_slpintr' \in SUBSET Threads /\ td_slptimed' \in SUBSET Threads
    BY <1>1 DEF IInv, TypeOK, SleepQueueTypeOK
  <2> QED  BY <1>1, <2>1, Unmoved DEF IInv
<1>3. SignalsOK' /\ NoLostSignal' /\ StatusOK'
  BY <1>1 DEF IInv, FlagsOK, SignalsOK, NoLostSignal, StatusOK, SleepStatus
<1>4. CvWaitersCounted'
  BY <1>1 DEF IInv, CvWaitersCounted
<1> QED  BY <1>2, <1>3, <1>4 DEF FlagsOK, QueuesOK

LEMMA ReleaseKeeps ==
  ASSUME IInv, NEW td \in Threads, Release(td)
  PROVE  IInv'
<1>1. /\ lk_owner' = NULL
      /\ UNCHANGED <<sqVars, cv_waiters, sigVars, td_pc, td_timeout, td_status,
                     td_slpcallout, ctVars, ops, panicked>>
  BY DEF Release
<1>2. QueuesOK' /\ FlagsOK' /\ CvWaitersCounted' /\ SleepQueueTypeOK'
  BY <1>1, Aside
<1>3. TypeOK' /\ (ct_pc' # "idle" => ct_td' # NULL)
  BY <1>1, <1>2 DEF IInv, TypeOK, sigVars, ctVars
<1> QED  BY <1>2, <1>3 DEF IInv

LEMMA TimedReturnKeeps ==
  ASSUME IInv, NEW td \in Threads, TimedReturn(td)
  PROVE  IInv'
<1>1. /\ td_status' = [td_status EXCEPT ![td] = Status(td)]
      /\ td_slpintr' = td_slpintr \ {td} /\ td_slptimed' = td_slptimed \ {td}
      /\ UNCHANGED <<td_state, td_prio, td_wchan, td_sleepqueue, sq_wchan,
                     sq_blocked, sq_free, cv_waiters, lk_owner, sigVars,
                     td_timeout, ctVars, ops, panicked>>
      /\ td_state[td] = "READY" /\ td_pc[td] \in {"timed", "cv_timed"}
      /\ \E pc \in {"stop", "run", "relock"} : Goto(td, pc)
      /\ td_slpcallout' = td_slpcallout \/ td_slpcallout' = Stopped(td)
  BY DEF TimedReturn, At
<1>2. PICK pc \in {"stop", "run", "relock"} : Goto(td, pc)
  BY <1>1
<1>3. UNCHANGED <<td_needsigchk, p_lock, td_target, td_seen>>
  BY <1>1 DEF sigVars
<1>4. QueuesOK'
  <2>1. td_slpintr' \in SUBSET Threads /\ td_slptimed' \in SUBSET Threads
    BY <1>1 DEF IInv, TypeOK, SleepQueueTypeOK
  <2> QED  BY <1>1, <2>1, Unmoved DEF IInv
<1>5. \A u \in Threads : /\ td_pc'[u] = IF u = td THEN pc ELSE td_pc[u]
                         /\ td_status'[u] = IF u = td THEN Status(td) ELSE td_status[u]
  BY <1>1, <1>2 DEF Goto, IInv, TypeOK
<1>6. SignalsOK'
  <2>1. \A u \in Threads : /\ td_pc'[u] \in {"abort", "aborting"}
                                <=> td_pc[u] \in {"abort", "aborting"}
                           /\ td_pc'[u] = "aborting" <=> td_pc[u] = "aborting"
    BY <1>1, <1>5
  <2>2. \A u \in td_slpintr' : u \in td_slpintr
    BY <1>1
  <2> QED  BY <1>1, <1>3, <2>1, <2>2 DEF IInv, FlagsOK, SignalsOK
<1>7. NoLostSignal'
  BY <1>1, <1>3 DEF IInv, FlagsOK, NoLostSignal
<1>8. Status(td) \in {"none", "ok", "EINTR", "ETIMEDOUT"}
      /\ (Status(td) = "EINTR" => td \in td_needsigchk)
      /\ (Status(td) = "ETIMEDOUT" => td \in td_slptimed)
  BY <1>1 DEF Status, IInv, FlagsOK, SignalsOK
<1>9. StatusOK'
  <2> SUFFICES ASSUME NEW u \in Threads
               PROVE  /\ td_status'[u] = "EINTR" => u \in td_needsigchk'
                      /\ td_status'[u] = "ETIMEDOUT" =>
                           u \in td_timeout' \/ td_pc'[u] \in {"timed", "cv_timed"}
                      /\ u \notin td_slpintr' \cap td_slptimed'
                      /\ u \in td_slptimed' => u \in td_timeout'
                      /\ u \in td_slpintr' \cup td_slptimed' =>
                           td_pc'[u] \in {"timed", "cv_timed"}
    BY DEF StatusOK, SleepStatus
  <2>1. /\ td_status[u] = "EINTR" => u \in td_needsigchk
        /\ td_status[u] = "ETIMEDOUT" =>
             u \in td_timeout \/ td_pc[u] \in {"timed", "cv_timed"}
        /\ u \notin td_slpintr \cap td_slptimed
        /\ u \in td_slptimed => u \in td_timeout
        /\ u \in td_slpintr \cup td_slptimed => td_pc[u] \in {"timed", "cv_timed"}
    BY DEF IInv, FlagsOK, StatusOK, SleepStatus
  <2> QED  BY <1>1, <1>3, <1>5, <1>8, <2>1
<1>10. CvWaitersCounted'
  BY <1>1 DEF IInv, CvWaitersCounted
<1>11. TypeOK' /\ (ct_pc' # "idle" => ct_td' # NULL)
  <2>1. td_slpcallout' \in [Threads -> {"idle", "pending", "delegated", "running"}]
    BY <1>1 DEF Stopped, IInv, TypeOK
  <2>2. td_pc' \in [Threads -> Pc]
    BY <1>2 DEF IInv, TypeOK, Goto, Pc
  <2>3. td_status' \in [Threads -> {"none", "ok", "EINTR", "ETIMEDOUT"}]
    BY <1>1, <1>8 DEF IInv, TypeOK
  <2> QED  BY <1>1, <1>4, <2>1, <2>2, <2>3 DEF IInv, TypeOK, QueuesOK, sigVars, ctVars
<1> QED  BY <1>4, <1>6, <1>7, <1>9, <1>10, <1>11 DEF IInv, FlagsOK

LEMMA CvSignalKeeps ==
  ASSUME IInv, NEW td \in Threads, CvSignal(td)
  PROVE  IInv'
<1>1. /\ ops' = ops + 1 /\ ops < MaxOps
      /\ UNCHANGED <<lk_owner, sigVars, td_pc, td_timeout, td_status,
                     td_slpcallout, ctVars, panicked>>
      /\ \/ /\ cv_waiters > 0 /\ cv_waiters' = cv_waiters - 1 /\ sleepq_signal(Cv)
         \/ UNCHANGED <<cv_waiters, sqVars>>
  BY DEF CvSignal, Call, CvSignalled
<1>2. ops' \in 0 .. MaxOps
  BY <1>1, CondvarAssumption DEF IInv, TypeOK
<1>3. CASE UNCHANGED <<cv_waiters, sqVars>>
  <2>1. QueuesOK' /\ FlagsOK' /\ CvWaitersCounted' /\ SleepQueueTypeOK'
    BY <1>1, <1>3, Aside
  <2>2. TypeOK' /\ (ct_pc' # "idle" => ct_td' # NULL)
    BY <1>1, <1>2, <1>3, <2>1 DEF IInv, TypeOK, sigVars, ctVars
  <2> QED  BY <2>1, <2>2 DEF IInv
<1>4. CASE cv_waiters > 0 /\ cv_waiters' = cv_waiters - 1 /\ sleepq_signal(Cv)
  <2>1. /\ QueuesOK'
        /\ \E W \in SUBSET Sleepers(Cv) :
             /\ Woken(W) /\ (W = {} => Sleepers(Cv) = {})
             /\ td_slpintr' = td_slpintr \ W /\ td_slptimed' = td_slptimed \ W
    BY <1>4, CondvarAssumption, SignalOK DEF IInv
  <2>2. PICK W \in SUBSET Sleepers(Cv) :
             /\ Woken(W) /\ (W = {} => Sleepers(Cv) = {})
             /\ td_slpintr' = td_slpintr \ W /\ td_slptimed' = td_slptimed \ W
    BY <2>1
  <2>3. W \in SUBSET Threads
    BY DEF Sleepers
  <2>4. FlagsOK'
    <3>1. /\ td_slpintr' \subseteq td_slpintr /\ td_slptimed' \subseteq td_slptimed
          /\ \A u \in W : u \in td_slpintr' => u \in td_needsigchk
      BY <2>2
    <3> QED  BY <1>1, <2>2, <2>3, <3>1, WakeupKeepsFlags DEF IInv
  <2>5. cv_waiters \in Nat /\ cv_waiters' \in Nat
    BY <1>4 DEF IInv, TypeOK
  <2>6. CvWaitersCounted'
    <3>1. /\ Sleepers(Cv)' = Sleepers(Cv) \ W
          /\ Cardinality(Sleepers(Cv)') \in Nat /\ Cardinality(Sleepers(Cv)) \in Nat
          /\ W \cap Sleepers(Cv) # {} =>
               Cardinality(Sleepers(Cv)') <= Cardinality(Sleepers(Cv)) - 1
      BY <2>2, <2>3, WakeupCount DEF IInv
    <3>2. CASE W = {}
      <4>1. Sleepers(Cv)' = {}
        BY <2>2, <3>1, <3>2
      <4>2. Cardinality(Sleepers(Cv)') = 0
        BY <4>1, FS_EmptySet
      <4> QED  BY <2>5, <4>2, CountByName
    <3>3. CASE W # {}
      <4>1. Cardinality(Sleepers(Cv)') <= Cardinality(Sleepers(Cv)) - 1
        BY <3>1, <3>3
      <4>2. Cardinality(Sleepers(Cv)) <= cv_waiters
        BY CountByName DEF IInv
      <4>3. Cardinality(Sleepers(Cv)') <= cv_waiters'
        BY <1>4, <2>5, <3>1, <4>1, <4>2
      <4> QED  BY <4>3, CountByName
    <3> QED  BY <3>2, <3>3
  <2>7. TypeOK' /\ (ct_pc' # "idle" => ct_td' # NULL)
    BY <1>1, <1>2, <2>1, <2>5 DEF IInv, TypeOK, QueuesOK, sigVars, ctVars
  <2> QED  BY <2>1, <2>4, <2>6, <2>7 DEF IInv
<1> QED  BY <1>1, <1>3, <1>4

LEMMA CvBroadcastKeeps ==
  ASSUME IInv, NEW td \in Threads, CvBroadcast(td)
  PROVE  IInv'
<1>1. /\ ops' = ops + 1 /\ ops < MaxOps
      /\ UNCHANGED <<lk_owner, sigVars, td_pc, td_timeout, td_status,
                     td_slpcallout, ctVars, panicked>>
      /\ \/ cv_waiters' = 0 /\ sleepq_broadcast(Cv)
         \/ UNCHANGED <<cv_waiters, sqVars>>
  BY DEF CvBroadcast, Call
<1>2. ops' \in 0 .. MaxOps
  BY <1>1, CondvarAssumption DEF IInv, TypeOK
<1>3. CASE UNCHANGED <<cv_waiters, sqVars>>
  <2>1. QueuesOK' /\ FlagsOK' /\ CvWaitersCounted' /\ SleepQueueTypeOK'
    BY <1>1, <1>3, Aside
  <2>2. TypeOK' /\ (ct_pc' # "idle" => ct_td' # NULL)
    BY <1>1, <1>2, <1>3, <2>1 DEF IInv, TypeOK, sigVars, ctVars
  <2> QED  BY <2>1, <2>2 DEF IInv
<1>4. CASE cv_waiters' = 0 /\ sleepq_broadcast(Cv)
  <2>1. /\ QueuesOK' /\ Woken(Sleepers(Cv))
        /\ td_slpintr' = td_slpintr \ Sleepers(Cv)
        /\ td_slptimed' = td_slptimed \ Sleepers(Cv)
    BY <1>4, CondvarAssumption, BroadcastOK DEF IInv
  <2>2. Sleepers(Cv) \in SUBSET Threads
    BY DEF Sleepers
  <2>3. FlagsOK'
    <3>1. /\ td_slpintr' \subseteq td_slpintr /\ td_slptimed' \subseteq td_slptimed
          /\ \A u \in Sleepers(Cv) : u \in td_slpintr' => u \in td_needsigchk
      BY <2>1
    <3> QED  BY <1>1, <2>1, <2>2, <3>1, WakeupKeepsFlags DEF IInv
  <2>4. CvWaitersCounted'
    <3>1. Sleepers(Cv)' = Sleepers(Cv) \ Sleepers(Cv)
      BY <2>1, <2>2, WakeupCount DEF IInv
    <3>2. Cardinality(Sleepers(Cv)') = 0
      BY <3>1, FS_EmptySet
    <3> QED  BY <1>4, <3>2, CountByName
  <2>5. TypeOK' /\ (ct_pc' # "idle" => ct_td' # NULL)
    BY <1>1, <1>2, <1>4, <2>1 DEF IInv, TypeOK, QueuesOK, sigVars, ctVars
  <2> QED  BY <2>1, <2>3, <2>4, <2>5 DEF IInv
<1> QED  BY <1>1, <1>3, <1>4

\* A wakeup that leaves the waiters of Cv counted as they are.
LEMMA FewerSleepers ==
  ASSUME IInv, NEW W \in SUBSET Threads, Woken(W), cv_waiters' = cv_waiters
  PROVE  CvWaitersCounted'
<1>1. /\ Cardinality(Sleepers(Cv)') \in Nat /\ Cardinality(Sleepers(Cv)) \in Nat
      /\ Cardinality(Sleepers(Cv)') <= Cardinality(Sleepers(Cv))
  BY WakeupCount DEF IInv
<1>2. Cardinality(Sleepers(Cv)) <= cv_waiters /\ cv_waiters \in Nat
  BY CountByName DEF IInv, TypeOK
<1>3. Cardinality(Sleepers(Cv)') <= cv_waiters'
  BY <1>1, <1>2
<1> QED  BY <1>3, CountByName

LEMMA WakeKeeps ==
  ASSUME IInv, NEW td \in Threads, NEW wchan \in Wchans \ {Cv}, Wake(td, wchan)
  PROVE  IInv'
<1>1. /\ ops' = ops + 1 /\ ops < MaxOps
      /\ UNCHANGED <<cv_waiters, lk_owner, sigVars, td_pc, td_timeout, td_status,
                     td_slpcallout, ctVars, panicked>>
      /\ sleepq_signal(wchan) \/ sleepq_broadcast(wchan)
  BY DEF Wake, Call
<1>2. ops' \in 0 .. MaxOps
  BY <1>1, CondvarAssumption DEF IInv, TypeOK
<1>3. /\ QueuesOK'
      /\ \E W \in SUBSET Threads :
           /\ Woken(W)
           /\ td_slpintr' = td_slpintr \ W /\ td_slptimed' = td_slptimed \ W
  <2>1. wchan \in Wchans /\ Sleepers(wchan) \in SUBSET Threads
    BY DEF Sleepers
  <2>2. CASE sleepq_signal(wchan)
    <3>1. /\ QueuesOK'
          /\ \E W \in SUBSET Sleepers(wchan) :
               /\ Woken(W) /\ (W = {} => Sleepers(wchan) = {})
               /\ td_slpintr' = td_slpintr \ W /\ td_slptimed' = td_slptimed \ W
      BY <2>1, <2>2, SignalOK DEF IInv
    <3> QED  BY <2>1, <3>1
  <2>3. CASE sleepq_broadcast(wchan)
    BY <2>1, <2>3, BroadcastOK DEF IInv
  <2> QED  BY <1>1, <2>2, <2>3
<1>4. PICK W \in SUBSET Threads :
           /\ Woken(W)
           /\ td_slpintr' = td_slpintr \ W /\ td_slptimed' = td_slptimed \ W
  BY <1>3
<1>5. FlagsOK'
  <2>1. /\ td_slpintr' \subseteq td_slpintr /\ td_slptimed' \subseteq td_slptimed
        /\ \A u \in W : u \in td_slpintr' => u \in td_needsigchk
    BY <1>4
  <2> QED  BY <1>1, <1>4, <2>1, WakeupKeepsFlags DEF IInv
<1>6. CvWaitersCounted'
  BY <1>1, <1>4, FewerSleepers
<1>7. TypeOK' /\ (ct_pc' # "idle" => ct_td' # NULL)
  BY <1>1, <1>2, <1>3 DEF IInv, TypeOK, QueuesOK, sigVars, ctVars
<1> QED  BY <1>3, <1>5, <1>6, <1>7 DEF IInv

\* The queues in a step that does not touch them.
LEMMA QueuesAside ==
  ASSUME IInv, UNCHANGED sqVars
  PROVE  /\ QueuesOK' /\ SleepQueueTypeOK'
         /\ UNCHANGED <<td_state, td_wchan, td_slpintr, td_slptimed>>
<1>1. UNCHANGED <<td_state, td_prio, td_wchan, td_sleepqueue, td_slpintr, td_slptimed,
                  sq_wchan, sq_blocked, sq_free>>
  BY DEF sqVars
<1>2. td_slpintr' \in SUBSET Threads /\ td_slptimed' \in SUBSET Threads
  BY <1>1 DEF IInv, TypeOK, SleepQueueTypeOK
<1>3. QueuesOK'
  BY <1>1, <1>2, Unmoved DEF IInv
<1> QED  BY <1>1, <1>3 DEF QueuesOK

LEMMA SigKillKeeps ==
  ASSUME IInv, NEW td \in Threads, NEW target \in Threads, SigKill(td, target)
  PROVE  IInv'
<1>1. /\ At(td, "run") /\ ops' = ops + 1 /\ ops < MaxOps /\ p_lock = NULL
      /\ td_needsigchk' = td_needsigchk \cup {target}
      /\ UNCHANGED <<sqVars, cv_waiters, lk_owner, td_seen, td_timeout, td_status,
                     td_slpcallout, ctVars, panicked>>
      /\ IF td_is_interruptible(target)
         THEN p_lock' = td /\ td_target' = target /\ Goto(td, "abort")
         ELSE UNCHANGED <<p_lock, td_target, td_pc>>
  BY DEF SigKill, Call
<1>2. ops' \in 0 .. MaxOps
  BY <1>1, CondvarAssumption DEF IInv, TypeOK
<1>3. /\ QueuesOK' /\ SleepQueueTypeOK'
      /\ UNCHANGED <<td_state, td_wchan, td_slpintr, td_slptimed>>
  BY <1>1, QueuesAside
<1>4. /\ \A u \in Threads : td_pc[u] \notin {"abort", "aborting"}
      /\ td_target = NULL /\ td # NULL /\ td_pc[td] = "run"
  BY <1>1, SleepQueueAssumption DEF IInv, FlagsOK, SignalsOK, At
<1>5. td \notin td_slpintr /\ td \notin td_slptimed
  BY <1>4 DEF IInv, FlagsOK, StatusOK, SleepStatus
<1>6. CASE td_is_interruptible(target)
  <2>1. p_lock' = td /\ td_target' = target /\ Goto(td, "abort")
    BY <1>1, <1>6
  <2>2. \A u \in Threads : td_pc'[u] = IF u = td THEN "abort" ELSE td_pc[u]
    BY <2>1 DEF Goto, IInv, TypeOK
  <2>3. SignalsOK'
    <3>1. \A u \in Threads : td_pc'[u] \in {"abort", "aborting"} <=> p_lock' = u
      BY <1>4, <2>1, <2>2
    <3>2. \A u \in Threads : td_pc'[u] # "aborting"
      BY <1>4, <2>2
    <3>3. \A u \in td_slpintr' : td_state'[u] = "READY" => u \in td_needsigchk'
      BY <1>1, <1>3 DEF IInv, FlagsOK, SignalsOK
    <3> QED  BY <1>1, <1>4, <2>1, <3>1, <3>2, <3>3 DEF SignalsOK
  <2>4. NoLostSignal'
    <3> SUFFICES ASSUME NEW u \in Threads, td_state'[u] = "SLEEPING",
                        u \in td_slpintr', u \in td_needsigchk'
                 PROVE  td_target' = u
      BY DEF NoLostSignal
    <3>1. u \notin td_needsigchk
      <4>1. u # NULL
        BY SleepQueueAssumption
      <4> QED  BY <1>3, <1>4, <4>1 DEF IInv, FlagsOK, NoLostSignal
    <3> QED  BY <1>1, <2>1, <3>1
  <2>5. StatusOK'
    <3>1. \A u \in Threads : u \in td_slpintr \cup td_slptimed => td_pc'[u] = td_pc[u]
      BY <1>5, <2>2
    <3>2. \A u \in Threads : td_status[u] = "ETIMEDOUT" =>
            u \in td_timeout \/ td_pc'[u] \in {"timed", "cv_timed"}
      BY <1>4, <2>2 DEF IInv, FlagsOK, StatusOK, SleepStatus
    <3> QED  BY <1>1, <1>3, <3>1, <3>2 DEF IInv, FlagsOK, StatusOK, SleepStatus
  <2>6. /\ td_pc' \in [Threads -> Pc] /\ p_lock' \in Threads \cup {NULL}
        /\ td_target' \in Threads \cup {NULL}
    BY <2>1 DEF Goto, IInv, TypeOK, Pc
  <2>7. TypeOK' /\ (ct_pc' # "idle" => ct_td' # NULL)
    BY <1>1, <1>2, <1>3, <2>6 DEF IInv, TypeOK, ctVars
  <2>8. CvWaitersCounted'
    BY <1>1, <1>3 DEF IInv, CvWaitersCounted
  <2> QED  BY <1>3, <2>3, <2>4, <2>5, <2>7, <2>8 DEF IInv, FlagsOK
<1>7. CASE ~ td_is_interruptible(target)
  <2>1. UNCHANGED <<p_lock, td_target, td_pc>>
    BY <1>1, <1>7
  <2>2. SignalsOK'
    BY <1>1, <1>3, <1>4, <2>1 DEF IInv, FlagsOK, SignalsOK
  <2>3. NoLostSignal'
    BY <1>1, <1>3, <1>7, <2>1 DEF IInv, FlagsOK, NoLostSignal, td_is_interruptible
  <2>4. StatusOK'
    BY <1>1, <1>3, <2>1 DEF IInv, FlagsOK, StatusOK, SleepStatus
  <2>5. TypeOK' /\ (ct_pc' # "idle" => ct_td' # NULL)
    BY <1>1, <1>2, <1>3, <2>1 DEF IInv, TypeOK, ctVars
  <2>6. CvWaitersCounted'
    BY <1>1, <1>3 DEF IInv, CvWaitersCounted
  <2> QED  BY <1>3, <2>2, <2>3, <2>4, <2>5, <2>6 DEF IInv, FlagsOK
<1> QED  BY <1>6, <1>7

LEMMA AbortLookupKeeps ==
  ASSUME IInv, NEW td \in Threads, AbortLookup(td)
  PROVE  IInv'
<1>1. /\ td_pc[td] = "abort" /\ td_seen' = td_wchan[td_target] /\ Goto(td, "aborting")
      /\ UNCHANGED <<sqVars, cv_waiters, lk_owner, td_needsigchk, p_lock, td_target,
                     td_timeout, td_status, td_slpcallout, ctVars, ops, panicked>>
  BY DEF AbortLookup, At
<1>2. /\ QueuesOK' /\ SleepQueueTypeOK'
      /\ UNCHANGED <<td_state, td_wchan, td_slpintr, td_slptimed>>
  BY <1>1, QueuesAside
<1>3. \A u \in Threads : td_pc'[u] = IF u = td THEN "aborting" ELSE td_pc[u]
  BY <1>1 DEF Goto, IInv, TypeOK
<1>4. td \notin td_slpintr /\ td \notin td_slptimed
  BY <1>1 DEF IInv, FlagsOK, StatusOK, SleepStatus
<1>5. td_target \in Threads
  <2>1. p_lock = td /\ td # NULL
    BY <1>1, SleepQueueAssumption DEF IInv, FlagsOK, SignalsOK
  <2> QED  BY <2>1 DEF IInv, FlagsOK, SignalsOK, TypeOK
<1>6. SignalsOK'
  <2>1. \A u \in Threads : td_pc'[u] \in {"abort", "aborting"} <=> p_lock' = u
    BY <1>1, <1>3 DEF IInv, FlagsOK, SignalsOK
  <2>2. /\ p_lock' = NULL => td_target' = NULL
        /\ p_lock' # NULL => td_target' \in td_needsigchk'
        /\ \A u \in td_slpintr' : td_state'[u] = "READY" => u \in td_needsigchk'
    BY <1>1, <1>2 DEF IInv, FlagsOK, SignalsOK
  <2> QED  BY <1>1, <1>2, <2>1, <2>2 DEF SignalsOK
<1>7. NoLostSignal'
  BY <1>1, <1>2 DEF IInv, FlagsOK, NoLostSignal
<1>8. StatusOK'
  BY <1>1, <1>2, <1>3, <1>4 DEF IInv, FlagsOK, StatusOK, SleepStatus
<1>9. TypeOK' /\ (ct_pc' # "idle" => ct_td' # NULL)
  <2>1. td_pc' \in [Threads -> Pc] /\ td_seen' \in Wchans \cup {NULL}
    BY <1>1, <1>5 DEF Goto, IInv, TypeOK, SleepQueueTypeOK, Pc
  <2> QED  BY <1>1, <1>2, <2>1 DEF IInv, TypeOK, ctVars
<1>10. CvWaitersCounted'
  BY <1>1, <1>2 DEF IInv, CvWaitersCounted
<1> QED  BY <1>2, <1>6, <1>7, <1>8, <1>9, <1>10 DEF IInv, FlagsOK

LEMMA AbortKeeps ==
  ASSUME IInv, NEW td \in Threads, Abort(td)
  PROVE  IInv'
<1>1. /\ td_pc[td] = "aborting" /\ sleepq_abort(td_target, td_seen, "EINTR")
      /\ p_lock' = NULL /\ td_target' = NULL /\ td_seen' = NULL /\ Goto(td, "run")
      /\ UNCHANGED <<cv_waiters, lk_owner, td_needsigchk, td_timeout, td_status,
                     td_slpcallout, ctVars, ops, panicked>>
  BY DEF Abort, At
<1>2. p_lock = td /\ td # NULL
  BY <1>1, SleepQueueAssumption DEF IInv, FlagsOK, SignalsOK
<1>3. td_target \in Threads /\ td_target \in td_needsigchk
  BY <1>2 DEF IInv, FlagsOK, SignalsOK, TypeOK
<1>4. PICK x \in Threads : x = td_target
  BY <1>3
<1>5. /\ QueuesOK'
      /\ \/ /\ UNCHANGED <<td_state, td_wchan, td_slpintr, td_slptimed>>
            /\ \/ td_state[x] # "SLEEPING"
               \/ td_wchan[x] # td_seen \/ ~ MayWake(x, "EINTR")
         \/ /\ Woken({x}) /\ MayWake(x, "EINTR")
            /\ td_state[x] = "SLEEPING"
            /\ td_slptimed' = IF "EINTR" = "EINTR" THEN td_slptimed \ {x} ELSE td_slptimed
            /\ td_slpintr' = IF "EINTR" = "ETIMEDOUT" THEN td_slpintr \ {x} ELSE td_slpintr
  BY <1>1, <1>4, AbortOK DEF IInv
<1>6. \A u \in Threads : td_pc'[u] = IF u = td THEN "run" ELSE td_pc[u]
  BY <1>1 DEF Goto, IInv, TypeOK
<1>7. td \notin td_slpintr /\ td \notin td_slptimed
  BY <1>1 DEF IInv, FlagsOK, StatusOK, SleepStatus
<1>8. \A u \in Threads : td_pc'[u] \notin {"abort", "aborting"}
  <2>1. \A u \in Threads : u # td => td_pc[u] \notin {"abort", "aborting"}
    BY <1>2 DEF IInv, FlagsOK, SignalsOK
  <2> QED  BY <1>6, <2>1
<1>9. /\ td_slpintr' = td_slpintr /\ td_slptimed' \subseteq td_slptimed
      /\ \A u \in Threads : u # x => td_state'[u] = td_state[u]
      /\ td_state'[x] # "SLEEPING" \/ x \notin td_slpintr
      /\ td_slpintr \subseteq Threads
  <2>1. td_slpintr \subseteq Threads
    BY DEF IInv, TypeOK, SleepQueueTypeOK
  <2>2. CASE Woken({x}) /\ td_slpintr' = td_slpintr /\ td_slptimed' = td_slptimed \ {x}
    BY <2>1, <2>2 DEF Woken
  <2>3. CASE /\ UNCHANGED <<td_state, td_wchan, td_slpintr, td_slptimed>>
             /\ \/ td_state[x] # "SLEEPING"
                \/ td_wchan[x] # td_seen \/ ~ MayWake(x, "EINTR")
    <3>1. td_state[x] = "SLEEPING" /\ x \in td_slpintr
            => td_wchan[x] = td_seen /\ MayWake(x, "EINTR")
      BY <1>1, <1>4 DEF IInv, FlagsOK, SignalsOK, MayWake
    <3> QED  BY <2>1, <2>3, <3>1
  <2> QED  BY <1>5, <2>2, <2>3
<1>10. SignalsOK'
  <2>1. \A u \in td_slpintr' : td_state'[u] = "READY" => u \in td_needsigchk'
    BY <1>1, <1>3, <1>4, <1>9 DEF IInv, FlagsOK, SignalsOK
  <2>2. \A u \in Threads : u # NULL
    BY SleepQueueAssumption
  <2> QED  BY <1>1, <1>8, <2>1, <2>2 DEF SignalsOK
<1>11. NoLostSignal'
  <2> SUFFICES ASSUME NEW u \in Threads, td_state'[u] = "SLEEPING",
                      u \in td_slpintr', u \in td_needsigchk'
               PROVE  FALSE
    BY DEF NoLostSignal
  <2>1. u # x
    BY <1>9
  <2>2. td_target = u
    BY <1>1, <1>9, <2>1 DEF IInv, FlagsOK, NoLostSignal
  <2> QED  BY <1>4, <2>1, <2>2
<1>12. StatusOK'
  BY <1>1, <1>6, <1>7, <1>9 DEF IInv, FlagsOK, StatusOK, SleepStatus
<1>13. CvWaitersCounted'
  <2>1. CASE Woken({x})
    BY <1>1, <2>1, FewerSleepers
  <2>2. CASE td_wchan' = td_wchan
    BY <1>1, <2>2 DEF IInv, CvWaitersCounted
  <2> QED  BY <1>5, <2>1, <2>2
<1>14. TypeOK' /\ (ct_pc' # "idle" => ct_td' # NULL)
  <2>1. td_pc' \in [Threads -> Pc]
    BY <1>1 DEF Goto, IInv, TypeOK, Pc
  <2> QED  BY <1>1, <1>5, <2>1 DEF IInv, TypeOK, QueuesOK, ctVars
<1> QED  BY <1>5, <1>10, <1>11, <1>12, <1>13, <1>14 DEF IInv, FlagsOK

LEMMA SigCheckKeeps ==
  ASSUME IInv, NEW td \in Threads, SigCheck(td)
  PROVE  IInv'
<1>1. /\ td_pc[td] = "run" /\ p_lock = NULL
      /\ td_needsigchk' = td_needsigchk \ {td}
      /\ td_status' = [td_status EXCEPT ![td] = "none"]
      /\ UNCHANGED <<sqVars, cv_waiters, lk_owner, p_lock, td_target, td_seen,
                     td_pc, td_timeout, td_slpcallout, ctVars, ops, panicked>>
  BY DEF SigCheck, At
<1>2. /\ QueuesOK' /\ SleepQueueTypeOK'
      /\ UNCHANGED <<td_state, td_wchan, td_slpintr, td_slptimed>>
  BY <1>1, QueuesAside
<1>3. td \notin td_slpintr /\ td \notin td_slptimed
  BY <1>1 DEF IInv, FlagsOK, StatusOK, SleepStatus
<1>4. \A u \in Threads : td_status'[u] = IF u = td THEN "none" ELSE td_status[u]
  BY <1>1 DEF IInv, TypeOK
<1>5. SignalsOK'
  <2>1. \A u \in td_slpintr' : td_state'[u] = "READY" => u \in td_needsigchk'
    BY <1>1, <1>2, <1>3 DEF IInv, FlagsOK, SignalsOK
  <2> QED  BY <1>1, <1>2, <2>1 DEF IInv, FlagsOK, SignalsOK
<1>6. NoLostSignal'
  BY <1>1, <1>2 DEF IInv, FlagsOK, NoLostSignal
<1>7. StatusOK'
  BY <1>1, <1>2, <1>4 DEF IInv, FlagsOK, StatusOK, SleepStatus
<1>8. TypeOK' /\ (ct_pc' # "idle" => ct_td' # NULL)
  BY <1>1, <1>2 DEF IInv, TypeOK, ctVars
<1>9. CvWaitersCounted'
  BY <1>1, <1>2 DEF IInv, CvWaitersCounted
<1> QED  BY <1>2, <1>5, <1>6, <1>7, <1>8, <1>9 DEF IInv, FlagsOK

-----------------------------------------------------------------------------
(* Timeouts. *)

LEMMA ExpireKeeps ==
  ASSUME IInv, NEW td \in Threads, Expire(td)
  PROVE  IInv'
<1>1. /\ td_slpcallout' = [td_slpcallout EXCEPT ![td] = "delegated"]
      /\ UNCHANGED <<sqVars, cv_waiters, lk_owner, sigVars, td_pc, td_timeout,
                     td_status, ctVars, ops, panicked>>
  BY DEF Expire
<1>2. QueuesOK' /\ FlagsOK' /\ CvWaitersCounted' /\ SleepQueueTypeOK'
  BY <1>1, Aside
<1>3. TypeOK' /\ (ct_pc' # "idle" => ct_td' # NULL)
  BY <1>1, <1>2 DEF IInv, TypeOK, sigVars, ctVars
<1> QED  BY <1>2, <1>3 DEF IInv

LEMMA TimeoutLookupKeeps ==
  ASSUME IInv, NEW td \in Threads, TimeoutLookup(td)
  PROVE  IInv'
<1>1. /\ td_slpcallout' = [td_slpcallout EXCEPT ![td] = "running"]
      /\ ct_td' = td /\ ct_seen' = td_wchan[td] /\ ct_pc' = "abort"
      /\ UNCHANGED <<sqVars, cv_waiters, lk_owner, sigVars, td_pc, td_timeout,
                     td_status, ops, panicked>>
  BY DEF TimeoutLookup
<1>2. QueuesOK' /\ FlagsOK' /\ CvWaitersCounted' /\ SleepQueueTypeOK'
  BY <1>1, Aside
<1>3. ct_seen' \in Wchans \cup {NULL} /\ td # NULL
  BY <1>1, SleepQueueAssumption DEF IInv, TypeOK, SleepQueueTypeOK
<1>4. TypeOK' /\ (ct_pc' # "idle" => ct_td' # NULL)
  BY <1>1, <1>2, <1>3 DEF IInv, TypeOK, sigVars
<1> QED  BY <1>2, <1>4 DEF IInv

LEMMA TimeoutKeeps ==
  ASSUME IInv, Timeout
  PROVE  IInv'
<1>1. /\ ct_pc = "abort" /\ sleepq_abort(ct_td, ct_seen, "ETIMEDOUT") /\ ct_pc' = "finish"
      /\ UNCHANGED <<cv_waiters, lk_owner, sigVars, td_pc, td_timeout, td_status,
                     td_slpcallout, ct_td, ct_seen, ops, panicked>>
  BY DEF Timeout
<1>2. ct_td \in Threads
  BY <1>1 DEF IInv, TypeOK
<1>3. PICK x \in Threads : x = ct_td
  BY <1>2
<1>4. /\ QueuesOK'
      /\ \/ /\ UNCHANGED <<td_state, td_wchan, td_slpintr, td_slptimed>>
            /\ \/ td_state[x] # "SLEEPING"
               \/ td_wchan[x] # ct_seen \/ ~ MayWake(x, "ETIMEDOUT")
         \/ /\ Woken({x}) /\ MayWake(x, "ETIMEDOUT")
            /\ td_state[x] = "SLEEPING"
            /\ td_slptimed' = IF "ETIMEDOUT" = "EINTR" THEN td_slptimed \ {x} ELSE td_slptimed
            /\ td_slpintr' = IF "ETIMEDOUT" = "ETIMEDOUT" THEN td_slpintr \ {x}
                             ELSE td_slpintr
  BY <1>1, <1>3, AbortOK DEF IInv
<1>5. FlagsOK' /\ CvWaitersCounted'
  <2>1. CASE Woken({x}) /\ td_slptimed' = td_slptimed /\ td_slpintr' = td_slpintr \ {x}
    <3>1. /\ {x} \in SUBSET Threads
          /\ td_slpintr' \subseteq td_slpintr /\ td_slptimed' \subseteq td_slptimed
          /\ \A u \in {x} : u \in td_slpintr' => u \in td_needsigchk
      BY <2>1
    <3>2. FlagsOK'
      BY <1>1, <2>1, <3>1, WakeupKeepsFlags DEF IInv
    <3>3. CvWaitersCounted'
      BY <1>1, <2>1, <3>1, FewerSleepers
    <3> QED  BY <3>2, <3>3
  <2>2. CASE UNCHANGED <<td_state, td_wchan, td_slpintr, td_slptimed>>
    <3>1. UNCHANGED <<td_needsigchk, p_lock, td_target, td_seen, td_pc, td_timeout,
                      td_status, cv_waiters>>
      BY <1>1 DEF sigVars
    <3>2. SignalsOK' /\ NoLostSignal' /\ StatusOK'
      BY <2>2, <3>1 DEF IInv, FlagsOK, SignalsOK, NoLostSignal, StatusOK, SleepStatus
    <3>3. CvWaitersCounted'
      BY <2>2, <3>1 DEF IInv, CvWaitersCounted
    <3> QED  BY <3>2, <3>3 DEF FlagsOK
  <2> QED  BY <1>4, <2>1, <2>2
<1>6. TypeOK' /\ (ct_pc' # "idle" => ct_td' # NULL)
  BY <1>1, <1>4 DEF IInv, TypeOK, QueuesOK, sigVars
<1> QED  BY <1>4, <1>5, <1>6 DEF IInv

LEMMA TimeoutFinishKeeps ==
  ASSUME IInv, TimeoutFinish
  PROVE  IInv'
<1>1. /\ td_slpcallout' = IF td_slpcallout[ct_td] = "running"
                          THEN [td_slpcallout EXCEPT ![ct_td] = "idle"]
                          ELSE td_slpcallout
      /\ panicked' = (td_slpcallout[ct_td] = "delegated")
      /\ ct_td' = NULL /\ ct_seen' = NULL /\ ct_pc' = "idle"
      /\ UNCHANGED <<sqVars, cv_waiters, lk_owner, sigVars, td_pc, td_timeout,
                     td_status, ops>>
  BY DEF TimeoutFinish
<1>2. QueuesOK' /\ FlagsOK' /\ CvWaitersCounted' /\ SleepQueueTypeOK'
  BY <1>1, Aside
<1>3. td_slpcallout' \in [Threads -> {"idle", "pending", "delegated", "running"}]
  BY <1>1 DEF IInv, TypeOK
<1>4. panicked' \in BOOLEAN
  BY <1>1
<1>5. TypeOK' /\ (ct_pc' # "idle" => ct_td' # NULL)
  BY <1>1, <1>2, <1>3, <1>4 DEF IInv, TypeOK, sigVars
<1> QED  BY <1>2, <1>5 DEF IInv

-----------------------------------------------------------------------------
LEMMA InitOK ==
  ASSUME Init
  PROVE  IInv
<1>1. /\ td_state = [td \in Threads |-> "READY"]
      /\ td_prio \in [Threads -> 0..LowestPrio]
      /\ td_wchan = [td \in Threads |-> NULL]
      /\ td_sleepqueue = [td \in Threads |-> td]
      /\ td_slpintr = {} /\ td_slptimed = {}
      /\ sq_wchan = [sq \in Threads |-> NULL]
      /\ sq_blocked = [sq \in Threads |-> <<>>]
      /\ sq_free = [sq \in Threads |-> <<>>]
  BY DEF Init, SleepQueueInit, SleepQueues
<1>2. /\ Range(<<>>) = {} /\ Distinct(<<>>)
      /\ <<>> \in Seq(Threads) /\ <<>> \in Seq(SleepQueues)
  BY DEF Range, Distinct
<1>3. \A td \in Threads : td # NULL
  BY SleepQueueAssumption
<1>4. SleepQueueTypeOK
  BY <1>1, <1>2 DEF SleepQueueTypeOK, SleepQueues
<1>5. SleepersFound
  BY <1>1, <1>2 DEF SleepersFound, SleepQueues
<1>6. SleepQueuesConserved
  BY <1>1, <1>2, <1>3 DEF SleepQueuesConserved, SleepQueues
<1>7. RecordsOK
  BY <1>1, <1>2 DEF RecordsOK, SleepQueues
<1>8. TypeOK
  <2>1. /\ cv_waiters = 0 /\ lk_owner = NULL /\ td_needsigchk = {} /\ p_lock = NULL
        /\ td_pc = [td \in Threads |-> "run"] /\ td_timeout = {}
        /\ td_status = [td \in Threads |-> "none"] /\ td_target = NULL /\ td_seen = NULL
        /\ td_slpcallout = [td \in Threads |-> "idle"]
        /\ ct_td = NULL /\ ct_pc = "idle" /\ ct_seen = NULL /\ ops = 0
    BY DEF Init
  <2>2. panicked \in BOOLEAN
    BY DEF Init
  <2>3. ops \in 0 .. MaxOps /\ cv_waiters \in Nat
    BY <2>1, CondvarAssumption
  <2>4. /\ td_pc \in [Threads -> Pc]
        /\ td_status \in [Threads -> {"none", "ok", "EINTR", "ETIMEDOUT"}]
        /\ td_slpcallout \in [Threads -> {"idle", "pending", "delegated", "running"}]
    BY <2>1 DEF Pc
  <2> QED  BY <1>4, <2>1, <2>2, <2>3, <2>4 DEF TypeOK
<1>9. SignalsOK
  BY <1>1, <1>3 DEF Init, SignalsOK
<1>10. NoLostSignal /\ StatusOK
  BY <1>1 DEF Init, NoLostSignal, StatusOK, SleepStatus
<1>11. CvWaitersCounted
  <2>1. Cv # NULL
    BY SleepQueueAssumption, CondvarAssumption
  <2>2. {td \in Threads : td_wchan[td] = Cv} = {}
    BY <1>1, <2>1
  <2>3. Cardinality({td \in Threads : td_wchan[td] = Cv}) = 0
    BY <2>2, FS_EmptySet
  <2> QED  BY <2>3 DEF Init, CvWaitersCounted
<1> QED  BY <1>4, <1>5, <1>6, <1>7, <1>8, <1>9, <1>10, <1>11
         DEF Init, IInv, QueuesOK, FlagsOK

LEMMA NextKeeps ==
  ASSUME IInv, [Next]_vars
  PROVE  IInv'
<1>1. CASE UNCHANGED vars
  <2>1. UNCHANGED <<sqVars, cv_waiters, lk_owner, sigVars, td_pc, td_timeout, td_status,
                    td_slpcallout, ctVars, ops, panicked>>
    BY <1>1 DEF vars
  <2>2. QueuesOK' /\ FlagsOK' /\ CvWaitersCounted' /\ SleepQueueTypeOK'
    BY <2>1, Aside
  <2>3. TypeOK' /\ (ct_pc' # "idle" => ct_td' # NULL)
    BY <2>1, <2>2 DEF IInv, TypeOK, sigVars, ctVars
  <2> QED  BY <2>2, <2>3 DEF IInv
<1>2. CASE Timer
  BY <1>2, ExpireKeeps, TimeoutLookupKeeps, TimeoutKeeps, TimeoutFinishKeeps DEF Timer
<1>3. ASSUME NEW td \in Threads, Continue(td) PROVE IInv'
  BY <1>3, WaitReturnKeeps, TimedReturnKeeps, StopCalloutKeeps, AbortLookupKeeps,
     AbortKeeps DEF Continue
<1>4. ASSUME NEW td \in Threads, Operation(td) PROVE IInv'
  <2>1. ASSUME NEW wchan \in Wchans \ {Cv},
               \/ Sleep(td, wchan)
               \/ \E timeout \in BOOLEAN : SleepTimed(td, wchan, timeout)
               \/ Wake(td, wchan)
        PROVE  IInv'
    BY <2>1, SleepKeeps, SleepTimedKeeps, WakeKeeps
  <2>2. ASSUME NEW timeout \in BOOLEAN, CvWaitTimed(td, timeout) PROVE IInv'
    BY <2>2, CvWaitTimedKeeps
  <2>3. ASSUME NEW target \in Threads, SigKill(td, target) PROVE IInv'
    BY <2>3, SigKillKeeps
  <2> QED  BY <1>4, <2>1, <2>2, <2>3, CvWaitKeeps, AcquireKeeps, ReleaseKeeps,
              CvSignalKeeps, CvBroadcastKeeps, SigCheckKeeps DEF Operation
<1> QED  BY <1>1, <1>2, <1>3, <1>4 DEF Next

-----------------------------------------------------------------------------
\* Every step of the sleep queues, the condition variable, signals and
\* timeouts keeps the inductive invariant.
THEOREM Invariance == Spec => []IInv
<1>1. Init => IInv
  BY InitOK
<1>2. IInv /\ [Next]_vars => IInv'
  BY NextKeeps
<1> QED  BY <1>1, <1>2, PTL DEF Spec

\* Type correctness of the sleep queues and of the calls that use them; among
\* others cv_waiters, which cv_signal decrements, never becomes negative.
THEOREM TypeCorrect == Spec => []TypeOK
<1>1. IInv => TypeOK
  BY DEF IInv
<1> QED  BY <1>1, Invariance, PTL

\* A sleeping thread is on the one queue of its channel, where sleepq_signal,
\* sleepq_broadcast and sleepq_abort look for it.
THEOREM SleepersSafe == Spec => []SleepersFound
<1>1. IInv => SleepersFound
  BY DEF IInv, QueuesOK
<1> QED  BY <1>1, Invariance, PTL

\* The assertions of sq_enter and sq_leave: in whatever order threads leave a
\* queue, each takes a clean record that nobody else has.
THEOREM RecordsSafe == Spec => []SleepQueuesConserved
<1>1. IInv => SleepQueuesConserved
  BY DEF IInv, QueuesOK
<1> QED  BY <1>1, Invariance, PTL

\* cv_signal and cv_broadcast never skip the sleep queue while a thread sleeps
\* on the condition variable.
THEOREM WaitersCounted == Spec => []CvWaitersCounted
<1>1. IInv => CvWaitersCounted
  BY DEF IInv
<1> QED  BY <1>1, Invariance, PTL

\* sig_kill, which looks at the target and aborts its sleep in three sections
\* under different locks, and sleepq_wait_intr, which looks for signals before
\* it sleeps, do not miss each other.
THEOREM SignalsSafe == Spec => []NoLostSignal
<1>1. IInv => NoLostSignal
  BY DEF IInv, FlagsOK
<1> QED  BY <1>1, Invariance, PTL

\* What sleepq_wait_timed returns is what happened, and no flag of a sleep
\* survives it (the assertion of sleepq_wait).
THEOREM StatusSafe == Spec => []SleepStatus
<1>1. IInv => SleepStatus
  BY DEF IInv, FlagsOK, StatusOK
<1> QED  BY <1>1, Invariance, PTL
=============================================================================
