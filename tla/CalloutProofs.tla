--------------------------- MODULE CalloutProofs ---------------------------
(***************************************************************************)
(* What is proved of Callout, for any finite set of callouts, any number   *)
(* of buckets and any bounds on the times, while functions that reschedule *)
(* their callouts return in time: the wheel is consistent, a callout that  *)
(* was stopped or drained does not run, the sleeps in callout_thread and   *)
(* callout_drain miss no wakeup, and callout_process finds what is due.    *)
(***************************************************************************)
EXTENDS Callout, TailQueueProofs

\* CALLOUT_ACTIVE is set exactly while the callout thread has the callout, in
\* its queue or in its hands; it takes a callout that is not pending.
ThreadOK ==
  /\ ~ panicked
  /\ c_active = Range(delegated) \cup ({elem} \ {NULL})
  /\ elem \notin Range(delegated)
  /\ elem # NULL <=> ct_pc \in {"call", "rescheduled"}
  /\ ct_pc = "call" => elem \notin c_pending

IInv ==
  /\ TypeOK
  /\ WheelConsistent
  /\ QuietCalloutsDoNotRun
  /\ NobodySleepsForNothing
  /\ ThreadOK

-----------------------------------------------------------------------------
(* Remainders: the buckets of consecutive times go round the wheel. *)

LEMMA Remainder ==
  ASSUME NEW m \in Nat \ {0}, NEW a \in Int
  PROVE  a % m \in 0 .. (m - 1) /\ \E q \in Int : a = (q * m) + (a % m)
<1>1. a % m \in 0 .. (m - 1)
  OBVIOUS
<1>2. a \div m \in Int /\ a = ((a \div m) * m) + (a % m)
  OBVIOUS
<1> QED  BY <1>1, <1>2

LEMMA SmallRemainder ==
  ASSUME NEW m \in Nat \ {0}, NEW q \in Int, NEW r \in 0 .. (m - 1)
  PROVE  ((q * m) + r) % m = r
OBVIOUS

LEMMA SameRemainder ==
  ASSUME NEW m \in Nat \ {0}, NEW a \in Int, NEW b \in Int,
         a % m = b % m, a <= b, b < a + m
  PROVE  a = b
<1>1. PICK p \in Int : a = (p * m) + (a % m)
  BY Remainder
<1>2. PICK q \in Int : b = (q * m) + (b % m)
  BY Remainder
<1>3. b - a = (q - p) * m
  BY <1>1, <1>2, Remainder
<1>4. q - p >= 1 => (q - p) * m >= m
  OBVIOUS
<1>5. q - p <= -1 => (q - p) * m <= - m
  OBVIOUS
<1> QED  BY <1>3, <1>4, <1>5

\* The bucket n places after the bucket of the time of the previous tick.
Visited(n) == (last + n) % CALLOUT_BUCKETS

LEMMA VisitedBuckets ==
  ASSUME last \in Nat
  PROVE  /\ \A n \in Nat : Visited(n) \in Buckets
         /\ \A n, k \in 0 .. (CALLOUT_BUCKETS - 1) : Visited(n) = Visited(k) => n = k
         /\ \A b \in Buckets : \E n \in 0 .. (CALLOUT_BUCKETS - 1) : Visited(n) = b
<1>1. CALLOUT_BUCKETS \in Nat \ {0}
  BY CalloutAssumption
<1>2. \A n \in Nat : Visited(n) \in Buckets
  BY <1>1, Remainder DEF Visited, Buckets
<1>3. ASSUME NEW n \in 0 .. (CALLOUT_BUCKETS - 1), NEW k \in 0 .. (CALLOUT_BUCKETS - 1),
             Visited(n) = Visited(k)
      PROVE  n = k
  <2>1. CASE n <= k
    <3>1. last + n = last + k
      <4>1. /\ last + n \in Int /\ last + k \in Int /\ last + n <= last + k
            /\ last + k < (last + n) + CALLOUT_BUCKETS
        BY <1>1, <2>1
      <4> QED  BY <1>1, <1>3, <4>1, SameRemainder DEF Visited
    <3> QED  BY <3>1
  <2>2. CASE k <= n
    <3>1. last + k = last + n
      <4>1. /\ last + n \in Int /\ last + k \in Int /\ last + k <= last + n
            /\ last + n < (last + k) + CALLOUT_BUCKETS
        BY <1>1, <2>2
      <4> QED  BY <1>1, <1>3, <4>1, SameRemainder DEF Visited
    <3> QED  BY <3>1
  <2> QED  BY <1>1, <2>1, <2>2
<1>4. ASSUME NEW b \in Buckets
      PROVE  \E n \in 0 .. (CALLOUT_BUCKETS - 1) : Visited(n) = b
  <2> DEFINE n == (b - last) % CALLOUT_BUCKETS
  <2>1. b \in 0 .. (CALLOUT_BUCKETS - 1) /\ b - last \in Int
    BY <1>1 DEF Buckets
  <2>2. n \in 0 .. (CALLOUT_BUCKETS - 1)
        /\ \E q \in Int : b - last = (q * CALLOUT_BUCKETS) + n
    BY <1>1, <2>1, Remainder
  <2> HIDE DEF n
  <2>3. PICK q \in Int : b - last = (q * CALLOUT_BUCKETS) + n
    BY <2>2
  <2>4. last + n = ((- q) * CALLOUT_BUCKETS) + b
    BY <1>1, <2>1, <2>2, <2>3
  <2>5. (((- q) * CALLOUT_BUCKETS) + b) % CALLOUT_BUCKETS = b
    BY <1>1, <2>1, SmallRemainder
  <2> QED  BY <2>2, <2>4, <2>5 DEF Visited
<1> QED  BY <1>2, <1>3, <1>4

\* callout_process visits the buckets of all the times that have passed, all
\* the buckets if there are more such times than buckets, but one bucket only
\* if there are as many.
LEMMA OffsetValue ==
  ASSUME last \in Nat, NEW time \in Nat, time > last
  PROVE  /\ LastOffset(time) \in 0 .. (CALLOUT_BUCKETS - 1)
         /\ time - last < CALLOUT_BUCKETS => LastOffset(time) = time - last
         /\ time - last > CALLOUT_BUCKETS => LastOffset(time) = CALLOUT_BUCKETS - 1
<1>1. CALLOUT_BUCKETS \in Nat \ {0}
  BY CalloutAssumption
<1>2. CASE time - last > CALLOUT_BUCKETS
  <2> DEFINE r == (last - 1) % CALLOUT_BUCKETS
  <2>1. LastOffset(time) = (r - last) % CALLOUT_BUCKETS
    BY <1>2 DEF LastOffset
  <2>2. r \in 0 .. (CALLOUT_BUCKETS - 1)
        /\ \E q \in Int : last - 1 = (q * CALLOUT_BUCKETS) + r
    <3>1. last - 1 \in Int
      OBVIOUS
    <3> QED  BY <1>1, <3>1, Remainder
  <2> HIDE DEF r
  <2>3. PICK q \in Int : last - 1 = (q * CALLOUT_BUCKETS) + r
    BY <2>2
  <2>4. r - last = ((- q - 1) * CALLOUT_BUCKETS) + (CALLOUT_BUCKETS - 1)
    BY <1>1, <2>2, <2>3
  <2>5. /\ - q - 1 \in Int
        /\ CALLOUT_BUCKETS - 1 \in 0 .. (CALLOUT_BUCKETS - 1)
    BY <1>1
  <2>6. LastOffset(time) = CALLOUT_BUCKETS - 1
    BY <1>1, <2>1, <2>4, <2>5, SmallRemainder
  <2> QED  BY <1>1, <1>2, <2>6
<1>3. CASE ~ (time - last > CALLOUT_BUCKETS)
  <2> DEFINE r == time % CALLOUT_BUCKETS
  <2>1. LastOffset(time) = (r - last) % CALLOUT_BUCKETS
    BY <1>3 DEF LastOffset
  <2>2. r \in 0 .. (CALLOUT_BUCKETS - 1)
        /\ \E q \in Int : time = (q * CALLOUT_BUCKETS) + r
    <3>1. time \in Int
      OBVIOUS
    <3> QED  BY <1>1, <3>1, Remainder
  <2> HIDE DEF r
  <2>3. PICK q \in Int : time = (q * CALLOUT_BUCKETS) + r
    BY <2>2
  <2>4. LastOffset(time) \in 0 .. (CALLOUT_BUCKETS - 1)
    <3>1. r - last \in Int
      BY <2>2
    <3> QED  BY <1>1, <2>1, <3>1, Remainder
  <2>5. ASSUME time - last < CALLOUT_BUCKETS
        PROVE  LastOffset(time) = time - last
    <3>1. r - last = ((- q) * CALLOUT_BUCKETS) + (time - last)
      BY <1>1, <2>2, <2>3
    <3>2. - q \in Int /\ time - last \in 0 .. (CALLOUT_BUCKETS - 1)
      BY <1>1, <2>5
    <3> QED  BY <1>1, <2>1, <3>1, <3>2, SmallRemainder
  <2> QED  BY <1>3, <2>4, <2>5
<1> QED  BY <1>2, <1>3

-----------------------------------------------------------------------------
(* What callout_process detaches. *)

\* The callouts that are due in the buckets that are visited.
Found(time) ==
  {c \in Triggered(time) : \E n \in 0 .. LastOffset(time) : Visited(n) = ListOf(c)}

LEMMA DetachedFound ==
  ASSUME TypeOK, WheelConsistent, NEW time \in Nat, time > last
  PROVE  /\ Detached(time) \in Seq(Callouts)
         /\ Range(Detached(time)) = Found(time)
         /\ Distinct(Detached(time))
<1> DEFINE B == CALLOUT_BUCKETS
           q == [n \in 1 .. B |-> Sublist(heads[(last + n - 1) % B], Triggered(time))]
           g == CHOOSE f : f = [n \in 0 .. B |-> IF n = 0 THEN <<>> ELSE f[n - 1] \o
                  Sublist(heads[(last + n - 1) % B], Triggered(time))]
           m == LastOffset(time) + 1
<1>1. B \in Nat \ {0} /\ last \in Nat
  BY CalloutAssumption DEF TypeOK
<1>2. Detached(time) = g[m]
  BY DEF Detached
<1>3. m \in 0 .. B
  <2>1. LastOffset(time) \in 0 .. (B - 1)
    BY <1>1, OffsetValue
  <2> QED  BY <1>1, <2>1
<1>4. ASSUME NEW f
      PROVE  IsChain(f, q, B) <=>
               f = [n \in 0 .. B |-> IF n = 0 THEN <<>> ELSE f[n - 1] \o
                  Sublist(heads[(last + n - 1) % B], Triggered(time))]
  <2>1. \A n \in 1 .. B :
          q[n] = Sublist(heads[(last + n - 1) % B], Triggered(time))
    OBVIOUS
  <2> DEFINE u == [n \in 0 .. B |-> IF n = 0 THEN <<>> ELSE f[n - 1] \o q[n]]
             v == [n \in 0 .. B |-> IF n = 0 THEN <<>> ELSE f[n - 1] \o
                  Sublist(heads[(last + n - 1) % B], Triggered(time))]
  <2> HIDE DEF q
  <2>2. ASSUME NEW n \in 0 .. B PROVE u[n] = v[n]
    <3>1. n = 0 \/ n \in 1 .. B
      BY <1>1
    <3> QED  BY <2>1, <3>1
  <2>3. u = v
    BY <2>2
  <2> QED  BY <2>3 DEF IsChain
<1>5. IsChain(g, q, B)
  <2>1. \E f : IsChain(f, q, B)
    BY <1>1, ChainExists
  <2> QED  BY <2>1, <1>4
<1>6. ASSUME NEW n \in 1 .. B
      PROVE  /\ n - 1 \in 0 .. (B - 1) /\ Visited(n - 1) \in Buckets
             /\ q[n] \in Seq(Callouts) /\ Distinct(q[n])
             /\ Range(q[n]) = {c \in Triggered(time) : Visited(n - 1) = ListOf(c)}
  <2>1. n - 1 \in 0 .. (B - 1) /\ last + n - 1 = last + (n - 1)
    BY <1>1
  <2>2. Visited(n - 1) \in Buckets /\ q[n] = Sublist(heads[Visited(n - 1)], Triggered(time))
    <3>1. Visited(n - 1) = (last + n - 1) % B
      BY <2>1 DEF Visited
    <3>2. Visited(n - 1) \in Buckets
      BY <1>1, <2>1, VisitedBuckets
    <3> QED  BY <3>1, <3>2
  <2> HIDE DEF q
  <2> DEFINE b == Visited(n - 1)
  <2> HIDE DEF b
  <2>3. b \in Buckets /\ q[n] = Sublist(heads[b], Triggered(time))
    BY <2>2 DEF b
  <2>4. /\ heads[b] \in Seq(Callouts) /\ Distinct(heads[b])
        /\ \A c \in Range(heads[b]) : ListOf(c) = b
        /\ \A c \in Callouts : c \in c_pending <=> c \in Range(heads[ListOf(c)])
    BY <2>3 DEF TypeOK, WheelConsistent
  <2>5. /\ q[n] \in Seq(Callouts)
        /\ Range(q[n]) = Range(heads[b]) \cap Triggered(time)
        /\ Distinct(q[n])
    BY <2>3, <2>4, SublistRange
  <2>6. \A c \in Triggered(time) : c \in Callouts /\ c \in c_pending
    BY DEF Triggered, TypeOK
  <2>7. Range(q[n]) = {c \in Triggered(time) : b = ListOf(c)}
    BY <2>4, <2>5, <2>6
  <2> QED  BY <2>1, <2>3, <2>5, <2>7 DEF b
<1> HIDE DEF g, q, m
<1>7. q \in [1 .. B -> Seq(Callouts)]
  BY <1>6 DEF q
<1>8. \A i, j \in 1 .. B : i # j => Range(q[i]) \cap Range(q[j]) = {}
  <2> SUFFICES ASSUME NEW i \in 1 .. B, NEW j \in 1 .. B, i # j,
                      NEW c \in Range(q[i]), c \in Range(q[j])
               PROVE  FALSE
    OBVIOUS
  <2>1. Visited(i - 1) = Visited(j - 1)
    BY <1>6
  <2>2. i - 1 = j - 1
    BY <1>1, <1>6, <2>1, VisitedBuckets
  <2> QED  BY <1>1, <2>2
<1>9. /\ g[m] \in Seq(Callouts)
      /\ Range(g[m]) = Joined(q, m)
      /\ Apart(q, B) => Distinct(g[m])
  <2>1. B \in Nat
    BY <1>1
  <2> HIDE DEF B
  <2> QED  BY <2>1, <1>3, <1>5, <1>7, ChainRange
<1>10. Distinct(g[m])
  BY <1>6, <1>8, <1>9 DEF Apart
<1>11. ASSUME NEW c
       PROVE  c \in Range(g[m]) <=> c \in Found(time)
  <2>1. c \in Range(g[m]) <=> \E i \in 1 .. m : c \in Range(q[i])
    BY <1>9 DEF Joined
  <2>2. \A i \in 1 .. m : i \in 1 .. B
    BY <1>1, <1>3
  <2>3. c \in Range(g[m]) <=>
          c \in Triggered(time) /\ \E i \in 1 .. m : Visited(i - 1) = ListOf(c)
    BY <1>6, <2>1, <2>2
  <2>4. m = LastOffset(time) + 1 /\ LastOffset(time) \in Nat
    BY <1>1, OffsetValue DEF m
  <2>5. (\E i \in 1 .. m : Visited(i - 1) = ListOf(c))
          <=> \E n \in 0 .. LastOffset(time) : Visited(n) = ListOf(c)
    <3>1. ASSUME NEW i \in 1 .. m, Visited(i - 1) = ListOf(c)
          PROVE  \E n \in 0 .. LastOffset(time) : Visited(n) = ListOf(c)
      <4>1. i - 1 \in 0 .. LastOffset(time)
        BY <2>4
      <4> QED  BY <3>1, <4>1
    <3>2. ASSUME NEW n \in 0 .. LastOffset(time), Visited(n) = ListOf(c)
          PROVE  \E i \in 1 .. m : Visited(i - 1) = ListOf(c)
      <4>1. n + 1 \in 1 .. m /\ (n + 1) - 1 = n
        BY <2>4
      <4> QED  BY <3>2, <4>1
    <3> QED  BY <3>1, <3>2
  <2> QED  BY <2>3, <2>5 DEF Found
<1>12. Range(g[m]) = Found(time)
  BY <1>11
<1> QED  BY <1>2, <1>9, <1>10, <1>12

-----------------------------------------------------------------------------
(* The inductive step, action by action. *)

LEMMA BucketOfTime ==
  ASSUME NEW tm \in Nat
  PROVE  tm % CALLOUT_BUCKETS \in Buckets
<1>1. CALLOUT_BUCKETS \in Nat \ {0} /\ tm \in Int
  BY CalloutAssumption
<1> QED  BY <1>1, Remainder DEF Buckets

LEMMA BucketOfCallout ==
  ASSUME TypeOK, NEW c \in Callouts
  PROVE  ListOf(c) \in Buckets
<1>1. c_time[c] \in Nat
  BY CalloutAssumption DEF TypeOK
<1> QED  BY <1>1, BucketOfTime DEF ListOf

\* A pending callout is in one bucket only.
LEMMA InOneBucket ==
  ASSUME TypeOK, WheelConsistent, NEW c \in Callouts, NEW b \in Buckets
  PROVE  c \in Range(heads[b]) <=> c \in c_pending /\ b = ListOf(c)
BY DEF WheelConsistent

LEMMA ScheduleKeepsWheel ==
  ASSUME TypeOK, WheelConsistent, NEW c \in Callouts, NEW tm \in 0 .. MaxTime,
         c \notin c_pending, c \notin Range(delegated), _callout_schedule(c, tm),
         UNCHANGED <<last, delegated>>
  PROVE  /\ heads' \in [Buckets -> Seq(Callouts)]
         /\ c_time' \in [Callouts -> 0 .. MaxTime]
         /\ c_pending' = c_pending \cup {c}
         /\ WheelConsistent'
<1> DEFINE b == tm % CALLOUT_BUCKETS
<1>1. b \in Buckets
  <2>1. tm \in Nat
    BY CalloutAssumption
  <2> QED  BY <2>1, BucketOfTime
<1>2. /\ c_pending' = c_pending \cup {c}
      /\ c_time' = [c_time EXCEPT ![c] = tm]
      /\ heads' = [heads EXCEPT ![b] = Append(@, c)]
  BY DEF _callout_schedule
<1>3. /\ \A d \in Callouts : ListOf(d)' = IF d = c THEN b ELSE ListOf(d)
      /\ c_time' \in [Callouts -> 0 .. MaxTime]
  BY <1>2 DEF TypeOK, ListOf
<1> HIDE DEF b
<1>4. c \notin Range(heads[b]) /\ heads[b] \in Seq(Callouts) /\ Distinct(heads[b])
  BY <1>1, InOneBucket DEF TypeOK, WheelConsistent
<1>5. /\ Append(heads[b], c) \in Seq(Callouts)
      /\ Range(Append(heads[b], c)) = Range(heads[b]) \cup {c}
      /\ Distinct(Append(heads[b], c))
  BY <1>4, AppendRange
<1>6. /\ heads' \in [Buckets -> Seq(Callouts)]
      /\ \A a \in Buckets : heads'[a] = IF a = b THEN Append(heads[b], c) ELSE heads[a]
  BY <1>1, <1>2, <1>5 DEF TypeOK
<1>7. ASSUME NEW a \in Buckets
      PROVE  /\ Distinct(heads'[a])
             /\ \A d \in Callouts :
                  d \in Range(heads'[a]) <=> d \in c_pending' /\ a = ListOf(d)'
  <2>1. Distinct(heads'[a])
    BY <1>5, <1>6 DEF WheelConsistent
  <2>2. ASSUME NEW d \in Callouts
        PROVE  d \in Range(heads'[a]) <=> d \in c_pending' /\ a = ListOf(d)'
    <3>1. d \in Range(heads[a]) <=> d \in c_pending /\ a = ListOf(d)
      BY InOneBucket
    <3> QED  BY <1>2, <1>3, <1>5, <1>6, <3>1
  <2> QED  BY <2>1, <2>2
<1>8. \A a \in Buckets : \A d \in Range(heads'[a]) : d \in Callouts
  <2> SUFFICES ASSUME NEW a \in Buckets PROVE \A d \in Range(heads'[a]) : d \in Callouts
    OBVIOUS
  <2>1. heads'[a] \in Seq(Callouts)
    BY <1>6
  <2> QED  BY <2>1 DEF Range
<1>9. \A d \in Callouts : ListOf(d)' \in Buckets
  BY <1>1, <1>3, BucketOfCallout
<1>10. /\ Distinct(delegated')
       /\ \A d \in Range(delegated') : d \notin c_pending' /\ c_time'[d] <= last'
  <2>1. \A d \in Range(delegated) : d \in Callouts /\ d # c
    BY DEF TypeOK, Range
  <2> QED  BY <1>2, <2>1 DEF WheelConsistent, TypeOK
<1> QED  BY <1>2, <1>3, <1>6, <1>7, <1>8, <1>9, <1>10 DEF WheelConsistent

LEMMA ScheduleKeeps ==
  ASSUME IInv, NEW c \in Callouts, NEW tm \in 0 .. MaxTime, Schedule(c, tm)
  PROVE  IInv'
<1>1. /\ c \notin c_pending /\ c \notin Range(delegated) /\ c # elem /\ c # NULL
      /\ draining[c] = "no" /\ _callout_schedule(c, tm)
      /\ UNCHANGED <<last, delegated, c_active, ct_pc, elem, draining>>
      /\ c_stopped' = c_stopped \ {c} /\ quiet' = quiet \ {c}
  BY CalloutAssumption DEF IInv, ThreadOK, Schedule, threadVars
<1>2. /\ heads' \in [Buckets -> Seq(Callouts)]
      /\ c_time' \in [Callouts -> 0 .. MaxTime]
      /\ c_pending' = c_pending \cup {c}
      /\ WheelConsistent'
  BY <1>1, ScheduleKeepsWheel DEF IInv
<1>3. panicked' = FALSE
  <2>1. panicked' = (c \in Range(delegated))
    BY DEF Schedule
  <2>2. (c \in Range(delegated)) = FALSE
    BY <1>1
  <2> QED  BY <2>1, <2>2
<1>4. TypeOK'
  BY <1>1, <1>2, <1>3 DEF IInv, TypeOK
<1>5. QuietCalloutsDoNotRun'
  BY <1>1, <1>2 DEF IInv, QuietCalloutsDoNotRun
<1>6. NobodySleepsForNothing'
  BY <1>1, <1>2 DEF IInv, NobodySleepsForNothing
<1>7. ThreadOK'
  BY <1>1, <1>2, <1>3 DEF IInv, ThreadOK
<1> QED  BY <1>2, <1>4, <1>5, <1>6, <1>7 DEF IInv

LEMMA RescheduleKeeps ==
  ASSUME IInv, NEW tm \in 0 .. MaxTime, Reschedule(tm)
  PROVE  IInv'
<1>1. /\ elem \in Callouts /\ elem \notin c_pending /\ elem \notin Range(delegated)
      /\ elem \in c_active /\ ct_pc = "call" /\ _callout_schedule(elem, tm)
      /\ UNCHANGED <<last, delegated, c_active, c_stopped, elem, draining>>
      /\ quiet' = quiet \ {elem} /\ ct_pc' = "rescheduled"
  BY DEF IInv, TypeOK, ThreadOK, Reschedule
<1>2. /\ heads' \in [Buckets -> Seq(Callouts)]
      /\ c_time' \in [Callouts -> 0 .. MaxTime]
      /\ c_pending' = c_pending \cup {elem}
      /\ WheelConsistent'
  BY <1>1, ScheduleKeepsWheel DEF IInv
<1>3. panicked' = FALSE
  BY <1>1 DEF Reschedule
<1>4. TypeOK'
  BY <1>1, <1>2, <1>3 DEF IInv, TypeOK
<1>5. QuietCalloutsDoNotRun'
  BY <1>1, <1>2 DEF IInv, QuietCalloutsDoNotRun
<1>6. NobodySleepsForNothing'
  BY <1>1, <1>2 DEF IInv, NobodySleepsForNothing
<1>7. ThreadOK'
  BY <1>1, <1>2, <1>3 DEF IInv, ThreadOK
<1> QED  BY <1>2, <1>4, <1>5, <1>6, <1>7 DEF IInv

LEMMA StopKeeps ==
  ASSUME IInv, NEW c \in Callouts, Stop(c)
  PROVE  IInv'
<1> DEFINE b == ListOf(c)
<1>1. /\ draining[c] = "no" /\ c_stopped' = c_stopped \cup {c}
      /\ UNCHANGED <<last, delegated, c_time, c_active, ct_pc, elem, draining, panicked>>
      /\ \/ quiet' = quiet
         \/ quiet' = quiet \cup {c} /\ c \notin c_active
  BY DEF Stop, threadVars, StopSucceeds
<1>2. /\ heads' \in [Buckets -> Seq(Callouts)]
      /\ c_pending' = c_pending \ {c}
      /\ WheelConsistent'
  <2>1. CASE c \notin c_pending
    <3>1. c_pending' = c_pending /\ heads' = heads
      BY <2>1 DEF Stop
    <3>2. \A d : ListOf(d)' = ListOf(d)
      BY <1>1 DEF ListOf
    <3>3. WheelConsistent'
      BY <1>1, <3>1, <3>2 DEF IInv, WheelConsistent
    <3> QED  BY <2>1, <3>1, <3>3 DEF IInv, TypeOK
  <2>2. CASE c \in c_pending
    <3>1. /\ c_pending' = c_pending \ {c}
          /\ heads' = [heads EXCEPT ![b] = TAILQ_REMOVE(@, c)]
      BY <2>2 DEF Stop
    <3>2. \A d : ListOf(d)' = ListOf(d)
      BY <1>1 DEF ListOf
    <3>3. b \in Buckets
      BY BucketOfCallout DEF IInv
    <3>4. c \in Range(heads[b]) /\ heads[b] \in Seq(Callouts) /\ Distinct(heads[b])
      BY <2>2, <3>3 DEF IInv, TypeOK, WheelConsistent
    <3> HIDE DEF b
    <3>5. /\ TAILQ_REMOVE(heads[b], c) \in Seq(Callouts)
          /\ Range(TAILQ_REMOVE(heads[b], c)) = Range(heads[b]) \ {c}
          /\ Distinct(TAILQ_REMOVE(heads[b], c))
      BY <3>4, RemoveRange
    <3>6. /\ heads' \in [Buckets -> Seq(Callouts)]
          /\ \A a \in Buckets : heads'[a] = IF a = b THEN TAILQ_REMOVE(heads[b], c)
                                            ELSE heads[a]
      BY <3>1, <3>3, <3>5 DEF IInv, TypeOK
    <3>7. \A a \in Buckets : Distinct(heads'[a])
      BY <3>5, <3>6 DEF IInv, WheelConsistent
    <3>8. ASSUME NEW a \in Buckets, NEW d \in Callouts
          PROVE  d \in Range(heads'[a]) <=> d \in c_pending' /\ a = ListOf(d)'
      <4>1. d \in Range(heads[a]) <=> d \in c_pending /\ a = ListOf(d)
        BY InOneBucket DEF IInv
      <4> QED  BY <3>1, <3>2, <3>5, <3>6, <4>1 DEF b
    <3>9. \A a \in Buckets : \A d \in Range(heads'[a]) : d \in Callouts
      <4> SUFFICES ASSUME NEW a \in Buckets
                   PROVE  \A d \in Range(heads'[a]) : d \in Callouts
        OBVIOUS
      <4>1. heads'[a] \in Seq(Callouts)
        BY <3>6
      <4> QED  BY <4>1 DEF Range
    <3>10. \A d \in Callouts : ListOf(d)' \in Buckets
      BY <3>2, BucketOfCallout DEF IInv
    <3>11. /\ Distinct(delegated')
           /\ \A d \in Range(delegated') : d \notin c_pending' /\ c_time'[d] <= last'
      BY <1>1, <3>1 DEF IInv, WheelConsistent
    <3> QED  BY <3>1, <3>6, <3>7, <3>8, <3>9, <3>10, <3>11 DEF WheelConsistent
  <2> QED  BY <2>1, <2>2
<1>3. TypeOK'
  BY <1>1, <1>2 DEF IInv, TypeOK
<1>4. QuietCalloutsDoNotRun'
  <2>1. c \notin c_active => c \notin Range(delegated) /\ c # elem
    BY CalloutAssumption DEF IInv, ThreadOK
  <2> QED  BY <1>1, <1>2, <2>1 DEF IInv, QuietCalloutsDoNotRun
<1>5. NobodySleepsForNothing'
  BY <1>1, <1>2 DEF IInv, NobodySleepsForNothing
<1>6. ThreadOK'
  BY <1>1, <1>2 DEF IInv, ThreadOK
<1> QED  BY <1>2, <1>3, <1>4, <1>5, <1>6 DEF IInv

\* What the steps that leave the wheel alone keep of it.
LEMMA WheelUnchanged ==
  ASSUME WheelConsistent,
         UNCHANGED <<last, heads, c_time, c_pending>>,
         Distinct(delegated'), Range(delegated') \subseteq Range(delegated)
  PROVE  WheelConsistent'
<1>1. \A d : ListOf(d)' = ListOf(d)
  BY DEF ListOf
<1> QED  BY <1>1 DEF WheelConsistent

LEMMA DrainKeeps ==
  ASSUME IInv, NEW c \in Callouts, Drain(c)
  PROVE  IInv'
<1>1. /\ UNCHANGED <<last, heads, delegated, c_time, c_active, c_pending, c_stopped,
                     ct_pc, elem, panicked>>
      /\ \/ /\ c \in c_pending \cup c_active
            /\ draining' = [draining EXCEPT ![c] = "asleep"] /\ quiet' = quiet
         \/ /\ c \notin c_pending \cup c_active
            /\ draining' = [draining EXCEPT ![c] = "no"] /\ quiet' = quiet \cup {c}
  BY DEF Drain, wheelVars, threadVars
<1>2. WheelConsistent'
  <2>1. Distinct(delegated') /\ Range(delegated') \subseteq Range(delegated)
    BY <1>1 DEF IInv, WheelConsistent
  <2> QED  BY <1>1, <2>1, WheelUnchanged DEF IInv
<1>3. TypeOK'
  BY <1>1 DEF IInv, TypeOK
<1>4. QuietCalloutsDoNotRun'
  <2>1. c \notin c_active => c \notin Range(delegated) /\ c # elem
    BY CalloutAssumption DEF IInv, ThreadOK
  <2> QED  BY <1>1, <2>1 DEF IInv, QuietCalloutsDoNotRun
<1>5. NobodySleepsForNothing'
  BY <1>1 DEF IInv, NobodySleepsForNothing, TypeOK
<1>6. ThreadOK'
  BY <1>1 DEF IInv, ThreadOK
<1> QED  BY <1>2, <1>3, <1>4, <1>5, <1>6 DEF IInv

LEMMA TickKeeps ==
  ASSUME IInv, ~ LateReturns, NEW time \in 0 .. MaxTime, Tick(time)
  PROVE  IInv'
<1> DEFINE det == Detached(time)
<1>1. time \in Nat /\ last \in Nat /\ time > last
  BY CalloutAssumption DEF IInv, TypeOK, Tick
<1>2. det \in Seq(Callouts) /\ Range(det) = Found(time) /\ Distinct(det)
  BY <1>1, DetachedFound DEF IInv
<1>3. \A c \in Range(det) : c \in Callouts /\ c \in c_pending /\ c_time[c] <= time
  BY <1>2 DEF Found, Triggered, IInv, TypeOK
<1>4. /\ elem \notin Range(det)
      /\ last' = time
      /\ c_active' = c_active \cup Range(det)
      /\ c_pending' = c_pending \ Range(det)
      /\ heads' = [b \in Buckets |-> Sublist(heads[b], Callouts \ Range(det))]
      /\ delegated' = delegated \o det
      /\ ct_pc' = Signalled(delegated')
      /\ UNCHANGED <<c_time, c_stopped, elem, draining, quiet, panicked>>
  BY DEF Tick, ownerVars
<1> HIDE DEF det
<1>5. /\ delegated \in Seq(Callouts) /\ Distinct(delegated)
      /\ \A c \in Range(delegated) : c \notin c_pending /\ c_time[c] <= last
  BY DEF IInv, TypeOK, WheelConsistent
<1>6. Range(delegated) \cap Range(det) = {}
  BY <1>3, <1>5
<1>7. /\ delegated' \in Seq(Callouts)
      /\ Range(delegated') = Range(delegated) \cup Range(det)
      /\ Distinct(delegated')
  BY <1>2, <1>4, <1>5, <1>6, ConcatRange
<1>8. ASSUME NEW b \in Buckets
      PROVE  /\ heads'[b] \in Seq(Callouts) /\ Distinct(heads'[b])
             /\ Range(heads'[b]) = Range(heads[b]) \ Range(det)
             /\ \A c \in Range(heads'[b]) : c \in Callouts
  <2>1. heads[b] \in Seq(Callouts) /\ Distinct(heads[b])
    BY DEF IInv, TypeOK, WheelConsistent
  <2>2. heads'[b] = Sublist(heads[b], Callouts \ Range(det))
    BY <1>4
  <2>3. /\ heads'[b] \in Seq(Callouts) /\ Distinct(heads'[b])
        /\ Range(heads'[b]) = Range(heads[b]) \cap (Callouts \ Range(det))
    BY <2>1, <2>2, SublistRange
  <2>4. \A c \in Range(heads[b]) : c \in Callouts
    BY <2>1 DEF Range
  <2> QED  BY <2>3, <2>4
<1>9. heads' \in [Buckets -> Seq(Callouts)]
  <2>1. heads' = [b \in Buckets |-> heads'[b]]
    BY <1>4
  <2> QED  BY <1>8, <2>1
<1>10. WheelConsistent'
  <2>1. \A c : ListOf(c)' = ListOf(c)
    BY <1>4 DEF ListOf
  <2>2. \A b \in Buckets : /\ Distinct(heads'[b])
                           /\ \A c \in Range(heads'[b]) : ListOf(c)' = b
    BY <1>8, <2>1 DEF IInv, WheelConsistent
  <2>3. ASSUME NEW c \in Callouts
        PROVE  c \in c_pending' <=> c \in Range(heads'[ListOf(c)'])
    <3>1. ListOf(c) \in Buckets
      BY BucketOfCallout DEF IInv
    <3>2. c \in c_pending <=> c \in Range(heads[ListOf(c)])
      BY DEF IInv, WheelConsistent
    <3> QED  BY <1>4, <1>8, <2>1, <3>1, <3>2
  <2>4. \A c \in Range(delegated') : c \notin c_pending' /\ c_time'[c] <= last'
    <3> SUFFICES ASSUME NEW c \in Range(delegated')
                 PROVE  c \notin c_pending' /\ c_time'[c] <= last'
      OBVIOUS
    <3>1. CASE c \in Range(det)
      BY <1>3, <1>4, <3>1
    <3>2. CASE c \in Range(delegated)
      <4>1. c_time[c] \in Nat
        BY <3>2, CalloutAssumption DEF IInv, TypeOK, Range
      <4> QED  BY <1>1, <1>4, <1>5, <3>2, <4>1
    <3> QED  BY <1>7, <3>1, <3>2
  <2> QED  BY <1>7, <2>2, <2>3, <2>4 DEF WheelConsistent
<1>11. ct_pc' = IF ct_pc = "asleep" /\ delegated' # <<>> THEN "ready" ELSE ct_pc
  BY <1>4 DEF Signalled
<1>12. TypeOK'
  BY <1>1, <1>3, <1>4, <1>7, <1>9, <1>11 DEF IInv, TypeOK
<1>13. QuietCalloutsDoNotRun'
  BY <1>3, <1>4, <1>7 DEF IInv, QuietCalloutsDoNotRun
<1>14. NobodySleepsForNothing'
  BY <1>4, <1>11 DEF IInv, NobodySleepsForNothing
<1>15. ThreadOK'
  <2>1. ct_pc' \in {"call", "rescheduled"} <=> ct_pc \in {"call", "rescheduled"}
    BY <1>11
  <2>2. ct_pc' = "call" => ct_pc = "call"
    BY <1>11
  <2> QED  BY <1>4, <1>7, <2>1, <2>2 DEF IInv, ThreadOK
<1> QED  BY <1>10, <1>12, <1>13, <1>14, <1>15 DEF IInv

LEMMA ThreadSleepKeeps ==
  ASSUME IInv, ThreadSleep
  PROVE  IInv'
<1>1. /\ ct_pc = "ready" /\ ct_pc' = "asleep" /\ delegated = <<>>
      /\ UNCHANGED <<last, heads, delegated, c_time, c_active, c_pending, c_stopped,
                     elem, draining, quiet, panicked>>
  BY DEF ThreadSleep, wheelVars, ownerVars
<1>2. WheelConsistent'
  <2>1. Distinct(delegated') /\ Range(delegated') \subseteq Range(delegated)
    BY <1>1 DEF IInv, WheelConsistent
  <2> QED  BY <1>1, <2>1, WheelUnchanged DEF IInv
<1>3. TypeOK'
  BY <1>1 DEF IInv, TypeOK
<1>4. QuietCalloutsDoNotRun' /\ NobodySleepsForNothing'
  BY <1>1 DEF IInv, QuietCalloutsDoNotRun, NobodySleepsForNothing
<1>5. ThreadOK'
  BY <1>1 DEF IInv, ThreadOK
<1> QED  BY <1>2, <1>3, <1>4, <1>5 DEF IInv

LEMMA ThreadTakeKeeps ==
  ASSUME IInv, ThreadTake
  PROVE  IInv'
<1>1. /\ ct_pc = "ready" /\ ct_pc' = "call" /\ delegated # <<>>
      /\ delegated' = Tail(delegated) /\ elem' = Head(delegated)
      /\ UNCHANGED <<last, heads, c_time, c_active, c_pending, c_stopped,
                     draining, quiet>>
      /\ panicked' = (elem' \notin c_active \/ elem' \in c_pending)
  BY DEF ThreadTake, ownerVars
<1>2. delegated \in Seq(Callouts) /\ Distinct(delegated)
  BY DEF IInv, TypeOK, WheelConsistent
<1>3. /\ delegated' \in Seq(Callouts) /\ Distinct(delegated')
      /\ elem' \in Range(delegated) /\ elem' \in Callouts
      /\ Range(delegated') = Range(delegated) \ {elem'}
  BY <1>1, <1>2, TailRange
<1>4. WheelConsistent'
  <2>1. Range(delegated') \subseteq Range(delegated)
    BY <1>3
  <2> QED  BY <1>1, <1>3, <2>1, WheelUnchanged DEF IInv
<1>5. elem = NULL /\ elem' # NULL /\ elem' \in c_active /\ elem' \notin c_pending
  BY <1>1, <1>3, CalloutAssumption DEF IInv, ThreadOK, WheelConsistent
<1>6. panicked' = FALSE
  <2>1. (elem' \notin c_active \/ elem' \in c_pending) = FALSE
    BY <1>5
  <2> QED  BY <1>1, <2>1
<1>7. TypeOK'
  BY <1>1, <1>3, <1>6 DEF IInv, TypeOK
<1>8. QuietCalloutsDoNotRun' /\ NobodySleepsForNothing'
  BY <1>1, <1>3 DEF IInv, QuietCalloutsDoNotRun, NobodySleepsForNothing
<1>9. ThreadOK'
  <2>1. c_active' = Range(delegated') \cup ({elem'} \ {NULL})
    BY <1>1, <1>3, <1>5 DEF IInv, ThreadOK
  <2> QED  BY <1>1, <1>3, <1>5, <1>6, <2>1 DEF ThreadOK
<1> QED  BY <1>4, <1>7, <1>8, <1>9 DEF IInv

LEMMA ThreadFinishKeeps ==
  ASSUME IInv, ThreadFinish
  PROVE  IInv'
<1>1. /\ ct_pc \in {"call", "rescheduled"} /\ ct_pc' = "ready"
      /\ c_active' = c_active \ {elem} /\ elem' = NULL
      /\ draining' = Drained(elem)
      /\ UNCHANGED <<last, heads, delegated, c_time, c_pending, c_stopped,
                     quiet, panicked>>
  BY DEF ThreadFinish
<1>2. elem \in Callouts /\ elem \notin Range(delegated) /\ elem # NULL
  BY <1>1 DEF IInv, ThreadOK, TypeOK
<1>3. \A c \in Range(delegated) : c \in Callouts /\ c # NULL
  BY CalloutAssumption DEF IInv, TypeOK, Range
<1>4. c_active' = Range(delegated)
  BY <1>1, <1>2 DEF IInv, ThreadOK
<1>5. WheelConsistent'
  <2>1. Distinct(delegated') /\ Range(delegated') \subseteq Range(delegated)
    BY <1>1 DEF IInv, WheelConsistent
  <2> QED  BY <1>1, <2>1, WheelUnchanged DEF IInv
<1>6. /\ draining' \in [Callouts -> {"no", "asleep", "woken"}]
      /\ \A c \in Callouts : draining'[c] = "asleep" =>
           draining[c] = "asleep" /\ (c = elem => c \in c_pending)
  BY <1>1, <1>2 DEF IInv, TypeOK, Drained
<1>7. TypeOK'
  BY <1>1, <1>6 DEF IInv, TypeOK
<1>8. QuietCalloutsDoNotRun'
  <2>1. \A c \in quiet : c # NULL
    BY CalloutAssumption DEF IInv, TypeOK
  <2> QED  BY <1>1, <2>1 DEF IInv, QuietCalloutsDoNotRun
<1>9. NobodySleepsForNothing'
  BY <1>1, <1>6 DEF IInv, NobodySleepsForNothing
<1>10. ThreadOK'
  BY <1>1, <1>3, <1>4 DEF IInv, ThreadOK
<1> QED  BY <1>5, <1>7, <1>8, <1>9, <1>10 DEF IInv

LEMMA InitOK ==
  ASSUME Init
  PROVE  IInv
<1>1. \A b \in Buckets : heads[b] = <<>>
  BY DEF Init
<1>2. Range(<<>>) = {} /\ Distinct(<<>>)
  BY DEF Range, Distinct
<1>3. TypeOK
  <2>1. /\ heads \in [Buckets -> Seq(Callouts)] /\ delegated \in Seq(Callouts)
        /\ c_time \in [Callouts -> 0 .. MaxTime] /\ last \in 0 .. MaxTime
    BY CalloutAssumption DEF Init
  <2>2. /\ c_active \in SUBSET Callouts /\ c_pending \in SUBSET Callouts
        /\ c_stopped \in SUBSET Callouts /\ quiet \in SUBSET Callouts
        /\ panicked \in BOOLEAN
    BY DEF Init
  <2>3. /\ draining \in [Callouts -> {"no", "asleep", "woken"}]
        /\ ct_pc \in {"ready", "asleep", "call", "rescheduled"}
        /\ elem \in Callouts \cup {NULL}
    BY DEF Init
  <2> QED  BY <2>1, <2>2, <2>3 DEF TypeOK
<1>4. \A c \in Callouts : heads[ListOf(c)] = <<>>
  BY <1>1, <1>3, BucketOfCallout
<1>5. WheelConsistent
  BY <1>1, <1>2, <1>4 DEF Init, WheelConsistent
<1>6. QuietCalloutsDoNotRun /\ NobodySleepsForNothing
  BY <1>2, CalloutAssumption DEF Init, QuietCalloutsDoNotRun, NobodySleepsForNothing
<1>7. ThreadOK
  BY <1>2 DEF Init, ThreadOK
<1> QED  BY <1>3, <1>5, <1>6, <1>7 DEF IInv

LEMMA NextKeeps ==
  ASSUME IInv, ~ LateReturns, [Next]_vars
  PROVE  IInv'
<1>1. CASE UNCHANGED vars
  <2>1. UNCHANGED <<last, heads, delegated, c_time, c_active, c_pending, c_stopped,
                    ct_pc, elem, draining, quiet, panicked>>
    BY <1>1 DEF vars, wheelVars, threadVars, ownerVars
  <2>2. WheelConsistent'
    <3>1. Distinct(delegated') /\ Range(delegated') \subseteq Range(delegated)
      BY <2>1 DEF IInv, WheelConsistent
    <3> QED  BY <2>1, <3>1, WheelUnchanged DEF IInv
  <2>3. TypeOK' /\ ThreadOK'
    BY <2>1 DEF IInv, TypeOK, ThreadOK
  <2>4. QuietCalloutsDoNotRun' /\ NobodySleepsForNothing'
    BY <2>1 DEF IInv, QuietCalloutsDoNotRun, NobodySleepsForNothing
  <2> QED  BY <2>2, <2>3, <2>4 DEF IInv
<1>2. ASSUME NEW c \in Callouts, Owner(c) PROVE IInv'
  BY <1>2, ScheduleKeeps, StopKeeps, DrainKeeps DEF Owner
<1>3. ASSUME NEW time \in 0 .. MaxTime, Tick(time) PROVE IInv'
  BY <1>3, TickKeeps
<1>4. ASSUME CalloutThread PROVE IInv'
  BY <1>4, ThreadSleepKeeps, ThreadTakeKeeps, RescheduleKeeps, ThreadFinishKeeps
     DEF CalloutThread
<1> QED  BY <1>1, <1>2, <1>3, <1>4 DEF Next

-----------------------------------------------------------------------------
(* The theorems. *)

\* The inductive invariant holds while functions that reschedule their
\* callouts return before the new time comes.
THEOREM Invariance == ~ LateReturns => (Spec => []IInv)
<1> SUFFICES ASSUME ~ LateReturns PROVE Spec => []IInv
  OBVIOUS
<1>1. Init => IInv
  BY InitOK
<1>2. IInv /\ [Next]_vars => IInv'
  BY NextKeeps
<1> QED  BY <1>1, <1>2, PTL DEF Spec

\* Type correctness of the timing wheel.
THEOREM TypeCorrect == ~ LateReturns => (Spec => []TypeOK)
<1>1. IInv => TypeOK
  BY DEF IInv
<1> QED  BY <1>1, Invariance, PTL

\* A callout is linked on one list at a time, that of its bucket exactly while
\* it is pending, whatever its owner and its function do in which order.
THEOREM WheelSafe == ~ LateReturns => (Spec => []WheelConsistent)
<1>1. IInv => WheelConsistent
  BY DEF IInv
<1> QED  BY <1>1, Invariance, PTL

\* callout_stop and callout_drain keep their promise: the callout thread does
\* not have a callout whose owner was told that it will not run.
THEOREM StoppedStayQuiet == ~ LateReturns => (Spec => []QuietCalloutsDoNotRun)
<1>1. IInv => QuietCalloutsDoNotRun
  BY DEF IInv
<1> QED  BY <1>1, Invariance, PTL

\* The sleeps of the callout thread and of callout_drain miss no wakeup.
THEOREM SleepersHaveReason == ~ LateReturns => (Spec => []NobodySleepsForNothing)
<1>1. IInv => NobodySleepsForNothing
  BY DEF IInv
<1> QED  BY <1>1, Invariance, PTL

\* What one call of callout_process finds.
LEMMA TickFindsDue ==
  ASSUME IInv, NEW time \in 0 .. MaxTime, Tick(time),
         time - last # CALLOUT_BUCKETS,
         NEW c \in c_pending, c_time[c] <= time,
         NEW x \in last .. time, x % CALLOUT_BUCKETS = ListOf(c)
  PROVE  c \in Range(delegated')
<1>1. /\ time \in Nat /\ last \in Nat /\ time > last
      /\ CALLOUT_BUCKETS \in Nat \ {0} /\ c \in Callouts
  BY CalloutAssumption DEF IInv, TypeOK, Tick
<1>2. /\ Detached(time) \in Seq(Callouts) /\ delegated \in Seq(Callouts)
      /\ Range(Detached(time)) = Found(time)
  BY <1>1, DetachedFound DEF IInv, TypeOK
<1>3. \E n \in 0 .. LastOffset(time) : Visited(n) = ListOf(c)
  <2>1. CASE time - last < CALLOUT_BUCKETS
    <3>1. LastOffset(time) = time - last
      BY <1>1, <2>1, OffsetValue
    <3>2. x - last \in 0 .. LastOffset(time) /\ last + (x - last) = x
      BY <1>1, <3>1
    <3>3. Visited(x - last) = ListOf(c)
      BY <3>2 DEF Visited
    <3> QED  BY <3>2, <3>3
  <2>2. CASE time - last > CALLOUT_BUCKETS
    <3>1. LastOffset(time) = CALLOUT_BUCKETS - 1
      BY <1>1, <2>2, OffsetValue
    <3>2. ListOf(c) \in Buckets
      BY <1>1, BucketOfCallout DEF IInv
    <3> QED  BY <1>1, <3>1, <3>2, VisitedBuckets
  <2> QED  BY <1>1, <2>1, <2>2
<1>4. c \in Found(time)
  BY <1>3 DEF Found, Triggered
<1>5. delegated' = delegated \o Detached(time)
  BY DEF Tick
<1>6. Range(delegated \o Detached(time)) = Range(delegated) \cup Range(Detached(time))
  BY <1>2, ConcatRange
<1> QED  BY <1>2, <1>4, <1>5, <1>6

\* callout_process delegates every pending callout whose time has come in the
\* buckets of the ticks since the previous call, for any number of buckets and
\* of skipped ticks but one: as many ticks as buckets.
THEOREM DueFound == ~ LateReturns => (Spec => DueAreDelegated)
<1> SUFFICES ASSUME ~ LateReturns PROVE Spec => DueAreDelegated
  OBVIOUS
<1>1. IInv /\ [Next]_vars => [DueStep]_vars
  <2> SUFFICES ASSUME IInv, Next PROVE DueStep
    OBVIOUS
  <2>1. ASSUME NEW c \in Callouts, Owner(c) PROVE last' = last
    BY <2>1 DEF Owner, Schedule, Stop, Drain, wheelVars
  <2>2. ASSUME CalloutThread PROVE last' = last
    BY <2>2 DEF CalloutThread, ThreadSleep, ThreadTake, Reschedule, ThreadFinish,
                wheelVars
  <2>3. ASSUME NEW time \in 0 .. MaxTime, Tick(time) PROVE DueStep
    <3>1. last' = time
      BY <2>3 DEF Tick
    <3> QED  BY <2>3, <3>1, TickFindsDue DEF DueStep
  <2>4. CASE last' = last
    BY <2>4 DEF DueStep
  <2> QED  BY <2>1, <2>2, <2>3, <2>4 DEF Next
<1>2. Spec => []IInv
  BY Invariance
<1> QED  BY <1>1, <1>2, PTL DEF Spec, DueAreDelegated
=============================================================================
