--------------------------- MODULE PriorityProofs ---------------------------
(***************************************************************************)
(* Proofs about the priorities of Mutex: the order of blocked threads, the *)
(* priorities they lend along chains of owners, and preemption.            *)
(***************************************************************************)
EXTENDS MutexProofs

-----------------------------------------------------------------------------
(* The walk of propagate_priority. *)

\* The channel a blocked thread waits for.
Channel(td) == ts_wchan[td_blocked[td]]

\* The owner of what td waits for.
NextOwner(td) == ts_owner[td_blocked[td]]

\* A blocked thread is on a turnstile in use, whose channel its owner holds.
LEMMA BlockedOwner ==
  ASSUME IInv, NEW td \in Threads, td_blocked[td] # NULL
  PROVE  /\ td_blocked[td] \in Turnstiles /\ ts_state[td_blocked[td]] = "USED_BLOCKED"
         /\ Channel(td) \in Mutexes /\ Channel(td) \in Nat
         /\ NextOwner(td) \in Threads /\ m_owner[Channel(td)] = NextOwner(td)
         /\ td_pc[td] = "enable_cas" /\ td_mtx[td] = Channel(td)
<1>1. td_blocked[td] \in Turnstiles
  BY DEF IInv, TypeOK, TurnstileTypeOK
<1>2. PICK ts \in Turnstiles : ts = td_blocked[td]
  BY <1>1
<1>3. td \in Range(ts_blocked[ts])
  BY <1>2 DEF IInv, TurnstileInv, BlockedLinks
<1>4. ts_blocked[ts] # <<>>
  BY <1>3 DEF Range
<1>5. ts_state[ts] = "USED_BLOCKED" /\ ts_wchan[ts] \in m_contested
      /\ ts_owner[ts] # NULL /\ ts_owner[ts] = m_owner[ts_wchan[ts]]
  BY <1>4 DEF IInv, TurnstileInv, UsedTurnstiles
<1>6. m_contested \subseteq Mutexes /\ Mutexes \subseteq Nat /\ ts_owner[ts] \in Threads
  BY <1>5, MutexAssumption DEF IInv, TypeOK, TurnstileTypeOK
<1>7. td_pc[td] = "enable_cas" /\ td_mtx[td] = ts_wchan[td_blocked[td]]
  BY DEF IInv, TurnstileInv, ControlPoints
<1> QED  BY <1>2, <1>5, <1>6, <1>7 DEF Channel, NextOwner

\* Along the owners the channels increase.
LEMMA ChannelsAscend ==
  ASSUME IInv, LockOrder, NEW td \in Threads, td_blocked[td] # NULL,
         NEW m \in Held(td)
  PROVE  m < Channel(td)
  BY BlockedOwner DEF LockOrder

LEMMA OwnersAscend ==
  ASSUME IInv, LockOrder, NEW td \in Threads, td_blocked[td] # NULL,
         td_blocked[NextOwner(td)] # NULL
  PROVE  Channel(td) < Channel(NextOwner(td))
<1>1. /\ Channel(td) \in Mutexes /\ NextOwner(td) \in Threads
      /\ m_owner[Channel(td)] = NextOwner(td)
  BY BlockedOwner
<1>2. Channel(td) \in Held(NextOwner(td))
  BY <1>1 DEF Held
<1> QED  BY <1>1, <1>2, ChannelsAscend

\* One step of the walk, and the walk.
Onward(x, p) ==
  IF x # NULL /\ td_blocked[x] # NULL /\ prio_lt(td_prio[x], p)
  THEN NextOwner(x) ELSE NULL

IsWalk(w, owner, p, n) ==
  w = [k \in 0..n |-> IF k = 0 THEN owner ELSE Onward(w[k - 1], p)]

LEMMA WalkExists ==
  ASSUME NEW owner, NEW p, NEW n \in Nat
  PROVE  \E w : IsWalk(w, owner, p, n)
<1> DEFINE G == {m \in 0..n : \E w : IsWalk(w, owner, p, m)}
<1>1. 0 \in G
  <2> DEFINE w == [k \in 0..0 |-> owner]
  <2>1. IsWalk(w, owner, p, 0)
    BY DEF IsWalk
  <2> QED  BY <2>1
<1>2. ASSUME NEW l \in 0..n, l < n, l \in G PROVE l + 1 \in G
  <2>1. PICK w : IsWalk(w, owner, p, l)
    BY <1>2
  <2> DEFINE m == l + 1
             v == [k \in 0..m |-> IF k = m THEN Onward(w[l], p) ELSE w[k]]
  <2>2. \A k \in 0..l : w[k] = IF k = 0 THEN owner ELSE Onward(w[k - 1], p)
    BY <2>1 DEF IsWalk
  <2>3. ASSUME NEW k \in 0..m
        PROVE  v[k] = IF k = 0 THEN owner ELSE Onward(v[k - 1], p)
    <3>1. CASE k = m
      <4>1. k - 1 \in 0..m /\ k - 1 # m /\ k # 0 /\ k - 1 = l
        BY <3>1
      <4> QED  BY <3>1, <4>1
    <3>2. CASE k # m
      <4>1. k \in 0..l /\ (k # 0 => k - 1 \in 0..m /\ k - 1 # m)
        BY <3>2
      <4> QED  BY <3>2, <4>1, <2>2
    <3> QED  BY <3>1, <3>2
  <2>4. v = [k \in 0..m |-> IF k = 0 THEN owner ELSE Onward(v[k - 1], p)]
    BY <2>3
  <2>5. IsWalk(v, owner, p, m) /\ m \in 0..n
    BY <1>2, <2>4 DEF IsWalk
  <2> QED  BY <2>5
<1>3. \A m \in 0..n : m \in G
  <2> HIDE DEF G
  <2> QED  BY <1>1, <1>2, Stepwise
<1> QED  BY <1>3

\* Borrowers are the threads of lower priority on the walk.
LEMMA BorrowersWalk ==
  ASSUME NEW owner, NEW p, NEW n \in Nat, n = Cardinality(Threads)
  PROVE  \E w : /\ IsWalk(w, owner, p, n)
                /\ Borrowers(owner, p) = {td \in Below(p) : \E k \in 0..n : w[k] = td}
<1> DEFINE g == CHOOSE w : w = [k \in 0..Cardinality(Threads) |->
                  IF k = 0 THEN owner
                  ELSE IF /\ w[k - 1] # NULL
                          /\ td_blocked[w[k - 1]] # NULL
                          /\ prio_lt(td_prio[w[k - 1]], p)
                  THEN ts_owner[td_blocked[w[k - 1]]]
                  ELSE NULL]
<1>1. Borrowers(owner, p) = {td \in Below(p) : \E k \in 0..Cardinality(Threads) : g[k] = td}
  BY DEF Borrowers
<1>2. ASSUME NEW w
      PROVE  IsWalk(w, owner, p, n) <=>
               w = [k \in 0..Cardinality(Threads) |->
                  IF k = 0 THEN owner
                  ELSE IF /\ w[k - 1] # NULL
                          /\ td_blocked[w[k - 1]] # NULL
                          /\ prio_lt(td_prio[w[k - 1]], p)
                  THEN ts_owner[td_blocked[w[k - 1]]]
                  ELSE NULL]
  BY DEF IsWalk, Onward, NextOwner
<1>3. IsWalk(g, owner, p, n)
  <2>1. \E w : IsWalk(w, owner, p, n)
    BY WalkExists
  <2> QED  BY <1>2, <2>1
<1> HIDE DEF g
<1> QED  BY <1>1, <1>3

\* The walk in terms of positions.  Blocked thread w[i] comes before w[j] on it
\* and waits for a smaller mutex.
LEMMA WalkAscends ==
  ASSUME IInv, LockOrder, NEW owner \in Threads, NEW p, NEW n \in Nat,
         NEW w, IsWalk(w, owner, p, n)
  PROVE  /\ w[0] = owner
         /\ \A k \in 0..n : w[k] \in Threads \cup {NULL}
         /\ \A k \in 1..n : w[k] = Onward(w[k - 1], p)
         /\ \A i, j \in 0..n :
              i < j /\ w[j] # NULL =>
                /\ w[i] # NULL /\ td_blocked[w[i]] # NULL
                /\ td_blocked[w[j]] # NULL => Channel(w[i]) < Channel(w[j])
<1>1. \A k \in 0..n : w[k] = IF k = 0 THEN owner ELSE Onward(w[k - 1], p)
  BY DEF IsWalk
<1>2. w[0] = owner
  BY <1>1
<1>3. \A k \in 1..n : w[k] = Onward(w[k - 1], p)
  BY <1>1
<1>4. \A k \in 0..n : w[k] \in Threads \cup {NULL}
  <2> DEFINE G == {k \in 0..n : w[k] \in Threads \cup {NULL}}
  <2>1. 0 \in G
    BY <1>2
  <2>2. ASSUME NEW k \in 0..n, k < n, k \in G PROVE k + 1 \in G
    <3>1. k + 1 \in 1..n /\ (k + 1) - 1 = k
      BY <2>2
    <3>2. w[k + 1] = Onward(w[k], p)
      BY <1>3, <3>1
    <3>3. Onward(w[k], p) \in Threads \cup {NULL}
      BY <2>2, BlockedOwner DEF Onward
    <3> QED  BY <3>1, <3>2, <3>3
  <2>3. \A k \in 0..n : k \in G
    <3> HIDE DEF G
    <3> QED  BY <2>1, <2>2, Stepwise
  <2> QED  BY <2>3
\* One step.
<1>5. ASSUME NEW k \in 0..n, k < n, w[k + 1] # NULL
      PROVE  /\ w[k] \in Threads /\ td_blocked[w[k]] # NULL
             /\ td_blocked[w[k + 1]] # NULL => Channel(w[k]) < Channel(w[k + 1])
  <2>1. k + 1 \in 1..n /\ (k + 1) - 1 = k
    BY <1>5
  <2>2. w[k + 1] = Onward(w[k], p)
    BY <1>3, <2>1
  <2>3. w[k] # NULL /\ td_blocked[w[k]] # NULL /\ w[k + 1] = NextOwner(w[k])
    BY <1>5, <2>2 DEF Onward
  <2>4. w[k] \in Threads
    BY <1>4, <2>3
  <2> QED  BY <2>3, <2>4, OwnersAscend
<1>6. ASSUME NEW i \in 0..n
      PROVE  \A j \in (i + 1)..n :
               w[j] # NULL =>
                /\ w[i] # NULL /\ td_blocked[w[i]] # NULL
                /\ td_blocked[w[j]] # NULL => Channel(w[i]) < Channel(w[j])
  <2> DEFINE P(j) == w[j] # NULL =>
                       /\ w[i] # NULL /\ td_blocked[w[i]] # NULL
                       /\ td_blocked[w[j]] # NULL => Channel(w[i]) < Channel(w[j])
             G == {j \in (i + 1)..n : P(j)}
  <2>1. ASSUME i + 1 <= n PROVE i + 1 \in G
    <3>1. P(i + 1)
      BY <1>5, <2>1, SchedAssumption
    <3> QED  BY <2>1, <3>1
  <2>2. ASSUME NEW j \in (i + 1)..n, j < n, j \in G PROVE j + 1 \in G
    <3>1. j \in 0..n /\ j + 1 \in (i + 1)..n /\ j + 1 \in 0..n
      BY <2>2
    <3>2. ASSUME w[j + 1] # NULL
          PROVE  /\ w[i] # NULL /\ td_blocked[w[i]] # NULL
                 /\ td_blocked[w[j + 1]] # NULL => Channel(w[i]) < Channel(w[j + 1])
      <4>1. /\ w[j] \in Threads /\ td_blocked[w[j]] # NULL
            /\ td_blocked[w[j + 1]] # NULL => Channel(w[j]) < Channel(w[j + 1])
        BY <1>5, <2>2, <3>1, <3>2
      <4>2. w[j] # NULL
        BY <4>1, SchedAssumption
      <4>3. w[i] # NULL /\ td_blocked[w[i]] # NULL /\ Channel(w[i]) < Channel(w[j])
        BY <2>2, <4>1, <4>2
      <4>4. w[i] \in Threads /\ w[j + 1] \in Threads
        BY <1>4, <3>1, <3>2, <4>3
      <4>5. ASSUME td_blocked[w[j + 1]] # NULL PROVE Channel(w[i]) < Channel(w[j + 1])
        <5>1. Channel(w[i]) \in Nat /\ Channel(w[j]) \in Nat /\ Channel(w[j + 1]) \in Nat
          BY <4>1, <4>3, <4>4, <4>5, BlockedOwner
        <5> QED  BY <4>1, <4>3, <4>5, <5>1
      <4> QED  BY <4>3, <4>5
    <3> QED  BY <3>1, <3>2
  <2>3. \A j \in (i + 1)..n : j \in G
    <3> HIDE DEF G
    <3>1. i + 1 \in Int /\ n \in Int
      OBVIOUS
    <3> QED  BY <2>1, <2>2, <3>1, Stepwise
  <2> QED  BY <2>3
<1>7. \A i, j \in 0..n :
        i < j /\ w[j] # NULL =>
          /\ w[i] # NULL /\ td_blocked[w[i]] # NULL
          /\ td_blocked[w[j]] # NULL => Channel(w[i]) < Channel(w[j])
  <2> SUFFICES ASSUME NEW i \in 0..n, NEW j \in 0..n, i < j, w[j] # NULL
               PROVE  /\ w[i] # NULL /\ td_blocked[w[i]] # NULL
                      /\ td_blocked[w[j]] # NULL => Channel(w[i]) < Channel(w[j])
    OBVIOUS
  <2>1. j \in (i + 1)..n
    OBVIOUS
  <2> QED  BY <1>6, <2>1
<1> QED  BY <1>2, <1>3, <1>4, <1>7

\* The borrowers of a priority p lent to owner form a chain: each but the owner
\* itself owns what another one waits for, no one above p is passed by, none
\* wait at the same turnstile, and all wait for mutexes after those of the owner.
LEMMA BorrowersChain ==
  ASSUME IInv, LockOrder, NEW owner \in Threads, NEW p
  PROVE  LET B == Borrowers(owner, p)
         IN  /\ owner \in Below(p) => owner \in B
             /\ \A b \in B : td_blocked[b] # NULL /\ NextOwner(b) \in Below(p)
                               => NextOwner(b) \in B
             /\ \A b \in B : b = owner \/ \E c \in B : td_blocked[c] # NULL /\ NextOwner(c) = b
             /\ \A b, c \in B : td_blocked[b] # NULL /\ td_blocked[b] = td_blocked[c] => b = c
             /\ \A b \in B, m \in Held(owner) : td_blocked[b] # NULL => m < Channel(b)
<1> DEFINE B == Borrowers(owner, p)
<1>1. IsFiniteSet(Threads) /\ NULL \notin Threads
  BY SchedAssumption
<1>2. PICK n \in Nat : n = Cardinality(Threads)
  BY <1>1, FS_CardinalityType
<1>3. PICK w : /\ IsWalk(w, owner, p, n)
               /\ B = {td \in Below(p) : \E k \in 0..n : w[k] = td}
  BY <1>2, BorrowersWalk
<1>4. /\ w[0] = owner
      /\ \A k \in 0..n : w[k] \in Threads \cup {NULL}
      /\ \A k \in 1..n : w[k] = Onward(w[k - 1], p)
      /\ \A i, j \in 0..n :
           i < j /\ w[j] # NULL =>
             /\ w[i] # NULL /\ td_blocked[w[i]] # NULL
             /\ td_blocked[w[j]] # NULL => Channel(w[i]) < Channel(w[j])
  BY <1>3, WalkAscends
<1> HIDE DEF B
<1>5. \A td \in Below(p) : td \in Threads /\ prio_lt(td_prio[td], p)
  BY DEF Below
<1>6. ASSUME NEW i \in 0..n, NEW j \in 0..n, i < j, w[j] # NULL PROVE w[i] # w[j]
  <2>1. SUFFICES ASSUME w[i] = w[j] PROVE FALSE
    OBVIOUS
  <2>2. td_blocked[w[j]] # NULL /\ Channel(w[i]) < Channel(w[j])
    BY <1>4, <1>6, <2>1
  <2>3. w[j] \in Threads /\ Channel(w[j]) \in Nat
    BY <1>4, <1>6, <2>2, BlockedOwner
  <2> QED  BY <2>1, <2>2, <2>3
<1>7. w[n] = NULL
  <2>1. SUFFICES ASSUME w[n] # NULL PROVE FALSE
    OBVIOUS
  <2>2. ASSUME NEW k \in 0..n PROVE w[k] \in Threads
    <3>1. k = n \/ k < n
      OBVIOUS
    <3> QED  BY <1>4, <2>1, <3>1
  <2>3. w \in [0..n -> Threads]
    BY <1>3, <2>2 DEF IsWalk
  <2>4. IsFiniteSet(0..n) /\ Cardinality(0..n) = n + 1
    BY FS_Interval
  <2>5. Cardinality(Threads) < Cardinality(0..n)
    BY <1>2, <2>4
  <2>6. PICK x, y \in 0..n : x # y /\ w[x] = w[y]
    BY <1>1, <2>3, <2>4, <2>5, FS_PigeonHole
  <2>7. x < y \/ y < x
    BY <2>6
  <2> QED  BY <1>1, <1>6, <2>2, <2>6, <2>7
<1>8. owner \in Below(p) => owner \in B
  BY <1>3, <1>4
<1>9. ASSUME NEW b \in B, td_blocked[b] # NULL, NextOwner(b) \in Below(p)
      PROVE  NextOwner(b) \in B
  <2>1. PICK k \in 0..n : w[k] = b
    BY <1>3
  <2>2. b \in Below(p) /\ b # NULL
    BY <1>1, <1>3, <1>5
  <2>3. k + 1 \in 1..n /\ (k + 1) - 1 = k
    BY <1>7, <2>1, <2>2
  <2>4. w[k + 1] = NextOwner(b)
    BY <1>4, <1>5, <1>9, <2>1, <2>2, <2>3 DEF Onward
  <2> QED  BY <1>3, <1>9, <2>3, <2>4
<1>10. ASSUME NEW b \in B, b # owner
       PROVE  \E c \in B : td_blocked[c] # NULL /\ NextOwner(c) = b
  <2>1. PICK k \in 0..n : w[k] = b
    BY <1>3
  <2>2. b # NULL
    BY <1>1, <1>3, <1>5
  <2>3. k \in 1..n /\ k - 1 \in 0..n
    BY <1>4, <1>10, <2>1
  <2>4. w[k - 1] # NULL /\ td_blocked[w[k - 1]] # NULL
        /\ prio_lt(td_prio[w[k - 1]], p) /\ NextOwner(w[k - 1]) = b
    BY <1>4, <2>1, <2>2, <2>3 DEF Onward
  <2>5. w[k - 1] \in Below(p)
    BY <1>4, <2>3, <2>4 DEF Below
  <2> QED  BY <1>3, <2>3, <2>4, <2>5
<1>11. ASSUME NEW b \in B, NEW c \in B, td_blocked[b] # NULL, td_blocked[b] = td_blocked[c]
       PROVE  b = c
  <2>1. PICK i \in 0..n : w[i] = b
    BY <1>3
  <2>2. PICK j \in 0..n : w[j] = c
    BY <1>3
  <2>3. b \in Threads /\ c \in Threads /\ b # NULL /\ c # NULL
    BY <1>1, <1>3, <1>5
  <2>4. Channel(b) = Channel(c) /\ Channel(b) \in Nat
    BY <1>11, <2>3, BlockedOwner DEF Channel
  <2>5. CASE i < j
    BY <1>4, <1>11, <2>1, <2>2, <2>3, <2>4, <2>5
  <2>6. CASE j < i
    BY <1>4, <1>11, <2>1, <2>2, <2>3, <2>4, <2>6
  <2>7. i = j \/ i < j \/ j < i
    OBVIOUS
  <2> QED  BY <2>1, <2>2, <2>5, <2>6, <2>7
<1>12. ASSUME NEW b \in B, NEW m \in Held(owner), td_blocked[b] # NULL PROVE m < Channel(b)
  <2>1. PICK k \in 0..n : w[k] = b
    BY <1>3
  <2>2. b \in Threads /\ b # NULL
    BY <1>1, <1>3, <1>5
  <2>3. CASE k = 0
    BY <1>4, <1>12, <2>1, <2>3, ChannelsAscend
  <2>4. CASE 0 < k
    <3>1. 0 \in 0..n
      OBVIOUS
    <3>2. td_blocked[owner] # NULL /\ Channel(owner) < Channel(b)
      BY <1>4, <1>12, <2>1, <2>2, <2>4, <3>1
    <3>3. m < Channel(owner)
      BY <3>2, ChannelsAscend
    <3>4. m \in Nat /\ Channel(owner) \in Nat /\ Channel(b) \in Nat
      BY <1>12, <2>2, <3>2, BlockedOwner, MutexAssumption DEF Held
    <3> QED  BY <3>2, <3>3, <3>4
  <2>5. k = 0 \/ 0 < k
    OBVIOUS
  <2> QED  BY <2>3, <2>4, <2>5
<1> QED  BY <1>8, <1>9, <1>10, <1>11, <1>12 DEF B

-----------------------------------------------------------------------------
(* The order on a queue of blocked threads. *)

LEMMA PrioIsInt ==
  ASSUME NEW f \in [Threads -> Prio]
  PROVE  f \in [Threads -> Int] /\ \A td \in Threads : f[td] \in Nat
  BY SchedAssumption DEF Prio

\* BlockedSorted in terms of SortedBy.
SortedQueues == \A ts \in Turnstiles : SortedBy(ts_blocked[ts], td_prio)

LEMMA SortedForm ==
  SchedTypeOK /\ TurnstileTypeOK => (BlockedSorted <=> SortedQueues)
<1> SUFFICES ASSUME SchedTypeOK, TurnstileTypeOK PROVE BlockedSorted <=> SortedQueues
  OBVIOUS
<1>1. \A td \in Threads : td_prio[td] \in Nat
  BY PrioIsInt DEF SchedTypeOK
<1>2. \A ts \in Turnstiles : \A i \in DOMAIN ts_blocked[ts] : ts_blocked[ts][i] \in Threads
  BY DEF TurnstileTypeOK
<1>3. ASSUME NEW ts \in Turnstiles, NEW i \in DOMAIN ts_blocked[ts],
             NEW j \in DOMAIN ts_blocked[ts]
      PROVE  ~ prio_lt(td_prio[ts_blocked[ts][i]], td_prio[ts_blocked[ts][j]])
               <=> td_prio[ts_blocked[ts][i]] <= td_prio[ts_blocked[ts][j]]
  <2>1. td_prio[ts_blocked[ts][i]] \in Nat /\ td_prio[ts_blocked[ts][j]] \in Nat
    BY <1>1, <1>2
  <2> QED  BY <2>1 DEF prio_lt
<1> QED  BY <1>3 DEF BlockedSorted, SortedQueues, SortedBy

LEMMA SortedFormNext ==
  (SchedTypeOK /\ TurnstileTypeOK => (BlockedSorted <=> SortedQueues))'
  BY SortedForm, PTL

\* A thread that blocks goes to its place.
LEMMA InsertBlockedSorted ==
  ASSUME td_prio \in [Threads -> Prio], NEW s \in Seq(Threads), NEW td \in Threads,
         SortedBy(s, td_prio)
  PROVE  SortedBy(InsertBlocked(s, td), td_prio)
<1> DEFINE p == td_prio[td]
           r == RunAhead(s, Above(p))
           k == r + 1
<1>1. /\ r \in 0..Len(s)
      /\ \A l \in 1..r : s[l] \in Above(p)
      /\ r < Len(s) => s[r + 1] \notin Above(p)
  BY RunAheadPasses
<1>2. td_prio \in [Threads -> Int] /\ \A x \in Threads : td_prio[x] \in Nat
  BY PrioIsInt
<1>3. PICK n \in Nat : n = Len(s) /\ DOMAIN s = 1..n
  BY LenProperties
<1>4. \A l \in 1..Len(s) : s[l] \in Threads
  BY ElementOfSeq
<1>5. InsertBlocked(s, td) = InsertAt(s, k, td)
  BY DEF InsertBlocked
<1>6. \A x \in Threads : x \in Above(p) <=> td_prio[x] < p
  BY DEF Above, prio_gt
<1>7. p \in Nat
  BY <1>2
<1> HIDE DEF p, r
<1>8. ASSUME NEW l \in 1..Len(s)
      PROVE  IF l < k THEN td_prio[s[l]] <= td_prio[td] ELSE td_prio[td] <= td_prio[s[l]]
  <2>1. s[l] \in Threads /\ td_prio[s[l]] \in Nat
    BY <1>2, <1>4
  <2>2. CASE l < k
    <3>1. l \in 1..r
      BY <1>1, <1>3, <2>2
    <3>2. td_prio[s[l]] < p
      BY <1>1, <1>6, <2>1, <3>1
    <3> QED  BY <1>7, <2>1, <2>2, <3>2 DEF p
  <2>3. CASE ~ (l < k)
    <3>1. r + 1 \in 1..n /\ r + 1 <= l /\ r < Len(s)
      BY <1>1, <1>3, <2>3
    <3>2. s[r + 1] \in Threads /\ td_prio[s[r + 1]] \in Nat
      BY <1>2, <1>3, <1>4, <3>1
    <3>3. p <= td_prio[s[r + 1]]
      BY <1>1, <1>6, <1>7, <3>1, <3>2
    <3>4. td_prio[s[r + 1]] <= td_prio[s[l]]
      <4>1. CASE r + 1 = l
        BY <2>1, <4>1
      <4>2. CASE r + 1 < l
        BY <1>3, <3>1, <4>2 DEF SortedBy
      <4> QED  BY <1>1, <1>3, <3>1, <4>1, <4>2
    <3> QED  BY <1>7, <2>1, <2>3, <3>2, <3>3, <3>4 DEF p
  <2> QED  BY <2>2, <2>3
<1>9. k \in 1..(Len(s) + 1)
  BY <1>1, <1>3
<1> QED  BY <1>2, <1>5, <1>8, <1>9, SortedInsert

\* A thread whose priority changes goes to its new place.
LEMMA AdjustSorted ==
  ASSUME td_prio \in [Threads -> Prio], NEW s \in Seq(Threads), Distinct(s),
         NEW td \in Range(s), NEW p \in Prio, SortedBy(s, td_prio),
         NEW g \in [Threads -> Prio], g[td] = p,
         \A x \in Range(s) : x # td => g[x] = td_prio[x]
  PROVE  SortedBy(adjust_thread(s, td, p), g)
<1>1. PICK i \in 1..Len(s) : i = IndexOf(s, td) /\ s[i] = td
  BY IndexOfProperty
<1>2. /\ td_prio \in [Threads -> Int] /\ \A x \in Threads : td_prio[x] \in Nat
      /\ g \in [Threads -> Int] /\ \A x \in Threads : g[x] \in Nat
  BY PrioIsInt
<1>3. PICK n \in Nat : n = Len(s) /\ DOMAIN s = 1..n
  BY LenProperties
<1>4. i \in 1..n
  BY <1>1, <1>3
<1>5. ASSUME NEW l \in 1..n
      PROVE  /\ s[l] \in Threads /\ td_prio[s[l]] \in Nat /\ g[s[l]] \in Nat
             /\ s[l] \in Range(s)
             /\ l # i => s[l] # td /\ g[s[l]] = td_prio[s[l]]
  <2>1. s[l] \in Threads /\ s[l] \in Range(s)
    BY <1>3, ElementOfSeq DEF Range
  <2>2. l # i => s[l] # td
    BY <1>1, <1>3, <1>4 DEF Distinct
  <2> QED  BY <1>2, <2>1, <2>2
<1>6. p \in Nat /\ td \in Threads /\ td_prio[td] \in Nat /\ g[s[i]] = p /\ td_prio[s[i]] = td_prio[td]
  BY <1>1, <1>2, <1>4, <1>5, SchedAssumption DEF Prio
<1>7. ASSUME NEW l \in 1..n, NEW k \in 1..n, l < k PROVE td_prio[s[l]] <= td_prio[s[k]]
  BY <1>3, <1>7 DEF SortedBy
<1>8. CASE p < td_prio[td]
  <2> DEFINE r == RunBefore(s, i, Below(p))
             k == i - r
  <2>1. /\ r \in 0..(i - 1)
        /\ \A l \in (i - r)..(i - 1) : s[l] \in Below(p)
        /\ i - r - 1 >= 1 => s[i - r - 1] \notin Below(p)
    BY <1>1, RunBeforePasses
  <2>2. adjust_thread(s, td, p) = Move(s, i, k)
    BY <1>1, <1>8 DEF adjust_thread, prio_gt
  <2>3. \A x \in Threads : x \in Below(p) <=> td_prio[x] > p
    BY DEF Below, prio_lt
  <2> HIDE DEF r
  <2>4. k \in 1..n /\ k <= i /\ r \in Int
    BY <1>4, <2>1
  <2>5. ASSUME NEW l \in 1..n, l # i
        PROVE  IF l < k \/ (l = k /\ i < k) THEN g[s[l]] <= g[s[i]] ELSE g[s[i]] <= g[s[l]]
    <3>1. g[s[l]] = td_prio[s[l]] /\ td_prio[s[l]] \in Nat /\ s[l] \in Threads
      BY <1>5, <2>5
    <3>2. CASE l < k
      <4>1. i - r - 1 \in 1..n /\ i - r - 1 >= 1 /\ l <= i - r - 1
        BY <1>4, <2>4, <3>2
      <4>2. s[i - r - 1] \in Threads /\ td_prio[s[i - r - 1]] \in Nat
        BY <1>5, <4>1
      <4>3. td_prio[s[i - r - 1]] <= p
        BY <1>6, <2>1, <2>3, <4>1, <4>2
      <4>4. td_prio[s[l]] <= td_prio[s[i - r - 1]]
        <5>1. CASE l = i - r - 1
          BY <3>1, <5>1
        <5>2. CASE l < i - r - 1
          BY <1>7, <4>1, <5>2
        <5> QED  BY <2>4, <4>1, <5>1, <5>2
      <4> QED  BY <1>6, <3>1, <3>2, <4>2, <4>3, <4>4
    <3>3. CASE ~ (l < k)
      <4>1. ~ (l < k \/ (l = k /\ i < k))
        BY <2>4, <3>3
      <4>2. p <= td_prio[s[l]]
        <5>1. CASE l < i
          <6>1. l \in (i - r)..(i - 1)
            BY <1>4, <2>4, <3>3, <5>1
          <6> QED  BY <1>6, <2>1, <2>3, <3>1, <6>1
        <5>2. CASE i < l
          <6>1. td_prio[s[i]] <= td_prio[s[l]]
            BY <1>4, <1>7, <5>2
          <6> QED  BY <1>6, <1>8, <3>1, <6>1
        <5> QED  BY <1>4, <2>5, <5>1, <5>2
      <4> QED  BY <1>6, <3>1, <4>1, <4>2
    <3> QED  BY <3>2, <3>3
  <2>6. SortedBy(Move(s, i, k), g)
    <3>1. k \in 1..Len(s) /\ \A l \in 1..Len(s) : l # i => g[s[l]] = td_prio[s[l]]
      BY <1>3, <1>5, <2>4
    <3>2. \A l \in 1..Len(s) :
            l # i => IF l < k \/ (l = k /\ i < k) THEN g[s[l]] <= g[s[i]]
                     ELSE g[s[i]] <= g[s[l]]
      BY <1>3, <2>5
    <3> HIDE DEF k
    <3> QED  BY <1>2, <3>1, <3>2, SortedMove
  <2> QED  BY <2>2, <2>6
<1>9. CASE p > td_prio[td]
  <2> DEFINE r == RunAfter(s, i, Above(p))
             k == i + r
  <2>1. /\ r \in 0..(n - i)
        /\ \A l \in (i + 1)..(i + r) : s[l] \in Above(p)
        /\ i + r + 1 <= n => s[i + r + 1] \notin Above(p)
    BY <1>1, <1>3, RunAfterPasses
  <2>2. adjust_thread(s, td, p) = Move(s, i, k)
    <3>1. ~ (p < td_prio[td])
      BY <1>6, <1>9
    <3> QED  BY <1>1, <1>9, <3>1 DEF adjust_thread, prio_gt, prio_lt
  <2>3. \A x \in Threads : x \in Above(p) <=> td_prio[x] < p
    BY DEF Above, prio_gt
  <2> HIDE DEF r
  <2>4. k \in 1..n /\ i <= k /\ r \in Int
    BY <1>4, <2>1
  <2>5. ASSUME NEW l \in 1..n, l # i
        PROVE  IF l < k \/ (l = k /\ i < k) THEN g[s[l]] <= g[s[i]] ELSE g[s[i]] <= g[s[l]]
    <3>1. g[s[l]] = td_prio[s[l]] /\ td_prio[s[l]] \in Nat /\ s[l] \in Threads
      BY <1>5, <2>5
    <3>2. CASE l <= k
      <4>1. l < k \/ (l = k /\ i < k)
        BY <1>4, <2>4, <2>5, <3>2
      <4>2. td_prio[s[l]] <= p
        <5>1. CASE i < l
          <6>1. l \in (i + 1)..(i + r)
            BY <1>4, <2>4, <3>2, <5>1
          <6> QED  BY <1>6, <2>1, <2>3, <3>1, <6>1
        <5>2. CASE l < i
          <6>1. td_prio[s[l]] <= td_prio[s[i]]
            BY <1>4, <1>7, <5>2
          <6> QED  BY <1>6, <1>9, <3>1, <6>1
        <5> QED  BY <1>4, <2>5, <5>1, <5>2
      <4> QED  BY <1>6, <3>1, <4>1, <4>2
    <3>3. CASE ~ (l <= k)
      <4>1. ~ (l < k \/ (l = k /\ i < k)) /\ i + r + 1 \in 1..n /\ i + r + 1 <= l
        BY <1>4, <2>4, <3>3
      <4>2. s[i + r + 1] \in Threads /\ td_prio[s[i + r + 1]] \in Nat
        BY <1>5, <4>1
      <4>3. p <= td_prio[s[i + r + 1]]
        BY <1>6, <2>1, <2>3, <4>1, <4>2
      <4>4. td_prio[s[i + r + 1]] <= td_prio[s[l]]
        <5>1. CASE l = i + r + 1
          BY <3>1, <5>1
        <5>2. CASE i + r + 1 < l
          BY <1>7, <4>1, <5>2
        <5> QED  BY <2>4, <4>1, <5>1, <5>2
      <4> QED  BY <1>6, <3>1, <4>1, <4>2, <4>3, <4>4
    <3> QED  BY <3>2, <3>3
  <2>6. SortedBy(Move(s, i, k), g)
    <3>1. k \in 1..Len(s) /\ \A l \in 1..Len(s) : l # i => g[s[l]] = td_prio[s[l]]
      BY <1>3, <1>5, <2>4
    <3>2. \A l \in 1..Len(s) :
            l # i => IF l < k \/ (l = k /\ i < k) THEN g[s[l]] <= g[s[i]]
                     ELSE g[s[i]] <= g[s[l]]
      BY <1>3, <2>5
    <3> HIDE DEF k
    <3> QED  BY <1>2, <3>1, <3>2, SortedMove
  <2> QED  BY <2>2, <2>6
<1>10. CASE p = td_prio[td]
  <2>1. adjust_thread(s, td, p) = s
    BY <1>6, <1>10 DEF adjust_thread, prio_gt, prio_lt
  <2>2. \A l \in 1..n : g[s[l]] = td_prio[s[l]]
    BY <1>1, <1>5, <1>6, <1>10
  <2> QED  BY <1>3, <2>1, <2>2 DEF SortedBy
<1> QED  BY <1>6, <1>8, <1>9, <1>10

\* The threads that borrow move to their new places.
LEMMA LentSorted ==
  ASSUME td_prio \in [Threads -> Prio], NEW blocked \in [Turnstiles -> Seq(Threads)],
         \A ts \in Turnstiles : Distinct(blocked[ts]),
         NEW B \in SUBSET Threads, NEW p \in Prio, NEW g \in [Threads -> Prio],
         \A b \in B : g[b] = p,
         \A b \in B, ts \in Turnstiles :
           td_blocked[b] = ts =>
             /\ b \in Range(blocked[ts]) /\ SortedBy(blocked[ts], td_prio)
             /\ \A x \in Range(blocked[ts]) : x # b => g[x] = td_prio[x],
         \A ts \in Turnstiles : (\A b \in B : td_blocked[b] # ts) => SortedBy(blocked[ts], g)
  PROVE  \A ts \in Turnstiles : SortedBy(LentBlocked(blocked, B, p)[ts], g)
<1> SUFFICES ASSUME NEW ts \in Turnstiles
             PROVE  SortedBy(LentBlocked(blocked, B, p)[ts], g)
  OBVIOUS
<1>1. CASE \A b \in B : td_blocked[b] # ts
  <2>1. LentBlocked(blocked, B, p)[ts] = blocked[ts]
    BY <1>1 DEF LentBlocked
  <2> QED  BY <1>1, <2>1
<1>2. CASE ~ \A b \in B : td_blocked[b] # ts
  <2>1. PICK b \in B : b = (CHOOSE td \in B : td_blocked[td] = ts) /\ td_blocked[b] = ts
    BY <1>2
  <2>2. LentBlocked(blocked, B, p)[ts] = adjust_thread(blocked[ts], b, p)
    BY <1>2, <2>1 DEF LentBlocked
  <2> DEFINE s == blocked[ts]
  <2>3. /\ s \in Seq(Threads) /\ Distinct(s) /\ b \in Range(s) /\ SortedBy(s, td_prio)
        /\ \A x \in Range(s) : x # b => g[x] = td_prio[x]
    BY <2>1
  <2>4. g[b] = p /\ p \in Prio /\ g \in [Threads -> Prio] /\ td_prio \in [Threads -> Prio]
    OBVIOUS
  <2> HIDE DEF s
  <2>5. SortedBy(adjust_thread(s, b, p), g)
    BY ONLY <2>3, <2>4, AdjustSorted
  <2> QED  BY <2>2, <2>5 DEF s
<1> QED  BY <1>1, <1>2

-----------------------------------------------------------------------------
(* What blocking in mtx_lock changes. *)

\* td blocks at ts behind owner; blocked are the queues before priority is lent.
Blocking(td, ts, owner, blocked) ==
  /\ curthread = td /\ td_blocked[td] = NULL
  /\ \A us \in Turnstiles :
       /\ Distinct(blocked[us])
       /\ Range(blocked[us]) = IF us = ts THEN Range(ts_blocked[us]) \cup {td}
                               ELSE Range(ts_blocked[us])
       /\ SortedBy(ts_blocked[us], td_prio) => SortedBy(blocked[us], td_prio)
       /\ us # ts => ts_owner'[us] = ts_owner[us]
  /\ ts_owner'[ts] = owner
  /\ \A u \in Threads : td_blocked[u] = ts => ts_owner[ts] = owner
  /\ td_blocked' = [td_blocked EXCEPT ![td] = ts]
  /\ td_prio' = WithPrio(Borrowers(owner, td_prio[td]), td_prio[td])
  /\ td_borrowing' = td_borrowing \cup Borrowers(owner, td_prio[td])
  /\ td_base_prio' = td_base_prio
  /\ ts_blocked' = LentBlocked(blocked, Borrowers(owner, td_prio[td]), td_prio[td])
  /\ sched_switch("BLOCKED", Requeued(Borrowers(owner, td_prio[td]), td_prio[td]), td_prio')

LEMMA BlockFirstFacts ==
  ASSUME IInv, NEW td \in Threads, curthread = td, NEW owner \in Threads, NEW m,
         turnstile_wait_first(td, m, owner)
  PROVE  \E ts \in Turnstiles : \E blocked \in [Turnstiles -> Seq(Threads)] :
           Blocking(td, ts, owner, blocked)
<1>1. PICK ts \in Turnstiles : ts = td_turnstile[td]
  BY BeforeBlocking
<1>2. td_blocked[td] = NULL /\ ts_blocked[ts] = <<>>
  BY <1>1, BeforeBlocking
<1> DEFINE blocked == [ts_blocked EXCEPT ![ts] = Append(@, td)]
<1>3. /\ ts_owner' = [ts_owner EXCEPT ![ts] = owner]
      /\ switch_away(td, ts, owner, blocked)
  BY <1>1 DEF turnstile_wait_first
<1>4. TurnstileTypeOK /\ TurnstileInv
  BY DEF IInv, TypeOK
<1>5. /\ Append(<<>>, td) \in Seq(Threads) /\ Range(Append(<<>>, td)) = {td}
      /\ Distinct(Append(<<>>, td)) /\ SortedBy(Append(<<>>, td), td_prio)
      /\ Range(<<>>) = {}
  BY DEF Range, Distinct, SortedBy
<1>6. /\ blocked \in [Turnstiles -> Seq(Threads)]
      /\ \A us \in Turnstiles : blocked[us] = IF us = ts THEN Append(<<>>, td) ELSE ts_blocked[us]
  BY <1>2, <1>4, <1>5 DEF TurnstileTypeOK
<1>7. \A us \in Turnstiles : us # ts => ts_owner'[us] = ts_owner[us]
  BY <1>3, <1>4 DEF TurnstileTypeOK
<1>8. ts_owner'[ts] = owner
  BY <1>3, <1>4 DEF TurnstileTypeOK
<1>9. \A u \in Threads : td_blocked[u] # ts
  BY <1>2, <1>4, <1>5 DEF TurnstileInv, BlockedLinks
<1> HIDE DEF blocked
<1>10. ASSUME NEW us \in Turnstiles
       PROVE  /\ Distinct(blocked[us])
              /\ Range(blocked[us]) = IF us = ts THEN Range(ts_blocked[us]) \cup {td}
                                      ELSE Range(ts_blocked[us])
              /\ SortedBy(ts_blocked[us], td_prio) => SortedBy(blocked[us], td_prio)
  BY <1>2, <1>4, <1>5, <1>6 DEF TurnstileInv, BlockedLinks
<1>11. Blocking(td, ts, owner, blocked)
  BY <1>2, <1>3, <1>7, <1>8, <1>9, <1>10 DEF Blocking, switch_away
<1> QED  BY <1>6, <1>11

LEMMA BlockNextFacts ==
  ASSUME IInv, NEW td \in Threads, curthread = td, NEW m \in Mutexes,
         NEW owner \in Threads, owner = m_owner[m], turnstile_wait_next(td, m, owner)
  PROVE  \E ts \in Turnstiles : \E blocked \in [Turnstiles -> Seq(Threads)] :
           Blocking(td, ts, owner, blocked)
<1>1. PICK ts \in Turnstiles :
        /\ InUse(ts, m)
        /\ switch_away(td, ts, owner, [ts_blocked EXCEPT ![ts] = InsertBlocked(@, td)])
        /\ ts_owner' = ts_owner
  BY DEF turnstile_wait_next
<1>2. td_blocked[td] = NULL /\ \A us \in Turnstiles : td \notin Range(ts_blocked[us])
  BY BeforeBlocking
<1> DEFINE blocked == [ts_blocked EXCEPT ![ts] = InsertBlocked(@, td)]
<1>3. TurnstileTypeOK /\ TurnstileInv /\ SchedTypeOK
  BY DEF IInv, TypeOK
<1>4. ts_owner[ts] = owner
  BY <1>1, <1>3 DEF TurnstileInv, UsedTurnstiles, InUse
<1> DEFINE s == ts_blocked[ts]
<1>5. s \in Seq(Threads) /\ Distinct(s) /\ td \notin Range(s) /\ Len(s) >= 1
  <2>1. s \in Seq(Threads) /\ Distinct(s) /\ td \notin Range(s)
    BY <1>2, <1>3 DEF TurnstileTypeOK, TurnstileInv, BlockedLinks
  <2>2. Len(s) = Len(ts_free[ts]) + 1
    BY <1>1, <1>3 DEF TurnstileInv, UsedTurnstiles, InUse
  <2>3. Len(ts_free[ts]) \in Nat
    BY <1>3, LenProperties DEF TurnstileTypeOK
  <2> QED  BY <2>1, <2>2, <2>3
<1>6. blocked = [ts_blocked EXCEPT ![ts] = InsertBlocked(s, td)]
  OBVIOUS
<1> HIDE DEF s
<1>7. /\ InsertBlocked(s, td) \in Seq(Threads) /\ Range(InsertBlocked(s, td)) = Range(s) \cup {td}
      /\ Distinct(InsertBlocked(s, td))
  BY <1>5, InsertBlockedQueue
<1>8. SortedBy(s, td_prio) => SortedBy(InsertBlocked(s, td), td_prio)
  BY <1>3, <1>5, InsertBlockedSorted DEF SchedTypeOK
<1>9. switch_away(td, ts, owner, blocked)
  BY <1>1
<1>10. /\ blocked \in [Turnstiles -> Seq(Threads)]
       /\ \A us \in Turnstiles :
            blocked[us] = IF us = ts THEN InsertBlocked(s, td) ELSE ts_blocked[us]
  <2> HIDE DEF blocked
  <2> QED  BY <1>3, <1>6, <1>7 DEF TurnstileTypeOK
<1> HIDE DEF blocked
<1>11. ASSUME NEW us \in Turnstiles
       PROVE  /\ Distinct(blocked[us])
              /\ Range(blocked[us]) = IF us = ts THEN Range(ts_blocked[us]) \cup {td}
                                      ELSE Range(ts_blocked[us])
              /\ SortedBy(ts_blocked[us], td_prio) => SortedBy(blocked[us], td_prio)
  <2>1. CASE us = ts
    BY <1>7, <1>8, <1>10, <2>1 DEF s
  <2>2. CASE us # ts
    BY <1>3, <1>10, <2>2 DEF TurnstileInv, BlockedLinks
  <2> QED  BY <2>1, <2>2
<1>12. Blocking(td, ts, owner, blocked)
  BY <1>1, <1>2, <1>4, <1>9, <1>11 DEF Blocking, switch_away
<1> QED  BY <1>10, <1>12

LEMMA BlockFacts ==
  ASSUME IInv, NEW td \in Threads, MtxLockBlock(td)
  PROVE  /\ td_mtx[td] \in Mutexes /\ m_owner[td_mtx[td]] \in Threads
         /\ \E ts \in Turnstiles : \E blocked \in [Turnstiles -> Seq(Threads)] :
              Blocking(td, ts, m_owner[td_mtx[td]], blocked)
<1>1. curthread = td /\ td_pc[td] = "slow" /\ m_owner[td_mtx[td]] # NULL
  BY DEF MtxLockBlock, At
<1>2. PICK m \in Mutexes : m = td_mtx[td]
  BY <1>1 DEF IInv, TurnstileInv, ControlPoints
<1>3. PICK owner \in Threads : owner = m_owner[m]
  BY <1>1, <1>2 DEF IInv, TypeOK
<1>4. turnstile_wait_first(td, m, owner) \/ turnstile_wait_next(td, m, owner)
  BY <1>2, <1>3 DEF MtxLockBlock
<1>5. \E ts \in Turnstiles : \E blocked \in [Turnstiles -> Seq(Threads)] :
        Blocking(td, ts, owner, blocked)
  BY <1>1, <1>3, <1>4, BlockFirstFacts, BlockNextFacts
<1> QED  BY <1>2, <1>3, <1>5

\* The blocked threads stay sorted.
LEMMA BlockingSorted ==
  ASSUME IInv, LockOrder, SortedQueues, NEW td \in Threads, NEW ts \in Turnstiles,
         NEW owner \in Threads, NEW blocked \in [Turnstiles -> Seq(Threads)],
         Blocking(td, ts, owner, blocked)
  PROVE  SortedQueues'
<1>1. PICK p \in Prio : p = td_prio[td]
  BY DEF IInv, TypeOK, SchedTypeOK
<1>2. PICK B : B = Borrowers(owner, p)
  OBVIOUS
<1>3. B \subseteq Below(p) /\ B \in SUBSET Threads
  BY <1>2, BorrowersAreBelow
<1>4. td \notin B
  <2>1. td_prio[td] \in Nat
    BY PrioIsInt DEF IInv, TypeOK, SchedTypeOK
  <2> QED  BY <1>1, <1>3, <2>1 DEF Below, prio_lt
<1>5. \A b, c \in B : td_blocked[b] # NULL /\ td_blocked[b] = td_blocked[c] => b = c
  BY <1>2, BorrowersChain
<1>6. td_prio \in [Threads -> Prio] /\ NULL \notin Turnstiles
  BY SchedAssumption DEF IInv, TypeOK, SchedTypeOK, Turnstiles
<1>7. /\ td_prio' \in [Threads -> Prio]
      /\ \A u \in Threads : td_prio'[u] = IF u \in B THEN p ELSE td_prio[u]
  BY <1>1, <1>2, <1>6 DEF Blocking, WithPrio
<1>8. \A us \in Turnstiles :
        /\ Distinct(blocked[us]) /\ SortedBy(blocked[us], td_prio)
        /\ Range(blocked[us]) = IF us = ts THEN Range(ts_blocked[us]) \cup {td}
                                ELSE Range(ts_blocked[us])
  BY DEF Blocking, SortedQueues
<1>9. \A u \in Threads, us \in Turnstiles : td_blocked[u] = us <=> u \in Range(ts_blocked[us])
  BY DEF IInv, TurnstileInv, BlockedLinks
<1>10. ASSUME NEW b \in B, NEW us \in Turnstiles, td_blocked[b] = us
       PROVE  /\ b \in Range(blocked[us]) /\ SortedBy(blocked[us], td_prio)
              /\ \A x \in Range(blocked[us]) : x # b => td_prio'[x] = td_prio[x]
  <2>1. b \in Range(blocked[us])
    BY <1>3, <1>8, <1>9, <1>10
  <2>2. ASSUME NEW x \in Range(blocked[us]), x # b PROVE td_prio'[x] = td_prio[x]
    <3>1. x \in Threads
      BY <1>8, <2>2 DEF Range
    <3>2. x = td \/ td_blocked[x] = us
      BY <1>8, <1>9, <3>1
    <3>3. x \notin B
      BY <1>4, <1>5, <1>6, <1>10, <2>2, <3>2
    <3> QED  BY <1>7, <3>1, <3>3
  <2> QED  BY <1>8, <2>1, <2>2
<1>11. ASSUME NEW us \in Turnstiles, \A b \in B : td_blocked[b] # us
       PROVE  SortedBy(blocked[us], td_prio')
  <2>1. ASSUME NEW i \in DOMAIN blocked[us]
        PROVE  td_prio'[blocked[us][i]] = td_prio[blocked[us][i]]
    <3>1. blocked[us][i] \in Threads /\ blocked[us][i] \in Range(blocked[us])
      BY DEF Range
    <3>2. blocked[us][i] = td \/ td_blocked[blocked[us][i]] = us
      BY <1>8, <1>9, <3>1
    <3> QED  BY <1>4, <1>7, <1>11, <3>1, <3>2
  <2>2. SortedBy(blocked[us], td_prio)
    BY <1>8
  <2> QED  BY <2>1, <2>2 DEF SortedBy
<1>12. \A us \in Turnstiles : SortedBy(LentBlocked(blocked, B, p)[us], td_prio')
  <2>1. \A b \in B : td_prio'[b] = p
    BY <1>3, <1>7
  <2>2. PICK g : g = td_prio'
    OBVIOUS
  <2>3. \A us \in Turnstiles : SortedBy(LentBlocked(blocked, B, p)[us], g)
    BY <1>3, <1>6, <1>7, <1>8, <1>10, <1>11, <2>1, <2>2, LentSorted
  <2> QED  BY <2>2, <2>3
<1>13. ts_blocked' = LentBlocked(blocked, B, p)
  BY <1>1, <1>2 DEF Blocking
<1> QED  BY <1>12, <1>13 DEF SortedQueues, Turnstiles

-----------------------------------------------------------------------------
(* Inheritance. *)

\* InheritedExactly as a comparison of numbers.
Inherits(td) ==
  /\ \A w \in WaitersFor(td) : td_prio[td] <= td_prio[w]
  /\ \/ td_prio[td] = td_base_prio[td] /\ td \notin td_borrowing
     \/ /\ td \in td_borrowing
        /\ td_prio[td] < td_base_prio[td]
        /\ \E w \in WaitersFor(td) : td_prio[w] = td_prio[td]

InheritsAll == \A td \in Threads : Inherits(td)

LEMMA InheritedForm ==
  SchedTypeOK => (InheritedExactly <=> InheritsAll)
<1> SUFFICES ASSUME SchedTypeOK PROVE InheritedExactly <=> InheritsAll
  OBVIOUS
<1>1. \A td \in Threads : td_prio[td] \in Nat /\ td_base_prio[td] \in Nat
  BY PrioIsInt DEF SchedTypeOK
<1>2. \A td \in Threads : WaitersFor(td) \subseteq Threads
  BY DEF WaitersFor
<1>3. ASSUME NEW td \in Threads, NEW w \in WaitersFor(td)
      PROVE  ~ prio_lt(td_prio[td], td_prio[w]) <=> td_prio[td] <= td_prio[w]
  <2>1. td_prio[td] \in Nat /\ td_prio[w] \in Nat
    BY <1>1, <1>2
  <2> QED  BY <2>1 DEF prio_lt
<1> QED  BY <1>3 DEF InheritedExactly, InheritsAll, Inherits, prio_gt

LEMMA InheritedFormNext ==
  (SchedTypeOK => (InheritedExactly <=> InheritsAll))'
  BY InheritedForm, PTL

\* No thread has a lower priority than its base priority.
LEMMA LentOnly ==
  ASSUME InheritsAll, SchedTypeOK, NEW td \in Threads
  PROVE  td_prio[td] <= td_base_prio[td]
<1>1. td_prio[td] \in Nat /\ td_base_prio[td] \in Nat
  BY PrioIsInt DEF SchedTypeOK
<1> QED  BY <1>1 DEF InheritsAll, Inherits

\* A thread that blocks is a new lender, and what it lends reaches everybody
\* who has to inherit it.
LEMMA BlockingInherits ==
  ASSUME IInv, LockOrder, InheritsAll, NEW td \in Threads, NEW ts \in Turnstiles,
         NEW owner \in Threads, NEW blocked \in [Turnstiles -> Seq(Threads)],
         Blocking(td, ts, owner, blocked)
  PROVE  InheritsAll'
<1>1. PICK p \in Prio : p = td_prio[td]
  BY DEF IInv, TypeOK, SchedTypeOK
<1>2. PICK B : B = Borrowers(owner, p)
  OBVIOUS
<1>3. B \subseteq Below(p) /\ B \in SUBSET Threads
  BY <1>2, BorrowersAreBelow
<1>4. /\ owner \in Below(p) => owner \in B
      /\ \A b \in B : td_blocked[b] # NULL /\ NextOwner(b) \in Below(p) => NextOwner(b) \in B
      /\ \A b \in B : b = owner \/ \E c \in B : td_blocked[c] # NULL /\ NextOwner(c) = b
  BY <1>2, BorrowersChain
<1>5. td_prio \in [Threads -> Prio] /\ NULL \notin Turnstiles /\ SchedTypeOK /\ TurnstileTypeOK
  BY SchedAssumption DEF IInv, TypeOK, SchedTypeOK, Turnstiles
<1>6. p \in Nat /\ \A u \in Threads : td_prio[u] \in Nat /\ td_base_prio[u] \in Nat
  BY <1>1, <1>5, PrioIsInt DEF SchedTypeOK
<1>7. \A u \in Threads : u \in Below(p) <=> td_prio[u] > p
  BY DEF Below, prio_lt
<1>8. /\ \A u \in Threads : td_prio'[u] = IF u \in B THEN p ELSE td_prio[u]
      /\ td_base_prio' = td_base_prio /\ td_borrowing' = td_borrowing \cup B
      /\ td_blocked[td] = NULL
  BY <1>1, <1>2, <1>5 DEF Blocking, WithPrio
<1>9. \A u \in Threads : td_blocked'[u] = IF u = td THEN ts ELSE td_blocked[u]
  BY <1>5 DEF Blocking, TurnstileTypeOK
<1>10. /\ ts_owner'[ts] = owner
       /\ \A us \in Turnstiles : us # ts => ts_owner'[us] = ts_owner[us]
       /\ \A u \in Threads : td_blocked[u] = ts => ts_owner[ts] = owner
  BY DEF Blocking
<1>11. ASSUME NEW u \in Threads
       PROVE  WaitersFor(u)' = WaitersFor(u) \cup (IF u = owner THEN {td} ELSE {})
  <2>1. ASSUME NEW w \in Threads, w # td
        PROVE  w \in WaitersFor(u)' <=> w \in WaitersFor(u)
    <3>1. td_blocked'[w] = td_blocked[w] /\ td_blocked[w] \in Turnstiles \cup {NULL}
      BY <1>5, <1>9, <2>1 DEF TurnstileTypeOK
    <3>2. td_blocked[w] # NULL => ts_owner'[td_blocked[w]] = ts_owner[td_blocked[w]]
      BY <1>10, <3>1
    <3> QED  BY <3>1, <3>2 DEF WaitersFor
  <2>2. td \in WaitersFor(u)' <=> u = owner
    BY <1>5, <1>9, <1>10 DEF WaitersFor
  <2>3. td \notin WaitersFor(u)
    BY <1>8 DEF WaitersFor
  <2>4. WaitersFor(u)' \subseteq Threads /\ WaitersFor(u) \subseteq Threads
    BY DEF WaitersFor
  <2> QED  BY <2>1, <2>2, <2>3, <2>4
<1>12. td \notin B /\ td_prio'[td] = p
  BY <1>1, <1>3, <1>6, <1>7, <1>8
<1>13. ASSUME NEW u \in Threads, NEW w \in WaitersFor(u)
       PROVE  /\ w \in Threads /\ td_prio[u] <= td_prio[w]
              /\ w \in B /\ u \in Below(p) => u \in B
  BY <1>4 DEF WaitersFor, NextOwner, InheritsAll, Inherits
<1>14. ASSUME NEW u \in Threads PROVE Inherits(u)'
  <2>1. ASSUME NEW w \in WaitersFor(u)' PROVE td_prio'[u] <= td_prio'[w]
    <3>1. CASE w = td
      <4>1. u = owner \/ w \in WaitersFor(u)
        BY <1>11, <2>1, <3>1
      <4>2. u = owner
        BY <1>8, <3>1, <4>1 DEF WaitersFor
      <4> QED  BY <1>4, <1>6, <1>7, <1>8, <1>12, <3>1, <4>2
    <3>2. CASE w # td
      <4>1. w \in WaitersFor(u)
        BY <1>11, <2>1, <3>2
      <4>2. w \in Threads /\ td_prio[u] <= td_prio[w] /\ (w \in B /\ u \in Below(p) => u \in B)
        BY <1>13, <4>1
      <4>3. w \in B => td_prio[w] > p
        BY <1>3, <1>7, <4>2
      <4>4. u \in B => td_prio[u] > p
        BY <1>3, <1>7
      <4> QED  BY <1>6, <1>7, <1>8, <4>2, <4>3, <4>4
    <3> QED  BY <3>1, <3>2
  <2>2. CASE u \in B
    <3>1. td_prio'[u] = p /\ td_prio[u] > p /\ u \in td_borrowing'
      BY <1>3, <1>7, <1>8, <2>2
    <3>2. td_prio[u] <= td_base_prio[u]
      BY <1>5, LentOnly
    <3>3. td_prio'[u] < td_base_prio'[u]
      BY <1>6, <1>8, <3>1, <3>2
    <3>4. \E w \in WaitersFor(u)' : td_prio'[w] = td_prio'[u]
      <4>1. CASE u = owner
        BY <1>11, <1>12, <3>1, <4>1
      <4>2. CASE u # owner
        <5>1. PICK c \in B : td_blocked[c] # NULL /\ NextOwner(c) = u
          BY <1>4, <2>2, <4>2
        <5>2. c \in WaitersFor(u) /\ td_prio'[c] = p
          BY <1>3, <1>8, <5>1 DEF WaitersFor, NextOwner
        <5> QED  BY <1>11, <3>1, <5>2
      <4> QED  BY <4>1, <4>2
    <3> QED  BY <2>1, <3>1, <3>3, <3>4 DEF Inherits
  <2>3. CASE u \notin B
    <3>1. td_prio'[u] = td_prio[u] /\ (u \in td_borrowing' <=> u \in td_borrowing)
          /\ td_base_prio'[u] = td_base_prio[u]
      BY <1>8, <2>3
    <3>2. ASSUME NEW w \in WaitersFor(u), td_prio[w] = td_prio[u]
          PROVE  w \in WaitersFor(u)' /\ td_prio'[w] = td_prio'[u]
      <4>1. w \in WaitersFor(u)' /\ w \in Threads
        BY <1>11, <3>2 DEF WaitersFor
      <4>2. w \notin B
        BY <1>3, <1>7, <1>13, <2>3, <3>2
      <4> QED  BY <1>8, <3>1, <3>2, <4>1, <4>2
    <3>3. Inherits(u)
      BY DEF InheritsAll
    <3> QED  BY <2>1, <3>1, <3>2, <3>3 DEF Inherits
  <2> QED  BY <2>2, <2>3
<1> QED  BY <1>14 DEF InheritsAll

-----------------------------------------------------------------------------
(* What turnstile_broadcast changes. *)

Releasing(td, ts, p) ==
  /\ curthread = td /\ curthread' = td
  /\ td_blocked[td] = NULL /\ ts_owner[ts] = td
  /\ OfferedPrio(td, ts, p) /\ UnlendAssertion(td, p)
  /\ ts_owner' = [ts_owner EXCEPT ![ts] = NULL]
  /\ td_prio' = [td_prio EXCEPT ![td] = UnlentPrio(td, p)]
  /\ td_base_prio' = td_base_prio
  /\ td_borrowing' = UnlentBorrowing(td, p)
  /\ td_blocked' = [u \in Threads |-> IF u \in Range(ts_blocked[ts]) THEN NULL ELSE td_blocked[u]]
  /\ ts_blocked' = [ts_blocked EXCEPT ![ts] = <<>>]
  /\ sched_wakeup(ts_blocked[ts], td_prio')

LEMMA ReleaseFacts ==
  ASSUME IInv, NEW td \in Threads, MtxUnlockBroadcast(td)
  PROVE  \E ts \in Turnstiles, p \in Prio : Releasing(td, ts, p)
<1>1. curthread = td /\ td_pc[td] = "xchg" /\ turnstile_broadcast(td, td_mtx[td])
  BY DEF MtxUnlockBroadcast, At
<1>2. td_blocked[td] = NULL
  BY <1>1, CurrentNotBlocked DEF IInv
<1>3. m_owner[td_mtx[td]] = td
  BY <1>1 DEF IInv, TurnstileInv, ControlPoints
<1>4. PICK ts \in Turnstiles, p \in Prio :
        /\ InUse(ts, td_mtx[td])
        /\ OfferedPrio(td, ts, p)
        /\ UnlendAssertion(td, p)
        /\ ts_owner' = [ts_owner EXCEPT ![ts] = NULL]
        /\ td_prio' = [td_prio EXCEPT ![td] = UnlentPrio(td, p)]
        /\ td_borrowing' = UnlentBorrowing(td, p)
        /\ td_blocked' = [u \in Threads |->
                            IF u \in Range(ts_blocked[ts]) THEN NULL ELSE td_blocked[u]]
        /\ ts_blocked' = [ts_blocked EXCEPT ![ts] = <<>>]
        /\ sched_wakeup(ts_blocked[ts], td_prio')
        /\ UNCHANGED <<curthread, td_base_prio>>
  BY <1>1 DEF turnstile_broadcast
<1>5. ts_owner[ts] = td
  BY <1>3, <1>4 DEF IInv, TurnstileInv, UsedTurnstiles, InUse
<1> QED  BY <1>1, <1>2, <1>4, <1>5 DEF Releasing

LEMMA ReleasingSorted ==
  ASSUME IInv, SortedQueues, NEW td \in Threads, NEW ts \in Turnstiles, NEW p \in Prio,
         Releasing(td, ts, p)
  PROVE  SortedQueues'
<1>1. TurnstileTypeOK /\ SchedTypeOK
  BY DEF IInv, TypeOK
<1>2. \A u \in Threads : u # td => td_prio'[u] = td_prio[u]
  BY <1>1 DEF Releasing, SchedTypeOK
<1>3. \A us \in Turnstiles : td \notin Range(ts_blocked[us])
  BY BeforeBlocking DEF Releasing
<1>4. ASSUME NEW us \in Turnstiles PROVE SortedBy(ts_blocked'[us], td_prio')
  <2>1. CASE us = ts
    <3>1. ts_blocked'[us] = <<>>
      BY <1>1, <2>1 DEF Releasing, TurnstileTypeOK
    <3> QED  BY <3>1 DEF SortedBy
  <2>2. CASE us # ts
    <3>1. ts_blocked'[us] = ts_blocked[us]
      BY <1>1, <2>2 DEF Releasing, TurnstileTypeOK
    <3>2. ASSUME NEW i \in DOMAIN ts_blocked[us]
          PROVE  td_prio'[ts_blocked[us][i]] = td_prio[ts_blocked[us][i]]
      <4>1. ts_blocked[us][i] \in Threads /\ ts_blocked[us][i] \in Range(ts_blocked[us])
        BY <1>1 DEF TurnstileTypeOK, Range
      <4> QED  BY <1>2, <1>3, <4>1
    <3>3. SortedBy(ts_blocked[us], td_prio)
      BY DEF SortedQueues
    <3> QED  BY <3>1, <3>2, <3>3 DEF SortedBy
  <2> QED  BY <2>1, <2>2
<1> QED  BY <1>4 DEF SortedQueues, Turnstiles

\* The first thread at a turnstile in use, the one unlend_self looks at, has the
\* best priority of those that wait there.
LEMMA FirstWaiter ==
  ASSUME IInv, NEW us \in Turnstiles, ts_owner[us] # NULL
  PROVE  /\ Head(ts_blocked[us]) \in Threads
         /\ td_blocked[Head(ts_blocked[us])] = us
         /\ SortedQueues => \A w \in Threads :
              td_blocked[w] = us => td_prio[Head(ts_blocked[us])] <= td_prio[w]
<1>1. PICK s \in Seq(Threads) : s = ts_blocked[us]
  BY DEF IInv, TypeOK, TurnstileTypeOK
<1>2. ts_state[us] = "USED_BLOCKED" /\ Len(s) = Len(ts_free[us]) + 1
  BY <1>1 DEF IInv, TurnstileInv, UsedTurnstiles
<1>3. Len(ts_free[us]) \in Nat
  BY LenProperties DEF IInv, TypeOK, TurnstileTypeOK
<1>4. PICK n \in Nat : n = Len(s) /\ DOMAIN s = 1..n
  BY LenProperties
<1>5. 1 \in 1..n /\ s # <<>>
  BY <1>2, <1>3, <1>4
<1>6. Head(s) = s[1] /\ s[1] \in Threads /\ s[1] \in Range(s)
  BY <1>4, <1>5, ElementOfSeq DEF Range
<1>7. \A w \in Threads : td_blocked[w] = us <=> w \in Range(s)
  BY <1>1 DEF IInv, TurnstileInv, BlockedLinks
<1>8. ASSUME SortedQueues, NEW w \in Threads, td_blocked[w] = us
      PROVE  td_prio[s[1]] <= td_prio[w]
  <2>1. PICK k \in 1..n : s[k] = w
    BY <1>4, <1>7, <1>8 DEF Range
  <2>2. td_prio[w] \in Nat
    BY PrioIsInt DEF IInv, TypeOK, SchedTypeOK
  <2>3. SortedBy(s, td_prio)
    BY <1>1, <1>8 DEF SortedQueues
  <2>4. CASE k = 1
    BY <2>1, <2>2, <2>4
  <2>5. CASE 1 < k
    BY <1>4, <1>5, <2>1, <2>3, <2>5 DEF SortedBy
  <2> QED  BY <2>4, <2>5
<1> QED  BY <1>1, <1>6, <1>7, <1>8

\* Who still waits for whom when td has released ts.
LEMMA ReleaseWaiters ==
  ASSUME IInv, NEW td \in Threads, NEW ts \in Turnstiles, NEW p \in Prio,
         Releasing(td, ts, p), NEW u \in Threads
  PROVE  /\ WaitersFor(u)' = {w \in WaitersFor(u) : td_blocked[w] # ts}
         /\ u # td => WaitersFor(u)' = WaitersFor(u)
         /\ td \notin WaitersFor(u)
<1>1. TurnstileTypeOK /\ NULL \notin Turnstiles
  BY SchedAssumption DEF IInv, TypeOK, Turnstiles
<1>2. ASSUME NEW w \in Threads
      PROVE  td_blocked'[w] = IF td_blocked[w] = ts THEN NULL ELSE td_blocked[w]
  BY DEF Releasing, IInv, TurnstileInv, BlockedLinks
<1>3. \A us \in Turnstiles : us # ts => ts_owner'[us] = ts_owner[us]
  BY <1>1 DEF Releasing, TurnstileTypeOK
<1>4. ASSUME NEW w \in Threads
      PROVE  w \in WaitersFor(u)' <=> w \in WaitersFor(u) /\ td_blocked[w] # ts
  <2>1. td_blocked[w] \in Turnstiles \cup {NULL}
    BY <1>1 DEF TurnstileTypeOK
  <2> QED  BY <1>1, <1>2, <1>3, <2>1 DEF WaitersFor
<1>5. WaitersFor(u) \subseteq Threads /\ WaitersFor(u)' \subseteq Threads
  BY DEF WaitersFor
<1>6. ts_owner[ts] = td /\ td_blocked[td] = NULL
  BY DEF Releasing
<1>7. u # td => \A w \in WaitersFor(u) : td_blocked[w] # ts
  BY <1>6 DEF WaitersFor
<1>8. td \notin WaitersFor(u)
  BY <1>6 DEF WaitersFor
<1> QED  BY <1>4, <1>5, <1>7, <1>8

\* What a thread inherits after turnstile_broadcast comes from the mutexes it
\* still owns.
LEMMA ReleasingInherits ==
  ASSUME IInv, SortedQueues, InheritsAll, NEW td \in Threads, NEW ts \in Turnstiles,
         NEW p \in Prio, Releasing(td, ts, p)
  PROVE  InheritsAll'
<1>1. SchedTypeOK /\ NULL \notin Threads
  BY SchedAssumption DEF IInv, TypeOK
<1>2. p \in Nat /\ LowestPrio \in Nat /\ p <= LowestPrio
      /\ \A u \in Threads : td_prio[u] \in Nat /\ td_base_prio[u] \in Nat
                            /\ td_base_prio[u] <= LowestPrio
  BY <1>1, PrioIsInt, SchedAssumption DEF SchedTypeOK, Prio
<1>3. /\ td_prio'[td] = UnlentPrio(td, p)
      /\ \A u \in Threads : u # td => td_prio'[u] = td_prio[u]
      /\ td_base_prio' = td_base_prio
      /\ td_borrowing' = UnlentBorrowing(td, p)
  BY <1>1 DEF Releasing, SchedTypeOK
<1>4. ASSUME NEW u \in Threads, u # td PROVE Inherits(u)'
  <2>1. WaitersFor(u)' = WaitersFor(u) /\ td \notin WaitersFor(u)
        /\ WaitersFor(u) \subseteq Threads
    BY <1>4, ReleaseWaiters DEF WaitersFor
  <2>2. \A w \in WaitersFor(u) : td_prio'[w] = td_prio[w]
    BY <1>3, <2>1
  <2>3. td_prio'[u] = td_prio[u] /\ (u \in td_borrowing' <=> u \in td_borrowing)
        /\ td_base_prio'[u] = td_base_prio[u]
    BY <1>3, <1>4 DEF UnlentBorrowing
  <2>4. Inherits(u)
    BY DEF InheritsAll
  <2> QED  BY <2>1, <2>2, <2>3, <2>4 DEF Inherits
<1>5. \A w \in WaitersFor(td)' : w \in Threads /\ w # td /\ td_prio'[w] = td_prio[w]
  BY <1>3, ReleaseWaiters DEF WaitersFor
<1>6. ASSUME NEW us \in OwnedElsewhere(td, ts)
      PROVE  /\ us \in Turnstiles /\ us # ts /\ ts_owner[us] = td
             /\ p <= td_prio[Head(ts_blocked[us])] /\ Head(ts_blocked[us]) \in Threads
             /\ td_blocked[Head(ts_blocked[us])] = us
  <2>1. us \in Turnstiles /\ us # ts /\ ts_owner[us] = td
    BY DEF OwnedElsewhere
  <2>2. Head(ts_blocked[us]) \in Threads /\ td_blocked[Head(ts_blocked[us])] = us
    BY <1>1, <2>1, FirstWaiter
  <2>3. ~ prio_gt(td_prio[Head(ts_blocked[us])], p)
    BY DEF Releasing, OfferedPrio
  <2> QED  BY <1>2, <2>1, <2>2, <2>3 DEF prio_gt
<1>7. ASSUME NEW w \in WaitersFor(td)' PROVE td_prio'[td] <= td_prio'[w]
  <2>1. w \in WaitersFor(td) /\ td_blocked[w] # ts
    BY <1>7, ReleaseWaiters
  <2>2. PICK us \in OwnedElsewhere(td, ts) : us = td_blocked[w]
    <3>1. td_blocked[w] \in Turnstiles
      BY <2>1 DEF WaitersFor, IInv, TypeOK, TurnstileTypeOK
    <3> QED  BY <2>1, <3>1 DEF WaitersFor, OwnedElsewhere
  <2>3. w \in Threads /\ td_prio'[w] = td_prio[w]
    BY <1>5, <1>7
  <2>4. td_prio[Head(ts_blocked[us])] <= td_prio[w]
    BY <1>1, <1>6, <2>2, <2>3, FirstWaiter
  <2>5. p <= td_prio[w]
    BY <1>2, <1>6, <2>3, <2>4
  <2>6. td_prio'[td] <= p
    BY <1>2, <1>3 DEF UnlentPrio, prio_le
  <2>7. td_prio'[td] \in Nat
    BY <1>2, <1>3 DEF UnlentPrio
  <2> QED  BY <1>2, <2>3, <2>5, <2>6, <2>7
<1>8. CASE p >= td_base_prio[td]
  <2>1. td_prio'[td] = td_base_prio'[td] /\ td \notin td_borrowing'
    BY <1>3, <1>8 DEF UnlentPrio, UnlentBorrowing, prio_le
  <2>2. Inherits(td)'
    BY <1>7, <2>1 DEF Inherits
  <2> QED  BY <1>4, <2>2 DEF InheritsAll
<1>9. CASE ~ (p >= td_base_prio[td])
  <2>1. td_prio'[td] = p /\ p < td_base_prio'[td] /\ td \in td_borrowing'
    BY <1>2, <1>3, <1>9 DEF UnlentPrio, UnlentBorrowing, prio_le
  <2>2. p # LowestPrio
    BY <1>2, <1>9
  <2>3. PICK us \in OwnedElsewhere(td, ts) : p = td_prio[Head(ts_blocked[us])]
    BY <2>2 DEF Releasing, OfferedPrio
  <2>4. PICK w \in Threads : w = Head(ts_blocked[us])
    BY <1>6
  <2>5. us \in Turnstiles /\ us # ts /\ ts_owner[us] = td /\ td_blocked[w] = us /\ us # NULL
    BY <1>1, <1>6, <2>4 DEF Turnstiles
  <2>6. w \in WaitersFor(td)'
    BY <2>5, ReleaseWaiters DEF WaitersFor
  <2>7. td_prio'[w] = td_prio'[td]
    BY <1>5, <2>1, <2>3, <2>4, <2>6
  <2>8. Inherits(td)'
    BY <1>7, <2>1, <2>6, <2>7 DEF Inherits
  <2> QED  BY <1>4, <2>8 DEF InheritsAll
<1> QED  BY <1>8, <1>9

-----------------------------------------------------------------------------
(* What sched_set_prio changes. *)

LEMMA SetPrioSorted ==
  ASSUME IInv, LockOrder, SortedQueues, NEW td \in Threads, NEW p \in Prio,
         sched_set_prio(td, p)
  PROVE  SortedQueues'
<1> DEFINE old == td_prio[td]
           keep == td \in td_borrowing /\ prio_gt(old, p)
           adjusted == IF td_blocked[td] = NULL THEN ts_blocked
                       ELSE [ts_blocked EXCEPT ![td_blocked[td]] =
                               adjust_thread(@, td, p)]
           propagate == /\ td_blocked[td] # NULL
                        /\ Head(adjusted[td_blocked[td]]) = td
                        /\ prio_gt(p, old)
           B == IF propagate THEN Borrowers(ts_owner[td_blocked[td]], p) ELSE {}
           C == B \cup (IF p = old THEN {} ELSE {td})
<1>1. CASE keep
  <2>1. UNCHANGED <<td_prio, ts_blocked>>
    BY <1>1 DEF sched_set_prio
  <2> QED  BY <2>1 DEF SortedQueues, Turnstiles
<1>2. CASE ~ keep
  <2>1. td_prio' = WithPrio(C, p) /\ ts_blocked' = LentBlocked(adjusted, B, p)
    BY <1>2 DEF sched_set_prio
  <2>2. SchedTypeOK /\ TurnstileTypeOK /\ TurnstileInv /\ NULL \notin Turnstiles
    BY SchedAssumption DEF IInv, TypeOK, Turnstiles
  <2>3. B \in SUBSET Threads /\ C \in SUBSET Threads
    <3>1. Borrowers(ts_owner[td_blocked[td]], p) \in SUBSET Threads
      BY BorrowersAreBelow
    <3> QED  BY <3>1
  <2>4. /\ td_prio' \in [Threads -> Prio]
        /\ \A u \in Threads : td_prio'[u] = IF u \in B \/ u = td THEN p ELSE td_prio[u]
    <3> HIDE DEF B
    <3> QED  BY <2>1, <2>2, <2>3 DEF WithPrio, SchedTypeOK
  \* No borrower waits where td does, nor two at the same turnstile.
  <2>5. /\ \A b \in B : td_blocked[b] # NULL => td_blocked[b] # td_blocked[td]
        /\ \A b, c \in B : td_blocked[b] # NULL /\ td_blocked[b] = td_blocked[c] => b = c
    <3>1. CASE ~ propagate
      BY <3>1
    <3>2. CASE propagate
      <4>1. PICK owner \in Threads : owner = NextOwner(td)
        BY <3>2, BlockedOwner
      <4>2. Channel(td) \in Held(owner) /\ Channel(td) \in Nat
        BY <3>2, <4>1, BlockedOwner DEF Held
      <4>3. B = Borrowers(owner, p)
        BY <3>2, <4>1 DEF NextOwner
      <4> HIDE DEF B, propagate
      <4>4. /\ \A b, c \in B : td_blocked[b] # NULL /\ td_blocked[b] = td_blocked[c] => b = c
            /\ \A b \in B, m \in Held(owner) : td_blocked[b] # NULL => m < Channel(b)
        BY <4>3, BorrowersChain
      <4>5. ASSUME NEW b \in B, td_blocked[b] # NULL PROVE td_blocked[b] # td_blocked[td]
        <5>1. Channel(td) < Channel(b)
          BY <4>2, <4>4, <4>5
        <5> QED  BY <4>2, <5>1 DEF Channel
      <4> QED  BY <4>4, <4>5
    <3> QED  BY <3>1, <3>2
  <2>6. \A u \in Threads, us \in Turnstiles : td_blocked[u] = us <=> u \in Range(ts_blocked[us])
    BY <2>2 DEF TurnstileInv, BlockedLinks
  <2>7. ASSUME NEW us \in Turnstiles
        PROVE  /\ ts_blocked[us] \in Seq(Threads) /\ Distinct(ts_blocked[us])
               /\ Range(ts_blocked[us]) \subseteq Threads
               /\ SortedBy(ts_blocked[us], td_prio)
    <3>1. ts_blocked[us] \in Seq(Threads) /\ Distinct(ts_blocked[us])
          /\ SortedBy(ts_blocked[us], td_prio)
      BY <2>2 DEF TurnstileTypeOK, TurnstileInv, BlockedLinks, SortedQueues
    <3> QED  BY <3>1 DEF Range
  <2>8. ASSUME NEW us \in Turnstiles
        PROVE  adjusted[us] = IF td_blocked[td] = us THEN adjust_thread(ts_blocked[us], td, p)
                              ELSE ts_blocked[us]
    BY <2>2 DEF TurnstileTypeOK
  <2>9. ASSUME NEW us \in Turnstiles
        PROVE  /\ adjusted[us] \in Seq(Threads) /\ Distinct(adjusted[us])
               /\ Range(adjusted[us]) = Range(ts_blocked[us])
    <3> HIDE DEF adjusted
    <3>1. CASE td_blocked[td] = us
      <4>1. td \in Range(ts_blocked[us])
        BY <2>6, <3>1
      <4> QED  BY <2>7, <2>8, <3>1, <4>1, AdjustKeepsQueue
    <3>2. CASE td_blocked[td] # us
      BY <2>7, <2>8, <3>2
    <3> QED  BY <3>1, <3>2
  <2>10. adjusted \in [Turnstiles -> Seq(Threads)]
    <3>1. \E f : adjusted = [us \in Turnstiles |-> f[us]]
      <4>1. ts_blocked = [us \in Turnstiles |-> ts_blocked[us]]
        BY <2>2 DEF TurnstileTypeOK
      <4>2. adjusted = [us \in Turnstiles |-> adjusted[us]]
        BY <4>1
      <4> QED  BY <4>2
    <3> HIDE DEF adjusted
    <3> QED  BY <2>9, <3>1
  <2> HIDE DEF adjusted, B, C, propagate, keep
  <2>11. PICK g \in [Threads -> Prio] :
           g = td_prio' /\ \A u \in Threads : g[u] = IF u \in B \/ u = td THEN p ELSE td_prio[u]
    BY <2>4
  <2>12. ASSUME NEW b \in B, NEW us \in Turnstiles, td_blocked[b] = us
         PROVE  /\ b \in Range(adjusted[us]) /\ SortedBy(adjusted[us], td_prio)
                /\ \A x \in Range(adjusted[us]) : x # b => g[x] = td_prio[x]
    <3>1. td_blocked[td] # us /\ b \in Threads
      BY <2>2, <2>3, <2>5, <2>12
    <3>2. adjusted[us] = ts_blocked[us] /\ b \in Range(ts_blocked[us])
      BY <2>6, <2>8, <2>12, <3>1
    <3>3. ASSUME NEW x \in Range(ts_blocked[us]), x # b PROVE g[x] = td_prio[x]
      <4>1. x \in Threads /\ td_blocked[x] = us
        BY <2>6, <2>7, <3>3
      <4>2. x # td /\ x \notin B
        BY <2>2, <2>5, <2>12, <3>1, <3>3, <4>1
      <4> QED  BY <2>11, <4>1, <4>2
    <3> QED  BY <2>7, <3>2, <3>3
  <2>13. ASSUME NEW us \in Turnstiles, \A b \in B : td_blocked[b] # us
         PROVE  SortedBy(adjusted[us], g)
    <3>1. \A x \in Range(ts_blocked[us]) : x # td => g[x] = td_prio[x]
      BY <2>6, <2>7, <2>11, <2>13
    <3>2. CASE td_blocked[td] = us
      <4> DEFINE s == ts_blocked[us]
      <4>1. s \in Seq(Threads) /\ Distinct(s) /\ td \in Range(s) /\ SortedBy(s, td_prio)
            /\ g[td] = p /\ td_prio \in [Threads -> Prio]
        BY <2>2, <2>6, <2>7, <2>11, <3>2 DEF SchedTypeOK
      <4>2. \A x \in Range(s) : x # td => g[x] = td_prio[x]
        BY <3>1
      <4> HIDE DEF s
      <4>3. SortedBy(adjust_thread(s, td, p), g)
        BY <2>11, <4>1, <4>2, AdjustSorted
      <4> QED  BY <2>8, <3>2, <4>3 DEF s
    <3>3. CASE td_blocked[td] # us
      <4>1. ASSUME NEW i \in DOMAIN ts_blocked[us]
            PROVE  g[ts_blocked[us][i]] = td_prio[ts_blocked[us][i]]
        <5>1. ts_blocked[us][i] \in Range(ts_blocked[us])
          BY DEF Range
        <5>2. td \notin Range(ts_blocked[us])
          BY <2>6, <3>3
        <5> QED  BY <3>1, <5>1, <5>2
      <4> QED  BY <2>7, <2>8, <3>3, <4>1 DEF SortedBy
    <3> QED  BY <3>2, <3>3
  <2>14. \A us \in Turnstiles : SortedBy(LentBlocked(adjusted, B, p)[us], g)
    <3>1. \A b \in B : g[b] = p
      BY <2>3, <2>11
    <3>2. td_prio \in [Threads -> Prio]
      BY <2>2 DEF SchedTypeOK
    <3> QED  BY <2>3, <2>9, <2>10, <2>12, <2>13, <3>1, <3>2, LentSorted
  <2> QED  BY <2>1, <2>11, <2>14 DEF SortedQueues, Turnstiles
<1> QED  BY <1>1, <1>2

-----------------------------------------------------------------------------
(* The lock order. *)

\* A step that takes no mutex leads td to a point that respects the order.
LEMMA LockOrderKept ==
  ASSUME IInv, LockOrder, \A u \in Threads : Held(u)' \subseteq Held(u),
         NEW td \in Threads, NEW pc, NEW m, Goto(td, pc, m),
         pc \in {"cas", "slow", "enable_cas"} => \A h \in Held(td) : h < m
  PROVE  LockOrder'
<1>1. ASSUME NEW u \in Threads
      PROVE  /\ td_pc'[u] = IF u = td THEN pc ELSE td_pc[u]
             /\ td_mtx'[u] = IF u = td THEN m ELSE td_mtx[u]
  BY DEF Goto, IInv, TypeOK
<1> QED  BY <1>1 DEF LockOrder

LEMMA LockOrderSame ==
  ASSUME LockOrder, UNCHANGED <<m_owner, td_pc, td_mtx>>
  PROVE  LockOrder'
  BY DEF LockOrder, Held

LEMMA TryAcquireOrder ==
  ASSUME IInv, LockOrder, NEW td \in Threads, NEW m \in Mutexes,
         \A h \in Held(td) : h < m, TryAcquire(td, m)
  PROVE  LockOrder'
<1>1. CASE m_owner[m] = NULL
  <2>1. m_owner' = [m_owner EXCEPT ![m] = td] /\ Goto(td, "run", NULL)
    BY <1>1 DEF TryAcquire
  <2>2. ASSUME NEW u \in Threads, u # td PROVE Held(u)' = Held(u)
    BY <1>1, <2>1, <2>2, SchedAssumption DEF Held, IInv, TypeOK
  <2>3. ASSUME NEW u \in Threads
        PROVE  /\ td_pc'[u] = IF u = td THEN "run" ELSE td_pc[u]
               /\ u # td => td_mtx'[u] = td_mtx[u]
    BY <2>1 DEF Goto, IInv, TypeOK
  <2> QED  BY <2>2, <2>3 DEF LockOrder
<1>2. CASE m_owner[m] # NULL
  <2>1. m_owner' = m_owner /\ Goto(td, "slow", m)
    BY <1>2 DEF TryAcquire
  <2>2. \A u \in Threads : Held(u)' \subseteq Held(u)
    BY <2>1 DEF Held
  <2> QED  BY <2>1, <2>2, LockOrderKept
<1> QED  BY <1>1, <1>2

\* A release takes a mutex from its owner.
LEMMA ReleasedHeld ==
  ASSUME IInv, NEW m \in Mutexes, m_owner' = [m_owner EXCEPT ![m] = NULL]
  PROVE  \A u \in Threads : Held(u)' \subseteq Held(u)
  BY SchedAssumption DEF Held, IInv, TypeOK

LEMMA LockOrderStep ==
  ASSUME IInv, LockOrder, [Next]_vars
  PROVE  LockOrder'
<1>1. CASE UNCHANGED vars
  BY <1>1, LockOrderSame DEF vars, mtxVars, pcVars
<1>2. ASSUME NEW td \in Threads, ThreadStep(td) PROVE LockOrder'
  <2>1. ASSUME NEW m \in Mutexes, MtxLock(td, m) PROVE LockOrder'
    BY <2>1, TryAcquireOrder DEF MtxLock
  <2>2. ASSUME NEW m \in Mutexes, MtxLockRecursive(td, m) \/ MtxUnlockRecursive(td, m)
        PROVE  LockOrder'
    BY <2>2, LockOrderSame DEF MtxLockRecursive, MtxUnlockRecursive, pcVars
  <2>3. ASSUME NEW m \in Mutexes, MtxUnlock(td, m) PROVE LockOrder'
    <3>1. CASE m \in m_contested
      <4>1. Goto(td, "xchg", m) /\ m_owner' = m_owner
        BY <2>3, <3>1 DEF MtxUnlock
      <4>2. \A u \in Threads : Held(u)' \subseteq Held(u)
        BY <4>1 DEF Held
      <4> QED  BY <4>1, <4>2, LockOrderKept
    <3>2. CASE m \notin m_contested
      <4>1. /\ m_owner' = [m_owner EXCEPT ![m] = NULL] /\ td_pc' = td_pc /\ td_mtx' = td_mtx
        BY <2>3, <3>2 DEF MtxUnlock
      <4>2. \A u \in Threads : Held(u)' \subseteq Held(u)
        BY <4>1, ReleasedHeld
      <4> QED  BY <4>1, <4>2 DEF LockOrder
    <3> QED  BY <3>1, <3>2
  <2>4. CASE MtxRetry(td)
    <3>1. td_pc[td] = "cas" /\ TryAcquire(td, td_mtx[td])
      BY <2>4 DEF MtxRetry, At
    <3>2. td_mtx[td] \in Mutexes
      BY <3>1 DEF IInv, TurnstileInv, ControlPoints
    <3> QED  BY <3>1, <3>2, TryAcquireOrder DEF LockOrder
  <2>5. CASE MtxLockReleased(td) \/ MtxLockBlock(td)
    <3>1. td_pc[td] = "slow" /\ Goto(td, "enable_cas", td_mtx[td]) /\ m_owner' = m_owner
      BY <2>5 DEF MtxLockReleased, MtxLockBlock, At, mtxVars
    <3>2. \A u \in Threads : Held(u)' \subseteq Held(u)
      BY <3>1 DEF Held
    <3>3. \A h \in Held(td) : h < td_mtx[td]
      BY <3>1 DEF LockOrder
    <3> QED  BY <3>1, <3>2, <3>3, LockOrderKept
  <2>6. CASE MtxUnlockBroadcast(td)
    <3>1. /\ td_pc[td] = "xchg" /\ Goto(td, "enable_run", NULL)
          /\ m_owner' = [m_owner EXCEPT ![td_mtx[td]] = NULL]
      BY <2>6 DEF MtxUnlockBroadcast, At
    <3>2. td_mtx[td] \in Mutexes
      BY <3>1 DEF IInv, TypeOK, TurnstileInv, ControlPoints
    <3>3. \A u \in Threads : Held(u)' \subseteq Held(u)
      BY <3>1, <3>2, ReleasedHeld
    <3> QED  BY <3>1, <3>3, LockOrderKept
  <2>7. CASE PreemptEnable(td)
    <3>1. m_owner' = m_owner
      BY <2>7 DEF PreemptEnable, mtxVars
    <3>2. \A u \in Threads : Held(u)' \subseteq Held(u)
      BY <3>1 DEF Held
    <3>3. \/ td_pc[td] = "enable_cas" /\ Goto(td, "cas", td_mtx[td])
          \/ Goto(td, "run", NULL)
      BY <2>7 DEF PreemptEnable, At
    <3>4. td_pc[td] = "enable_cas" => \A h \in Held(td) : h < td_mtx[td]
      BY DEF LockOrder
    <3> QED  BY <3>2, <3>3, <3>4, LockOrderKept
  <2>8. CASE Exit(td)
    <3>1. Goto(td, "done", NULL) /\ m_owner' = m_owner
      BY <2>8 DEF Exit, mtxVars
    <3>2. \A u \in Threads : Held(u)' \subseteq Held(u)
      BY <3>1 DEF Held
    <3> QED  BY <3>1, <3>2, LockOrderKept
  <2> QED  BY <1>2, <2>1, <2>2, <2>3, <2>4, <2>5, <2>6, <2>7, <2>8 DEF ThreadStep
<1>3. ASSUME NEW td \in Threads, Start(td) \/ MtxUnlockPanic(td) PROVE LockOrder'
  BY <1>3, LockOrderSame DEF Start, MtxUnlockPanic, mtxVars, pcVars
<1>4. ASSUME NEW td \in Threads, NEW u \in Threads, NEW p \in Prio, SetPrio(td, u, p)
      PROVE  LockOrder'
  BY <1>4, LockOrderSame DEF SetPrio, mtxVars, pcVars
<1>5. CASE Preempt \/ Interrupt
  BY <1>5, LockOrderSame DEF Preempt, Interrupt, mtxVars, pcVars
<1> QED  BY <1>1, <1>2, <1>3, <1>4, <1>5 DEF Next, KernelStep

-----------------------------------------------------------------------------
(* Every step is one of four kinds. *)

\* Priorities and queues of blocked threads stay as they are; the scheduler may
\* switch, or a thread may become ready.
Quiet ==
  /\ UNCHANGED <<td_prio, td_base_prio, td_borrowing, ts_blocked, td_blocked, ts_owner>>
  /\ \/ UNCHANGED <<curthread, td_state>> /\ td_needswitch \subseteq td_needswitch'
     \/ \E state \in {"READY", "DEAD"} : sched_switch(state, runq, td_prio)
     \/ /\ curthread' = curthread
        /\ \E td \in Threads : td_state[td] = "INACTIVE" /\ sched_wakeup(<<td>>, td_prio)

LEMMA StepKinds ==
  ASSUME IInv, [Next]_vars
  PROVE  \/ Quiet /\ setprios' = setprios
         \/ /\ setprios' = setprios
            /\ \E td \in Threads, ts \in Turnstiles, owner \in Threads :
                 \E blocked \in [Turnstiles -> Seq(Threads)] : Blocking(td, ts, owner, blocked)
         \/ /\ setprios' = setprios
            /\ \E td \in Threads, ts \in Turnstiles, p \in Prio : Releasing(td, ts, p)
         \/ /\ setprios' = setprios + 1
            /\ \E td \in Threads, p \in Prio : sched_set_prio(td, p)
<1>1. CASE UNCHANGED vars
  BY <1>1 DEF vars, schedVars, tsVars, Quiet
<1>2. ASSUME NEW td \in Threads, MtxUnlockPanic(td) PROVE Quiet /\ setprios' = setprios
  BY <1>2 DEF MtxUnlockPanic, schedVars, tsVars, Quiet
<1>3. ASSUME NEW td \in Threads, ThreadStep(td)
      PROVE  \/ Quiet /\ setprios' = setprios
             \/ /\ setprios' = setprios
                /\ \E u \in Threads, ts \in Turnstiles, owner \in Threads :
                     \E blocked \in [Turnstiles -> Seq(Threads)] :
                       Blocking(u, ts, owner, blocked)
             \/ /\ setprios' = setprios
                /\ \E u \in Threads, ts \in Turnstiles, p \in Prio : Releasing(u, ts, p)
  <2>1. ASSUME NEW m \in Mutexes,
               MtxLock(td, m) \/ MtxLockRecursive(td, m) \/ MtxUnlockRecursive(td, m)
                 \/ MtxUnlock(td, m)
        PROVE  Quiet /\ setprios' = setprios
    BY <2>1 DEF MtxLock, TryAcquire, MtxLockRecursive, MtxUnlockRecursive, MtxUnlock,
                schedVars, tsVars, Quiet
  <2>2. CASE MtxRetry(td) \/ MtxLockReleased(td)
    BY <2>2 DEF MtxRetry, TryAcquire, MtxLockReleased, schedVars, tsVars, Quiet
  <2>3. CASE MtxLockBlock(td)
    <3>1. setprios' = setprios
      BY <2>3 DEF MtxLockBlock
    <3> QED  BY <2>3, <3>1, BlockFacts
  <2>4. CASE MtxUnlockBroadcast(td)
    <3>1. setprios' = setprios
      BY <2>4 DEF MtxUnlockBroadcast
    <3> QED  BY <2>4, <3>1, ReleaseFacts
  <2>5. CASE PreemptEnable(td)
    BY <2>5 DEF PreemptEnable, SwitchOut, schedVars, tsVars, Quiet
  <2>6. CASE Exit(td)
    BY <2>6 DEF Exit, tsVars, Quiet
  <2> QED  BY <1>3, <2>1, <2>2, <2>3, <2>4, <2>5, <2>6 DEF ThreadStep
<1>4. ASSUME NEW td \in Threads, Start(td) PROVE Quiet /\ setprios' = setprios
  BY <1>4 DEF Start, SchedAdd, tsVars, Quiet
<1>5. ASSUME NEW td \in Threads, NEW u \in Threads, NEW p \in Prio, SetPrio(td, u, p)
      PROVE  setprios' = setprios + 1 /\ sched_set_prio(u, p)
  BY <1>5 DEF SetPrio
<1>6. CASE Preempt \/ Interrupt
  BY <1>6 DEF Preempt, Interrupt, SwitchOut, Tick, tsVars, Quiet
<1> QED  BY <1>1, <1>2, <1>3, <1>4, <1>5, <1>6 DEF Next, KernelStep

-----------------------------------------------------------------------------
(* The order of blocked threads. *)

LEMMA SortedStep ==
  ASSUME IInv, LockOrder, SortedQueues, [Next]_vars
  PROVE  SortedQueues'
<1>1. CASE Quiet
  BY <1>1 DEF Quiet, SortedQueues, Turnstiles
<1> QED  BY <1>1, StepKinds, BlockingSorted, ReleasingSorted, SetPrioSorted

\* IInv with the lock order and sorted queues is inductive.
LEMMA OrderInvariance == Spec => [](IInv /\ LockOrder /\ SortedQueues)
<1>1. Init => LockOrder /\ SortedQueues
  <2> SUFFICES ASSUME Init PROVE LockOrder /\ SortedQueues
    OBVIOUS
  <2>1. LockOrder
    BY DEF Init, LockOrder
  <2>2. \A ts \in Turnstiles : ts_blocked[ts] = <<>>
    BY DEF Init, TurnstileInit
  <2> QED  BY <2>1, <2>2 DEF SortedQueues, SortedBy
<1>2. IInv /\ LockOrder /\ SortedQueues /\ [Next]_vars => LockOrder' /\ SortedQueues'
  BY LockOrderStep, SortedStep
<1> QED  BY <1>1, <1>2, Invariance, PTL DEF Spec

\* turnstile_wait, propagate_priority and turnstile_adjust keep every queue of
\* blocked threads in the order of decreasing priority, whoever calls
\* sched_set_prio and however long the chains of owners are.
THEOREM QueuesSorted == Spec => []BlockedSorted
<1>1. IInv /\ SortedQueues => BlockedSorted
  BY SortedForm DEF IInv, TypeOK
<1> QED  BY <1>1, OrderInvariance, PTL

-----------------------------------------------------------------------------
(* Inheritance is exact until sched_set_prio is called. *)

LEMMA InheritsStep ==
  ASSUME IInv, LockOrder, SortedQueues, InheritsAll, [Next]_vars, setprios' = 0
  PROVE  InheritsAll'
<1>1. CASE Quiet
  BY <1>1 DEF Quiet, InheritsAll, Inherits, WaitersFor
<1>2. setprios' # setprios + 1
  BY DEF IInv, TypeOK
<1> QED  BY <1>1, <1>2, StepKinds, BlockingInherits, ReleasingInherits

LEMMA SetPriosGrow ==
  ASSUME IInv, [Next]_vars, setprios' = 0 PROVE setprios = 0
<1>1. setprios \in Nat
  BY MutexAssumption DEF IInv, TypeOK
<1> QED  BY <1>1, StepKinds

LEMMA InheritanceInvariance == Spec => [](setprios = 0 => InheritsAll)
<1>1. Init => InheritsAll
  <2> SUFFICES ASSUME Init, NEW td \in Threads PROVE Inherits(td)
    BY DEF InheritsAll
  <2>1. WaitersFor(td) = {}
    BY DEF Init, TurnstileInit, WaitersFor
  <2>2. td_prio[td] = td_base_prio[td] /\ td \notin td_borrowing
    BY DEF Init, SchedInit
  <2> QED  BY <2>1, <2>2 DEF Inherits
<1>2. IInv /\ LockOrder /\ SortedQueues /\ (setprios = 0 => InheritsAll) /\ [Next]_vars
        => (setprios = 0 => InheritsAll)'
  BY InheritsStep, SetPriosGrow
<1> QED  BY <1>1, <1>2, OrderInvariance, PTL DEF Spec

\* As long as nobody has called sched_set_prio, propagate_priority and
\* unlend_self leave every thread with exactly the priority its waiters lend it,
\* transitively along chains of blocked owners.
THEOREM InheritanceExact == Spec => []PriorityInherited
<1>1. IInv /\ (setprios = 0 => InheritsAll) => PriorityInherited
  BY InheritedForm DEF IInv, TypeOK, PriorityInherited
<1> QED  BY <1>1, Invariance, InheritanceInvariance, PTL

-----------------------------------------------------------------------------
(* Preemption. *)

\* What NoBetterReady says of a current thread that need not switch.
NobodyBetter ==
  \A td \in Ready : QueueOf(td_prio[curthread]) <= QueueOf(td_prio[td])

LEMMA PreemptionForm ==
  NoBetterReady <=> (curthread \in Threads \ td_needswitch => NobodyBetter)
  BY DEF NoBetterReady, NobodyBetter, Ready

LEMMA PreemptionFormNext ==
  (NoBetterReady <=> (curthread \in Threads \ td_needswitch => NobodyBetter))'
  BY PreemptionForm, PTL

\* After a switch nobody waits on a better queue.
LEMMA SwitchPreempts ==
  ASSUME IInv, NEW rq, td_prio' \in [Threads -> Prio], RunqOf(rq, td_prio', Ready),
         NEW state \in {"READY", "BLOCKED", "DEAD"}, sched_switch(state, rq, td_prio')
  PROVE  NoBetterReady'
<1>1. SchedTypeOK /\ OneRunning
  BY RunqConsistentForm DEF IInv, TypeOK
<1>2. PICK prio \in [Threads -> Prio] : prio = td_prio'
  OBVIOUS
<1>3. curthread' # Idle => \A td \in Ready' : QueueOf(prio[curthread']) <= QueueOf(prio[td])
  BY <1>1, <1>2, SwitchKeepsRunq, SchedAssumption DEF SchedTypeOK
<1>4. curthread' \in Threads => NobodyBetter'
  BY <1>2, <1>3, SchedAssumption DEF NobodyBetter
<1> QED  BY <1>4, PreemptionFormNext

\* The current thread is told when a thread on a better queue wakes up.
LEMMA WakeupPreempts ==
  ASSUME IInv, NoBetterReady, NEW tds \in Seq(Threads),
         curthread' = curthread, td_prio' \in [Threads -> Prio],
         sched_wakeup(tds, td_prio'),
         \A td \in Threads : td # curthread => td_prio'[td] = td_prio[td],
         curthread \in Threads \ td_needswitch' => td_prio'[curthread] <= td_prio[curthread]
  PROVE  NoBetterReady'
<1> SUFFICES ASSUME curthread' \in Threads \ td_needswitch', NEW td \in Ready'
             PROVE  QueueOf(td_prio'[curthread']) <= QueueOf(td_prio'[td])
  BY PreemptionFormNext DEF NobodyBetter
<1>1. PICK cur \in Threads : cur = curthread /\ cur = curthread'
  OBVIOUS
<1>2. SchedTypeOK /\ OneRunning /\ cur # Idle
  BY <1>1, RunqConsistentForm, SchedAssumption DEF IInv, TypeOK
<1>3. /\ td_state' = [u \in Threads |-> IF u \in Range(tds) THEN "READY" ELSE td_state[u]]
      /\ td_needswitch' = WokenNeedSwitch(tds, td_prio')
  BY DEF sched_wakeup
<1>4. cur \notin td_needswitch /\ \A u \in Range(tds) : ~ prio_gt(td_prio'[u], td_prio'[cur])
  BY <1>1, <1>2, <1>3 DEF WokenNeedSwitch
<1>5. td \in Threads /\ (td \in Range(tds) \/ td \in Ready)
  BY <1>3 DEF Ready
<1>6. td_prio'[cur] \in Prio /\ td_prio[cur] \in Prio /\ td_prio'[td] \in Prio
      /\ td_prio[td] \in Prio
  BY <1>2, <1>5 DEF SchedTypeOK
<1>7. Prio \subseteq Nat
  BY SchedAssumption DEF Prio
<1>8. CASE td \in Range(tds)
  <2>1. ~ (td_prio'[td] < td_prio'[cur])
    BY <1>4, <1>8 DEF prio_gt
  <2>2. td_prio'[td] \in Nat /\ td_prio'[cur] \in Nat
    BY <1>6, <1>7
  <2>3. td_prio'[cur] <= td_prio'[td]
    BY <2>1, <2>2
  <2> QED  BY <1>1, <1>6, <2>3, QueueOrder, SchedAssumption
<1>9. CASE td \in Ready
  <2>1. QueueOf(td_prio[cur]) <= QueueOf(td_prio[td])
    BY <1>1, <1>4, <1>9, PreemptionForm DEF NobodyBetter
  <2>2. td # cur
    BY <1>1, <1>2, <1>9 DEF Ready, OneRunning
  <2>3. td_prio'[td] = td_prio[td]
    BY <1>1, <1>5, <2>2
  <2>4. QueueOf(td_prio'[cur]) <= QueueOf(td_prio[cur])
    BY <1>1, <1>6, QueueOrder, SchedAssumption
  <2>5. /\ QueueOf(td_prio'[cur]) \in Nat /\ QueueOf(td_prio[cur]) \in Nat
        /\ QueueOf(td_prio[td]) \in Nat
    BY <1>6, QueueOrder, SchedAssumption DEF Queues
  <2> QED  BY <1>1, <2>1, <2>3, <2>4, <2>5
<1> QED  BY <1>5, <1>8, <1>9

\* A thread that loses priority in turnstile_broadcast wakes up the one it had
\* the priority from, and is told to switch.
LEMMA ReleasingPreempts ==
  ASSUME IInv, SortedQueues, InheritsAll, NoBetterReady, NEW td \in Threads,
         NEW ts \in Turnstiles, NEW p \in Prio, Releasing(td, ts, p), IInv'
  PROVE  NoBetterReady'
<1>1. InheritsAll'
  BY ReleasingInherits
<1>2. /\ curthread = td /\ curthread' = td /\ sched_wakeup(ts_blocked[ts], td_prio')
      /\ ts_blocked[ts] \in Seq(Threads)
  BY DEF Releasing, IInv, TypeOK, TurnstileTypeOK
<1>3. /\ td_prio' \in [Threads -> Prio] /\ SchedTypeOK
      /\ \A u \in Threads : td_prio'[u] \in Nat /\ td_prio[u] \in Nat /\ td_base_prio[u] \in Nat
  BY PrioIsInt DEF IInv, TypeOK, SchedTypeOK
<1>4. /\ \A u \in Threads : u # td => td_prio'[u] = td_prio[u]
      /\ td_base_prio' = td_base_prio
  BY <1>3 DEF Releasing, SchedTypeOK
<1>5. ASSUME td \in Threads \ td_needswitch' PROVE td_prio'[td] <= td_prio[td]
  <2>1. ASSUME NEW w \in Threads, td_blocked[w] = ts PROVE td_prio'[td] <= td_prio'[w]
    <3>1. w \in Range(ts_blocked[ts])
      BY <2>1 DEF IInv, TurnstileInv, BlockedLinks
    <3>2. td_needswitch' = WokenNeedSwitch(ts_blocked[ts], td_prio') /\ td # Idle
      BY <1>2, SchedAssumption DEF sched_wakeup
    <3>3. ~ prio_gt(td_prio'[w], td_prio'[td])
      BY <1>2, <1>5, <3>1, <3>2 DEF WokenNeedSwitch
    <3> QED  BY <1>3, <3>3 DEF prio_gt
  <2>2. CASE td_prio[td] = td_base_prio[td]
    <3>1. td_prio'[td] <= td_base_prio'[td]
      BY <1>1, <1>3, <1>4 DEF InheritsAll, Inherits
    <3> QED  BY <1>4, <2>2, <3>1
  <2>3. CASE td_prio[td] # td_base_prio[td]
    <3>1. PICK w \in WaitersFor(td) : td_prio[w] = td_prio[td]
      BY <2>3 DEF InheritsAll, Inherits
    <3>2. w \in Threads /\ w # td
      BY <3>1, ReleaseWaiters DEF WaitersFor
    <3>3. td_prio'[td] <= td_prio'[w]
      <4>1. CASE td_blocked[w] = ts
        BY <2>1, <3>2, <4>1
      <4>2. CASE td_blocked[w] # ts
        <5>1. w \in WaitersFor(td)'
          BY <3>1, <4>2, ReleaseWaiters
        <5> QED  BY <1>1, <5>1 DEF InheritsAll, Inherits
      <4> QED  BY <4>1, <4>2
    <3> QED  BY <1>4, <3>1, <3>2, <3>3
  <2> QED  BY <2>2, <2>3
<1> QED  BY <1>2, <1>3, <1>4, <1>5, WakeupPreempts

LEMMA QuietPreempts ==
  ASSUME IInv, NoBetterReady, Quiet
  PROVE  NoBetterReady'
<1>1. td_prio' = td_prio /\ SchedTypeOK /\ td_prio \in [Threads -> Prio]
  BY DEF Quiet, IInv, TypeOK, SchedTypeOK
<1>2. CASE UNCHANGED <<curthread, td_state>> /\ td_needswitch \subseteq td_needswitch'
  BY <1>1, <1>2 DEF NoBetterReady
<1>3. ASSUME NEW state \in {"READY", "DEAD"}, sched_switch(state, runq, td_prio)
      PROVE  NoBetterReady'
  <2>1. RunqOf(runq, td_prio, Ready)
    BY <1>1, RunqConsistentForm DEF IInv
  <2> QED  BY <1>1, <1>3, <2>1, SwitchPreempts
<1>4. ASSUME curthread' = curthread, NEW td \in Threads, sched_wakeup(<<td>>, td_prio)
      PROVE  NoBetterReady'
  <2>1. <<td>> \in Seq(Threads)
    OBVIOUS
  <2>2. curthread \in Threads => td_prio'[curthread] <= td_prio[curthread]
    BY <1>1, PrioIsInt
  <2> QED  BY <1>1, <1>4, <2>1, <2>2, WakeupPreempts
<1> QED  BY <1>2, <1>3, <1>4 DEF Quiet

LEMMA BlockingPreempts ==
  ASSUME IInv, NEW td \in Threads, NEW ts \in Turnstiles, NEW owner \in Threads,
         NEW blocked, Blocking(td, ts, owner, blocked)
  PROVE  NoBetterReady'
<1>1. SchedTypeOK /\ RunqOf(runq, td_prio, Ready)
  BY RunqConsistentForm DEF IInv, TypeOK
<1>2. PICK p \in Prio : p = td_prio[td]
  BY <1>1 DEF SchedTypeOK
<1>3. PICK B \in SUBSET Threads : B = Borrowers(owner, p)
  BY BorrowersAreBelow
<1>4. td_prio' = WithPrio(B, p) /\ sched_switch("BLOCKED", Requeued(B, p), td_prio')
  BY <1>2, <1>3 DEF Blocking
<1>5. WithPrio(B, p) \in [Threads -> Prio] /\ RunqOf(Requeued(B, p), WithPrio(B, p), Ready)
  BY <1>1, SchedAssumption, RequeueKeepsRunq DEF SchedTypeOK
<1>6. PICK rq : rq = Requeued(B, p)
  OBVIOUS
<1> QED  BY <1>4, <1>5, <1>6, SwitchPreempts

LEMMA PreemptionStep ==
  ASSUME IInv, IInv', SortedQueues, InheritsAll, NoBetterReady,
         [Next]_vars, setprios' = 0
  PROVE  NoBetterReady'
<1>1. setprios' # setprios + 1
  BY DEF IInv, TypeOK
<1> QED  BY <1>1, StepKinds, QuietPreempts, BlockingPreempts, ReleasingPreempts

\* As long as nobody has called sched_set_prio, sched_wakeup sets TDF_NEEDSWITCH
\* and sched_choose picks the next thread so that no ready thread of a better
\* run queue is passed over, also when mtx_unlock takes a lent priority away
\* from the current thread.
THEOREM PreemptionSafe == Spec => []NoMissedPreemption
<1>1. Init => NoBetterReady
  BY SchedAssumption DEF Init, SchedInit, NoBetterReady
<1>2. IInv /\ IInv' /\ SortedQueues /\ (setprios = 0 => InheritsAll)
      /\ (setprios = 0 => NoBetterReady) /\ [Next]_vars
        => (setprios = 0 => NoBetterReady)'
  <2> SUFFICES ASSUME IInv, IInv', SortedQueues, setprios = 0 => InheritsAll,
                      setprios = 0 => NoBetterReady, [Next]_vars, setprios' = 0
               PROVE  NoBetterReady'
    OBVIOUS
  <2>1. setprios = 0
    BY SetPriosGrow
  <2> QED  BY <2>1, PreemptionStep
<1>3. NoMissedPreemption <=> (setprios = 0 => NoBetterReady)
  BY DEF NoMissedPreemption
<1> QED  BY <1>1, <1>2, <1>3, OrderInvariance, InheritanceInvariance, PTL DEF Spec
=============================================================================
