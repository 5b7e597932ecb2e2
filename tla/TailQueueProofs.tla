-------------------------- MODULE TailQueueProofs --------------------------
(***************************************************************************)
(* Facts about the queue operators of TailQueue: which elements a queue    *)
(* has after an operation, and that elements stay distinct.                *)
(***************************************************************************)
EXTENDS TailQueue, FiniteSetTheorems, SequenceTheorems, TLAPS

\* A thread put at the tail of a queue (runq_add, TAILQ_INSERT_TAIL).
LEMMA AppendRange ==
  ASSUME NEW T, NEW s \in Seq(T), NEW e \in T
  PROVE  /\ Append(s, e) \in Seq(T)
         /\ Range(Append(s, e)) = Range(s) \cup {e}
         /\ Distinct(s) /\ e \notin Range(s) => Distinct(Append(s, e))
  BY DEF Range, Distinct

\* A queue appended to another one (the wakeup of all the threads of a queue).
LEMMA ConcatRange ==
  ASSUME NEW T, NEW s \in Seq(T), NEW t \in Seq(T)
  PROVE  /\ s \o t \in Seq(T)
         /\ Len(s \o t) = Len(s) + Len(t)
         /\ Range(s \o t) = Range(s) \cup Range(t)
         /\ Distinct(s) /\ Distinct(t) /\ Range(s) \cap Range(t) = {}
              => Distinct(s \o t)
<1> DEFINE r == s \o t
<1>1. /\ r \in Seq(T) /\ Len(r) = Len(s) + Len(t)
      /\ DOMAIN r = 1..(Len(s) + Len(t))
      /\ \A i \in DOMAIN r : r[i] = IF i <= Len(s) THEN s[i] ELSE t[i - Len(s)]
  BY ConcatProperties, LenProperties
<1>2. DOMAIN s = 1..Len(s) /\ DOMAIN t = 1..Len(t) /\ Len(s) \in Nat /\ Len(t) \in Nat
  BY LenProperties
<1> HIDE DEF r
<1>3. Range(r) \subseteq Range(s) \cup Range(t)
  BY <1>1, <1>2 DEF Range
<1>4. Range(s) \subseteq Range(r)
  <2> SUFFICES ASSUME NEW i \in DOMAIN s PROVE s[i] \in Range(r)
    BY DEF Range
  <2>1. i \in DOMAIN r /\ r[i] = s[i]
    BY <1>1, <1>2
  <2> QED  BY <2>1 DEF Range
<1>5. Range(t) \subseteq Range(r)
  <2> SUFFICES ASSUME NEW i \in DOMAIN t PROVE t[i] \in Range(r)
    BY DEF Range
  <2>1. i + Len(s) \in DOMAIN r /\ r[i + Len(s)] = t[i]
    BY <1>1, <1>2
  <2> QED  BY <2>1 DEF Range
<1>6. ASSUME Distinct(s), Distinct(t), Range(s) \cap Range(t) = {}
      PROVE  Distinct(r)
  <2> SUFFICES ASSUME NEW i \in DOMAIN r, NEW j \in DOMAIN r, r[i] = r[j]
               PROVE  i = j
    BY DEF Distinct
  <2>1. CASE i <= Len(s) /\ j <= Len(s)
    BY <2>1, <1>1, <1>2, <1>6 DEF Distinct
  <2>2. CASE i > Len(s) /\ j > Len(s)
    BY <2>2, <1>1, <1>2, <1>6 DEF Distinct
  <2>3. ASSUME NEW k \in DOMAIN r, NEW l \in DOMAIN r, k <= Len(s), l > Len(s)
        PROVE  r[k] # r[l]
    <3>1. k \in DOMAIN s /\ l - Len(s) \in DOMAIN t
          /\ r[k] = s[k] /\ r[l] = t[l - Len(s)]
      BY <2>3, <1>1, <1>2
    <3> QED  BY <3>1, <1>6 DEF Range
  <2> QED  BY <2>1, <2>2, <2>3, <1>1, <1>2
<1> QED  BY <1>1, <1>3, <1>4, <1>5, <1>6 DEF r

\* An element put in a queue at some position (TAILQ_INSERT_HEAD followed by
\* adjust_thread_forward): where the others are afterwards.
LEMMA InsertAtElements ==
  ASSUME NEW T, NEW s \in Seq(T), NEW e \in T, NEW k \in 1..(Len(s) + 1)
  PROVE  LET r == InsertAt(s, k, e)
         IN  /\ r \in Seq(T) /\ Len(r) = Len(s) + 1 /\ DOMAIN r = 1..(Len(s) + 1)
             /\ \A i \in DOMAIN r : r[i] = IF i < k THEN s[i]
                                           ELSE IF i = k THEN e ELSE s[i - 1]
<1> DEFINE r == InsertAt(s, k, e)
<1>1. Len(s) \in Nat /\ DOMAIN s = 1..Len(s)
  BY LenProperties
<1> DEFINE a == SubSeq(s, 1, k - 1)
           b == SubSeq(s, k, Len(s))
<1>2. \A i \in 1..Len(s) : s[i] \in T
  BY ElementOfSeq
<1>3. /\ a \in Seq(T) /\ Len(a) = k - 1
      /\ \A i \in 1..(k - 1) : a[i] = s[i]
  BY <1>1, <1>2, SubSeqProperties
<1>4. /\ b \in Seq(T) /\ Len(b) = Len(s) - k + 1
      /\ \A i \in 1..(Len(s) - k + 1) : b[i] = s[k + i - 1]
  BY <1>1, <1>2, SubSeqProperties
<1> DEFINE c == a \o <<e>>
<1>5. r = c \o b
  BY DEF InsertAt
<1> HIDE DEF a, b, r
<1>6. /\ c \in Seq(T) /\ Len(c) = k
      /\ \A i \in 1..k : c[i] = IF i < k THEN s[i] ELSE e
  BY <1>3
<1> HIDE DEF c
<1>7. /\ r \in Seq(T) /\ Len(r) = Len(c) + Len(b)
      /\ \A i \in 1..(Len(c) + Len(b)) :
           r[i] = IF i <= Len(c) THEN c[i] ELSE b[i - Len(c)]
  BY <1>4, <1>5, <1>6, ConcatProperties
<1>8. DOMAIN r = 1..Len(r) /\ Len(r) = Len(s) + 1
  BY <1>1, <1>4, <1>6, <1>7, LenProperties
<1>9. ASSUME NEW i \in 1..(Len(s) + 1)
      PROVE  r[i] = IF i < k THEN s[i] ELSE IF i = k THEN e ELSE s[i - 1]
  <2>1. CASE i <= k
    BY <2>1, <1>1, <1>4, <1>6, <1>7
  <2>2. CASE i > k
    <3>1. r[i] = b[i - k] /\ i - k \in 1..(Len(s) - k + 1)
      BY <2>2, <1>1, <1>4, <1>6, <1>7
    <3>2. b[i - k] = s[k + (i - k) - 1] /\ k + (i - k) - 1 = i - 1
      BY <3>1, <1>4
    <3> QED  BY <2>2, <3>1, <3>2
  <2> QED  BY <2>1, <2>2, <1>1
<1> QED  BY <1>7, <1>8, <1>9 DEF r

\* ... and what is on the queue.
LEMMA InsertAtRange ==
  ASSUME NEW T, NEW s \in Seq(T), NEW e \in T, NEW k \in 1..(Len(s) + 1)
  PROVE  /\ InsertAt(s, k, e) \in Seq(T)
         /\ Len(InsertAt(s, k, e)) = Len(s) + 1
         /\ Range(InsertAt(s, k, e)) = Range(s) \cup {e}
         /\ Distinct(s) /\ e \notin Range(s) => Distinct(InsertAt(s, k, e))
<1> DEFINE r == InsertAt(s, k, e)
<1>1. Len(s) \in Nat /\ DOMAIN s = 1..Len(s)
  BY LenProperties
<1>2. /\ r \in Seq(T) /\ Len(r) = Len(s) + 1 /\ DOMAIN r = 1..(Len(s) + 1)
      /\ \A i \in DOMAIN r : r[i] = IF i < k THEN s[i]
                                    ELSE IF i = k THEN e ELSE s[i - 1]
  BY InsertAtElements
<1> HIDE DEF r
<1>3. Range(r) \subseteq Range(s) \cup {e}
  BY <1>1, <1>2 DEF Range
<1>4. e \in Range(r)
  BY <1>1, <1>2 DEF Range
<1>5. Range(s) \subseteq Range(r)
  <2> SUFFICES ASSUME NEW i \in DOMAIN s PROVE s[i] \in Range(r)
    BY DEF Range
  <2>1. CASE i < k
    BY <2>1, <1>1, <1>2 DEF Range
  <2>2. CASE i >= k
    <3>1. i + 1 \in DOMAIN r /\ r[i + 1] = s[i]
      BY <2>2, <1>1, <1>2
    <3> QED  BY <3>1 DEF Range
  <2> QED  BY <2>1, <2>2, <1>1
<1>6. ASSUME Distinct(s), e \notin Range(s) PROVE Distinct(r)
  <2>1. \A i \in DOMAIN r : i # k => r[i] \in Range(s)
    BY <1>1, <1>2 DEF Range
  <2> SUFFICES ASSUME NEW i \in DOMAIN r, NEW j \in DOMAIN r, r[i] = r[j]
               PROVE  i = j
    BY DEF Distinct
  <2>2. CASE i = k \/ j = k
    BY <2>1, <2>2, <1>2, <1>6
  <2>3. CASE i # k /\ j # k
    BY <2>3, <1>1, <1>2, <1>6 DEF Distinct
  <2> QED  BY <2>2, <2>3
<1> QED  BY <1>2, <1>3, <1>4, <1>5, <1>6 DEF r

\* An element taken out of a queue by position: where the others are afterwards.
LEMMA RemoveAtElements ==
  ASSUME NEW T, NEW s \in Seq(T), NEW k \in 1..Len(s)
  PROVE  LET r == RemoveAt(s, k)
         IN  /\ r \in Seq(T) /\ Len(r) = Len(s) - 1 /\ DOMAIN r = 1..(Len(s) - 1)
             /\ \A i \in DOMAIN r : r[i] = IF i < k THEN s[i] ELSE s[i + 1]
<1> DEFINE r == RemoveAt(s, k)
<1>1. Len(s) \in Nat /\ DOMAIN s = 1..Len(s)
  BY LenProperties
<1> DEFINE a == SubSeq(s, 1, k - 1)
           b == SubSeq(s, k + 1, Len(s))
<1>2. \A i \in 1..Len(s) : s[i] \in T
  BY ElementOfSeq
<1>3. /\ a \in Seq(T) /\ Len(a) = k - 1
      /\ \A i \in 1..(k - 1) : a[i] = s[i]
  BY <1>1, <1>2, SubSeqProperties
<1>4. /\ b \in Seq(T)
      /\ Len(b) = IF k + 1 <= Len(s) THEN Len(s) - (k + 1) + 1 ELSE 0
      /\ \A i \in 1..(Len(s) - (k + 1) + 1) : b[i] = s[(k + 1) + i - 1]
  <2>1. k + 1 \in Int /\ Len(s) \in Int /\ \A i \in (k + 1)..Len(s) : s[i] \in T
    BY <1>1, <1>2
  <2> QED  BY <2>1, SubSeqProperties
<1>5. r = a \o b
  BY DEF RemoveAt
<1> HIDE DEF a, b, r
<1>6. /\ r \in Seq(T) /\ Len(r) = Len(a) + Len(b)
      /\ \A i \in 1..(Len(a) + Len(b)) :
           r[i] = IF i <= Len(a) THEN a[i] ELSE b[i - Len(a)]
  BY <1>3, <1>4, <1>5, ConcatProperties
<1>7. Len(b) = Len(s) - k /\ Len(r) = Len(s) - 1 /\ DOMAIN r = 1..Len(r)
  <2>1. Len(b) = Len(s) - k
    <3> DEFINE n == Len(s)
               l == Len(b)
    <3>1. n \in Nat /\ k \in 1..n /\ l = IF k + 1 <= n THEN n - (k + 1) + 1 ELSE 0
      BY <1>1, <1>4
    <3> HIDE DEF n, l
    <3>2. l = n - k
      BY <3>1
    <3> QED  BY <3>2 DEF n, l
  <2>2. Len(r) = Len(s) - 1
    BY <1>1, <1>3, <1>6, <2>1
  <2> QED  BY <1>6, <2>1, <2>2, LenProperties
<1>8. ASSUME NEW i \in 1..(Len(s) - 1)
      PROVE  r[i] = IF i < k THEN s[i] ELSE s[i + 1]
  <2>1. CASE i < k
    <3>1. i \in 1..(k - 1) /\ i \in 1..(Len(a) + Len(b)) /\ i <= Len(a)
      BY <2>1, <1>1, <1>3, <1>7
    <3> QED  BY <2>1, <3>1, <1>3, <1>6
  <2>2. CASE i >= k
    <3>1. /\ r[i] = b[i - (k - 1)]
          /\ i - (k - 1) \in 1..(Len(s) - (k + 1) + 1)
      BY <2>2, <1>1, <1>3, <1>6, <1>7
    <3>2. b[i - (k - 1)] = s[(k + 1) + (i - (k - 1)) - 1]
      BY <3>1, <1>4
    <3>3. (k + 1) + (i - (k - 1)) - 1 = i + 1
      OBVIOUS
    <3> QED  BY <2>2, <3>1, <3>2, <3>3
  <2> QED  BY <2>1, <2>2, <1>1
<1> QED  BY <1>6, <1>7, <1>8 DEF r

\* ... and what is on the queue.
LEMMA RemoveAtRange ==
  ASSUME NEW T, NEW s \in Seq(T), Distinct(s), NEW k \in 1..Len(s)
  PROVE  /\ RemoveAt(s, k) \in Seq(T)
         /\ Len(RemoveAt(s, k)) = Len(s) - 1
         /\ Range(RemoveAt(s, k)) = Range(s) \ {s[k]}
         /\ Distinct(RemoveAt(s, k))
<1> DEFINE r == RemoveAt(s, k)
<1>1. Len(s) \in Nat /\ DOMAIN s = 1..Len(s)
  BY LenProperties
<1>2. /\ r \in Seq(T) /\ Len(r) = Len(s) - 1 /\ DOMAIN r = 1..(Len(s) - 1)
      /\ \A i \in DOMAIN r : r[i] = IF i < k THEN s[i] ELSE s[i + 1]
  BY RemoveAtElements
<1> HIDE DEF r
<1>3. Range(r) \subseteq Range(s) \ {s[k]}
  BY <1>1, <1>2 DEF Range, Distinct
<1>4. Range(s) \ {s[k]} \subseteq Range(r)
  <2> SUFFICES ASSUME NEW i \in DOMAIN s, i # k PROVE s[i] \in Range(r)
    BY DEF Range
  <2>1. CASE i < k
    <3>1. i \in DOMAIN r /\ r[i] = s[i]
      BY <2>1, <1>1, <1>2
    <3> QED  BY <3>1 DEF Range
  <2>2. CASE i > k
    <3>1. i - 1 \in DOMAIN r /\ r[i - 1] = s[i]
      BY <2>2, <1>1, <1>2
    <3> QED  BY <3>1 DEF Range
  <2> QED  BY <2>1, <2>2, <1>1
<1>5. Distinct(r)
  BY <1>1, <1>2 DEF Distinct
<1> QED  BY <1>2, <1>3, <1>4, <1>5 DEF r

\* An element that is on the queue has a position there.
LEMMA IndexOfProperty ==
  ASSUME NEW T, NEW s \in Seq(T), NEW e \in Range(s)
  PROVE  IndexOf(s, e) \in 1..Len(s) /\ s[IndexOf(s, e)] = e
<1>1. \E i \in DOMAIN s : s[i] = e
  BY DEF Range
<1>2. IndexOf(s, e) \in DOMAIN s /\ s[IndexOf(s, e)] = e
  BY <1>1 DEF IndexOf
<1> QED  BY <1>2, LenProperties

\* TAILQ_REMOVE of an element of the queue.
LEMMA RemoveRange ==
  ASSUME NEW T, NEW s \in Seq(T), Distinct(s), NEW e \in Range(s)
  PROVE  /\ TAILQ_REMOVE(s, e) \in Seq(T)
         /\ Range(TAILQ_REMOVE(s, e)) = Range(s) \ {e}
         /\ Distinct(TAILQ_REMOVE(s, e))
<1> DEFINE k == IndexOf(s, e)
<1>1. k \in 1..Len(s) /\ s[k] = e
  BY IndexOfProperty
<1> HIDE DEF k
<1>2. /\ RemoveAt(s, k) \in Seq(T)
      /\ Range(RemoveAt(s, k)) = Range(s) \ {s[k]}
      /\ Distinct(RemoveAt(s, k))
  BY <1>1, RemoveAtRange
<1> QED  BY <1>1, <1>2 DEF TAILQ_REMOVE, k

\* The first element is taken off a queue (TAILQ_FIRST and TAILQ_REMOVE).
LEMMA TailRange ==
  ASSUME NEW T, NEW s \in Seq(T), Distinct(s), s # <<>>
  PROVE  /\ Tail(s) \in Seq(T) /\ Distinct(Tail(s))
         /\ Head(s) \in T /\ Head(s) \in Range(s)
         /\ Range(Tail(s)) = Range(s) \ {Head(s)}
<1>1. /\ Len(s) \in Nat \ {0} /\ DOMAIN s = 1..Len(s)
      /\ Head(s) = s[1] /\ Head(s) \in T
      /\ Tail(s) \in Seq(T) /\ Len(Tail(s)) = Len(s) - 1
      /\ \A i \in 1..(Len(s) - 1) : Tail(s)[i] = s[i + 1]
  BY HeadTailProperties, LenProperties, EmptySeq
<1>2. DOMAIN Tail(s) = 1..(Len(s) - 1)
  BY <1>1, LenProperties
<1> DEFINE t == Tail(s)
           n == Len(s)
<1> HIDE DEF t, n
<1>3. /\ n \in Nat \ {0} /\ DOMAIN s = 1..n /\ Head(s) = s[1]
      /\ DOMAIN t = 1..(n - 1) /\ \A i \in 1..(n - 1) : t[i] = s[i + 1]
  BY <1>1, <1>2 DEF t, n
<1>4. Distinct(t)
  <2> SUFFICES ASSUME NEW i \in 1..(n - 1), NEW j \in 1..(n - 1), t[i] = t[j]
               PROVE  i = j
    BY <1>3 DEF Distinct
  <2>1. i + 1 \in 1..n /\ j + 1 \in 1..n /\ s[i + 1] = s[j + 1]
    BY <1>3
  <2>2. i + 1 = j + 1
    BY <1>3, <2>1 DEF Distinct
  <2> QED  BY <2>2
<1>5. Range(t) = Range(s) \ {s[1]}
  <2>1. ASSUME NEW i \in 1..(n - 1) PROVE t[i] \in Range(s) /\ t[i] # s[1]
    <3>1. i + 1 \in 1..n /\ 1 \in 1..n /\ i + 1 # 1
      BY <1>3
    <3>2. s[i + 1] # s[1]
      BY <1>3, <3>1 DEF Distinct
    <3> QED  BY <1>3, <3>1, <3>2 DEF Range
  <2>2. ASSUME NEW i \in 1..n, s[i] # s[1] PROVE s[i] \in Range(t)
    <3>1. i - 1 \in 1..(n - 1) /\ (i - 1) + 1 = i
      BY <1>3, <2>2
    <3>2. t[i - 1] = s[i]
      BY <1>3, <3>1
    <3> QED  BY <1>3, <3>1, <3>2 DEF Range
  <2> QED  BY <1>3, <2>1, <2>2 DEF Range
<1>6. Head(s) \in Range(s)
  BY <1>3 DEF Range
<1> QED  BY <1>1, <1>3, <1>4, <1>5, <1>6 DEF t

\* An element moved within its queue (adjust_thread): the queue keeps its
\* elements.
LEMMA MoveRange ==
  ASSUME NEW T, NEW s \in Seq(T), Distinct(s), NEW i \in 1..Len(s),
         NEW k \in 1..Len(s)
  PROVE  /\ Move(s, i, k) \in Seq(T)
         /\ Len(Move(s, i, k)) = Len(s)
         /\ Range(Move(s, i, k)) = Range(s)
         /\ Distinct(Move(s, i, k))
<1> DEFINE r == RemoveAt(s, i)
<1>1. s[i] \in T /\ s[i] \in Range(s) /\ Len(s) \in Nat
  BY ElementOfSeq, LenProperties DEF Range
<1>2. /\ r \in Seq(T) /\ Len(r) = Len(s) - 1 /\ Distinct(r)
      /\ Range(r) = Range(s) \ {s[i]}
  BY RemoveAtRange
<1>3. k \in 1..(Len(r) + 1)
  BY <1>1, <1>2
<1> HIDE DEF r
<1>4. /\ InsertAt(r, k, s[i]) \in Seq(T)
      /\ Len(InsertAt(r, k, s[i])) = Len(r) + 1
      /\ Range(InsertAt(r, k, s[i])) = Range(r) \cup {s[i]}
      /\ Distinct(InsertAt(r, k, s[i]))
  BY <1>1, <1>2, <1>3, InsertAtRange
<1> QED  BY <1>1, <1>2, <1>4 DEF Move, r

\* A set of positions is no larger than the interval it is in.
LEMMA PositionsBound ==
  ASSUME NEW a \in Int, NEW b \in Int, a <= b + 1, NEW S \in SUBSET (a..b)
  PROVE  /\ IsFiniteSet(S)
         /\ Cardinality(S) \in 0..(b - a + 1)
<1>1. IsFiniteSet(a..b) /\ Cardinality(a..b) = b - a + 1
  BY FS_Interval
<1>2. IsFiniteSet(S) /\ Cardinality(S) <= Cardinality(a..b)
  BY <1>1, FS_Subset
<1> QED  BY <1>1, <1>2, FS_CardinalityType

\* The walks of adjust_thread_forward and adjust_thread_backward stay on the
\* queue.
LEMMA WalkBounds ==
  ASSUME NEW T, NEW s \in Seq(T), NEW S, NEW i \in 1..Len(s)
  PROVE  /\ RunAhead(s, S) \in 0..Len(s)
         /\ RunBefore(s, i, S) \in 0..(i - 1)
         /\ RunAfter(s, i, S) \in 0..(Len(s) - i)
<1>1. Len(s) \in Nat
  BY LenProperties
<1> DEFINE A == {j \in 1..Len(s) : \A l \in 1..j : s[l] \in S}
           B == {j \in 1..(i - 1) : \A l \in j..(i - 1) : s[l] \in S}
           C == {j \in (i + 1)..Len(s) : \A l \in (i + 1)..j : s[l] \in S}
<1>2. /\ A \in SUBSET (1..Len(s))
      /\ B \in SUBSET (1..(i - 1))
      /\ C \in SUBSET ((i + 1)..Len(s))
  OBVIOUS
<1>3. /\ RunAhead(s, S) = Cardinality(A)
      /\ RunBefore(s, i, S) = Cardinality(B)
      /\ RunAfter(s, i, S) = Cardinality(C)
  BY DEF RunAhead, RunBefore, RunAfter
<1> HIDE DEF A, B, C
<1>4. Cardinality(A) \in 0..(Len(s) - 1 + 1)
  <2>1. PICK n \in Nat : n = Len(s)
    BY <1>1
  <2>2. 1 \in Int /\ n \in Int /\ 1 <= n + 1 /\ A \in SUBSET (1..n)
    BY <1>2, <2>1
  <2>3. Cardinality(A) \in 0..(n - 1 + 1)
    BY <2>2, PositionsBound
  <2> QED  BY <2>1, <2>3
<1>5. Cardinality(B) \in 0..((i - 1) - 1 + 1)
  <2> DEFINE h == i - 1
  <2>1. h \in Int /\ 1 <= h + 1 /\ B \in SUBSET (1..h)
    BY <1>1, <1>2
  <2> HIDE DEF h
  <2>2. Cardinality(B) \in 0..(h - 1 + 1)
    <3>1. 1 \in Int
      OBVIOUS
    <3> QED  BY <3>1, <2>1, PositionsBound
  <2> QED  BY <2>2 DEF h
<1>6. Cardinality(C) \in 0..(Len(s) - (i + 1) + 1)
  <2>1. i + 1 \in Int /\ Len(s) \in Int /\ i + 1 <= Len(s) + 1
    BY <1>1
  <2> QED  BY <2>1, <1>2, PositionsBound
<1> QED  BY <1>1, <1>3, <1>4, <1>5, <1>6

\* A set as a queue (the ready thread that moves between run queues).
LEMMA SetToSeqRange ==
  ASSUME NEW S, IsFiniteSet(S)
  PROVE  /\ SetToSeq(S) \in Seq(S)
         /\ Range(SetToSeq(S)) = S
         /\ Distinct(SetToSeq(S))
<1> DEFINE n == Cardinality(S)
           f == SetToSeq(S)
<1>1. n \in Nat /\ ExistsBijection(1..n, S)
  BY FS_CardinalityType
<1>2. \E g \in [1..n -> S] : IsInjective(g)
  BY <1>1 DEF ExistsBijection, Bijection, Injection
<1>3. f \in [1..n -> S] /\ IsInjective(f)
  BY <1>2 DEF SetToSeq
<1> HIDE DEF f
<1>4. f \in Seq(S)
  BY <1>1, <1>3
<1>5. f \in Injection(1..n, S)
  BY <1>3 DEF Injection
<1>6. Cardinality(1..n) = n
  BY <1>1, FS_Interval
<1>7. f \in Surjection(1..n, S)
  BY <1>5, <1>6, FS_Injection
<1>8. Range(f) = S
  BY <1>3, <1>7 DEF Surjection, Range
<1> QED  BY <1>3, <1>4, <1>8 DEF f, Distinct, IsInjective

\* The members of a set of positions are numbered by how many members come
\* before them.
LEMMA RankExists ==
  ASSUME NEW n \in Nat, NEW I \in SUBSET (1..n)
  PROVE  /\ IsFiniteSet(I) /\ Cardinality(I) \in Nat
         /\ \A i \in I : Cardinality({j \in I : j < i}) \in 0..(Cardinality(I) - 1)
         /\ \A i, k \in I : Cardinality({j \in I : j < i})
                              = Cardinality({j \in I : j < k}) => i = k
         /\ \A r \in 0..(Cardinality(I) - 1) :
              \E i \in I : Cardinality({j \in I : j < i}) = r
<1> DEFINE N == Cardinality(I)
           B(i) == {j \in I : j < i}
           f == [i \in I |-> Cardinality(B(i))]
<1>1. IsFiniteSet(I) /\ N \in Nat
  BY PositionsBound, FS_CardinalityType
<1>2. ASSUME NEW i \in I
      PROVE  IsFiniteSet(B(i)) /\ Cardinality(B(i)) \in Nat
  BY <1>1, FS_Subset, FS_CardinalityType
<1>3. ASSUME NEW i \in I, NEW X \in SUBSET I, IsFiniteSet(X), B(i) \cup {i} \subseteq X
      PROVE  Cardinality(B(i)) < Cardinality(X)
  <2>1. Cardinality(B(i) \cup {i}) = Cardinality(B(i)) + 1
    BY <1>2, FS_AddElement
  <2>2. Cardinality(B(i) \cup {i}) <= Cardinality(X)
    BY <1>3, FS_Subset
  <2>3. Cardinality(X) \in Nat
    BY <1>3, FS_CardinalityType
  <2> QED  BY <2>1, <2>2, <2>3, <1>2
<1>4. \A i \in I : Cardinality(B(i)) \in 0..(N - 1)
  <2> SUFFICES ASSUME NEW i \in I PROVE Cardinality(B(i)) \in 0..(N - 1)
    OBVIOUS
  <2>1. Cardinality(B(i)) < Cardinality(I)
    BY <1>1, <1>3
  <2> QED  BY <1>1, <1>2, <2>1
<1>5. ASSUME NEW i \in I, NEW k \in I, i < k
      PROVE  Cardinality(B(i)) < Cardinality(B(k))
  <2>1. B(i) \cup {i} \subseteq B(k) /\ B(k) \in SUBSET I
    <3>1. \A j \in I : j \in Int
      OBVIOUS
    <3>2. \A j \in I : j < i => j < k
      BY <3>1, <1>5
    <3> QED  BY <3>2, <1>5
  <2>2. IsFiniteSet(B(k))
    BY <1>2
  <2> QED  BY <1>3, <2>1, <2>2
<1>6. \A i, k \in I : Cardinality(B(i)) = Cardinality(B(k)) => i = k
  <2> SUFFICES ASSUME NEW i \in I, NEW k \in I, i # k
               PROVE  Cardinality(B(i)) # Cardinality(B(k))
    OBVIOUS
  <2>1. i < k \/ k < i
    OBVIOUS
  <2> QED  BY <2>1, <1>2, <1>5
<1>7. f \in Injection(I, 0..(N - 1))
  <2>1. f \in [I -> 0..(N - 1)]
    BY <1>4
  <2>2. IsInjective(f)
    BY <1>6 DEF IsInjective
  <2> QED  BY <2>1, <2>2 DEF Injection
<1>8. IsFiniteSet(0..(N - 1)) /\ Cardinality(0..(N - 1)) = N
  <2>1. N - 1 \in Int
    BY <1>1
  <2>2. /\ IsFiniteSet(0..(N - 1))
        /\ Cardinality(0..(N - 1)) = IF 0 > N - 1 THEN 0 ELSE (N - 1) - 0 + 1
    BY <2>1, FS_Interval
  <2> QED  BY <1>1, <2>2
<1>9. f \in Surjection(I, 0..(N - 1))
  BY <1>7, <1>8, FS_Injection
<1>10. \A r \in 0..(N - 1) : \E i \in I : Cardinality(B(i)) = r
  BY <1>9 DEF Surjection
<1> QED  BY <1>1, <1>4, <1>6, <1>10

\* A set of positions that is not empty has a first one: induction over the
\* positions of a queue, or over the buckets of a wheel, is an argument about
\* the first position where a claim fails.
LEMMA FirstPosition ==
  ASSUME NEW n \in Nat, NEW I \in SUBSET (1..n), I # {}
  PROVE  \E i \in I : \A j \in I : i <= j
<1>1. /\ IsFiniteSet(I) /\ Cardinality(I) \in Nat
      /\ \A r \in 0..(Cardinality(I) - 1) :
           \E i \in I : Cardinality({j \in I : j < i}) = r
  BY RankExists
<1>2. Cardinality(I) # 0
  BY <1>1, FS_EmptySet
<1>3. PICK i \in I : Cardinality({j \in I : j < i}) = 0
  <2>1. 0 \in 0..(Cardinality(I) - 1)
    BY <1>1, <1>2
  <2> QED  BY <1>1, <2>1
<1>4. {j \in I : j < i} = {}
  <2>1. IsFiniteSet({j \in I : j < i})
    BY <1>1, FS_Subset
  <2> QED  BY <1>3, <2>1, FS_EmptySet
<1>5. \A j \in I : i <= j
  BY <1>4
<1> QED  BY <1>5

\* The part of a queue that lies in a set (the blocked threads that go to one
\* run queue; a run queue without a thread that leaves it).
LEMMA SublistRange ==
  ASSUME NEW T, NEW s \in Seq(T), NEW S
  PROVE  /\ Sublist(s, S) \in Seq(T)
         /\ Range(Sublist(s, S)) = Range(s) \cap S
         /\ Distinct(s) => Distinct(Sublist(s, S))
<1> DEFINE I == {i \in 1..Len(s) : s[i] \in S}
           N == Cardinality(I)
           Rank(i) == Cardinality({j \in I : j < i})
           at == [k \in 1..N |-> CHOOSE i \in I : Rank(i) = k - 1]
           r == Sublist(s, S)
<1>1. Len(s) \in Nat /\ DOMAIN s = 1..Len(s) /\ I \in SUBSET (1..Len(s))
  BY LenProperties
<1>2. r = [k \in 1..N |-> s[at[k]]]
  BY DEF Sublist
<1>3. \A i \in 1..Len(s) : i \in I <=> s[i] \in S
  OBVIOUS
<1> HIDE DEF I, r
<1>4. /\ Cardinality(I) \in Nat
      /\ \A i \in I : Cardinality({j \in I : j < i}) \in 0..(Cardinality(I) - 1)
      /\ \A i, k \in I : Cardinality({j \in I : j < i})
                           = Cardinality({j \in I : j < k}) => i = k
      /\ \A k \in 0..(Cardinality(I) - 1) :
           \E i \in I : Cardinality({j \in I : j < i}) = k
  BY <1>1, RankExists
<1>5. /\ N \in Nat
      /\ \A i \in I : Rank(i) \in 0..(N - 1)
      /\ \A i, k \in I : Rank(i) = Rank(k) => i = k
      /\ \A k \in 0..(N - 1) : \E i \in I : Rank(i) = k
  BY <1>4
<1> HIDE DEF N, Rank
<1>6. ASSUME NEW k \in 1..N PROVE at[k] \in I /\ Rank(at[k]) = k - 1
  <2>1. k - 1 \in 0..(N - 1)
    BY <1>5
  <2>2. \E i \in I : Rank(i) = k - 1
    BY <2>1, <1>5
  <2> QED  BY <2>2
<1>7. ASSUME NEW i \in I PROVE \E k \in 1..N : at[k] = i
  <2>1. Rank(i) + 1 \in 1..N /\ (Rank(i) + 1) - 1 = Rank(i)
    BY <1>5
  <2>2. at[Rank(i) + 1] \in I /\ Rank(at[Rank(i) + 1]) = Rank(i)
    BY <1>6, <2>1
  <2> QED  BY <1>5, <2>1, <2>2
<1>8. \A k, l \in 1..N : at[k] = at[l] => k = l
  <2> SUFFICES ASSUME NEW k \in 1..N, NEW l \in 1..N, at[k] = at[l]
               PROVE  k = l
    OBVIOUS
  <2>1. k - 1 = l - 1
    BY <1>6
  <2> QED  BY <1>5, <2>1
<1> HIDE DEF at
<1>9. r \in Seq(T) /\ DOMAIN r = 1..N
  <2>1. \A k \in 1..N : s[at[k]] \in T
    BY <1>1, <1>6, ElementOfSeq
  <2> QED  BY <1>2, <1>5, <2>1
<1>10. Range(r) = Range(s) \cap S
  <2>1. ASSUME NEW k \in 1..N PROVE r[k] \in Range(s) \cap S
    <3>1. r[k] = s[at[k]] /\ at[k] \in DOMAIN s /\ s[at[k]] \in S
      BY <1>1, <1>2, <1>3, <1>6
    <3> QED  BY <3>1 DEF Range
  <2>2. ASSUME NEW i \in DOMAIN s, s[i] \in S PROVE s[i] \in Range(r)
    <3>1. \E k \in 1..N : at[k] = i
      BY <1>1, <1>3, <1>7, <2>2
    <3>2. \E k \in DOMAIN r : r[k] = s[i]
      BY <1>2, <1>9, <3>1
    <3> QED  BY <3>2 DEF Range
  <2> QED  BY <1>9, <2>1, <2>2 DEF Range
<1>11. Distinct(s) => Distinct(r)
  <2> SUFFICES ASSUME Distinct(s), NEW k \in 1..N, NEW l \in 1..N, r[k] = r[l]
               PROVE  k = l
    BY <1>9 DEF Distinct
  <2>1. at[k] \in DOMAIN s /\ at[l] \in DOMAIN s /\ s[at[k]] = s[at[l]]
    BY <1>1, <1>2, <1>6
  <2> QED  BY <1>8, <2>1 DEF Distinct
<1> QED  BY <1>9, <1>10, <1>11 DEF r

\* A chain of queues, each a continuation of the previous one by a queue of q.
IsChain(f, q, n) ==
  f = [k \in 0..n |-> IF k = 0 THEN <<>> ELSE f[k - 1] \o q[k]]

LEMMA ChainExists ==
  ASSUME NEW q, NEW n \in Nat
  PROVE  \E f : IsChain(f, q, n)
<1> DEFINE Bad == {m \in 1..n : ~ \E f : IsChain(f, q, m)}
<1>1. \E f : IsChain(f, q, 0)
  <2> DEFINE f == [k \in 0..0 |-> <<>>]
  <2>1. IsChain(f, q, 0)
    BY DEF IsChain
  <2> QED  BY <2>1
<1>2. ASSUME NEW m \in 1..n, \E f : IsChain(f, q, m - 1)
      PROVE  \E f : IsChain(f, q, m)
  <2>1. PICK f : IsChain(f, q, m - 1)
    BY <1>2
  <2> DEFINE g == [k \in 0..m |-> IF k = m THEN f[m - 1] \o q[m] ELSE f[k]]
  <2>2. \A k \in 0..(m - 1) : f[k] = IF k = 0 THEN <<>> ELSE f[k - 1] \o q[k]
    BY <2>1 DEF IsChain
  <2>3. \A k \in 0..m : g[k] = IF k = 0 THEN <<>> ELSE g[k - 1] \o q[k]
    <3> SUFFICES ASSUME NEW k \in 0..m
                 PROVE  g[k] = IF k = 0 THEN <<>> ELSE g[k - 1] \o q[k]
      OBVIOUS
    <3>1. CASE k = m
      <4>1. k - 1 \in 0..m /\ k - 1 # m /\ k # 0
        BY <3>1
      <4> QED  BY <3>1, <4>1
    <3>2. CASE k # m
      <4>1. k \in 0..(m - 1) /\ (k # 0 => k - 1 \in 0..m /\ k - 1 # m)
        BY <3>2
      <4> QED  BY <3>2, <4>1, <2>2
    <3> QED  BY <3>1, <3>2
  <2>4. g = [k \in 0..m |-> IF k = 0 THEN <<>> ELSE g[k - 1] \o q[k]]
    BY <2>3
  <2> QED  BY <2>4 DEF IsChain
<1>3. Bad = {}
  <2> SUFFICES ASSUME Bad # {} PROVE FALSE
    OBVIOUS
  <2>1. PICK m \in Bad : \A j \in Bad : m <= j
    BY FirstPosition
  <2>2. m \in 1..n /\ ~ \E f : IsChain(f, q, m)
    OBVIOUS
  <2>3. \E f : IsChain(f, q, m - 1)
    <3>1. CASE m = 1
      BY <1>1, <3>1
    <3>2. CASE m # 1
      <4>1. m - 1 \in 1..n /\ ~ (m <= m - 1)
        BY <2>2, <3>2
      <4> QED  BY <2>1, <4>1
    <3> QED  BY <3>1, <3>2
  <2> QED  BY <1>2, <2>2, <2>3
<1> QED
  <2>1. CASE n = 0
    BY <1>1, <2>1
  <2>2. CASE n # 0
    BY <1>3, <2>2
  <2> QED  BY <2>1, <2>2

\* What the first m queues of q hold, and that none of the n holds anything
\* twice or together with another one.
Joined(q, m) == UNION {Range(q[i]) : i \in 1..m}

Apart(q, n) ==
  /\ \A i \in 1..n : Distinct(q[i])
  /\ \A i, j \in 1..n : i # j => Range(q[i]) \cap Range(q[j]) = {}

\* What the queues of a chain hold.
LEMMA ChainRange ==
  ASSUME NEW T, NEW n \in Nat, NEW q \in [1..n -> Seq(T)],
         NEW f, IsChain(f, q, n), NEW m \in 0..n
  PROVE  /\ f[m] \in Seq(T)
         /\ Range(f[m]) = Joined(q, m)
         /\ Apart(q, n) => Distinct(f[m])
<1> DEFINE Good(k) == /\ f[k] \in Seq(T)
                      /\ Range(f[k]) = Joined(q, k)
                      /\ Apart(q, n) => Distinct(f[k])
           Bad == {k \in 1..n : ~ Good(k)}
<1>1. f[0] = <<>> /\ \A k \in 1..n : f[k] = f[k - 1] \o q[k]
  BY DEF IsChain
<1>2. Good(0)
  <2>1. f[0] \in Seq(T) /\ Range(f[0]) = {} /\ Distinct(f[0])
    BY <1>1 DEF Range, Distinct
  <2>2. {Range(q[i]) : i \in 1..0} = {}
    OBVIOUS
  <2> QED  BY <2>1, <2>2 DEF Joined
<1>3. ASSUME NEW k \in 1..n, Good(k - 1) PROVE Good(k)
  <2>1. q[k] \in Seq(T) /\ f[k - 1] \in Seq(T) /\ f[k] = f[k - 1] \o q[k]
    BY <1>1, <1>3
  <2>2. /\ f[k] \in Seq(T)
        /\ Range(f[k]) = Range(f[k - 1]) \cup Range(q[k])
        /\ Distinct(f[k - 1]) /\ Distinct(q[k]) /\ Range(f[k - 1]) \cap Range(q[k]) = {}
             => Distinct(f[k])
    BY <2>1, ConcatRange
  <2>3. \A i : i \in 1..k <=> i \in 1..(k - 1) \/ i = k
    OBVIOUS
  <2>4. Range(f[k]) = Joined(q, k)
    BY <1>3, <2>2, <2>3 DEF Joined
  <2>5. ASSUME Apart(q, n) PROVE Distinct(f[k])
    <3>1. \A i \in 1..(k - 1) : i \in 1..n /\ i # k
      OBVIOUS
    <3>2. Range(f[k - 1]) \cap Range(q[k]) = {}
      BY <1>3, <2>5, <3>1 DEF Apart, Joined
    <3> QED  BY <1>3, <2>2, <2>5, <3>2 DEF Apart
  <2> QED  BY <2>2, <2>4, <2>5
<1> HIDE DEF Good
<1>4. Bad = {}
  <2> SUFFICES ASSUME Bad # {} PROVE FALSE
    OBVIOUS
  <2>1. PICK k \in Bad : \A j \in Bad : k <= j
    BY FirstPosition
  <2>2. k \in 1..n /\ ~ Good(k)
    OBVIOUS
  <2>3. Good(k - 1)
    <3>1. CASE k = 1
      BY <1>2, <3>1
    <3>2. CASE k # 1
      <4>1. k - 1 \in 1..n /\ ~ (k <= k - 1)
        BY <2>2, <3>2
      <4> QED  BY <2>1, <4>1
    <3> QED  BY <3>1, <3>2
  <2> QED  BY <1>3, <2>2, <2>3
<1>5. Good(m)
  <2>1. CASE m = 0
    BY <1>2, <2>1
  <2>2. CASE m # 0
    BY <1>4, <2>2
  <2> QED  BY <2>1, <2>2
<1> QED  BY <1>5 DEF Good

\* A queue without repetitions is as long as it has elements.
LEMMA DistinctCardinality ==
  ASSUME NEW T, NEW s \in Seq(T), Distinct(s)
  PROVE  /\ IsFiniteSet(Range(s)) /\ Cardinality(Range(s)) = Len(s)
         /\ s = <<>> <=> Range(s) = {}
<1>1. Len(s) \in Nat /\ DOMAIN s = 1..Len(s) /\ s \in [1..Len(s) -> T]
  BY LenProperties
<1>2. s \in Bijection(1..Len(s), Range(s))
  <2>1. s \in [1..Len(s) -> Range(s)]
    BY <1>1 DEF Range
  <2>2. IsInjective(s)
    BY <1>1 DEF IsInjective, Distinct
  <2>3. \A e \in Range(s) : \E i \in 1..Len(s) : s[i] = e
    BY <1>1 DEF Range
  <2> QED  BY <2>1, <2>2, <2>3 DEF Bijection, Injection, Surjection
<1>3. IsFiniteSet(1..Len(s)) /\ Cardinality(1..Len(s)) = Len(s)
  <2>1. 1 \in Int /\ Len(s) \in Int
    BY <1>1
  <2>2. /\ IsFiniteSet(1..Len(s))
        /\ Cardinality(1..Len(s)) = IF 1 > Len(s) THEN 0 ELSE Len(s) - 1 + 1
    BY <2>1, FS_Interval
  <2> QED  BY <1>1, <2>2
<1>4. IsFiniteSet(Range(s)) /\ Cardinality(Range(s)) = Len(s)
  <2>1. ExistsBijection(1..Len(s), Range(s))
    BY <1>2 DEF ExistsBijection
  <2> QED  BY <1>3, <2>1, FS_Bijection
<1>5. s = <<>> <=> Len(s) = 0
  BY EmptySeq
<1> QED  BY <1>4, <1>5, FS_EmptySet

\* What is left of a queue when k elements are taken off its front.
LEMMA DropRange ==
  ASSUME NEW T, NEW s \in Seq(T), Distinct(s), NEW k \in 0..Len(s)
  PROVE  LET t == SubSeq(s, k + 1, Len(s))
         IN  /\ t \in Seq(T) /\ Len(t) = Len(s) - k /\ Distinct(t)
             /\ Range(t) \subseteq Range(s)
             /\ \A i \in 1..k : s[i] \notin Range(t)
<1> DEFINE t == SubSeq(s, k + 1, Len(s))
           n == Len(s)
<1>1. n \in Nat /\ k \in 0..n /\ DOMAIN s = 1..n /\ \A i \in 1..n : s[i] \in T
  BY LenProperties, ElementOfSeq
<1> HIDE DEF n
<1>2. /\ t \in Seq(T) /\ Len(t) = n - k
      /\ \A i \in 1..(n - k) : t[i] = s[i + k]
  <2>1. k + 1 \in Int /\ n \in Int /\ \A i \in (k + 1)..n : s[i] \in T
    BY <1>1
  <2>2. /\ SubSeq(s, k + 1, n) \in Seq(T)
        /\ Len(SubSeq(s, k + 1, n)) = IF k + 1 <= n THEN n - (k + 1) + 1 ELSE 0
        /\ \A i \in 1..(n - (k + 1) + 1) : SubSeq(s, k + 1, n)[i] = s[(k + 1) + i - 1]
    BY <2>1, SubSeqProperties
  <2>3. n - (k + 1) + 1 = n - k /\ (k + 1 <= n \/ n - k = 0)
    BY <1>1
  <2>4. \A i \in 1..(n - k) : (k + 1) + i - 1 = i + k
    BY <1>1
  <2> QED  BY <2>2, <2>3, <2>4 DEF n
<1> HIDE DEF t
<1>3. \A i \in 1..(n - k) : i + k \in 1..n /\ t[i] = s[i + k]
  BY <1>1, <1>2
<1>4. t \in Seq(T) /\ Len(t) = n - k /\ DOMAIN t = 1..(n - k)
  BY <1>2, LenProperties
<1>5. Distinct(t)
  <2> SUFFICES ASSUME NEW i \in 1..(n - k), NEW j \in 1..(n - k), t[i] = t[j]
               PROVE  i = j
    BY <1>4 DEF Distinct
  <2>1. i + k = j + k
    BY <1>1, <1>3 DEF Distinct
  <2> QED  BY <2>1
<1>6. Range(t) \subseteq Range(s)
  BY <1>1, <1>3, <1>4 DEF Range
<1>7. ASSUME NEW i \in 1..k PROVE s[i] \notin Range(t)
  <2> SUFFICES ASSUME NEW j \in 1..(n - k), s[i] = t[j] PROVE FALSE
    BY <1>4 DEF Range
  <2>1. i \in 1..n /\ j + k \in 1..n /\ i # j + k /\ s[i] = s[j + k]
    BY <1>1, <1>3
  <2> QED  BY <1>1, <2>1 DEF Distinct
<1> QED  BY <1>4, <1>5, <1>6, <1>7 DEF t, n

-----------------------------------------------------------------------------
(* How far a walk along a queue goes, and what it passes. *)

\* A walk up from position a passes positions in G, and stops at b or before a
\* position that is not in G.
LEMMA RunUp ==
  ASSUME NEW a \in Int, NEW b \in Int, a <= b + 1, NEW G
  PROVE  LET r == Cardinality({j \in a..b : \A l \in a..j : l \in G})
         IN  /\ r \in 0..(b - a + 1)
             /\ \A l \in a..(a + r - 1) : l \in G
             /\ a + r <= b => a + r \notin G
<1> DEFINE n == b - a + 1
           Bad == {x \in 1..n : a + x - 1 \notin G}
           J == {j \in a..b : \A l \in a..j : l \in G}
<1>1. n \in Nat /\ Bad \in SUBSET (1..n)
  OBVIOUS
<1>2. \E c \in (a - 1)..b : /\ \A l \in a..c : l \in G
                            /\ c < b => c + 1 \notin G
  <2>1. CASE Bad = {}
    <3>1. ASSUME NEW l \in a..b PROVE l \in G
      <4>1. l - a + 1 \in 1..n /\ a + (l - a + 1) - 1 = l
        OBVIOUS
      <4> QED  BY <2>1, <4>1
    <3>2. b \in (a - 1)..b
      OBVIOUS
    <3> QED  BY <3>1, <3>2
  <2>2. CASE Bad # {}
    <3>1. PICK x \in Bad : \A y \in Bad : x <= y
      BY <1>1, <2>2, FirstPosition
    <3> DEFINE c == a + x - 2
    <3>2. x \in 1..n /\ a + x - 1 \notin G /\ c \in (a - 1)..b /\ c + 1 = a + x - 1
      BY <3>1
    <3>3. ASSUME NEW l \in a..c PROVE l \in G
      <4>1. l - a + 1 \in 1..n /\ a + (l - a + 1) - 1 = l /\ ~ (x <= l - a + 1)
        BY <3>2
      <4> QED  BY <3>1, <4>1
    <3> QED  BY <3>2, <3>3
  <2> QED  BY <2>1, <2>2
<1>3. PICK c \in (a - 1)..b : (\A l \in a..c : l \in G) /\ (c < b => c + 1 \notin G)
  BY <1>2
<1>4. J = a..c
  <2>1. ASSUME NEW j \in J PROVE j \in a..c
    <3>1. CASE j > c
      <4>1. c + 1 \in a..j /\ c < b
        BY <2>1, <3>1
      <4> QED  BY <1>3, <2>1, <4>1
    <3> QED  BY <2>1, <3>1
  <2>2. ASSUME NEW j \in a..c PROVE j \in J
    <3>1. \A l \in a..j : l \in a..c
      OBVIOUS
    <3> QED  BY <1>3, <3>1
  <2> QED  BY <2>1, <2>2
<1>5. Cardinality(a..c) = c - a + 1
  BY FS_Interval
<1>6. Cardinality(J) = c - a + 1
  BY <1>4, <1>5
<1> HIDE DEF J
<1>7. /\ Cardinality(J) \in 0..(b - a + 1)
      /\ \A l \in a..(a + Cardinality(J) - 1) : l \in G
      /\ a + Cardinality(J) <= b => a + Cardinality(J) \notin G
  <2>1. a + Cardinality(J) - 1 = c /\ a + Cardinality(J) = c + 1
    BY <1>6
  <2>2. c - a + 1 \in 0..(b - a + 1)
    OBVIOUS
  <2>3. a + Cardinality(J) <= b => a + Cardinality(J) \notin G
    BY <1>3, <2>1
  <2> QED  BY <1>3, <1>6, <2>1, <2>2, <2>3
<1> QED  BY <1>7 DEF J

\* The same for a walk down from position b.
LEMMA RunDown ==
  ASSUME NEW a \in Int, NEW b \in Int, a <= b + 1, NEW G
  PROVE  LET r == Cardinality({j \in a..b : \A l \in j..b : l \in G})
         IN  /\ r \in 0..(b - a + 1)
             /\ \A l \in (b - r + 1)..b : l \in G
             /\ b - r >= a => b - r \notin G
<1> DEFINE n == b - a + 1
           Bad == {x \in 1..n : b - x + 1 \notin G}
           J == {j \in a..b : \A l \in j..b : l \in G}
<1>1. n \in Nat /\ Bad \in SUBSET (1..n)
  OBVIOUS
<1>2. \E c \in a..(b + 1) : /\ \A l \in c..b : l \in G
                            /\ c > a => c - 1 \notin G
  <2>1. CASE Bad = {}
    <3>1. ASSUME NEW l \in a..b PROVE l \in G
      <4>1. b - l + 1 \in 1..n /\ b - (b - l + 1) + 1 = l
        OBVIOUS
      <4> QED  BY <2>1, <4>1
    <3>2. a \in a..(b + 1)
      OBVIOUS
    <3> QED  BY <3>1, <3>2
  <2>2. CASE Bad # {}
    <3>1. PICK x \in Bad : \A y \in Bad : x <= y
      BY <1>1, <2>2, FirstPosition
    <3> DEFINE c == b - x + 2
    <3>2. x \in 1..n /\ b - x + 1 \notin G /\ c \in a..(b + 1) /\ c - 1 = b - x + 1
      BY <3>1
    <3>3. ASSUME NEW l \in c..b PROVE l \in G
      <4>1. b - l + 1 \in 1..n /\ b - (b - l + 1) + 1 = l /\ ~ (x <= b - l + 1)
        BY <3>2
      <4> QED  BY <3>1, <4>1
    <3> QED  BY <3>2, <3>3
  <2> QED  BY <2>1, <2>2
<1>3. PICK c \in a..(b + 1) : (\A l \in c..b : l \in G) /\ (c > a => c - 1 \notin G)
  BY <1>2
<1>4. J = c..b
  <2>1. ASSUME NEW j \in J PROVE j \in c..b
    <3>1. CASE j < c
      <4>1. c - 1 \in j..b /\ c > a
        BY <2>1, <3>1
      <4> QED  BY <1>3, <2>1, <4>1
    <3> QED  BY <2>1, <3>1
  <2>2. ASSUME NEW j \in c..b PROVE j \in J
    <3>1. \A l \in j..b : l \in c..b
      OBVIOUS
    <3> QED  BY <1>3, <3>1
  <2> QED  BY <2>1, <2>2
<1>5. Cardinality(c..b) = b - c + 1
  BY FS_Interval
<1>6. Cardinality(J) = b - c + 1
  BY <1>4, <1>5
<1> HIDE DEF J
<1>7. /\ Cardinality(J) \in 0..(b - a + 1)
      /\ \A l \in (b - Cardinality(J) + 1)..b : l \in G
      /\ b - Cardinality(J) >= a => b - Cardinality(J) \notin G
  <2>1. b - Cardinality(J) + 1 = c /\ b - Cardinality(J) = c - 1
    BY <1>6
  <2>2. b - c + 1 \in 0..(b - a + 1)
    OBVIOUS
  <2>3. b - Cardinality(J) >= a => b - Cardinality(J) \notin G
    BY <1>3, <2>1
  <2> QED  BY <1>3, <1>6, <2>1, <2>2, <2>3
<1> QED  BY <1>7 DEF J

\* What the walks of adjust_thread pass, and where they stop.
LEMMA RunAheadPasses ==
  ASSUME NEW T, NEW s \in Seq(T), NEW S
  PROVE  LET r == RunAhead(s, S)
         IN  /\ r \in 0..Len(s)
             /\ \A l \in 1..r : s[l] \in S
             /\ r < Len(s) => s[r + 1] \notin S
<1> DEFINE n == Len(s)
           G == {l \in Int : s[l] \in S}
           r == Cardinality({j \in 1..n : \A l \in 1..j : l \in G})
<1>1. n \in Nat
  BY LenProperties
<1>2. {j \in 1..n : \A l \in 1..j : s[l] \in S} = {j \in 1..n : \A l \in 1..j : l \in G}
  OBVIOUS
<1>3. RunAhead(s, S) = r
  BY <1>2 DEF RunAhead
<1>4. /\ r \in 0..(n - 1 + 1)
      /\ \A l \in 1..(1 + r - 1) : l \in G
      /\ 1 + r <= n => 1 + r \notin G
  <2> HIDE DEF G, n
  <2>1. 1 \in Int /\ n \in Int /\ 1 <= n + 1
    BY <1>1
  <2> QED  BY <2>1, RunUp
<1> HIDE DEF r
<1>5. r \in Int /\ 1 + r \in Int
  BY <1>1, <1>4
<1> QED  BY <1>1, <1>3, <1>4, <1>5

LEMMA RunBeforePasses ==
  ASSUME NEW T, NEW s \in Seq(T), NEW i \in 1..Len(s), NEW S
  PROVE  LET r == RunBefore(s, i, S)
         IN  /\ r \in 0..(i - 1)
             /\ \A l \in (i - r)..(i - 1) : s[l] \in S
             /\ i - r - 1 >= 1 => s[i - r - 1] \notin S
<1> DEFINE h == i - 1
           G == {l \in Int : s[l] \in S}
           r == Cardinality({j \in 1..h : \A l \in j..h : l \in G})
<1>1. h \in Nat /\ i \in Nat
  BY LenProperties
<1>2. {j \in 1..(i - 1) : \A l \in j..(i - 1) : s[l] \in S}
        = {j \in 1..h : \A l \in j..h : l \in G}
  OBVIOUS
<1>3. RunBefore(s, i, S) = r
  BY <1>2 DEF RunBefore
<1>4. /\ r \in 0..(h - 1 + 1)
      /\ \A l \in (h - r + 1)..h : l \in G
      /\ h - r >= 1 => h - r \notin G
  <2> HIDE DEF G, h
  <2>1. 1 \in Int /\ h \in Int /\ 1 <= h + 1
    BY <1>1
  <2> QED  BY <2>1, RunDown
<1> HIDE DEF r
<1>5. r \in Int /\ h - r \in Int /\ h - r = i - r - 1 /\ h - r + 1 = i - r
  BY <1>1, <1>4
<1> QED  BY <1>1, <1>3, <1>4, <1>5

LEMMA RunAfterPasses ==
  ASSUME NEW T, NEW s \in Seq(T), NEW i \in 1..Len(s), NEW S
  PROVE  LET r == RunAfter(s, i, S)
         IN  /\ r \in 0..(Len(s) - i)
             /\ \A l \in (i + 1)..(i + r) : s[l] \in S
             /\ i + r + 1 <= Len(s) => s[i + r + 1] \notin S
<1> DEFINE n == Len(s)
           h == i + 1
           G == {l \in Int : s[l] \in S}
           r == Cardinality({j \in h..n : \A l \in h..j : l \in G})
<1>1. n \in Nat /\ i \in 1..n /\ h \in Nat /\ h = i + 1 /\ h <= n + 1
  BY LenProperties
<1>2. {j \in (i + 1)..Len(s) : \A l \in (i + 1)..j : s[l] \in S}
        = {j \in h..n : \A l \in h..j : l \in G}
  OBVIOUS
<1>3. RunAfter(s, i, S) = r
  BY <1>2 DEF RunAfter
<1>4. /\ r \in 0..(n - h + 1)
      /\ \A l \in h..(h + r - 1) : l \in G
      /\ h + r <= n => h + r \notin G
  <2> HIDE DEF G, h, n
  <2>1. h \in Int /\ n \in Int /\ h <= n + 1
    BY <1>1
  <2> QED  BY <2>1, RunUp
<1> HIDE DEF r
<1>5. /\ r \in Int /\ h + r \in Int /\ h + r = i + r + 1 /\ h + r - 1 = i + r
      /\ n - h + 1 = n - i
  BY <1>1, <1>4
<1> QED  BY <1>1, <1>3, <1>4, <1>5

-----------------------------------------------------------------------------
(* Queues in the order of a key. *)

SortedBy(s, f) == \A i, j \in DOMAIN s : i < j => f[s[i]] <= f[s[j]]

\* An element goes between those that come before it and those after it.
LEMMA SortedInsert ==
  ASSUME NEW T, NEW s \in Seq(T), NEW e \in T, NEW k \in 1..(Len(s) + 1),
         NEW f \in [T -> Int], SortedBy(s, f),
         \A l \in 1..Len(s) : IF l < k THEN f[s[l]] <= f[e] ELSE f[e] <= f[s[l]]
  PROVE  SortedBy(InsertAt(s, k, e), f)
<1> DEFINE r == InsertAt(s, k, e)
<1>1. /\ r \in Seq(T) /\ DOMAIN r = 1..(Len(s) + 1)
      /\ \A i \in DOMAIN r : r[i] = IF i < k THEN s[i]
                                    ELSE IF i = k THEN e ELSE s[i - 1]
  BY InsertAtElements
<1>2. \A i \in 1..Len(s) : s[i] \in T
  BY ElementOfSeq
<1>3. PICK n \in Nat : n = Len(s) /\ DOMAIN s = 1..n
  BY LenProperties
<1>4. DOMAIN r = 1..(n + 1) /\ k \in 1..(n + 1)
  BY <1>1, <1>3
<1> HIDE DEF r
<1>5. ASSUME NEW i \in 1..(n + 1)
      PROVE  /\ i < k => i \in 1..n /\ r[i] = s[i]
             /\ i = k => r[i] = e
             /\ i > k => i - 1 \in 1..n /\ ~ (i - 1 < k) /\ r[i] = s[i - 1]
  <2>1. r[i] = IF i < k THEN s[i] ELSE IF i = k THEN e ELSE s[i - 1]
    BY <1>1, <1>4
  <2>2. /\ i < k => i \in 1..n
        /\ i > k => i - 1 \in 1..n /\ ~ (i - 1 < k) /\ ~ (i < k) /\ i # k
        /\ i = k => ~ (i < k)
    BY <1>4
  <2> QED  BY <2>1, <2>2
<1>6. ASSUME NEW l \in 1..n
      PROVE  /\ f[s[l]] \in Int /\ f[e] \in Int
             /\ l < k => f[s[l]] <= f[e]
             /\ ~ (l < k) => f[e] <= f[s[l]]
  BY <1>2, <1>3
<1>7. SUFFICES ASSUME NEW i \in 1..(n + 1), NEW j \in 1..(n + 1), i < j
               PROVE  f[r[i]] <= f[r[j]]
  BY <1>4 DEF SortedBy, r
<1>8. CASE j < k
  <2>1. i < k /\ i < j
    BY <1>4, <1>7, <1>8
  <2> QED  BY <1>3, <1>5, <1>8, <2>1 DEF SortedBy
<1>9. CASE j = k
  BY <1>5, <1>6, <1>7, <1>9
<1>10. CASE j > k /\ i = k
  BY <1>5, <1>6, <1>10
<1>11. CASE j > k /\ i < k
  <2>1. /\ f[r[i]] \in Int /\ f[e] \in Int /\ f[r[i]] <= f[e]
        /\ f[r[j]] \in Int /\ f[e] <= f[r[j]]
    BY <1>5, <1>6, <1>11
  <2> QED  BY <2>1
<1>12. CASE j > k /\ i > k
  <2>1. i - 1 < j - 1
    BY <1>7
  <2>2. i - 1 \in DOMAIN s /\ j - 1 \in DOMAIN s /\ r[i] = s[i - 1] /\ r[j] = s[j - 1]
    BY <1>3, <1>5, <1>12
  <2> QED  BY <2>1, <2>2 DEF SortedBy
<1>13. j < k \/ j = k \/ (j > k /\ i = k) \/ (j > k /\ i < k) \/ (j > k /\ i > k)
  BY <1>4
<1> QED  BY <1>8, <1>9, <1>10, <1>11, <1>12, <1>13

LEMMA SortedRemove ==
  ASSUME NEW T, NEW s \in Seq(T), NEW k \in 1..Len(s), NEW f \in [T -> Int],
         SortedBy(s, f)
  PROVE  SortedBy(RemoveAt(s, k), f)
<1> DEFINE r == RemoveAt(s, k)
           at(i) == IF i < k THEN i ELSE i + 1
<1>1. /\ r \in Seq(T) /\ DOMAIN r = 1..(Len(s) - 1)
      /\ \A i \in DOMAIN r : r[i] = IF i < k THEN s[i] ELSE s[i + 1]
  BY RemoveAtElements
<1>2. PICK n \in Nat : n = Len(s) /\ DOMAIN s = 1..n
  BY LenProperties
<1>3. DOMAIN r = 1..(n - 1) /\ k \in 1..n
  BY <1>1, <1>2
<1> HIDE DEF r
<1>4. ASSUME NEW i \in 1..(n - 1) PROVE at(i) \in 1..n /\ r[i] = s[at(i)]
  <2>1. r[i] = IF i < k THEN s[i] ELSE s[i + 1]
    BY <1>1, <1>3
  <2> QED  BY <1>3, <2>1
<1>5. ASSUME NEW i \in 1..(n - 1), NEW j \in 1..(n - 1), i < j PROVE at(i) < at(j)
  BY <1>3, <1>5
<1>6. SUFFICES ASSUME NEW i \in 1..(n - 1), NEW j \in 1..(n - 1), i < j
               PROVE  f[r[i]] <= f[r[j]]
  BY <1>3 DEF SortedBy, r
<1> HIDE DEF at
<1>7. /\ at(i) \in DOMAIN s /\ at(j) \in DOMAIN s /\ at(i) < at(j)
      /\ r[i] = s[at(i)] /\ r[j] = s[at(j)]
  BY <1>2, <1>4, <1>5, <1>6
<1> QED  BY <1>7 DEF SortedBy

\* An element whose key changes is moved past the elements whose keys are on
\* the other side of the new key (adjust_thread).
LEMMA SortedMove ==
  ASSUME NEW T, NEW s \in Seq(T), NEW i \in 1..Len(s), NEW k \in 1..Len(s),
         NEW f \in [T -> Int], NEW g \in [T -> Int], SortedBy(s, f),
         \A l \in 1..Len(s) : l # i => g[s[l]] = f[s[l]],
         \A l \in 1..Len(s) :
           l # i => IF l < k \/ (l = k /\ i < k) THEN g[s[l]] <= g[s[i]]
                    ELSE g[s[i]] <= g[s[l]]
  PROVE  SortedBy(Move(s, i, k), g)
<1> DEFINE t == RemoveAt(s, i)
           at(l) == IF l < i THEN l ELSE l + 1
<1>1. /\ t \in Seq(T) /\ Len(t) = Len(s) - 1 /\ DOMAIN t = 1..(Len(s) - 1)
      /\ \A l \in DOMAIN t : t[l] = IF l < i THEN s[l] ELSE s[l + 1]
  BY RemoveAtElements
<1>2. SortedBy(t, f)
  BY SortedRemove
<1>3. s[i] \in T
  BY ElementOfSeq
<1>4. PICK n \in Nat : n = Len(s) /\ DOMAIN s = 1..n
  BY LenProperties
<1>5. Len(t) = n - 1 /\ DOMAIN t = 1..(n - 1) /\ i \in 1..n /\ k \in 1..n
  BY <1>1, <1>4
<1> HIDE DEF t
<1>6. ASSUME NEW l \in 1..(n - 1)
      PROVE  /\ at(l) \in 1..n /\ at(l) # i /\ t[l] = s[at(l)]
             /\ (l < k) <=> (at(l) < k \/ (at(l) = k /\ i < k))
  <2>1. t[l] = IF l < i THEN s[l] ELSE s[l + 1]
    BY <1>1, <1>5
  <2>2. CASE l < i
    <3>1. at(l) = l /\ l # i /\ l \in 1..n /\ ~ (l = k /\ i < k)
      BY <1>5, <2>2
    <3> QED  BY <2>1, <2>2, <3>1
  <2>3. CASE ~ (l < i)
    <3>1. /\ at(l) = l + 1 /\ l + 1 # i /\ l + 1 \in 1..n
          /\ (l < k) <=> (l + 1 < k \/ (l + 1 = k /\ i < k))
      BY <1>5, <2>3
    <3> QED  BY <2>1, <2>3, <3>1
  <2> QED  BY <2>2, <2>3
<1> HIDE DEF at
<1>7. ASSUME NEW l \in 1..(n - 1) PROVE g[t[l]] = f[t[l]]
  <2>1. at(l) \in 1..Len(s) /\ at(l) # i /\ t[l] = s[at(l)]
    BY <1>4, <1>6
  <2>2. g[s[at(l)]] = f[s[at(l)]]
    BY <2>1
  <2> QED  BY <2>1, <2>2
<1>8. SortedBy(t, g)
  BY <1>2, <1>5, <1>7 DEF SortedBy
<1>9. ASSUME NEW l \in 1..Len(t)
      PROVE  IF l < k THEN g[t[l]] <= g[s[i]] ELSE g[s[i]] <= g[t[l]]
  <2>1. l \in 1..(n - 1)
    BY <1>5
  <2>2. at(l) \in 1..Len(s) /\ at(l) # i
    BY <1>4, <1>6, <2>1
  <2>3. IF at(l) < k \/ (at(l) = k /\ i < k) THEN g[s[at(l)]] <= g[s[i]]
        ELSE g[s[i]] <= g[s[at(l)]]
    BY <2>2
  <2> QED  BY <1>6, <2>1, <2>3
<1>10. k \in 1..(Len(t) + 1)
  BY <1>5
<1>11. SortedBy(InsertAt(t, k, s[i]), g)
  BY <1>1, <1>3, <1>8, <1>9, <1>10, SortedInsert
<1> QED  BY <1>11 DEF Move, t

-----------------------------------------------------------------------------
\* Induction along positions, for what can be said with a set of positions.
LEMMA Stepwise ==
  ASSUME NEW a \in Int, NEW b \in Int, NEW G, a <= b => a \in G,
         \A n \in a..b : n < b /\ n \in G => n + 1 \in G
  PROVE  \A n \in a..b : n \in G
<1> SUFFICES ASSUME a <= b PROVE \A n \in a..b : n \in G
  OBVIOUS
<1> DEFINE r == Cardinality({j \in a..b : \A l \in a..j : l \in G})
<1>1. /\ r \in 0..(b - a + 1)
      /\ \A l \in a..(a + r - 1) : l \in G
      /\ a + r <= b => a + r \notin G
  <2>1. a <= b + 1
    OBVIOUS
  <2> QED  BY <2>1, RunUp
<1> HIDE DEF r
<1>2. CASE a + r <= b
  <2>1. CASE r = 0
    BY <1>1, <1>2, <2>1
  <2>2. CASE r # 0
    <3>1. a + r - 1 \in a..b /\ a + r - 1 \in a..(a + r - 1) /\ a + r - 1 < b
          /\ (a + r - 1) + 1 = a + r
      BY <1>1, <1>2, <2>2
    <3> QED  BY <1>1, <1>2, <3>1
  <2> QED  BY <2>1, <2>2
<1>3. CASE ~ (a + r <= b)
  <2>1. \A n \in a..b : n \in a..(a + r - 1)
    BY <1>1, <1>3
  <2> QED  BY <1>1, <2>1
<1> QED  BY <1>2, <1>3
=============================================================================
