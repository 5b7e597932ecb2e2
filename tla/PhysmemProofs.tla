--------------------------- MODULE PhysmemProofs ---------------------------
(***************************************************************************)
(* The safety of the allocator of pages, for every number of free lists    *)
(* and every layout of memory in which no free segment is as long as two   *)
(* of the largest blocks.  (In longer ones pm_free_from_seg may merge the  *)
(* largest blocks and lose the result, as run physmem_large shows.)  The   *)
(* argument: the blocks on the free lists, in the hands of callers and in  *)
(* the call under way always partition the free segments, and each step    *)
(* halves a block, joins two, or moves one between the lists and a caller. *)
(***************************************************************************)
EXTENDS Physmem, TailQueueProofs

FreeSegs == {i \in 1 .. Len(Segs) : ~ Segs[i].used}

\* No block can grow beyond the last free list.
SmallSegs == \A i \in FreeSegs : Segs[i].npages < 2 ^ NQueues

-----------------------------------------------------------------------------
(* The inductive invariant *)

\* The blocks that start at the pages of B partition the free segments.
Fits(b, n) ==
  \E i \in FreeSegs : Segs[i].first <= b /\ b + n <= Segs[i].first + Segs[i].npages

Tiles(B, sz) ==
  /\ \A b \in B : Fits(b, sz[b]) /\ \E k \in Queues : sz[b] = 2 ^ k
  /\ \A b, c \in B : b # c => b + sz[b] <= c \/ c + sz[c] <= b
  /\ \A i \in FreeSegs : \A pg \in PagesOf(Segs[i]) :
       \E b \in B : b <= pg /\ pg < b + sz[b]

\* Each free list has blocks of its size, none of them twice.
Listed(fr) == UNION {Range(fr[fl]) : fl \in Queues}

ListsOK(fr, sz) ==
  \A fl \in Queues :
    /\ fr[fl] \in Seq(Pages) /\ Distinct(fr[fl])
    /\ \A pg \in Range(fr[fl]) : sz[pg] = 2 ^ fl

\* The pages whose blocks are free and those whose blocks are in use, L and H,
\* agree with the flags PG_ALLOCATED.
FlagsOK(L, H, sz, al) ==
  /\ \A b \in L : Block(b, sz[b]) \cap al = {}
  /\ \A b \in H : Block(b, sz[b]) \subseteq al

\* The state of pages and lists when the blocks of H are not free, M is the
\* block that pm_free_from_seg merges, if any.
Core(sz, al, mg, fr, pc, H, M) ==
  /\ sz \in [Pages -> Nat] /\ al \in SUBSET Pages /\ H \in SUBSET Pages
  /\ fr \in [Queues -> Seq(Pages)]
  /\ Tiles(Listed(fr) \cup H, sz)
  /\ ListsOK(fr, sz)
  /\ mg = Listed(fr)
  /\ pc = [fl \in Queues |-> Len(fr[fl])]
  /\ Listed(fr) \cap H = {}
  /\ FlagsOK(Listed(fr), H \ M, sz, al)

\* No page is twice in the lists of callers and of the call that is under way.
HeldOK(h) ==
  /\ \A l \in h : l \in Seq(Pages) /\ l # <<>> /\ Distinct(l)
  /\ \A l, m \in h : l # m => Range(l) \cap Range(m) = {}

HandsOK ==
  /\ HeldOK(held)
  /\ op.kind \in {"list", "free"} => Distinct(op.pglist)
  /\ HeldPages \cap CallPages = {} /\ HeldPages \cap Merging = {}
  /\ CallPages \cap Merging = {}

OpType ==
  {NoOp} \cup [kind : {"page"}, n : Nat, fl : Queues]
         \cup [kind : {"list"}, n : Nat, fl : Queues, sums : [Queues -> Nat],
               pglist : Seq(Pages)]
         \cup [kind : {"free"}, page : Pages, pglist : Seq(Pages)]

\* What a vm_pagelist_alloc still needs is on the lists that it looks at.
SumsExact(sums, pc, fl) ==
  \A k \in Queues : k < fl =>
    sums[k] = pc[k] * 2 ^ k + (IF k = 0 THEN 0 ELSE sums[k - 1])

OpOK ==
  /\ op.kind = "page" => op.n <= op.fl /\ freelist[op.fl] # <<>>
  /\ op.kind = "list" =>
       /\ SumsExact(op.sums, pagecount, op.fl)
       /\ op.n <= pagecount[op.fl] * 2 ^ op.fl + PrevSum
       /\ op.n = 0 => op.pglist # <<>>

IInv ==
  /\ op \in OpType
  /\ Core(size, allocated, managed, freelist, pagecount, InHands, Merging)
  /\ HandsOK
  /\ OpOK

\* Two free buddies of segment i, but for a pair that init_vm_page may have made.
Pair(i, b, c, sz) ==
  /\ sz[b] = sz[c] /\ sz[b] < 2 ^ (NQueues - 1)
  /\ b + sz[b] = c
  /\ (b - Segs[i].first) % (2 * sz[b]) = 0
  /\ b = Segs[i].first => Segs[i].start % (2 * sz[b]) = 0

\* All free buddies are merged but for those of the blocks in X.
MergedBut(L, sz, X) ==
  \A i \in FreeSegs : \A b, c \in L \cap PagesOf(Segs[i]) :
    Pair(i, b, c, sz) => b \in X \/ c \in X

\* The blocks of its free list that the call under way is sure to take or split,
\* as far as they matter.
Loose ==
  CASE op.kind = "page" -> {Head(freelist[op.fl])}
    [] op.kind = "list" ->
         {pg \in Range(freelist[op.fl]) :
            \/ PrevSum < op.n /\ pg = Head(freelist[op.fl])
            \/ PrevSum + 2 ^ op.fl < op.n /\ pg = freelist[op.fl][2]}
    [] OTHER -> {}

\* vm_page_alloc has passed empty lists.
MergeInv ==
  /\ MergedBut(OnLists, size, Loose)
  /\ op.kind = "page" => \A k \in Queues : op.n <= k /\ k < op.fl => freelist[k] = <<>>

-----------------------------------------------------------------------------
(* Powers of two *)

\* There are 2^k subsets of 1..k.
LEMMA PowNat ==
  \A k \in Nat : 2 ^ k \in Nat /\ 2 ^ k = Cardinality(SUBSET (1 .. k))
                 /\ IsFiniteSet(SUBSET (1 .. k))
<1> SUFFICES ASSUME NEW k \in Nat
             PROVE  /\ 2 ^ k \in Nat /\ 2 ^ k = Cardinality(SUBSET (1 .. k))
                    /\ IsFiniteSet(SUBSET (1 .. k))
  OBVIOUS
<1>1. IsFiniteSet(1 .. k) /\ Cardinality(1 .. k) = k
  BY FS_Interval
<1>2. /\ IsFiniteSet(SUBSET (1 .. k))
      /\ Cardinality(SUBSET (1 .. k)) = 2 ^ Cardinality(1 .. k)
  BY <1>1, FS_SUBSET
<1>3. Cardinality(SUBSET (1 .. k)) \in Nat
  BY <1>2, FS_CardinalityType
<1> QED  BY <1>1, <1>2, <1>3

\* A subset of 1..k+1 is one of 1..k, with or without k+1.
LEMMA PowNext ==
  \A k \in Nat : 2 ^ (k + 1) = 2 * 2 ^ k
<1> SUFFICES ASSUME NEW k \in Nat PROVE 2 ^ (k + 1) = 2 * 2 ^ k
  OBVIOUS
<1> DEFINE S == SUBSET (1 .. k)
           T == {x \cup {k + 1} : x \in S}
           f == [x \in S |-> x \cup {k + 1}]
<1>1. IsFiniteSet(S) /\ Cardinality(S) = 2 ^ k /\ 2 ^ k \in Nat
  BY PowNat
<1>2. f \in Bijection(S, T)
  <2>1. \A x, y \in S : f[x] = f[y] => x = y
    <3> SUFFICES ASSUME NEW x \in S, NEW y \in S, f[x] = f[y] PROVE x = y
      OBVIOUS
    <3>1. k + 1 \notin x /\ k + 1 \notin y
      OBVIOUS
    <3> QED  BY <3>1
  <2>2. f \in [S -> T] /\ \A t \in T : \E x \in S : f[x] = t
    OBVIOUS
  <2> QED  BY <2>1, <2>2 DEF Bijection, Injection, Surjection, IsInjective
<1>3. IsFiniteSet(T) /\ Cardinality(T) = 2 ^ k
  <2>1. ExistsBijection(S, T)
    BY <1>2 DEF ExistsBijection
  <2> HIDE DEF S, T
  <2> QED  BY <1>1, <2>1, FS_Bijection
<1>4. S \cap T = {}
  <2>1. \A x \in S : k + 1 \notin x
    OBVIOUS
  <2>2. \A t \in T : k + 1 \in t
    OBVIOUS
  <2> QED  BY <2>1, <2>2
<1>5. S \cup T = SUBSET (1 .. k + 1)
  <2>1. \A x \in SUBSET (1 .. k + 1) : x \in S \cup T
    <3> SUFFICES ASSUME NEW x \in SUBSET (1 .. k + 1) PROVE x \in S \cup T
      OBVIOUS
    <3>1. CASE k + 1 \in x
      <4> DEFINE y == x \ {k + 1}
      <4>1. y \in S
        OBVIOUS
      <4>2. x = y \cup {k + 1}
        BY <3>1
      <4> QED  BY <4>1, <4>2
    <3>2. CASE k + 1 \notin x
      <4>1. \A j \in x : j \in 1 .. k
        BY <3>2
      <4> QED  BY <4>1
    <3> QED  BY <3>1, <3>2
  <2>2. \A x \in S : x \subseteq 1 .. k + 1 /\ x \cup {k + 1} \subseteq 1 .. k + 1
    OBVIOUS
  <2>3. \A x \in S \cup T : x \in SUBSET (1 .. k + 1)
    BY <2>2
  <2> QED  BY <2>1, <2>3
<1>6. Cardinality(S \cup T) = 2 ^ k + 2 ^ k - Cardinality(S \cap T)
  <2> HIDE DEF S, T
  <2> QED  BY <1>1, <1>3, FS_Union
<1> HIDE DEF S, T, f
<1>7. Cardinality(S \cup T) = 2 ^ k + 2 ^ k
  BY <1>1, <1>4, <1>6, FS_EmptySet
<1>8. 2 ^ (k + 1) = Cardinality(SUBSET (1 .. k + 1))
  BY PowNat
<1>9. 2 ^ (k + 1) = 2 ^ k + 2 ^ k
  BY <1>5, <1>7, <1>8
<1> QED  BY <1>1, <1>9

LEMMA PowZero == 2 ^ 0 = 1
<1>1. 2 ^ 0 = Cardinality(SUBSET (1 .. 0))
  BY PowNat
<1>2. SUBSET (1 .. 0) = {{}}
  OBVIOUS
<1> QED  BY <1>1, <1>2, FS_Singleton

LEMMA PowPositive ==
  \A k \in Nat : 2 ^ k \in Nat /\ 2 ^ k >= 1 /\ 2 ^ k > k
<1> SUFFICES ASSUME NEW b \in Nat PROVE 2 ^ b \in Nat /\ 2 ^ b >= 1 /\ 2 ^ b > b
  OBVIOUS
<1> DEFINE G == {n \in 0 .. b : 2 ^ n > n}
<1>1. 0 \in G
  BY PowZero
<1>2. \A n \in 0 .. b : n < b /\ n \in G => n + 1 \in G
  <2> SUFFICES ASSUME NEW n \in 0 .. b, n < b, n \in G PROVE n + 1 \in G
    OBVIOUS
  <2>1. 2 ^ n \in Nat /\ 2 ^ n > n /\ 2 ^ (n + 1) = 2 * 2 ^ n
    BY PowNat, PowNext
  <2> QED  BY <2>1
<1>3. \A n \in 0 .. b : n \in G
  <2> HIDE DEF G
  <2> QED  BY <1>1, <1>2, Stepwise
<1>4. 2 ^ b > b /\ 2 ^ b \in Nat
  BY <1>3, PowNat
<1> QED  BY <1>4

LEMMA PowGrows ==
  \A j, k \in Nat : j < k => 2 * 2 ^ j <= 2 ^ k
<1> SUFFICES ASSUME NEW j \in Nat, NEW k \in Nat, j < k PROVE 2 * 2 ^ j <= 2 ^ k
  OBVIOUS
<1> DEFINE G == {n \in j + 1 .. k : 2 * 2 ^ j <= 2 ^ n}
<1>1. j + 1 <= k => j + 1 \in G
  <2>1. 2 ^ j \in Nat /\ 2 ^ (j + 1) = 2 * 2 ^ j
    BY PowNat, PowNext
  <2> QED  BY <2>1
<1>2. \A n \in j + 1 .. k : n < k /\ n \in G => n + 1 \in G
  <2> SUFFICES ASSUME NEW n \in j + 1 .. k, n < k, n \in G PROVE n + 1 \in G
    OBVIOUS
  <2>1. n \in Nat
    OBVIOUS
  <2>2. 2 ^ j \in Nat /\ 2 ^ n \in Nat /\ 2 ^ (n + 1) = 2 * 2 ^ n
    BY <2>1, PowNat, PowNext
  <2> QED  BY <2>2
<1>3. \A n \in j + 1 .. k : n \in G
  <2>1. j + 1 \in Int /\ k \in Int
    OBVIOUS
  <2> HIDE DEF G
  <2> QED  BY <2>1, <1>1, <1>2, Stepwise
<1>4. k \in G
  BY <1>3
<1> QED  BY <1>4

\* Powers of two are ordered as their exponents.
LEMMA PowOrder ==
  \A j, k \in Nat : /\ 2 ^ j = 2 ^ k => j = k
                    /\ 2 ^ j < 2 ^ k => j < k
                    /\ j <= k => 2 ^ j <= 2 ^ k
<1> SUFFICES ASSUME NEW j \in Nat, NEW k \in Nat
             PROVE  /\ 2 ^ j = 2 ^ k => j = k
                    /\ 2 ^ j < 2 ^ k => j < k
                    /\ j <= k => 2 ^ j <= 2 ^ k
  OBVIOUS
<1>1. 2 ^ j \in Nat /\ 2 ^ j >= 1 /\ 2 ^ k \in Nat /\ 2 ^ k >= 1
  BY PowPositive
<1>2. CASE j < k
  <2>1. 2 * 2 ^ j <= 2 ^ k
    BY <1>2, PowGrows
  <2> QED  BY <2>1, <1>1, <1>2
<1>3. CASE k < j
  <2>1. 2 * 2 ^ k <= 2 ^ j
    BY <1>3, PowGrows
  <2> QED  BY <2>1, <1>1, <1>3
<1>4. CASE j = k
  BY <1>1, <1>4
<1> QED  BY <1>2, <1>3, <1>4

\* log2 finds the free list of a block.
LEMMA Log2Pow ==
  \A k \in Nat : Log2(2 ^ k) = k
<1> SUFFICES ASSUME NEW k \in Nat PROVE Log2(2 ^ k) = k
  OBVIOUS
<1> DEFINE n == 2 ^ k
<1>1. n \in Nat /\ k \in 0 .. n /\ 2 ^ k = n
  BY PowPositive
<1>2. \E j \in 0 .. n : 2 ^ j = n
  BY <1>1
<1>3. Log2(n) \in 0 .. n /\ 2 ^ Log2(n) = n
  BY <1>2 DEF Log2
<1>4. Log2(n) \in Nat
  BY <1>1, <1>3
<1> QED  BY <1>3, <1>4, PowOrder

\* Of two powers of two the smaller divides the larger.
LEMMA PowDivides ==
  \A j, k \in Nat : j <= k => \E m \in Nat : 2 ^ k = m * 2 ^ j
<1> SUFFICES ASSUME NEW j \in Nat, NEW k \in Nat, j <= k
             PROVE  \E m \in Nat : 2 ^ k = m * 2 ^ j
  OBVIOUS
<1> DEFINE G == {n \in j .. k : \E m \in Nat : 2 ^ n = m * 2 ^ j}
<1>0. 2 ^ j \in Nat
  BY PowNat
<1>1. j \in G
  <2>1. 2 ^ j = 1 * 2 ^ j
    BY <1>0
  <2> QED  BY <2>1
<1>2. \A n \in j .. k : n < k /\ n \in G => n + 1 \in G
  <2> SUFFICES ASSUME NEW n \in j .. k, n < k, n \in G PROVE n + 1 \in G
    OBVIOUS
  <2>1. PICK m \in Nat : 2 ^ n = m * 2 ^ j
    OBVIOUS
  <2>2. n \in Nat /\ n + 1 \in j .. k
    OBVIOUS
  <2>3. 2 ^ (n + 1) = 2 * 2 ^ n
    BY <2>2, PowNext
  <2>4. 2 * (m * 2 ^ j) = (2 * m) * 2 ^ j /\ 2 * m \in Nat
    BY <1>0
  <2>5. 2 ^ (n + 1) = (2 * m) * 2 ^ j /\ 2 * m \in Nat
    BY <2>1, <2>3, <2>4
  <2> QED  BY <2>2, <2>5
<1>3. \A n \in j .. k : n \in G
  <2>1. j \in Int /\ k \in Int
    OBVIOUS
  <2> HIDE DEF G
  <2> QED  BY <2>1, <1>1, <1>2, Stepwise
<1>4. k \in j .. k
  OBVIOUS
<1>5. k \in G
  <2> HIDE DEF G
  <2> QED  BY <1>3, <1>4
<1> QED  BY <1>5

-----------------------------------------------------------------------------
(* Division and multiples *)

\* Quotient and remainder.
LEMMA DivMod ==
  \A a \in Nat, s \in Nat \ {0} :
    /\ a \div s \in Nat /\ a % s \in Nat
    /\ a = s * (a \div s) + (a % s) /\ a % s < s
  OBVIOUS

LEMMA ProductOrder ==
  \A s \in Nat, p, q \in Int : p <= q => s * p <= s * q
  OBVIOUS

\* Quotient and remainder are unique.
LEMMA DivUnique ==
  ASSUME NEW a \in Nat, NEW s \in Nat \ {0}, NEW q \in Int, NEW r \in 0 .. s - 1,
         a = s * q + r
  PROVE  a \div s = q /\ a % s = r
<1> DEFINE d == a \div s
           t == a % s
<1>1. d \in Nat /\ t \in Nat /\ a = s * d + t /\ t < s
  BY DivMod
<1> HIDE DEF d, t
<1>2. ~ d < q
  <2> SUFFICES ASSUME d < q PROVE FALSE
    OBVIOUS
  <2>1. s * (d + 1) <= s * q
    BY <1>1, ProductOrder
  <2>2. s * (d + 1) = s * d + s
    BY <1>1
  <2>3. s * d \in Int /\ s * q \in Int
    BY <1>1
  <2> QED  BY <2>1, <2>2, <2>3, <1>1
<1>3. ~ q < d
  <2> SUFFICES ASSUME q < d PROVE FALSE
    OBVIOUS
  <2>1. s * (q + 1) <= s * d
    BY <1>1, ProductOrder
  <2>2. s * (q + 1) = s * q + s
    BY <1>1
  <2>3. s * d \in Int /\ s * q \in Int
    BY <1>1
  <2> QED  BY <2>1, <2>2, <2>3, <1>1
<1>4. d = q
  BY <1>1, <1>2, <1>3
<1>5. t = r
  <2>1. s * q \in Int
    OBVIOUS
  <2> QED  BY <1>1, <1>4, <2>1
<1> QED  BY <1>4, <1>5 DEF d, t

\* Being a multiple, in the two forms that are needed.
LEMMA ModZero ==
  ASSUME NEW a \in Nat, NEW s \in Nat \ {0}
  PROVE  a % s = 0 <=> \E q \in Nat : a = s * q
<1>1. ASSUME a % s = 0 PROVE \E q \in Nat : a = s * q
  <2>1. a \div s \in Nat /\ s * (a \div s) \in Nat /\ a = s * (a \div s) + 0
    BY <1>1, DivMod
  <2>2. a = s * (a \div s)
    BY <2>1
  <2> QED  BY <2>1, <2>2
<1>2. ASSUME NEW q \in Nat, a = s * q PROVE a % s = 0
  <2>1. s * q \in Nat
    OBVIOUS
  <2>2. a = s * q + 0 /\ 0 \in 0 .. s - 1
    BY <1>2, <2>1
  <2> QED  BY <2>2, DivUnique
<1> QED  BY <1>1, <1>2

\* A multiple of s is a multiple of 2s, or it is s above one.
LEMMA ModTwice ==
  ASSUME NEW a \in Nat, NEW s \in Nat \ {0}, a % s = 0
  PROVE  /\ a % (2 * s) = 0 => (a + s) % (2 * s) # 0
         /\ a % (2 * s) # 0 => a >= s /\ (a - s) % (2 * s) = 0
<1>1. PICK q \in Nat : a = s * q
  BY ModZero
<1>2. 2 * s \in Nat \ {0}
  OBVIOUS
<1>3. a % (2 * s) = 0 => (a + s) % (2 * s) # 0
  <2> SUFFICES ASSUME a % (2 * s) = 0, (a + s) % (2 * s) = 0 PROVE FALSE
    OBVIOUS
  <2>1. PICK u \in Nat : a = (2 * s) * u
    BY <1>2, ModZero
  <2>2. (2 * s) * u \in Nat /\ a + s = (2 * s) * u + s /\ s \in 0 .. 2 * s - 1 /\ a + s \in Nat
    BY <2>1
  <2>3. (a + s) % (2 * s) = s
    BY <1>2, <2>2, DivUnique
  <2> QED  BY <2>3
<1>4. ASSUME a % (2 * s) # 0 PROVE a >= s /\ (a - s) % (2 * s) = 0
  <2> DEFINE h == q \div 2
  <2>1. h \in Nat /\ (q = 2 * h \/ q = 2 * h + 1)
    OBVIOUS
  <2> HIDE DEF h
  <2>2. q # 2 * h
    <3> SUFFICES ASSUME q = 2 * h PROVE FALSE
      OBVIOUS
    <3>1. s * (2 * h) = (2 * s) * h
      BY <2>1
    <3>2. a = (2 * s) * h
      BY <1>1, <3>1
    <3> QED  BY <1>2, <1>4, <2>1, <3>2, ModZero
  <2>3. s * (2 * h + 1) = (2 * s) * h + s /\ (2 * s) * h \in Nat
    BY <2>1
  <2>4. a = (2 * s) * h + s
    BY <1>1, <2>1, <2>2, <2>3
  <2>5. a - s = (2 * s) * h /\ a - s \in Nat /\ a >= s
    BY <2>3, <2>4
  <2> QED  BY <1>2, <2>1, <2>5, ModZero
<1> QED  BY <1>3, <1>4

\* A multiple of 2h and the number h above it are multiples of h.
LEMMA ModHalf ==
  ASSUME NEW a \in Nat, NEW h \in Nat \ {0}, a % (2 * h) = 0
  PROVE  a % h = 0 /\ (a + h) % h = 0
<1>1. 2 * h \in Nat \ {0}
  OBVIOUS
<1>2. PICK q \in Nat : a = (2 * h) * q
  BY <1>1, ModZero
<1>3. (2 * h) * q = h * (2 * q) /\ h * (2 * q + 1) = h * (2 * q) + h
      /\ 2 * q \in Nat /\ 2 * q + 1 \in Nat
  OBVIOUS
<1>4. a = h * (2 * q) /\ a + h = h * (2 * q + 1) /\ a + h \in Nat
  BY <1>2, <1>3
<1> QED  BY <1>3, <1>4, ModZero

-----------------------------------------------------------------------------
(* Segments *)

LEMMA SegTypes ==
  \A i \in 1 .. Len(Segs) :
    /\ Segs[i].first \in Nat /\ Segs[i].start \in Nat \ {0} /\ Segs[i].npages \in Nat \ {0}
    /\ Segs[i].used \in BOOLEAN
<1> SUFFICES ASSUME NEW i \in 1 .. Len(Segs)
             PROVE  Segs[i] \in [first : Nat, start : Nat \ {0}, npages : Nat \ {0}, used : BOOLEAN]
  OBVIOUS
<1> QED  BY PhysmemAssumption, ElementOfSeq

\* Segments follow one another in the array of pages.
LEMMA SegsInOrder ==
  \A i, j \in 1 .. Len(Segs) :
    i < j => Segs[i].first + Segs[i].npages <= Segs[j].first
<1> SUFFICES ASSUME NEW i \in 1 .. Len(Segs), NEW m \in 1 .. Len(Segs), i < m
             PROVE  Segs[i].first + Segs[i].npages <= Segs[m].first
  OBVIOUS
<1> DEFINE n == Len(Segs)
           G == {j \in i + 1 .. n : Segs[i].first + Segs[i].npages <= Segs[j].first}
<1>1. n \in Nat /\ i \in Nat /\ m \in i + 1 .. n /\ i + 1 \in Int /\ n \in Int
  BY PhysmemAssumption, LenProperties
<1>2. i + 1 <= n => i + 1 \in G
  <2> SUFFICES ASSUME i + 1 <= n PROVE i + 1 \in G
    OBVIOUS
  <2>1. i + 1 \in 2 .. n /\ (i + 1) - 1 = i
    BY <1>1
  <2>2. Segs[i + 1].first = Segs[i].first + Segs[i].npages
    BY <2>1, PhysmemAssumption
  <2>3. Segs[i + 1].first \in Nat
    BY <2>1, SegTypes
  <2> QED  BY <1>1, <2>2, <2>3
<1>3. \A j \in i + 1 .. n : j < n /\ j \in G => j + 1 \in G
  <2> SUFFICES ASSUME NEW j \in i + 1 .. n, j < n, j \in G PROVE j + 1 \in G
    OBVIOUS
  <2>1. j + 1 \in 2 .. n /\ (j + 1) - 1 = j /\ j \in 1 .. n
    BY <1>1
  <2>2. Segs[j + 1].first = Segs[j].first + Segs[j].npages
    BY <2>1, PhysmemAssumption
  <2>3. Segs[j].first \in Nat /\ Segs[j].npages \in Nat /\ Segs[i].first \in Nat
        /\ Segs[i].npages \in Nat
    BY <2>1, SegTypes
  <2> QED  BY <1>1, <2>1, <2>2, <2>3
<1>4. \A j \in i + 1 .. n : j \in G
  <2> HIDE DEF G
  <2> QED  BY <1>1, <1>2, <1>3, Stepwise
<1> QED  BY <1>1, <1>4

\* A page is in one segment only, the one that SegOf finds.
LEMMA SegOfPage ==
  ASSUME NEW i \in 1 .. Len(Segs), NEW pg \in PagesOf(Segs[i])
  PROVE  pg \in Pages /\ SegOf(pg) = i
<1> DEFINE n == Len(Segs)
<1>1. n \in Nat /\ n \in 1 .. n
  BY PhysmemAssumption, LenProperties
<1>2. \A j \in 1 .. n : Segs[j].first \in Nat /\ Segs[j].npages \in Nat
  BY SegTypes
<1>3. pg \in Nat /\ Segs[i].first <= pg /\ pg < Segs[i].first + Segs[i].npages
  BY <1>2 DEF PagesOf
<1>4. pg \in Pages
  <2>1. CASE i = n
    BY <1>1, <1>2, <1>3, <2>1 DEF Pages, NPages
  <2>2. CASE i # n
    <3>1. Segs[i].first + Segs[i].npages <= Segs[n].first
      BY <1>1, <2>2, SegsInOrder
    <3> QED  BY <1>1, <1>2, <1>3, <3>1 DEF Pages, NPages
  <2> QED  BY <2>1, <2>2
<1>5. \A j \in 1 .. n : pg \in PagesOf(Segs[j]) => j = i
  <2> SUFFICES ASSUME NEW j \in 1 .. n, pg \in PagesOf(Segs[j]), j # i PROVE FALSE
    OBVIOUS
  <2>1. Segs[j].first <= pg /\ pg < Segs[j].first + Segs[j].npages
    BY <1>2 DEF PagesOf
  <2>2. CASE i < j
    <3>1. Segs[i].first + Segs[i].npages <= Segs[j].first
      BY <2>2, SegsInOrder
    <3> QED  BY <1>2, <1>3, <2>1, <3>1
  <2>3. CASE j < i
    <3>1. Segs[j].first + Segs[j].npages <= Segs[i].first
      BY <2>3, SegsInOrder
    <3> QED  BY <1>2, <1>3, <2>1, <3>1
  <2> QED  BY <2>2, <2>3
<1>6. SegOf(pg) \in 1 .. n /\ pg \in PagesOf(Segs[SegOf(pg)])
  BY DEF SegOf
<1> QED  BY <1>4, <1>5, <1>6

\* A block that fits has its pages in the segment of its first page.
LEMMA FitsFacts ==
  ASSUME NEW b \in Pages, NEW n \in Nat \ {0}, Fits(b, n)
  PROVE  /\ SegOf(b) \in FreeSegs /\ SegOf(b) \in 1 .. Len(Segs)
         /\ Segs[SegOf(b)].first <= b
         /\ b + n <= Segs[SegOf(b)].first + Segs[SegOf(b)].npages
         /\ Block(b, n) \subseteq PagesOf(Segs[SegOf(b)])
         /\ \A pg \in Block(b, n) : pg \in Pages
<1>1. PICK i \in FreeSegs :
        Segs[i].first <= b /\ b + n <= Segs[i].first + Segs[i].npages
  BY DEF Fits
<1>2. i \in 1 .. Len(Segs) /\ Segs[i].first \in Nat /\ Segs[i].npages \in Nat
  BY SegTypes DEF FreeSegs
<1>3. b \in Nat
  <2>1. Len(Segs) \in 1 .. Len(Segs)
    BY PhysmemAssumption, LenProperties
  <2> QED  BY <2>1, SegTypes DEF Pages, NPages
<1>4. \A pg \in Block(b, n) : pg \in PagesOf(Segs[i])
  <2> DEFINE f == Segs[i].first
             e == Segs[i].npages
  <2>1. f \in Nat /\ e \in Nat /\ f <= b /\ b + n <= f + e
        /\ PagesOf(Segs[i]) = f .. f + e - 1
    BY <1>1, <1>2 DEF PagesOf
  <2> HIDE DEF f, e
  <2> QED  BY <1>3, <2>1 DEF Block
<1>5. b \in PagesOf(Segs[i])
  BY <1>1, <1>2, <1>3 DEF PagesOf
<1>6. SegOf(b) = i
  BY <1>2, <1>5, SegOfPage
<1>7. \A pg \in Block(b, n) : pg \in Pages
  BY <1>2, <1>4, SegOfPage
<1> QED  BY <1>1, <1>2, <1>4, <1>6, <1>7

LEMMA PagesNat == Pages \subseteq Nat /\ NPages \in Nat
<1>1. Len(Segs) \in 1 .. Len(Segs)
  BY PhysmemAssumption, LenProperties
<1> QED  BY <1>1, SegTypes DEF Pages, NPages

-----------------------------------------------------------------------------
(* Partitions: pm_split_page and pm_merge_buddies *)

\* The size of the blocks on a free list.
LEMMA QueuePow ==
  ASSUME NEW k \in Queues
  PROVE  k \in Nat /\ k < NQueues /\ 2 ^ k \in Nat \ {0}
         /\ (k > 0 => k - 1 \in Queues /\ 2 ^ k = 2 * 2 ^ (k - 1))
<1>1. k \in Nat /\ k < NQueues /\ NQueues \in Nat
  BY PhysmemAssumption DEF Queues
<1>2. 2 ^ k \in Nat \ {0}
  BY <1>1, PowPositive
<1>3. ASSUME k > 0 PROVE k - 1 \in Queues /\ 2 ^ k = 2 * 2 ^ (k - 1)
  <2>1. k - 1 \in Nat /\ (k - 1) + 1 = k
    BY <1>1, <1>3
  <2>2. 2 ^ ((k - 1) + 1) = 2 * 2 ^ (k - 1)
    BY <2>1, PowNext
  <2> QED  BY <1>1, <2>1, <2>2 DEF Queues
<1> QED  BY <1>1, <1>2, <1>3

LEMMA TileFacts ==
  ASSUME NEW B \in SUBSET Pages, NEW sz \in [Pages -> Nat], Tiles(B, sz), NEW b \in B
  PROVE  /\ b \in Nat /\ sz[b] \in Nat \ {0} /\ b + sz[b] \in Nat
         /\ Fits(b, sz[b]) /\ Block(b, sz[b]) \subseteq Pages
         /\ b \in Block(b, sz[b])
         /\ SegOf(b) \in FreeSegs /\ b \in PagesOf(Segs[SegOf(b)])
<1>1. b \in Nat /\ Fits(b, sz[b]) /\ \E k \in Queues : sz[b] = 2 ^ k
  BY PagesNat DEF Tiles
<1>2. sz[b] \in Nat \ {0}
  BY <1>1, QueuePow
<1>3. b \in Block(b, sz[b])
  BY <1>1, <1>2 DEF Block
<1> QED  BY <1>1, <1>2, <1>3, FitsFacts

LEMMA TilesApart ==
  ASSUME NEW B \in SUBSET Pages, NEW sz \in [Pages -> Nat], Tiles(B, sz),
         NEW b \in B, NEW c \in B, b # c
  PROVE  Block(b, sz[b]) \cap Block(c, sz[c]) = {}
<1>1. b \in Nat /\ c \in Nat /\ sz[b] \in Nat /\ sz[c] \in Nat
  BY TileFacts
<1>2. b + sz[b] <= c \/ c + sz[c] <= b
  BY DEF Tiles
<1> QED  BY <1>1, <1>2 DEF Block

\* Halving a block of a partition,
LEMMA TilesSplit ==
  ASSUME NEW B \in SUBSET Pages, NEW sz \in [Pages -> Nat], Tiles(B, sz),
         NEW b \in B, NEW k \in Queues, sz[b] = 2 * 2 ^ k
  PROVE  LET h   == 2 ^ k
             c   == b + h
             nsz == [sz EXCEPT ![b] = h, ![c] = h]
         IN  /\ c \in Pages /\ c \notin B /\ nsz \in [Pages -> Nat]
             /\ Tiles(B \cup {c}, nsz)
             /\ nsz[b] = h /\ nsz[c] = h
             /\ \A x \in B : x # b => nsz[x] = sz[x]
             /\ Block(b, h) \subseteq Block(b, sz[b])
             /\ Block(c, h) \subseteq Block(b, sz[b])
<1> DEFINE h   == 2 ^ k
           c   == b + h
           nsz == [sz EXCEPT ![b] = h, ![c] = h]
<1>1. h \in Nat \ {0} /\ sz[b] = 2 * h
  BY QueuePow
<1> HIDE DEF h
<1>2. b \in Nat /\ b \in Pages
  BY TileFacts
<1>3. c \in Block(b, sz[b])
  BY <1>1, <1>2 DEF Block
<1>4. c \in Pages /\ Fits(b, sz[b])
  BY <1>3, TileFacts
<1>5. c \notin B
  <2> SUFFICES ASSUME c \in B PROVE FALSE
    OBVIOUS
  <2>1. c # b /\ c \in Block(c, sz[c])
    BY <1>1, <1>2, TileFacts
  <2> QED  BY <1>3, <2>1, TilesApart
<1>6. nsz \in [Pages -> Nat] /\ nsz[b] = h /\ nsz[c] = h
      /\ \A x \in B : x # b => nsz[x] = sz[x]
  BY <1>1, <1>2, <1>4, <1>5
<1>7. Block(b, h) \subseteq Block(b, sz[b]) /\ Block(c, h) \subseteq Block(b, sz[b])
  BY <1>1, <1>2 DEF Block
<1>8. \A x \in B \cup {c} : Fits(x, nsz[x]) /\ \E j \in Queues : nsz[x] = 2 ^ j
  <2>1. Fits(b, h) /\ Fits(c, h)
    <3>1. PICK i \in FreeSegs :
            Segs[i].first <= b /\ b + sz[b] <= Segs[i].first + Segs[i].npages
      BY <1>4 DEF Fits
    <3>2. Segs[i].first \in Nat /\ Segs[i].npages \in Nat
      BY SegTypes DEF FreeSegs
    <3> QED  BY <1>1, <1>2, <3>1, <3>2 DEF Fits
  <2>2. \E j \in Queues : h = 2 ^ j
    BY DEF h
  <2>3. \A x \in B : Fits(x, sz[x]) /\ \E j \in Queues : sz[x] = 2 ^ j
    BY DEF Tiles
  <2> HIDE DEF nsz, c
  <2> QED  BY <2>1, <2>2, <2>3, <1>6
<1>9. \A x, y \in B \cup {c} : x # y => x + nsz[x] <= y \/ y + nsz[y] <= x
  <2>1. \A x \in B : x \in Nat /\ sz[x] \in Nat
    BY TileFacts
  <2>2. \A x, y \in B : x # y => x + sz[x] <= y \/ y + sz[y] <= x
    BY DEF Tiles
  <2>3. \A x \in B : x # b => x + sz[x] <= b \/ b + 2 * h <= x
    BY <1>1, <2>2
  <2>4. c = b + h
    OBVIOUS
  <2>5. \A x \in B : x # b => /\ x + nsz[x] <= b \/ b + nsz[b] <= x
                              /\ x + nsz[x] <= c \/ c + nsz[c] <= x
    <3> HIDE DEF nsz, c
    <3> QED  BY <1>1, <1>2, <1>6, <2>1, <2>3, <2>4
  <2>6. b + nsz[b] <= c
    <3> HIDE DEF nsz, c
    <3> QED  BY <1>1, <1>2, <1>6, <2>4
  <2>7. \A x, y \in B : x # y /\ x # b /\ y # b => x + nsz[x] <= y \/ y + nsz[y] <= x
    <3> HIDE DEF nsz, c
    <3> QED  BY <1>6, <2>2
  <2> HIDE DEF nsz, c
  <2> QED  BY <2>5, <2>6, <2>7
<1>10. \A i \in FreeSegs : \A pg \in PagesOf(Segs[i]) :
         \E x \in B \cup {c} : x <= pg /\ pg < x + nsz[x]
  <2> SUFFICES ASSUME NEW i \in FreeSegs, NEW pg \in PagesOf(Segs[i])
               PROVE  \E x \in B \cup {c} : x <= pg /\ pg < x + nsz[x]
    OBVIOUS
  <2>1. PICK x \in B : x <= pg /\ pg < x + sz[x]
    BY DEF Tiles
  <2>2. pg \in Nat
    BY SegTypes DEF PagesOf, FreeSegs
  <2>3. CASE x # b
    <3> HIDE DEF nsz
    <3> QED  BY <1>6, <2>1, <2>3
  <2>4. CASE x = b
    <3>1. c = b + h
      OBVIOUS
    <3> HIDE DEF nsz, c
    <3>2. CASE pg < b + h
      BY <1>6, <2>1, <2>4, <3>2
    <3>3. CASE ~ (pg < b + h)
      <4>1. c <= pg /\ pg < c + nsz[c]
        BY <1>1, <1>2, <1>6, <2>1, <2>2, <2>4, <3>1, <3>3
      <4> QED  BY <4>1
    <3> QED  BY <3>2, <3>3
  <2> QED  BY <2>3, <2>4
<1>11. Tiles(B \cup {c}, nsz)
  <2> HIDE DEF nsz, c
  <2> QED  BY <1>8, <1>9, <1>10 DEF Tiles
<1> QED  BY <1>4, <1>5, <1>6, <1>7, <1>11 DEF h

\* Neighbours of the same size in the same segment, b on the left of c.
Neighbours(b, c, k, sz) ==
  sz[b] = 2 ^ k /\ sz[c] = 2 ^ k /\ b + 2 ^ k = c /\ SegOf(b) = SegOf(c)

\* and joining two of them, which leaves no block too large for the lists.
LEMMA TilesMerge ==
  ASSUME SmallSegs,
         NEW B \in SUBSET Pages, NEW sz \in [Pages -> Nat], Tiles(B, sz),
         NEW b \in B, NEW c \in B, NEW k \in Queues, Neighbours(b, c, k, sz)
  PROVE  LET nsz == [sz EXCEPT ![b] = 2 * 2 ^ k]
         IN  /\ k + 1 \in Queues /\ nsz \in [Pages -> Nat]
             /\ nsz[b] = 2 ^ (k + 1)
             /\ \A x \in B : x # b => nsz[x] = sz[x]
             /\ Tiles(B \ {c}, nsz)
<1> DEFINE h   == 2 ^ k
           nsz == [sz EXCEPT ![b] = 2 * h]
<1>1. h \in Nat \ {0} /\ sz[b] = h /\ sz[c] = h /\ c = b + h /\ k \in Nat
      /\ SegOf(b) = SegOf(c)
  BY QueuePow DEF Neighbours
<1>2. b \in Nat /\ c \in Nat /\ b # c
  BY <1>1, TileFacts
<1>3. Fits(b, 2 * h) /\ k + 1 \in Queues
  <2> DEFINE i == SegOf(c)
  <2>1. /\ i \in FreeSegs /\ Segs[i].first <= b
        /\ c + h <= Segs[i].first + Segs[i].npages
    BY <1>1, TileFacts, FitsFacts
  <2>2. Segs[i].first \in Nat /\ Segs[i].npages \in Nat /\ Segs[i].npages < 2 ^ NQueues
    BY <2>1, SegTypes DEF FreeSegs, SmallSegs
  <2> HIDE DEF i, h
  <2>3. b + 2 * h <= Segs[i].first + Segs[i].npages
    BY <1>1, <1>2, <2>1, <2>2
  <2>4. NQueues \in Nat /\ 2 ^ NQueues \in Nat /\ 2 ^ (k + 1) = 2 * h
    BY <1>1, PhysmemAssumption, PowNat, PowNext DEF h
  <2>5. 2 ^ (k + 1) < 2 ^ NQueues
    BY <1>1, <1>2, <2>1, <2>2, <2>3, <2>4
  <2>6. k + 1 < NQueues
    BY <1>1, <2>4, <2>5, PowOrder
  <2> QED  BY <1>1, <2>1, <2>3, <2>4, <2>6 DEF Fits, Queues
<1>4. 2 ^ (k + 1) = 2 * h
  BY <1>1, PowNext
<1> HIDE DEF h
<1>5. nsz \in [Pages -> Nat] /\ nsz[b] = 2 * h /\ \A x \in B : x # b => nsz[x] = sz[x]
  BY <1>1
<1> HIDE DEF nsz
<1>6. \A x \in B \ {c} : Fits(x, nsz[x]) /\ \E j \in Queues : nsz[x] = 2 ^ j
  <2>1. \A x \in B : Fits(x, sz[x]) /\ \E j \in Queues : sz[x] = 2 ^ j
    BY DEF Tiles
  <2> QED  BY <2>1, <1>3, <1>4, <1>5
<1>7. \A x, y \in B \ {c} : x # y => x + nsz[x] <= y \/ y + nsz[y] <= x
  <2>1. \A x \in B : x \in Nat /\ sz[x] \in Nat /\ sz[x] >= 1
    BY TileFacts
  <2>2. \A x, y \in B : x # y => x + sz[x] <= y \/ y + sz[y] <= x
    BY DEF Tiles
  <2>3. \A x \in B \ {c} : x # b => x + sz[x] <= b \/ b + 2 * h <= x
    BY <1>1, <1>2, <2>1, <2>2
  <2>4. \A x \in B \ {c} : x # b => x + nsz[x] <= b \/ b + nsz[b] <= x
    BY <1>5, <2>3
  <2>5. \A x, y \in B : x # y /\ x # b /\ y # b => x + nsz[x] <= y \/ y + nsz[y] <= x
    BY <1>5, <2>2
  <2> QED  BY <2>4, <2>5
<1>8. \A i \in FreeSegs : \A pg \in PagesOf(Segs[i]) :
        \E x \in B \ {c} : x <= pg /\ pg < x + nsz[x]
  <2> SUFFICES ASSUME NEW i \in FreeSegs, NEW pg \in PagesOf(Segs[i])
               PROVE  \E x \in B \ {c} : x <= pg /\ pg < x + nsz[x]
    OBVIOUS
  <2>1. PICK x \in B : x <= pg /\ pg < x + sz[x]
    BY DEF Tiles
  <2>2. pg \in Nat
    BY SegTypes DEF PagesOf, FreeSegs
  <2>3. CASE x # b /\ x # c
    BY <1>5, <2>1, <2>3
  <2>4. CASE x = b \/ x = c
    <3>1. b <= pg /\ pg < b + nsz[b]
      BY <1>1, <1>2, <1>5, <2>1, <2>2, <2>4
    <3> QED  BY <1>2, <3>1
  <2> QED  BY <2>3, <2>4
<1>9. Tiles(B \ {c}, nsz)
  BY <1>6, <1>7, <1>8 DEF Tiles
<1> QED  BY <1>3, <1>4, <1>5, <1>9 DEF h, nsz

-----------------------------------------------------------------------------
(* Changes of the free lists *)

\* A block is on the list of its size only.
LEMMA ListedOnce ==
  ASSUME NEW fr, NEW sz, ListsOK(fr, sz),
         NEW fl \in Queues, NEW k \in Queues,
         NEW pg, pg \in Range(fr[fl]), pg \in Range(fr[k])
  PROVE  fl = k
<1>1. 2 ^ fl = 2 ^ k
  BY DEF ListsOK
<1>2. fl \in Nat /\ k \in Nat
  BY QueuePow
<1> QED  BY <1>1, <1>2, PowOrder

LEMMA ListTypes ==
  ASSUME NEW fr, NEW sz, ListsOK(fr, sz)
  PROVE  /\ \A fl \in Queues : Range(fr[fl]) \subseteq Pages
         /\ Listed(fr) \subseteq Pages
         /\ \A pg \in Listed(fr) : \E k \in Queues : sz[pg] = 2 ^ k /\ pg \in Range(fr[k])
<1>1. \A fl \in Queues : Range(fr[fl]) \subseteq Pages
  <2> SUFFICES ASSUME NEW fl \in Queues, NEW i \in DOMAIN fr[fl]
               PROVE  fr[fl][i] \in Pages
    BY DEF Range
  <2>1. fr[fl] \in Seq(Pages)
    BY DEF ListsOK
  <2> QED  BY <2>1, ElementOfSeq, LenProperties
<1> QED  BY <1>1 DEF Listed, ListsOK

\* List r has the pages of s without pg, or those of P as well.
Without(r, s, pg) == r \in Seq(Pages) /\ Distinct(r) /\ Range(r) = Range(s) \ {pg}
SizedFor(P, sz, fl) == \A pg \in P : sz[pg] = 2 ^ fl
WithAlso(r, s, P) == r \in Seq(Pages) /\ Distinct(r) /\ Range(r) = Range(s) \cup P

\* Removing a block from a free list and putting one on a free list.
LEMMA ListRemove ==
  ASSUME NEW fr \in [Queues -> Seq(Pages)], NEW sz, ListsOK(fr, sz), NEW fl \in Queues,
         NEW pg \in Range(fr[fl]), NEW r, Without(r, fr[fl], pg)
  PROVE  LET nfr == [fr EXCEPT ![fl] = r]
         IN  /\ nfr \in [Queues -> Seq(Pages)] /\ ListsOK(nfr, sz)
             /\ Listed(nfr) = Listed(fr) \ {pg} /\ pg \in Listed(fr)
<1> DEFINE nfr == [fr EXCEPT ![fl] = r]
<1>1. nfr \in [Queues -> Seq(Pages)] /\ nfr[fl] = r
      /\ \A k \in Queues : k # fl => nfr[k] = fr[k]
  BY DEF Without
<1> HIDE DEF nfr
<1>2. ListsOK(nfr, sz)
  BY <1>1 DEF ListsOK, Without
<1>3. \A k \in Queues : k # fl => pg \notin Range(fr[k])
  BY ListedOnce
<1>4. \A k \in Queues : Range(nfr[k]) = Range(fr[k]) \ {pg}
  BY <1>1, <1>3 DEF Without
<1>5. Listed(nfr) = Listed(fr) \ {pg} /\ pg \in Listed(fr)
  <2>1. \A x : x \in Listed(nfr) <=> \E k \in Queues : x \in Range(nfr[k])
    BY DEF Listed
  <2>2. \A x : x \in Listed(fr) <=> \E k \in Queues : x \in Range(fr[k])
    BY DEF Listed
  <2>3. \A x : x \in Listed(nfr) <=> x \in Listed(fr) /\ x # pg
    <3>1. \A k \in Queues : \A x : x \in Range(nfr[k]) <=> x \in Range(fr[k]) /\ x # pg
      BY <1>4
    <3> QED  BY <3>1, <2>1, <2>2
  <2>4. pg \in Listed(fr)
    BY <2>2
  <2> QED  BY <2>3, <2>4
<1> QED  BY <1>1, <1>2, <1>5 DEF nfr

LEMMA ListInsert ==
  ASSUME NEW fr \in [Queues -> Seq(Pages)], NEW sz, ListsOK(fr, sz), NEW fl \in Queues,
         NEW P, NEW r, WithAlso(r, fr[fl], P),
         SizedFor(P, sz, fl)
  PROVE  LET nfr == [fr EXCEPT ![fl] = r]
         IN  /\ nfr \in [Queues -> Seq(Pages)] /\ ListsOK(nfr, sz)
             /\ \A x : x \in Listed(nfr) <=> x \in Listed(fr) \/ x \in P
<1> DEFINE nfr == [fr EXCEPT ![fl] = r]
<1>1. nfr \in [Queues -> Seq(Pages)] /\ nfr[fl] = r
      /\ \A k \in Queues : k # fl => nfr[k] = fr[k]
  BY DEF WithAlso
<1> HIDE DEF nfr
<1>2. ListsOK(nfr, sz)
  BY <1>1 DEF ListsOK, WithAlso, SizedFor
<1>3. Listed(nfr) = Listed(fr) \cup P
  <2>1. \A k \in Queues : Range(fr[k]) \subseteq Range(nfr[k])
    BY <1>1 DEF WithAlso
  <2>2. \A k \in Queues : Range(nfr[k]) \subseteq Range(fr[k]) \cup P
    BY <1>1 DEF WithAlso
  <2>3. P \subseteq Range(nfr[fl])
    BY <1>1 DEF WithAlso
  <2> QED  BY <2>1, <2>2, <2>3 DEF Listed
<1>4. \A x : x \in Listed(nfr) <=> x \in Listed(fr) \/ x \in P
  BY <1>3
<1> QED  BY <1>1, <1>2, <1>4 DEF nfr

LEMMA ListResize ==
  ASSUME NEW fr, NEW sz, NEW nsz, ListsOK(fr, sz),
         \A pg \in Listed(fr) : nsz[pg] = sz[pg]
  PROVE  ListsOK(fr, nsz)
<1>1. \A fl \in Queues : \A pg \in Range(fr[fl]) : pg \in Listed(fr)
  BY DEF Listed
<1> QED  BY <1>1 DEF ListsOK

LEMMA HeadInserted ==
  ASSUME NEW s \in Seq(Pages), Distinct(s), NEW pg \in Pages, pg \notin Range(s)
  PROVE  LET r == <<pg>> \o s
         IN  /\ r \in Seq(Pages) /\ Distinct(r) /\ Range(r) = Range(s) \cup {pg}
             /\ Len(r) = Len(s) + 1 /\ r # <<>> /\ Head(r) = pg
<1> DEFINE r == <<pg>> \o s
<1>1. <<pg>> \in Seq(Pages) /\ Range(<<pg>>) = {pg} /\ Distinct(<<pg>>) /\ Len(<<pg>>) = 1
  BY DEF Range, Distinct
<1>2. Range(<<pg>>) \cap Range(s) = {}
  BY <1>1
<1>3. /\ r \in Seq(Pages) /\ Len(r) = 1 + Len(s)
      /\ Range(r) = {pg} \cup Range(s) /\ Distinct(r)
  <2> DEFINE p == <<pg>>
  <2>1. p \in Seq(Pages) /\ Range(p) = {pg} /\ Distinct(p) /\ Len(p) = 1
        /\ Range(p) \cap Range(s) = {} /\ r = p \o s
    BY <1>1, <1>2
  <2> HIDE DEF p, r
  <2>2. p \o s \in Seq(Pages) /\ Len(p \o s) = Len(p) + Len(s)
    BY <2>1, ConcatRange
  <2>3. Range(p \o s) = Range(p) \cup Range(s)
    BY <2>1, ConcatRange
  <2>4. Distinct(p \o s)
    BY <2>1, ConcatRange
  <2> QED  BY <2>1, <2>2, <2>3, <2>4
<1>4. Len(s) \in Nat /\ r[1] = pg
  BY <1>1, LenProperties
<1>5. r # <<>> /\ Head(r) = r[1]
  <2>1. Len(r) # 0
    BY <1>3, <1>4
  <2> HIDE DEF r
  <2> QED  BY <1>3, <2>1, EmptySeq, HeadTailProperties
<1> QED  BY <1>3, <1>4, <1>5

LEMMA TwoInserted ==
  ASSUME NEW s \in Seq(Pages), Distinct(s), NEW b \in Pages, NEW c \in Pages, b # c,
         b \notin Range(s), c \notin Range(s)
  PROVE  LET r == <<b, c>> \o s
         IN  /\ r \in Seq(Pages) /\ Distinct(r) /\ Range(r) = Range(s) \cup {b, c}
             /\ Len(r) = Len(s) + 2 /\ r # <<>> /\ Head(r) = b
<1> DEFINE p == <<b, c>>
           r == p \o s
<1>1. p \in Seq(Pages) /\ Distinct(p) /\ Range(p) = {b, c} /\ Len(p) = 2 /\ p[1] = b
  BY DEF Range, Distinct
<1>2. Range(p) \cap Range(s) = {}
  BY <1>1
<1> HIDE DEF p
<1>3. r \in Seq(Pages) /\ Len(r) = Len(p) + Len(s)
  BY <1>1, ConcatRange
<1>4. Range(r) = Range(p) \cup Range(s)
  BY <1>1, ConcatRange
<1>5. Distinct(r)
  BY <1>1, <1>2, ConcatRange
<1>6. Len(s) \in Nat
  BY LenProperties
<1>7. r[1] = b
  BY <1>1, <1>6, ConcatProperties
<1>8. r # <<>> /\ Head(r) = r[1]
  <2>1. Len(r) # 0
    BY <1>1, <1>3, <1>6
  <2> HIDE DEF r
  <2> QED  BY <1>3, <2>1, EmptySeq, HeadTailProperties
<1>9. Range(r) = Range(s) \cup {b, c} /\ Len(r) = Len(s) + 2
  BY <1>1, <1>3, <1>4, <1>6
<1> HIDE DEF r
<1>10. /\ r \in Seq(Pages) /\ Distinct(r) /\ Range(r) = Range(s) \cup {b, c}
       /\ Len(r) = Len(s) + 2 /\ r # <<>> /\ Head(r) = b
  BY <1>3, <1>5, <1>7, <1>8, <1>9
<1> QED  BY <1>10 DEF r, p

\* The first block of a free list.
LEMMA HeadFacts ==
  ASSUME NEW fr \in [Queues -> Seq(Pages)], NEW sz, ListsOK(fr, sz), NEW fl \in Queues,
         fr[fl] # <<>>
  PROVE  /\ Head(fr[fl]) \in Range(fr[fl]) /\ Head(fr[fl]) \in Pages
         /\ Head(fr[fl]) \in Listed(fr)
         /\ sz[Head(fr[fl])] = 2 ^ fl
         /\ Tail(fr[fl]) \in Seq(Pages) /\ Distinct(Tail(fr[fl]))
         /\ Range(Tail(fr[fl])) = Range(fr[fl]) \ {Head(fr[fl])}
         /\ Len(Tail(fr[fl])) = Len(fr[fl]) - 1 /\ Len(fr[fl]) \in Nat \ {0}
<1> DEFINE s == fr[fl]
<1>1. s \in Seq(Pages) /\ Distinct(s) /\ s # <<>> /\ \A pg \in Range(s) : sz[pg] = 2 ^ fl
  BY DEF ListsOK
<1>2. \A x \in Range(s) : x \in Listed(fr)
  BY DEF Listed
<1> HIDE DEF s
<1>3. /\ Tail(s) \in Seq(Pages) /\ Distinct(Tail(s))
      /\ Head(s) \in Pages /\ Head(s) \in Range(s)
      /\ Range(Tail(s)) = Range(s) \ {Head(s)}
  BY <1>1, TailRange
<1>4. Len(Tail(s)) = Len(s) - 1 /\ Len(s) \in Nat \ {0}
  BY <1>1, HeadTailProperties, EmptySeq, LenProperties
<1> QED  BY <1>1, <1>2, <1>3, <1>4 DEF s

-----------------------------------------------------------------------------
(* What the steps on blocks do to the state of pages and lists *)

\* pm_split_page
SplitOf(sz, mg, fr, pc, fl, nsz, nmg, nfr, npc) ==
  LET page  == Head(fr[fl])
      half  == sz[page] \div 2
      buddy == page + half
  IN  /\ nfr = [fr EXCEPT ![fl] = Tail(@), ![fl - 1] = <<buddy, page>> \o @]
      /\ npc = [pc EXCEPT ![fl] = @ - 1, ![fl - 1] = @ + 2]
      /\ nsz = [sz EXCEPT ![page] = half, ![buddy] = half]
      /\ nmg = mg \cup {buddy}

SplitResult(sz, fr, H, fl, nsz, nfr) ==
  LET page  == Head(fr[fl])
      half  == 2 ^ (fl - 1)
      buddy == page + half
  IN  /\ fl - 1 \in Queues /\ nfr[fl - 1] # <<>> /\ Head(nfr[fl - 1]) = buddy
      /\ Listed(nfr) = Listed(fr) \cup {buddy}
      /\ buddy \notin Listed(fr) \cup H /\ page \in Listed(fr)
      /\ sz[page] = 2 ^ fl /\ 2 ^ fl = 2 * half
      /\ nsz[page] = half /\ nsz[buddy] = half
      /\ \A x \in Listed(fr) \cup H : x # page => nsz[x] = sz[x]

\* A split keeps the partition, the lists, the flags and the counters in step.
LEMMA SplitCore ==
  ASSUME NEW sz, NEW al, NEW mg, NEW fr, NEW pc, NEW H,
         Core(sz, al, mg, fr, pc, H, {}),
         NEW fl \in Queues, fl > 0, fr[fl] # <<>>,
         NEW nsz1, NEW nmg1, NEW nfr1, NEW npc1,
         SplitOf(sz, mg, fr, pc, fl, nsz1, nmg1, nfr1, npc1)
  PROVE  Core(nsz1, al, nmg1, nfr1, npc1, H, {}) /\ SplitResult(sz, fr, H, fl, nsz1, nfr1)
<1> DEFINE g     == fl - 1
           page  == Head(fr[fl])
           half  == sz[page] \div 2
           buddy == page + half
           B     == Listed(fr) \cup H
           fr1   == [fr EXCEPT ![fl] = Tail(fr[fl])]
           new   == <<buddy, page>> \o fr1[g]
           nfr   == [fr1 EXCEPT ![g] = new]
           nsz   == [sz EXCEPT ![page] = half, ![buddy] = half]
           npc   == [pc EXCEPT ![fl] = @ - 1, ![g] = @ + 2]
<1>1. /\ sz \in [Pages -> Nat] /\ al \in SUBSET Pages /\ H \in SUBSET Pages
      /\ fr \in [Queues -> Seq(Pages)]
      /\ Tiles(B, sz) /\ ListsOK(fr, sz) /\ mg = Listed(fr)
      /\ pc = [k \in Queues |-> Len(fr[k])]
      /\ Listed(fr) \cap H = {} /\ FlagsOK(Listed(fr), H, sz, al)
  BY DEF Core
<1>2. /\ page \in Range(fr[fl]) /\ page \in Pages /\ page \in Listed(fr)
      /\ sz[page] = 2 ^ fl
      /\ Tail(fr[fl]) \in Seq(Pages) /\ Distinct(Tail(fr[fl]))
      /\ Range(Tail(fr[fl])) = Range(fr[fl]) \ {page}
      /\ Len(Tail(fr[fl])) = Len(fr[fl]) - 1 /\ Len(fr[fl]) \in Nat \ {0}
  BY <1>1, HeadFacts
<1>3. /\ g \in Queues /\ g # fl /\ 2 ^ g \in Nat \ {0}
      /\ 2 ^ fl = 2 * 2 ^ g
  <2>1. fl \in Nat /\ g \in Queues /\ 2 ^ fl = 2 * 2 ^ g /\ g # fl
    BY QueuePow
  <2> HIDE DEF g
  <2> QED  BY <2>1, QueuePow
<1> HIDE DEF g
<1>4. half = 2 ^ g
  <2> DEFINE h == 2 ^ g
  <2>1. h \in Nat /\ sz[page] = 2 * h
    BY <1>2, <1>3
  <2> HIDE DEF h, page
  <2>2. (2 * h) \div 2 = h
    BY <2>1
  <2> QED  BY <2>1, <2>2 DEF h
<1>5. /\ buddy \in Pages /\ buddy \notin B /\ nsz \in [Pages -> Nat]
      /\ Tiles(B \cup {buddy}, nsz)
      /\ nsz[page] = half /\ nsz[buddy] = half
      /\ \A x \in B : x # page => nsz[x] = sz[x]
      /\ Block(page, half) \subseteq Block(page, sz[page])
      /\ Block(buddy, half) \subseteq Block(page, sz[page])
  <2>1. B \in SUBSET Pages
    BY <1>1, ListTypes
  <2>2. page \in B /\ sz[page] = 2 * 2 ^ g
    BY <1>2, <1>3
  <2> HIDE DEF page, B, half
  <2> DEFINE h == 2 ^ g
             c == page + h
             ns == [sz EXCEPT ![page] = h, ![c] = h]
  <2>3. /\ c \in Pages /\ c \notin B /\ ns \in [Pages -> Nat]
        /\ Tiles(B \cup {c}, ns)
        /\ ns[page] = h /\ ns[c] = h
        /\ \A x \in B : x # page => ns[x] = sz[x]
        /\ Block(page, h) \subseteq Block(page, sz[page])
        /\ Block(c, h) \subseteq Block(page, sz[page])
    BY <1>1, <1>3, <2>1, <2>2, TilesSplit
  <2>4. h = half /\ c = buddy /\ ns = nsz
    BY <1>4
  <2> HIDE DEF h, c, ns
  <2> QED  BY <2>3, <2>4
<1> HIDE DEF page, half, buddy, nsz, B
<1>6. /\ fr1 \in [Queues -> Seq(Pages)] /\ ListsOK(fr1, sz)
      /\ Listed(fr1) = Listed(fr) \ {page}
  <2>1. Without(Tail(fr[fl]), fr[fl], page)
    BY <1>2 DEF Without
  <2> QED  BY <1>1, <1>2, <2>1, ListRemove
<1>7. /\ fr1[fl] = Tail(fr[fl]) /\ \A k \in Queues : k # fl => fr1[k] = fr[k]
  BY <1>1
<1> HIDE DEF fr1
<1>8. ListsOK(fr1, nsz)
  <2>1. \A x \in Listed(fr1) : nsz[x] = sz[x]
    BY <1>5, <1>6 DEF B
  <2> QED  BY <1>6, <2>1, ListResize
<1>9. /\ new \in Seq(Pages) /\ Distinct(new) /\ Range(new) = Range(fr1[g]) \cup {buddy, page}
      /\ Len(new) = Len(fr1[g]) + 2 /\ new # <<>> /\ Head(new) = buddy
  <2>1. fr1[g] \in Seq(Pages) /\ Distinct(fr1[g])
    BY <1>3, <1>8 DEF ListsOK
  <2>2. Range(fr1[g]) \subseteq Listed(fr1)
    BY <1>3 DEF Listed
  <2>3. buddy \notin Range(fr1[g]) /\ page \notin Range(fr1[g]) /\ buddy # page
    BY <1>2, <1>5, <1>6, <2>2 DEF B
  <2> QED  BY <1>2, <1>5, <2>1, <2>3, TwoInserted
<1> HIDE DEF new
<1>10. /\ nfr \in [Queues -> Seq(Pages)] /\ ListsOK(nfr, nsz)
       /\ Listed(nfr) = Listed(fr1) \cup {buddy, page}
  <2> DEFINE P == {buddy, page}
  <2>1. WithAlso(new, fr1[g], P) /\ SizedFor(P, nsz, g)
    BY <1>4, <1>5, <1>9 DEF WithAlso, SizedFor
  <2> HIDE DEF P
  <2>2. /\ nfr \in [Queues -> Seq(Pages)] /\ ListsOK(nfr, nsz)
        /\ Listed(nfr) = Listed(fr1) \cup P
    <3>1. nfr \in [Queues -> Seq(Pages)]
      BY <1>6, <1>9
    <3>2. ListsOK(nfr, nsz)
      BY <1>3, <1>6, <1>8, <2>1, ListInsert
    <3>3. \A x : x \in Listed(nfr) <=> x \in Listed(fr1) \/ x \in P
      BY <1>3, <1>6, <1>8, <2>1, ListInsert
    <3> QED  BY <3>1, <3>2, <3>3
  <2> QED  BY <2>2 DEF P
<1>11. /\ nfr[g] = new /\ nfr[fl] = Tail(fr[fl])
       /\ \A k \in Queues : k # fl /\ k # g => nfr[k] = fr[k]
       /\ fr1[g] = fr[g]
  BY <1>3, <1>6, <1>7
<1>12. nfr = [fr EXCEPT ![fl] = Tail(@), ![g] = <<buddy, page>> \o @]
  <2> DEFINE q == [fr EXCEPT ![fl] = Tail(@), ![g] = <<buddy, page>> \o @]
  <2>1. q = [[fr EXCEPT ![fl] = Tail(fr[fl])] EXCEPT ![g] = <<buddy, page>> \o fr[g]]
    BY <1>1, <1>3
  <2> QED  BY <2>1, <1>11 DEF new, fr1
<1> HIDE DEF nfr
<1>13. Listed(nfr) = Listed(fr) \cup {buddy}
  BY <1>2, <1>6, <1>10
<1>14. npc = [k \in Queues |-> Len(nfr[k])]
  <2>1. \A k \in Queues : Len(nfr[k]) = IF k = fl THEN Len(fr[fl]) - 1
                                       ELSE IF k = g THEN Len(fr[g]) + 2
                                       ELSE Len(fr[k])
    BY <1>2, <1>9, <1>11
  <2>2. \A k \in Queues : npc[k] = IF k = fl THEN Len(fr[fl]) - 1
                                  ELSE IF k = g THEN Len(fr[g]) + 2
                                  ELSE Len(fr[k])
    BY <1>1, <1>3
  <2>3. npc = [k \in Queues |-> npc[k]]
    BY <1>1
  <2> HIDE DEF npc
  <2> QED  BY <2>1, <2>2, <2>3
<1>15. Listed(nfr) \cup H = B \cup {buddy}
  BY <1>13 DEF B
<1>16. Listed(nfr) \cap H = {}
  BY <1>1, <1>5, <1>13 DEF B
<1>17. FlagsOK(Listed(nfr), H, nsz, al)
  <2>1. \A b \in Listed(fr) : Block(b, sz[b]) \cap al = {}
    BY <1>1 DEF FlagsOK
  <2>2. \A b \in H : Block(b, sz[b]) \subseteq al
    BY <1>1 DEF FlagsOK
  <2>3. \A b \in H : b # page
    BY <1>1, <1>2
  <2>4. \A b \in H : Block(b, nsz[b]) \subseteq al
    BY <1>5, <2>2, <2>3 DEF B
  <2>5. Block(page, nsz[page]) \cap al = {} /\ Block(buddy, nsz[buddy]) \cap al = {}
    BY <1>2, <1>5, <2>1
  <2>6. \A b \in Listed(fr) : b # page => Block(b, nsz[b]) \cap al = {}
    BY <1>5, <2>1 DEF B
  <2> QED  BY <1>13, <2>4, <2>5, <2>6 DEF FlagsOK
<1>18. Core(nsz, al, mg \cup {buddy}, nfr, npc, H, {})
  <2>1. H \ {} = H
    OBVIOUS
  <2> HIDE DEF npc
  <2> QED  BY <2>1, <1>1, <1>5, <1>10, <1>13, <1>14, <1>15, <1>16, <1>17 DEF Core
<1> HIDE DEF npc
<1>19. SplitResult(sz, fr, H, fl, nsz, nfr)
  <2>1. /\ g \in Queues /\ nfr[g] # <<>> /\ Head(nfr[g]) = buddy
        /\ Listed(nfr) = Listed(fr) \cup {buddy}
        /\ buddy \notin Listed(fr) \cup H /\ page \in Listed(fr)
        /\ half = 2 ^ g /\ sz[page] = 2 ^ fl /\ 2 ^ fl = 2 * half
        /\ nsz[page] = half /\ nsz[buddy] = half
        /\ \A x \in Listed(fr) \cup H : x # page => nsz[x] = sz[x]
    BY <1>2, <1>3, <1>4, <1>5, <1>9, <1>11, <1>13, <1>18 DEF B
  <2>2. buddy = page + half
    BY DEF buddy
  <2> QED  BY <2>1, <2>2 DEF SplitResult, g, page
<1>20. nsz1 = nsz /\ nmg1 = mg \cup {buddy} /\ nfr1 = nfr /\ npc1 = npc
  BY <1>12 DEF SplitOf, page, half, buddy, nsz, npc, g
<1> QED  BY <1>18, <1>19, <1>20

\* pm_take_page
TakeOf(sz, al, mg, fr, pc, fl, nal, nmg, nfr, npc) ==
  LET page == Head(fr[fl])
  IN  /\ nfr = [fr EXCEPT ![fl] = Tail(@)]
      /\ npc = [pc EXCEPT ![fl] = @ - 1]
      /\ nmg = mg \ {page}
      /\ nal = al \cup Block(page, sz[page])

TakeResult(sz, fr, H, fl, nfr) ==
  LET page == Head(fr[fl])
  IN  /\ Listed(nfr) = Listed(fr) \ {page}
      /\ page \in Pages /\ page \in Listed(fr) /\ page \notin H
      /\ sz[page] = 2 ^ fl

\* So does taking a block from its list,
LEMMA TakeCore ==
  ASSUME NEW sz, NEW al, NEW mg, NEW fr, NEW pc, NEW H,
         Core(sz, al, mg, fr, pc, H, {}),
         NEW fl \in Queues, fr[fl] # <<>>,
         NEW nal1, NEW nmg1, NEW nfr1, NEW npc1,
         TakeOf(sz, al, mg, fr, pc, fl, nal1, nmg1, nfr1, npc1)
  PROVE  /\ Core(sz, nal1, nmg1, nfr1, npc1, H \cup {Head(fr[fl])}, {})
         /\ TakeResult(sz, fr, H, fl, nfr1)
<1> DEFINE page == Head(fr[fl])
           nfr  == [fr EXCEPT ![fl] = Tail(fr[fl])]
           npc  == [pc EXCEPT ![fl] = @ - 1]
           B    == Listed(fr) \cup H
           nal  == al \cup Block(page, sz[page])
<1>1. /\ sz \in [Pages -> Nat] /\ al \in SUBSET Pages /\ H \in SUBSET Pages
      /\ fr \in [Queues -> Seq(Pages)]
      /\ Tiles(B, sz) /\ ListsOK(fr, sz) /\ mg = Listed(fr)
      /\ pc = [k \in Queues |-> Len(fr[k])]
      /\ Listed(fr) \cap H = {} /\ FlagsOK(Listed(fr), H, sz, al)
  BY DEF Core
<1>2. /\ page \in Range(fr[fl]) /\ page \in Pages /\ page \in Listed(fr)
      /\ sz[page] = 2 ^ fl
      /\ Tail(fr[fl]) \in Seq(Pages) /\ Distinct(Tail(fr[fl]))
      /\ Range(Tail(fr[fl])) = Range(fr[fl]) \ {page}
      /\ Len(Tail(fr[fl])) = Len(fr[fl]) - 1 /\ Len(fr[fl]) \in Nat \ {0}
  BY <1>1, HeadFacts
<1>3. B \in SUBSET Pages
  BY <1>1, ListTypes
<1> HIDE DEF page
<1>4. /\ nfr \in [Queues -> Seq(Pages)] /\ ListsOK(nfr, sz)
      /\ Listed(nfr) = Listed(fr) \ {page}
  <2>1. Without(Tail(fr[fl]), fr[fl], page)
    BY <1>2 DEF Without
  <2> QED  BY <1>1, <1>2, <2>1, ListRemove
<1>5. npc = [k \in Queues |-> Len(nfr[k])]
  <2>1. \A k \in Queues : Len(nfr[k]) = IF k = fl THEN Len(fr[fl]) - 1 ELSE Len(fr[k])
    BY <1>1, <1>2
  <2>2. \A k \in Queues : npc[k] = IF k = fl THEN Len(fr[fl]) - 1 ELSE Len(fr[k])
    BY <1>1
  <2>3. npc = [k \in Queues |-> npc[k]]
    BY <1>1
  <2> HIDE DEF npc, nfr
  <2> QED  BY <2>1, <2>2, <2>3
<1> HIDE DEF npc, nfr
<1>6. page \notin H /\ Listed(nfr) \cup (H \cup {page}) = B
  BY <1>1, <1>2, <1>4 DEF B
<1>7. Listed(nfr) \cap (H \cup {page}) = {}
  BY <1>1, <1>4
<1>8. nal \in SUBSET Pages
  <2>1. page \in B
    BY <1>2
  <2>2. Block(page, sz[page]) \subseteq Pages
    <3> HIDE DEF B
    <3> QED  BY <1>1, <1>3, <2>1, TileFacts
  <2> QED  BY <1>1, <2>2
<1>9. FlagsOK(Listed(nfr), H \cup {page}, sz, nal)
  <2>1. \A b \in Listed(nfr) : Block(b, sz[b]) \cap nal = {}
    <3> SUFFICES ASSUME NEW b \in Listed(nfr) PROVE Block(b, sz[b]) \cap nal = {}
      OBVIOUS
    <3>1. b \in B /\ page \in B /\ b # page /\ Block(b, sz[b]) \cap al = {}
      BY <1>1, <1>2, <1>4 DEF FlagsOK
    <3>2. Block(b, sz[b]) \cap Block(page, sz[page]) = {}
      <4> HIDE DEF B
      <4> QED  BY <1>1, <1>3, <3>1, TilesApart
    <3> QED  BY <3>1, <3>2
  <2>2. \A b \in H \cup {page} : Block(b, sz[b]) \subseteq nal
    BY <1>1 DEF FlagsOK
  <2> QED  BY <2>1, <2>2 DEF FlagsOK
<1>10. Core(sz, nal, mg \ {page}, nfr, npc, H \cup {page}, {})
  <2>1. (H \cup {page}) \ {} = H \cup {page} /\ H \cup {page} \in SUBSET Pages
    BY <1>1, <1>2
  <2> HIDE DEF nal
  <2> QED  BY <2>1, <1>1, <1>4, <1>5, <1>6, <1>7, <1>8, <1>9 DEF Core
<1>11. nal1 = nal /\ nmg1 = mg \ {page} /\ nfr1 = nfr /\ npc1 = npc
  BY DEF TakeOf, page, nal, nfr, npc
<1>12. TakeResult(sz, fr, H, fl, nfr)
  BY <1>2, <1>4, <1>6 DEF TakeResult, page
<1> HIDE DEF nal
<1> QED  BY <1>10, <1>11, <1>12 DEF page

\* The rest of pm_free_from_seg, for a block that goes to list fl.
InsertOf(page, sz, al, mg, fr, pc, fl, nal, nmg, nfr, npc) ==
  /\ nfr = [fr EXCEPT ![fl] = <<page>> \o @]
  /\ npc = [pc EXCEPT ![fl] = @ + 1]
  /\ nmg = mg \cup {page}
  /\ nal = al \ Block(page, sz[page])

\* putting one back,
LEMMA InsertCore ==
  ASSUME NEW sz, NEW al, NEW mg, NEW fr, NEW pc, NEW H, NEW page \in H,
         Core(sz, al, mg, fr, pc, H, {page}),
         NEW fl \in Queues, sz[page] = 2 ^ fl,
         NEW nal1, NEW nmg1, NEW nfr1, NEW npc1,
         InsertOf(page, sz, al, mg, fr, pc, fl, nal1, nmg1, nfr1, npc1)
  PROVE  /\ Core(sz, nal1, nmg1, nfr1, npc1, H \ {page}, {})
         /\ Listed(nfr1) = Listed(fr) \cup {page}
<1> DEFINE new == <<page>> \o fr[fl]
           nfr == [fr EXCEPT ![fl] = new]
           npc == [pc EXCEPT ![fl] = @ + 1]
           B   == Listed(fr) \cup H
           nal == al \ Block(page, sz[page])
<1>1. /\ sz \in [Pages -> Nat] /\ al \in SUBSET Pages /\ H \in SUBSET Pages
      /\ fr \in [Queues -> Seq(Pages)]
      /\ Tiles(B, sz) /\ ListsOK(fr, sz) /\ mg = Listed(fr)
      /\ pc = [k \in Queues |-> Len(fr[k])]
      /\ Listed(fr) \cap H = {} /\ FlagsOK(Listed(fr), H \ {page}, sz, al)
  BY DEF Core
<1>2. B \in SUBSET Pages /\ page \in B /\ page \in Pages /\ page \notin Listed(fr)
  BY <1>1, ListTypes
<1>3. page \notin Range(fr[fl]) /\ fr[fl] \in Seq(Pages) /\ Distinct(fr[fl])
  BY <1>1, <1>2 DEF ListsOK, Listed
<1>4. /\ new \in Seq(Pages) /\ Distinct(new) /\ Range(new) = Range(fr[fl]) \cup {page}
      /\ Len(new) = Len(fr[fl]) + 1
  BY <1>2, <1>3, HeadInserted
<1> HIDE DEF new
<1>5. nfr \in [Queues -> Seq(Pages)] /\ ListsOK(nfr, sz) /\ Listed(nfr) = Listed(fr) \cup {page}
  <2> DEFINE P == {page}
  <2>1. WithAlso(new, fr[fl], P) /\ SizedFor(P, sz, fl)
    BY <1>4 DEF WithAlso, SizedFor
  <2> HIDE DEF P
  <2>2. nfr \in [Queues -> Seq(Pages)]
    BY <1>1, <1>4
  <2>3. ListsOK(nfr, sz)
    BY <1>1, <2>1, ListInsert
  <2>4. \A x : x \in Listed(nfr) <=> x \in Listed(fr) \/ x \in P
    BY <1>1, <2>1, ListInsert
  <2> QED  BY <2>2, <2>3, <2>4 DEF P
<1>6. npc = [k \in Queues |-> Len(nfr[k])]
  <2>1. \A k \in Queues : Len(nfr[k]) = IF k = fl THEN Len(fr[fl]) + 1 ELSE Len(fr[k])
    BY <1>1, <1>4
  <2>2. \A k \in Queues : npc[k] = IF k = fl THEN Len(fr[fl]) + 1 ELSE Len(fr[k])
    BY <1>1
  <2>3. npc = [k \in Queues |-> npc[k]]
    BY <1>1
  <2> HIDE DEF npc, nfr
  <2> QED  BY <2>1, <2>2, <2>3
<1> HIDE DEF npc, nfr
<1>7. Listed(nfr) \cup (H \ {page}) = B
  BY <1>5 DEF B
<1>8. Listed(nfr) \cap (H \ {page}) = {}
  BY <1>1, <1>5
<1>9. FlagsOK(Listed(nfr), H \ {page}, sz, nal)
  <2>1. \A b \in Listed(nfr) : Block(b, sz[b]) \cap nal = {}
    BY <1>1, <1>5 DEF FlagsOK
  <2>2. \A b \in H \ {page} : Block(b, sz[b]) \subseteq nal
    <3> SUFFICES ASSUME NEW b \in H \ {page} PROVE Block(b, sz[b]) \subseteq nal
      OBVIOUS
    <3>1. b \in B /\ b # page /\ Block(b, sz[b]) \subseteq al
      BY <1>1 DEF FlagsOK
    <3>2. Block(b, sz[b]) \cap Block(page, sz[page]) = {}
      <4> HIDE DEF B
      <4> QED  BY <1>1, <1>2, <3>1, TilesApart
    <3> QED  BY <3>1, <3>2
  <2> QED  BY <2>1, <2>2 DEF FlagsOK
<1>10. Core(sz, nal, mg \cup {page}, nfr, npc, H \ {page}, {})
  <2>1. (H \ {page}) \ {} = H \ {page} /\ H \ {page} \in SUBSET Pages
        /\ nal \in SUBSET Pages
    BY <1>1
  <2> HIDE DEF nal
  <2> QED  BY <2>1, <1>1, <1>5, <1>6, <1>7, <1>8, <1>9 DEF Core
<1>11. nal1 = nal /\ nmg1 = mg \cup {page} /\ nfr1 = nfr /\ npc1 = npc
  BY DEF InsertOf, nfr, npc, new
<1> HIDE DEF nal
<1> QED  BY <1>5, <1>10, <1>11

\* One turn of the loop of pm_free_from_seg: block page is merged with c, which
\* is on free list k.
MergeOf(page, c, sz, mg, fr, pc, k, nsz, nmg, nfr, npc) ==
  /\ nfr = [fr EXCEPT ![k] = TAILQ_REMOVE(@, c)]
  /\ npc = [pc EXCEPT ![k] = @ - 1]
  /\ nmg = mg \ {c}
  /\ nsz = [sz EXCEPT ![AtMost(page, c)] = 2 * sz[page]]

Adjacent(page, c, k, sz) ==
  /\ sz[c] = 2 ^ k /\ sz[page] = 2 ^ k
  /\ SegOf(c) = SegOf(page)
  /\ c + 2 ^ k = page \/ page + 2 ^ k = c

MergeResult(page, c, k, sz, fr, H, nsz, nfr) ==
  LET m == AtMost(page, c)
  IN  /\ Listed(nfr) = Listed(fr) \ {c}
      /\ nsz[m] = 2 * 2 ^ k
      /\ \A x \in Listed(fr) \cup H : x # m => nsz[x] = sz[x]

\* and merging a block with its buddy.
LEMMA MergeCore ==
  ASSUME SmallSegs,
         NEW sz, NEW al, NEW mg, NEW fr, NEW pc, NEW H, NEW page \in H,
         Core(sz, al, mg, fr, pc, H, {page}),
         NEW c \in Listed(fr), NEW k \in Queues, Adjacent(page, c, k, sz),
         NEW nsz1, NEW nmg1, NEW nfr1, NEW npc1,
         MergeOf(page, c, sz, mg, fr, pc, k, nsz1, nmg1, nfr1, npc1)
  PROVE  /\ Core(nsz1, al, nmg1, nfr1, npc1,
                 (H \ {page}) \cup {AtMost(page, c)}, {AtMost(page, c)})
         /\ AtMost(page, c) \in {page, c}
         /\ MergeResult(page, c, k, sz, fr, H, nsz1, nfr1)
<1>0. /\ sz[c] = 2 ^ k /\ sz[page] = 2 ^ k
      /\ SegOf(c) = SegOf(page)
      /\ c + 2 ^ k = page \/ page + 2 ^ k = c
  BY DEF Adjacent
<1> DEFINE m   == AtMost(page, c)
           o   == IF m = page THEN c ELSE page
           rem == TAILQ_REMOVE(fr[k], c)
           nfr == [fr EXCEPT ![k] = rem]
           npc == [pc EXCEPT ![k] = @ - 1]
           nsz == [sz EXCEPT ![m] = 2 * sz[page]]
           nH  == (H \ {page}) \cup {m}
           B   == Listed(fr) \cup H
<1>1. /\ sz \in [Pages -> Nat] /\ al \in SUBSET Pages /\ H \in SUBSET Pages
      /\ fr \in [Queues -> Seq(Pages)]
      /\ Tiles(B, sz) /\ ListsOK(fr, sz) /\ mg = Listed(fr)
      /\ pc = [j \in Queues |-> Len(fr[j])]
      /\ Listed(fr) \cap H = {} /\ FlagsOK(Listed(fr), H \ {page}, sz, al)
  BY DEF Core
<1>2. /\ B \in SUBSET Pages /\ page \in B /\ c \in B /\ page \notin Listed(fr)
      /\ c \notin H /\ page \in Nat /\ c \in Nat
  BY <1>1, ListTypes, PagesNat
<1>3. c \in Range(fr[k])
  <2>1. PICK j \in Queues : sz[c] = 2 ^ j /\ c \in Range(fr[j])
    BY <1>1, ListTypes
  <2>2. j = k
    <3>1. j \in Nat /\ k \in Nat
      BY QueuePow
    <3> QED  BY <1>0, <2>1, <3>1, PowOrder
  <2> QED  BY <2>1, <2>2
<1>4. /\ rem \in Seq(Pages) /\ Distinct(rem) /\ Range(rem) = Range(fr[k]) \ {c}
      /\ Len(rem) = Len(fr[k]) - 1
  <2> DEFINE s == fr[k]
             i == IndexOf(s, c)
  <2>1. s \in Seq(Pages) /\ Distinct(s) /\ c \in Range(s)
    BY <1>1, <1>3 DEF ListsOK
  <2> HIDE DEF s
  <2>2. i \in 1 .. Len(s) /\ s[i] = c
    BY <2>1, IndexOfProperty
  <2> HIDE DEF i
  <2>3. Len(RemoveAt(s, i)) = Len(s) - 1
    BY <2>1, <2>2, RemoveAtRange
  <2>4. /\ TAILQ_REMOVE(s, c) \in Seq(Pages) /\ Distinct(TAILQ_REMOVE(s, c))
        /\ Range(TAILQ_REMOVE(s, c)) = Range(s) \ {c}
    BY <2>1, RemoveRange
  <2>5. TAILQ_REMOVE(s, c) = RemoveAt(s, i)
    BY DEF TAILQ_REMOVE, i
  <2> QED  BY <2>3, <2>4, <2>5 DEF s
<1> HIDE DEF rem
<1>5. /\ nfr \in [Queues -> Seq(Pages)] /\ ListsOK(nfr, sz)
      /\ Listed(nfr) = Listed(fr) \ {c}
  <2>1. Without(rem, fr[k], c)
    BY <1>4 DEF Without
  <2> QED  BY <1>1, <1>3, <2>1, ListRemove
<1>6. npc = [j \in Queues |-> Len(nfr[j])]
  <2>1. \A j \in Queues : Len(nfr[j]) = IF j = k THEN Len(fr[k]) - 1 ELSE Len(fr[j])
    BY <1>1, <1>4
  <2>2. \A j \in Queues : npc[j] = IF j = k THEN Len(fr[k]) - 1 ELSE Len(fr[j])
    BY <1>1
  <2>3. npc = [j \in Queues |-> npc[j]]
    BY <1>1
  <2> HIDE DEF npc, nfr
  <2> QED  BY <2>1, <2>2, <2>3
<1>7. /\ m \in {page, c} /\ o \in {page, c} /\ m # o /\ m + 2 ^ k = o
      /\ m \in Pages /\ SegOf(m) = SegOf(o) /\ sz[m] = 2 ^ k /\ sz[o] = 2 ^ k
  <2>1. 2 ^ k \in Nat \ {0}
    BY QueuePow
  <2>2. CASE c + 2 ^ k = page
    <3>1. m = c /\ o = page
      BY <1>2, <2>1, <2>2 DEF AtMost
    <3> QED  BY <1>0, <1>2, <2>1, <2>2, <3>1
  <2>3. CASE page + 2 ^ k = c
    <3>1. m = page /\ o = c
      BY <1>2, <2>1, <2>3 DEF AtMost
    <3> QED  BY <1>0, <1>2, <2>1, <2>3, <3>1
  <2> QED  BY <1>0, <2>2, <2>3
<1>8. nsz = [sz EXCEPT ![m] = 2 * 2 ^ k] /\ nsz[m] = 2 * 2 ^ k
  BY <1>0, <1>1, <1>7
<1> HIDE DEF m, o, npc, nfr
<1>9. /\ nsz \in [Pages -> Nat] /\ Tiles(B \ {o}, nsz)
      /\ \A x \in B : x # m => nsz[x] = sz[x]
  <2>1. m \in B /\ o \in B
    BY <1>2, <1>7
  <2> HIDE DEF B, nsz
  <2> DEFINE ns == [sz EXCEPT ![m] = 2 * 2 ^ k]
  <2>2. B \in SUBSET Pages /\ sz \in [Pages -> Nat] /\ Tiles(B, sz)
    BY <1>1, <1>2
  <2>3. /\ ns \in [Pages -> Nat] /\ Tiles(B \ {o}, ns)
        /\ \A x \in B : x # m => ns[x] = sz[x]
    <3>1. ns \in [Pages -> Nat]
      BY <1>7, <2>1, <2>2, TilesMerge
    <3>2. Tiles(B \ {o}, ns)
      <4>1. Neighbours(m, o, k, sz)
        BY <1>7 DEF Neighbours
      <4> QED  BY <4>1, <2>1, <2>2, TilesMerge
    <3>3. \A x \in B : x # m => ns[x] = sz[x]
      BY <2>2
    <3> QED  BY <3>1, <3>2, <3>3
  <2> HIDE DEF ns
  <2>4. nsz = ns
    BY <1>8 DEF ns
  <2> QED  BY <2>3, <2>4
<1> HIDE DEF nsz
<1>10. Listed(nfr) \cup nH = B \ {o}
  BY <1>2, <1>5, <1>7 DEF B
<1>11. Listed(nfr) \cap nH = {}
  BY <1>1, <1>2, <1>5, <1>7
<1>12. ListsOK(nfr, nsz)
  <2>1. \A x \in Listed(nfr) : x \in B /\ x # m
    BY <1>2, <1>5, <1>7
  <2>2. \A x \in Listed(nfr) : nsz[x] = sz[x]
    BY <2>1, <1>9
  <2> QED  BY <2>2, <1>5, ListResize
<1>13. FlagsOK(Listed(nfr), nH \ {m}, nsz, al)
  <2>1. \A b \in Listed(nfr) : b \in Listed(fr) /\ b # m
    BY <1>2, <1>5, <1>7
  <2>2. \A b \in nH \ {m} : b \in H \ {page} /\ b # m
    OBVIOUS
  <2>3. \A b \in Listed(nfr) \cup (nH \ {m}) : nsz[b] = sz[b]
    BY <1>9, <2>1, <2>2
  <2> QED  BY <1>1, <2>1, <2>2, <2>3 DEF FlagsOK
<1>14. Core(nsz, al, mg \ {c}, nfr, npc, nH, {m})
  <2>1. nH \in SUBSET Pages
    BY <1>1, <1>7
  <2> HIDE DEF nH
  <2> QED  BY <2>1, <1>1, <1>5, <1>6, <1>9, <1>10, <1>11, <1>12, <1>13 DEF Core
<1>15. nsz1 = nsz /\ nmg1 = mg \ {c} /\ nfr1 = nfr /\ npc1 = npc
  BY DEF MergeOf, m, nsz, nfr, npc, rem
<1>16. MergeResult(page, c, k, sz, fr, H, nsz, nfr)
  BY <1>5, <1>8, <1>9 DEF MergeResult, m
<1> QED  BY <1>7, <1>14, <1>15, <1>16 DEF m

-----------------------------------------------------------------------------
(* The sums of vm_pagelist_alloc *)

IsSums(f, pc, n) ==
  /\ DOMAIN f = 0 .. n
  /\ \A fl \in 0 .. n : f[fl] = pc[fl] * 2 ^ fl + (IF fl = 0 THEN 0 ELSE f[fl - 1])

\* The sums over the free lists are well defined.
LEMMA SumsExist ==
  ASSUME NEW pc \in [Queues -> Nat], NEW N \in Queues
  PROVE  \E f : IsSums(f, pc, N)
<1> DEFINE G == {n \in 0 .. N : \E f : IsSums(f, pc, n)}
<1>0. N \in Nat /\ \A n \in 0 .. N : n \in Queues
  BY PhysmemAssumption DEF Queues
<1>1. 0 \in G
  <2> DEFINE f == [k \in 0 .. 0 |-> pc[0] * 2 ^ 0 + 0]
  <2>1. IsSums(f, pc, 0)
    BY DEF IsSums
  <2> HIDE DEF f
  <2> QED  BY <1>0, <2>1
<1>2. \A n \in 0 .. N : n < N /\ n \in G => n + 1 \in G
  <2> SUFFICES ASSUME NEW n \in 0 .. N, n < N, n \in G PROVE n + 1 \in G
    OBVIOUS
  <2>1. PICK f : IsSums(f, pc, n)
    OBVIOUS
  <2> DEFINE g == [k \in 0 .. n + 1 |->
                     IF k = n + 1 THEN pc[n + 1] * 2 ^ (n + 1) + f[n] ELSE f[k]]
  <2>2. n \in Nat /\ n + 1 \in 0 .. N
    BY <1>0
  <2>3. DOMAIN g = 0 .. n + 1
    OBVIOUS
  <2>4. \A k \in 0 .. n : g[k] = f[k]
    BY <2>2
  <2>5. g[n + 1] = pc[n + 1] * 2 ^ (n + 1) + g[n]
    BY <2>2
  <2>6. \A k \in 0 .. n + 1 : g[k] = pc[k] * 2 ^ k + (IF k = 0 THEN 0 ELSE g[k - 1])
    <3> SUFFICES ASSUME NEW k \in 0 .. n + 1
                 PROVE  g[k] = pc[k] * 2 ^ k + (IF k = 0 THEN 0 ELSE g[k - 1])
      OBVIOUS
    <3> HIDE DEF g
    <3>1. CASE k = n + 1
      <4>1. k # 0 /\ k - 1 = n
        BY <2>2, <3>1
      <4> QED  BY <2>5, <3>1, <4>1
    <3>2. CASE k # n + 1
      <4>1. k \in 0 .. n /\ (k # 0 => k - 1 \in 0 .. n)
        BY <2>2, <3>2
      <4>2. f[k] = pc[k] * 2 ^ k + (IF k = 0 THEN 0 ELSE f[k - 1])
        BY <2>1, <4>1 DEF IsSums
      <4> QED  BY <2>4, <4>1, <4>2
    <3> QED  BY <3>1, <3>2
  <2>7. IsSums(g, pc, n + 1)
    <3> HIDE DEF g
    <3> QED  BY <2>3, <2>6 DEF IsSums
  <2> HIDE DEF g
  <2> QED  BY <2>2, <2>7
<1> HIDE DEF G
<1>3. \A n \in 0 .. N : n \in G
  BY <1>0, <1>1, <1>2, Stepwise
<1>4. N \in G
  BY <1>0, <1>3
<1> QED  BY <1>4 DEF G

LEMMA SumsUnfold ==
  ASSUME pagecount \in [Queues -> Nat]
  PROVE  /\ Sums \in [Queues -> Nat]
         /\ \A fl \in Queues :
              Sums[fl] = pagecount[fl] * 2 ^ fl + (IF fl = 0 THEN 0 ELSE Sums[fl - 1])
<1> DEFINE N == NQueues - 1
           E(s) == [fl \in Queues |->
                      pagecount[fl] * 2 ^ fl + (IF fl = 0 THEN 0 ELSE s[fl - 1])]
<1>1. N \in Queues /\ Queues = 0 .. N /\ N \in Nat
  BY PhysmemAssumption DEF Queues
<1>2. \E f : f = E(f)
  <2>1. PICK f : IsSums(f, pagecount, N)
    BY <1>1, SumsExist
  <2> DEFINE g == [fl \in Queues |-> f[fl]]
  <2>2. \A fl \in Queues : g[fl] = pagecount[fl] * 2 ^ fl + (IF fl = 0 THEN 0 ELSE g[fl - 1])
    <3> SUFFICES ASSUME NEW fl \in Queues
                 PROVE  g[fl] = pagecount[fl] * 2 ^ fl + (IF fl = 0 THEN 0 ELSE g[fl - 1])
      OBVIOUS
    <3>1. f[fl] = pagecount[fl] * 2 ^ fl + (IF fl = 0 THEN 0 ELSE f[fl - 1])
      BY <1>1, <2>1 DEF IsSums
    <3>2. fl # 0 => fl - 1 \in Queues
      BY <1>1
    <3> QED  BY <3>1, <3>2
  <2>3. g = E(g)
    BY <2>2
  <2> HIDE DEF g
  <2> QED  BY <2>3
<1>3. Sums = E(Sums)
  BY <1>2 DEF Sums
<1>4. \A fl \in Queues :
        Sums[fl] = pagecount[fl] * 2 ^ fl + (IF fl = 0 THEN 0 ELSE Sums[fl - 1])
  BY <1>3
<1>5. DOMAIN Sums = Queues /\ Sums = [fl \in Queues |-> Sums[fl]]
  BY <1>3
<1> DEFINE G == {n \in 0 .. N : Sums[n] \in Nat}
<1>6. \A n \in 0 .. N : pagecount[n] * 2 ^ n \in Nat
  BY <1>1, QueuePow
<1>7. 0 \in G
  BY <1>1, <1>4, <1>6
<1>8. \A n \in 0 .. N : n < N /\ n \in G => n + 1 \in G
  <2> SUFFICES ASSUME NEW n \in 0 .. N, n < N, n \in G PROVE n + 1 \in G
    OBVIOUS
  <2>1. n + 1 \in 0 .. N /\ n + 1 # 0 /\ (n + 1) - 1 = n
    BY <1>1
  <2>2. Sums[n + 1] = pagecount[n + 1] * 2 ^ (n + 1) + Sums[n]
    BY <1>1, <1>4, <2>1
  <2> QED  BY <1>6, <2>1, <2>2
<1>9. \A n \in 0 .. N : n \in G
  <2>1. N \in Int
    BY <1>1
  <2> HIDE DEF G, N
  <2> QED  BY <2>1, <1>7, <1>8, Stepwise
<1>10. \A n \in Queues : Sums[n] \in Nat
  BY <1>1, <1>9
<1> QED  BY <1>4, <1>5, <1>10

-----------------------------------------------------------------------------
(* The state as the invariant sees it *)

LEMMA Views ==
  /\ OnLists = Listed(freelist) /\ OnLists' = Listed(freelist')
  /\ InHands = HeldPages \cup CallPages \cup Merging
  /\ InHands' = HeldPages' \cup CallPages' \cup Merging'
  /\ held' = held => HeldPages' = HeldPages
  BY DEF OnLists, Listed, InHands, HeldPages

\* The fields of the call under way.
LEMMA OpFacts ==
  ASSUME op \in OpType
  PROVE  /\ op.kind \in {"none", "page", "list", "free"}
         /\ op.kind = "none" <=> Idle
         /\ op.kind = "page" =>
              op = [kind |-> "page", n |-> op.n, fl |-> op.fl] /\ op.n \in Nat /\ op.fl \in Queues
         /\ op.kind = "list" =>
              /\ op = [kind |-> "list", n |-> op.n, fl |-> op.fl, sums |-> op.sums,
                       pglist |-> op.pglist]
              /\ op.n \in Nat /\ op.fl \in Queues /\ op.sums \in [Queues -> Nat]
              /\ op.pglist \in Seq(Pages)
         /\ op.kind = "free" =>
              /\ op = [kind |-> "free", page |-> op.page, pglist |-> op.pglist]
              /\ op.page \in Pages /\ op.pglist \in Seq(Pages)
<1>1. CASE op = NoOp
  BY <1>1 DEF NoOp, Idle
<1>2. CASE op \in [kind : {"page"}, n : Nat, fl : Queues]
  BY <1>2 DEF NoOp, Idle
<1>3. CASE op \in [kind : {"list"}, n : Nat, fl : Queues, sums : [Queues -> Nat],
                   pglist : Seq(Pages)]
  BY <1>3 DEF NoOp, Idle
<1>4. CASE op \in [kind : {"free"}, page : Pages, pglist : Seq(Pages)]
  BY <1>4 DEF NoOp, Idle
<1> QED  BY <1>1, <1>2, <1>3, <1>4 DEF OpType

\* What the invariant says when op is of each kind.
LEMMA HandsByKind ==
  /\ op.kind \in {"none", "page"} => CallPages = {} /\ Merging = {}
  /\ op.kind = "list" => CallPages = Range(op.pglist) /\ Merging = {}
  /\ op.kind = "free" => CallPages = Range(op.pglist) /\ Merging = {op.page}
  BY DEF CallPages, Merging

LEMMA HandsByKindNext ==
  /\ op'.kind \in {"none", "page"} => CallPages' = {} /\ Merging' = {}
  /\ op'.kind = "list" => CallPages' = Range(op'.pglist) /\ Merging' = {}
  /\ op'.kind = "free" => CallPages' = Range(op'.pglist) /\ Merging' = {op'.page}
  BY DEF CallPages, Merging

LEMMA EmptyRange == Range(<<>>) = {} /\ Distinct(<<>>)
  BY DEF Range, Distinct

-----------------------------------------------------------------------------
(* Each step preserves the invariant *)

LEMMA PageAllocKeeps ==
  ASSUME IInv, vm_page_alloc
  PROVE  IInv' /\ InHands' = InHands
<1>1. PICK n \in Queues, fl \in Queues :
        n <= fl /\ freelist[fl] # <<>> /\ op' = [kind |-> "page", n |-> n, fl |-> fl]
  BY DEF vm_page_alloc
<1>2. op.kind = "none" /\ UNCHANGED <<size, allocated, managed, lists, held>>
  BY DEF vm_page_alloc, Idle, NoOp
<1>3. op'.kind = "page" /\ op'.n = n /\ op'.fl = fl
  BY <1>1
<1>4. CallPages = {} /\ Merging = {} /\ CallPages' = {} /\ Merging' = {}
  BY <1>2, <1>3, HandsByKind, HandsByKindNext
<1>5. InHands' = InHands
  BY <1>2, <1>4, Views
<1>6. op' \in OpType
  BY <1>1, QueuePow DEF OpType
<1>7. Core(size, allocated, managed, freelist, pagecount, InHands, Merging)'
  BY <1>2, <1>4, <1>5 DEF IInv, lists
<1>8. HandsOK'
  BY <1>2, <1>3, <1>4, Views DEF IInv, HandsOK
<1>9. OpOK'
  BY <1>1, <1>2, <1>3 DEF OpOK, lists
<1> QED  BY <1>5, <1>6, <1>7, <1>8, <1>9 DEF IInv

\* A split, as a step of the state.
LEMMA SplitState ==
  ASSUME NEW H, Core(size, allocated, managed, freelist, pagecount, H, {}),
         NEW fl \in Queues, fl > 0, freelist[fl] # <<>>, pm_split_page(fl)
  PROVE  /\ Core(size', allocated', managed', freelist', pagecount', H, {})
         /\ SplitResult(size, freelist, H, fl, size', freelist')
<1>1. /\ SplitOf(size, managed, freelist, pagecount, fl, size', managed', freelist', pagecount')
      /\ allocated' = allocated
  BY DEF pm_split_page, SplitOf
<1> QED  BY <1>1, SplitCore

LEMMA PageSplitKeeps ==
  ASSUME IInv, PageSplit
  PROVE  IInv' /\ InHands' = InHands
<1>1. op.kind = "page" /\ op.n \in Nat /\ op.fl \in Queues /\ op.fl > op.n
      /\ freelist[op.fl] # <<>> /\ op = [kind |-> "page", n |-> op.n, fl |-> op.fl]
  BY OpFacts DEF IInv, PageSplit, OpOK
<1>2. op' = [kind |-> "page", n |-> op.n, fl |-> op.fl - 1] /\ held' = held
      /\ pm_split_page(op.fl)
  BY <1>1 DEF PageSplit
<1>3. op'.kind = "page" /\ op'.n = op.n /\ op'.fl = op.fl - 1
  BY <1>2
<1>4. CallPages = {} /\ Merging = {} /\ CallPages' = {} /\ Merging' = {}
  BY <1>1, <1>3, HandsByKind, HandsByKindNext
<1>5. InHands' = InHands
  BY <1>2, <1>4, Views
<1>6. op.fl > 0 /\ op.fl \in Nat
  BY <1>1, QueuePow
<1>7. Core(size, allocated, managed, freelist, pagecount, InHands, {})
  BY <1>4 DEF IInv
<1>8. /\ Core(size', allocated', managed', freelist', pagecount', InHands, {})
      /\ op.fl - 1 \in Queues /\ freelist'[op.fl - 1] # <<>>
  <2> DEFINE fl == op.fl
  <2>1. fl \in Queues /\ fl > 0 /\ freelist[fl] # <<>> /\ pm_split_page(fl)
    BY <1>1, <1>2, <1>6
  <2> HIDE DEF fl
  <2>2. /\ Core(size', allocated', managed', freelist', pagecount', InHands, {})
        /\ fl - 1 \in Queues /\ freelist'[fl - 1] # <<>>
    BY <1>7, <2>1, SplitState DEF SplitResult
  <2> QED  BY <2>2 DEF fl
<1>9. Core(size, allocated, managed, freelist, pagecount, InHands, Merging)'
  BY <1>4, <1>5, <1>8
<1>10. op' \in OpType
  BY <1>1, <1>2, <1>8 DEF OpType
<1>11. HandsOK'
  BY <1>2, <1>3, <1>4, Views DEF IInv, HandsOK
<1>12. OpOK'
  BY <1>1, <1>3, <1>6, <1>8 DEF OpOK
<1> QED  BY <1>5, <1>9, <1>10, <1>11, <1>12 DEF IInv

\* A take, as a step of the state.
LEMMA TakeState ==
  ASSUME NEW H, Core(size, allocated, managed, freelist, pagecount, H, {}),
         NEW fl \in Queues, freelist[fl] # <<>>, pm_take_page(fl)
  PROVE  /\ Core(size', allocated', managed', freelist', pagecount',
                 H \cup {Head(freelist[fl])}, {})
         /\ TakeResult(size, freelist, H, fl, freelist') /\ size' = size
<1>1. /\ TakeOf(size, allocated, managed, freelist, pagecount, fl,
                allocated', managed', freelist', pagecount')
      /\ size' = size
  BY DEF pm_take_page, TakeOf, Marked, CountTaken
<1> QED  BY <1>1, TakeCore

LEMMA PageTakeKeeps ==
  ASSUME IInv, PageTake
  PROVE  IInv' /\ InHands' = InHands \cup {Head(freelist[op.fl])}
<1> DEFINE fl   == op.fl
           page == Head(freelist[fl])
<1>1. op.kind = "page" /\ fl \in Queues /\ freelist[fl] # <<>>
  BY OpFacts DEF IInv, PageTake, OpOK
<1>2. op' = NoOp /\ held' = held \cup {<<page>>} /\ pm_take_page(fl)
  BY DEF PageTake
<1>3. op'.kind = "none" /\ op' \in OpType
  BY <1>2 DEF NoOp, OpType
<1>4. CallPages = {} /\ Merging = {} /\ CallPages' = {} /\ Merging' = {}
  BY <1>1, <1>3, HandsByKind, HandsByKindNext
<1>5. Core(size, allocated, managed, freelist, pagecount, InHands, {})
  BY <1>4 DEF IInv
<1> HIDE DEF fl
<1>6. /\ Core(size', allocated', managed', freelist', pagecount', InHands \cup {page}, {})
      /\ page \in Pages /\ page \notin InHands
  BY <1>1, <1>2, <1>5, TakeState DEF TakeResult
<1> HIDE DEF page
<1>7. Range(<<page>>) = {page} /\ <<page>> \in Seq(Pages) /\ <<page>> # <<>> /\ Distinct(<<page>>)
  BY <1>6 DEF Range, Distinct
<1>8. HeldPages' = HeldPages \cup {page} /\ page \notin HeldPages
  <2>1. HeldPages' = HeldPages \cup Range(<<page>>)
    BY <1>2 DEF HeldPages
  <2> QED  BY <1>6, <1>7, <2>1, Views
<1>9. InHands' = InHands \cup {page}
  BY <1>4, <1>8, Views
<1>10. HeldOK(held')
  <2>1. HeldOK(held)
    BY DEF IInv, HandsOK
  <2>2. \A l \in held : Range(l) \cap Range(<<page>>) = {}
    BY <1>7, <1>8 DEF HeldPages
  <2> QED  BY <1>2, <1>7, <2>1, <2>2 DEF HeldOK
<1>11. HandsOK'
  BY <1>3, <1>4, <1>10 DEF HandsOK
<1>12. OpOK'
  BY <1>3 DEF OpOK
<1>13. IInv'
  BY <1>3, <1>4, <1>6, <1>9, <1>11, <1>12 DEF IInv
<1> QED  BY <1>9, <1>13 DEF page, fl

\* The counters tell which lists are empty.
LEMMA CountNat ==
  ASSUME NEW sz, NEW al, NEW mg, NEW fr, NEW pc, NEW H, NEW M,
         Core(sz, al, mg, fr, pc, H, M)
  PROVE  /\ pc \in [Queues -> Nat]
         /\ \A fl \in Queues : pc[fl] = Len(fr[fl]) /\ (pc[fl] > 0 <=> fr[fl] # <<>>)
<1>1. fr \in [Queues -> Seq(Pages)] /\ pc = [fl \in Queues |-> Len(fr[fl])]
  BY DEF Core
<1>2. \A fl \in Queues : Len(fr[fl]) \in Nat /\ (Len(fr[fl]) = 0 <=> fr[fl] = <<>>)
  <2> SUFFICES ASSUME NEW fl \in Queues
               PROVE  Len(fr[fl]) \in Nat /\ (Len(fr[fl]) = 0 <=> fr[fl] = <<>>)
    OBVIOUS
  <2>1. fr[fl] \in Seq(Pages)
    BY <1>1
  <2> QED  BY <2>1, LenProperties, EmptySeq
<1> QED  BY <1>1, <1>2

LEMMA ListAllocKeeps ==
  ASSUME IInv, vm_pagelist_alloc
  PROVE  IInv' /\ InHands' = InHands
<1>1. PICK n \in 1 .. NPages, fl \in Queues :
        /\ Sums[fl] >= n
        /\ op' = [kind |-> "list", n |-> n, fl |-> fl, sums |-> Sums, pglist |-> <<>>]
  BY DEF vm_pagelist_alloc
<1>2. op.kind = "none" /\ UNCHANGED <<size, allocated, managed, lists, held>>
  BY DEF vm_pagelist_alloc, Idle, NoOp
<1>3. op'.kind = "list" /\ op'.n = n /\ op'.fl = fl /\ op'.sums = Sums /\ op'.pglist = <<>>
  BY <1>1
<1>4. CallPages = {} /\ Merging = {} /\ CallPages' = {} /\ Merging' = {}
  BY <1>2, <1>3, HandsByKind, HandsByKindNext, EmptyRange
<1>5. InHands' = InHands
  BY <1>2, <1>4, Views
<1>6. pagecount \in [Queues -> Nat]
  BY CountNat DEF IInv
<1>7. /\ Sums \in [Queues -> Nat]
      /\ \A k \in Queues :
           Sums[k] = pagecount[k] * 2 ^ k + (IF k = 0 THEN 0 ELSE Sums[k - 1])
  BY <1>6, SumsUnfold
<1> DEFINE S == Sums
<1>8. op' \in OpType
  <2>1. n \in Nat /\ n > 0 /\ <<>> \in Seq(Pages)
    BY PagesNat
  <2> HIDE DEF S
  <2> QED  BY <1>1, <1>7, <2>1 DEF OpType
<1>9. Core(size, allocated, managed, freelist, pagecount, InHands, Merging)'
  BY <1>2, <1>4, <1>5 DEF IInv, lists
<1>10. HandsOK'
  BY <1>2, <1>3, <1>4, Views, EmptyRange DEF IInv, HandsOK
<1>11. OpOK'
  <2>1. fl \in Nat /\ n \in Nat /\ n > 0
    BY QueuePow, PagesNat
  <2>2. SumsExact(Sums, pagecount, fl)
    BY <1>7 DEF SumsExact
  <2>3. pagecount' = pagecount
    BY <1>2 DEF lists
  <2>4. n <= pagecount[fl] * 2 ^ fl + (IF fl > 0 THEN Sums[fl - 1] ELSE 0)
    BY <1>1, <1>7, <2>1
  <2> HIDE DEF S
  <2> QED  BY <1>3, <2>1, <2>2, <2>3, <2>4 DEF OpOK, PrevSum
<1> QED  BY <1>5, <1>8, <1>9, <1>10, <1>11 DEF IInv

\* The sums up to the list at which vm_pagelist_alloc stands.
LEMMA ListFacts ==
  ASSUME IInv, op.kind = "list"
  PROVE  /\ op = [kind |-> "list", n |-> op.n, fl |-> op.fl, sums |-> op.sums,
                  pglist |-> op.pglist]
         /\ op.n \in Nat /\ op.fl \in Queues /\ op.fl \in Nat
         /\ op.sums \in [Queues -> Nat] /\ op.pglist \in Seq(Pages)
         /\ SumsExact(op.sums, pagecount, op.fl)
         /\ op.n <= pagecount[op.fl] * 2 ^ op.fl + PrevSum
         /\ op.n = 0 => op.pglist # <<>>
         /\ CallPages = Range(op.pglist) /\ Merging = {} /\ Distinct(op.pglist)
         /\ Core(size, allocated, managed, freelist, pagecount, InHands, {})
         /\ HeldOK(held) /\ HeldPages \cap Range(op.pglist) = {}
         /\ PrevSum \in Nat
         /\ PrevSum < op.n => freelist[op.fl] # <<>>
<1>1. /\ op = [kind |-> "list", n |-> op.n, fl |-> op.fl, sums |-> op.sums,
               pglist |-> op.pglist]
      /\ op.n \in Nat /\ op.fl \in Queues /\ op.fl \in Nat
      /\ op.sums \in [Queues -> Nat] /\ op.pglist \in Seq(Pages)
  BY OpFacts, QueuePow DEF IInv
<1>2. /\ SumsExact(op.sums, pagecount, op.fl)
      /\ op.n <= pagecount[op.fl] * 2 ^ op.fl + PrevSum
      /\ op.n = 0 => op.pglist # <<>>
  BY DEF IInv, OpOK
<1>3. CallPages = Range(op.pglist) /\ Merging = {}
  BY HandsByKind
<1>4. /\ Core(size, allocated, managed, freelist, pagecount, InHands, {})
      /\ HeldOK(held) /\ HeldPages \cap Range(op.pglist) = {} /\ Distinct(op.pglist)
  BY <1>3 DEF IInv, HandsOK
<1>5. PrevSum \in Nat
  <2>1. op.fl > 0 => op.fl - 1 \in Queues
    BY <1>1, QueuePow
  <2> QED  BY <1>1, <2>1 DEF PrevSum
<1>6. PrevSum < op.n => freelist[op.fl] # <<>>
  <2> SUFFICES ASSUME PrevSum < op.n PROVE freelist[op.fl] # <<>>
    OBVIOUS
  <2>1. pagecount[op.fl] \in Nat /\ (pagecount[op.fl] > 0 <=> freelist[op.fl] # <<>>)
    BY <1>1, <1>4, CountNat
  <2>2. 2 ^ op.fl \in Nat
    BY <1>1, QueuePow
  <2>3. pagecount[op.fl] # 0
    <3> SUFFICES ASSUME pagecount[op.fl] = 0 PROVE FALSE
      OBVIOUS
    <3>1. pagecount[op.fl] * 2 ^ op.fl = 0
      BY <2>2
    <3> QED  BY <1>1, <1>2, <1>5, <3>1
  <2> QED  BY <2>1, <2>3
<1> QED  BY <1>1, <1>2, <1>3, <1>4, <1>5, <1>6

LEMMA ListDownKeeps ==
  ASSUME IInv, ListDown
  PROVE  IInv' /\ InHands' = InHands
<1> DEFINE fl == op.fl
           g  == fl - 1
<1>0. op.kind = "list" /\ op.n > 0 /\ PrevSum >= op.n
      /\ UNCHANGED <<size, allocated, managed, lists, held>>
      /\ op' = [op EXCEPT !.fl = @ - 1]
  BY DEF ListDown
<1>1. /\ op = [kind |-> "list", n |-> op.n, fl |-> fl, sums |-> op.sums,
               pglist |-> op.pglist]
      /\ op.n \in Nat /\ fl \in Queues /\ fl \in Nat
      /\ op.sums \in [Queues -> Nat] /\ op.pglist \in Seq(Pages)
      /\ SumsExact(op.sums, pagecount, fl) /\ PrevSum \in Nat
  BY <1>0, ListFacts
<1>2. fl > 0 /\ PrevSum = op.sums[g]
  <2>1. fl > 0
    BY <1>0, <1>1 DEF PrevSum
  <2> QED  BY <2>1 DEF PrevSum
<1>3. g \in Queues /\ g \in Nat /\ g < fl
  BY <1>1, <1>2, QueuePow
<1>4. op' = [kind |-> "list", n |-> op.n, fl |-> g, sums |-> op.sums,
             pglist |-> op.pglist]
  BY <1>0, <1>1
<1> HIDE DEF g
<1>5. op'.kind = "list" /\ op'.n = op.n /\ op'.fl = g /\ op'.sums = op.sums
      /\ op'.pglist = op.pglist
  BY <1>4
<1>6. CallPages' = CallPages /\ Merging' = Merging
  BY <1>0, <1>5, HandsByKind, HandsByKindNext
<1>6a. InHands' = InHands
  BY <1>0, <1>6, Views
<1>7. op' \in OpType
  BY <1>1, <1>3, <1>4 DEF OpType
<1>8. Core(size, allocated, managed, freelist, pagecount, InHands, Merging)'
  BY <1>0, <1>6, <1>6a DEF IInv, lists
<1>9. HandsOK'
  BY <1>0, <1>5, <1>6, Views DEF IInv, HandsOK
<1>10. OpOK'
  <2>1. SumsExact(op.sums, pagecount, g)
    BY <1>1, <1>3 DEF SumsExact, Queues
  <2>2. op.sums[g] = pagecount[g] * 2 ^ g + (IF g = 0 THEN 0 ELSE op.sums[g - 1])
    BY <1>1, <1>3 DEF SumsExact
  <2>3. op.n <= pagecount[g] * 2 ^ g + (IF g > 0 THEN op.sums[g - 1] ELSE 0)
    BY <1>0, <1>1, <1>2, <1>3, <2>2
  <2>4. pagecount' = pagecount
    BY <1>0 DEF lists
  <2> QED  BY <1>0, <1>5, <2>1, <2>3, <2>4 DEF OpOK, PrevSum
<1> QED  BY <1>6a, <1>7, <1>8, <1>9, <1>10 DEF IInv

LEMMA ListSplitKeeps ==
  ASSUME IInv, ListSplit
  PROVE  IInv' /\ InHands' = InHands
<1> DEFINE fl == op.fl
           g  == fl - 1
           ns == SplitSums(op.sums, fl)
<1>0. /\ op.kind = "list" /\ op.n > 0 /\ PrevSum < op.n /\ op.n < 2 ^ fl
      /\ pm_split_page(fl) /\ held' = held
      /\ op' = [op EXCEPT !.fl = @ - 1, !.sums = SplitSums(@, fl)]
  BY DEF ListSplit
<1>1. /\ op = [kind |-> "list", n |-> op.n, fl |-> fl, sums |-> op.sums,
               pglist |-> op.pglist]
      /\ op.n \in Nat /\ fl \in Queues /\ fl \in Nat
      /\ op.sums \in [Queues -> Nat] /\ op.pglist \in Seq(Pages)
      /\ SumsExact(op.sums, pagecount, fl) /\ PrevSum \in Nat
      /\ Merging = {} /\ freelist[fl] # <<>>
      /\ Core(size, allocated, managed, freelist, pagecount, InHands, {})
  BY <1>0, ListFacts
<1>2. fl > 0
  BY <1>0, <1>1, PowZero
<1>3. /\ g \in Queues /\ g \in Nat /\ g < fl /\ 2 ^ g \in Nat /\ 2 ^ fl = 2 * 2 ^ g
  <2>1. g \in Queues /\ 2 ^ fl = 2 * 2 ^ g
    BY <1>1, <1>2, QueuePow
  <2>2. g \in Nat /\ 2 ^ g \in Nat
    BY <2>1, QueuePow
  <2> QED  BY <1>1, <2>1, <2>2
<1>4. /\ ns \in [Queues -> Nat] /\ \A k \in Queues : k # g => ns[k] = op.sums[k]
  <2> DEFINE old == op.sums
             v   == old[g] + 2 ^ fl
  <2>1. old \in [Queues -> Nat] /\ v \in Nat /\ ns = [old EXCEPT ![g] = v]
    <3>1. old \in [Queues -> Nat] /\ old[g] \in Nat /\ 2 ^ fl \in Nat
      BY <1>1, <1>3, QueuePow
    <3> QED  BY <3>1 DEF SplitSums
  <2> HIDE DEF old, v, ns, g
  <2>2. ns \in [Queues -> Nat] /\ \A k \in Queues : k # g => ns[k] = old[k]
    BY <1>3, <2>1
  <2> QED  BY <2>2 DEF old
<1>5. op' = [kind |-> "list", n |-> op.n, fl |-> g, sums |-> ns, pglist |-> op.pglist]
  BY <1>0, <1>1
<1> HIDE DEF fl, ns
<1>6. /\ Core(size', allocated', managed', freelist', pagecount', InHands, {})
      /\ SplitResult(size, freelist, InHands, fl, size', freelist')
  BY <1>0, <1>1, <1>2, SplitState
<1>7. pagecount' = [pagecount EXCEPT ![fl] = @ - 1, ![g] = @ + 2]
  BY <1>0 DEF pm_split_page
<1>8. pagecount \in [Queues -> Nat]
  BY <1>1, CountNat
<1> HIDE DEF g
<1>9. pagecount'[g] = pagecount[g] + 2 /\ \A k \in Queues : k < g => pagecount'[k] = pagecount[k]
  <2>1. g # fl /\ g \in Queues /\ fl \in Queues
    BY <1>1, <1>3
  <2>2. \A k \in Queues : k < g => k # g /\ k # fl
    BY <1>1, <1>3, QueuePow
  <2> QED  BY <1>7, <1>8, <2>1, <2>2
<1>10. op'.kind = "list" /\ op'.n = op.n /\ op'.fl = g /\ op'.sums = ns
       /\ op'.pglist = op.pglist
  BY <1>5
<1>11. CallPages' = CallPages /\ Merging' = Merging
  BY <1>0, <1>10, HandsByKind, HandsByKindNext
<1>11a. InHands' = InHands /\ Merging' = {}
  BY <1>0, <1>1, <1>11, Views
<1>12. op' \in OpType
  BY <1>1, <1>3, <1>4, <1>5 DEF OpType
<1>13. Core(size, allocated, managed, freelist, pagecount, InHands, Merging)'
  BY <1>6, <1>11a
<1>14. HandsOK'
  BY <1>0, <1>10, <1>11, Views DEF IInv, HandsOK
<1>15. OpOK'
  <2>1. SumsExact(ns, pagecount', g)
    <3> SUFFICES ASSUME NEW k \in Queues, k < g
                 PROVE  ns[k] = pagecount'[k] * 2 ^ k + (IF k = 0 THEN 0 ELSE ns[k - 1])
      BY DEF SumsExact
    <3>1. k \in Nat /\ (k # 0 => k - 1 \in Queues /\ k - 1 # g) /\ k # g /\ k < fl
      <4>1. k \in Nat /\ (k > 0 => k - 1 \in Queues)
        BY QueuePow
      <4> QED  BY <1>1, <1>3, <4>1
    <3>2. op.sums[k] = pagecount[k] * 2 ^ k + (IF k = 0 THEN 0 ELSE op.sums[k - 1])
      BY <1>1, <3>1 DEF SumsExact
    <3> QED  BY <1>4, <1>9, <3>1, <3>2
  <2>2. op.n <= pagecount'[g] * 2 ^ g + (IF g > 0 THEN ns[g - 1] ELSE 0)
    <3> DEFINE p == pagecount[g]
               h == 2 ^ g
    <3>1. p \in Nat /\ h \in Nat /\ p * h \in Nat /\ (p + 2) * h = p * h + 2 * h
      BY <1>3, <1>8
    <3>2. (IF g > 0 THEN ns[g - 1] ELSE 0) \in Nat
      BY <1>3, <1>4, QueuePow
    <3>3. pagecount'[g] * 2 ^ g = (p + 2) * h /\ op.n < 2 * h
      BY <1>0, <1>3, <1>9
    <3> DEFINE q == p * h
               x == IF g > 0 THEN ns[g - 1] ELSE 0
    <3>4. pagecount'[g] * 2 ^ g = q + 2 * h /\ q \in Nat /\ x \in Nat /\ op.n \in Nat
          /\ h \in Nat /\ op.n < 2 * h
      BY <1>1, <3>1, <3>2, <3>3
    <3> HIDE DEF p, h, q, x
    <3>5. op.n <= pagecount'[g] * 2 ^ g + x
      BY <3>4
    <3> QED  BY <3>5 DEF x
  <2> QED  BY <1>0, <1>10, <2>1, <2>2 DEF OpOK, PrevSum
<1> QED  BY <1>11a, <1>12, <1>13, <1>14, <1>15 DEF IInv

LEMMA ListTakeKeeps ==
  ASSUME IInv, ListTake
  PROVE  IInv' /\ InHands' = InHands \cup {Head(freelist[op.fl])}
<1> DEFINE fl   == op.fl
           page == Head(freelist[fl])
           n    == op.n - 2 ^ fl
           list == Append(op.pglist, page)
<1>0. /\ op.kind = "list" /\ op.n > 0 /\ PrevSum < op.n /\ op.n >= 2 ^ fl
      /\ pm_take_page(fl) /\ held' = held
      /\ op' = [op EXCEPT !.n = @ - 2 ^ fl, !.pglist = Append(@, page)]
  BY DEF ListTake
<1>1. /\ op = [kind |-> "list", n |-> op.n, fl |-> fl, sums |-> op.sums,
               pglist |-> op.pglist]
      /\ op.n \in Nat /\ fl \in Queues /\ fl \in Nat
      /\ op.sums \in [Queues -> Nat] /\ op.pglist \in Seq(Pages)
      /\ SumsExact(op.sums, pagecount, fl) /\ PrevSum \in Nat
      /\ op.n <= pagecount[fl] * 2 ^ fl + PrevSum
      /\ CallPages = Range(op.pglist) /\ Distinct(op.pglist)
      /\ Merging = {} /\ freelist[fl] # <<>>
      /\ HeldOK(held) /\ HeldPages \cap Range(op.pglist) = {}
      /\ Core(size, allocated, managed, freelist, pagecount, InHands, {})
  BY <1>0, ListFacts
<1>2. op' = [kind |-> "list", n |-> n, fl |-> fl, sums |-> op.sums, pglist |-> list]
  BY <1>0, <1>1
<1>3. 2 ^ fl \in Nat \ {0} /\ n \in Nat
  BY <1>0, <1>1, QueuePow
<1> HIDE DEF fl
<1>4. /\ Core(size', allocated', managed', freelist', pagecount', InHands \cup {page}, {})
      /\ page \in Pages /\ page \notin InHands
  BY <1>0, <1>1, TakeState DEF TakeResult
<1>5. pagecount' = [pagecount EXCEPT ![fl] = @ - 1]
  BY <1>0 DEF pm_take_page, CountTaken
<1> HIDE DEF page, n
<1>6. /\ list \in Seq(Pages) /\ Range(list) = Range(op.pglist) \cup {page} /\ Distinct(list)
      /\ list # <<>>
  <2>1. page \notin Range(op.pglist)
    BY <1>1, <1>4, Views
  <2>2. list # <<>>
    BY <1>1, <1>4
  <2> QED  BY <1>1, <1>4, <2>1, <2>2, AppendRange
<1> HIDE DEF list
<1>7. op'.kind = "list" /\ op'.n = n /\ op'.fl = fl /\ op'.sums = op.sums
      /\ op'.pglist = list
  BY <1>2
<1>8. CallPages' = CallPages \cup {page} /\ Merging' = {}
  BY <1>1, <1>6, <1>7, HandsByKindNext
<1>8a. InHands' = InHands \cup {page}
  BY <1>0, <1>1, <1>8, Views
<1>9. op' \in OpType
  BY <1>1, <1>2, <1>3, <1>6 DEF OpType
<1>10. Core(size, allocated, managed, freelist, pagecount, InHands, Merging)'
  BY <1>4, <1>8, <1>8a
<1>11. HandsOK'
  <2>1. HeldPages' = HeldPages /\ page \notin HeldPages
    BY <1>0, <1>4, Views
  <2>2. HeldPages' \cap CallPages' = {}
    BY <1>1, <1>8, <2>1
  <2> QED  BY <1>0, <1>1, <1>6, <1>7, <1>8, <2>2 DEF HandsOK
<1>12. OpOK'
  <2>1. pagecount \in [Queues -> Nat] /\ pagecount[fl] > 0
    BY <1>1, CountNat
  <2>2. pagecount'[fl] = pagecount[fl] - 1
        /\ \A k \in Queues : k # fl => pagecount'[k] = pagecount[k]
    BY <1>1, <1>5, <2>1
  <2>3. SumsExact(op.sums, pagecount', fl)
    <3> SUFFICES ASSUME NEW k \in Queues, k < fl
                 PROVE  op.sums[k] = pagecount'[k] * 2 ^ k
                                       + (IF k = 0 THEN 0 ELSE op.sums[k - 1])
      BY DEF SumsExact
    <3>1. k # fl
      BY <1>1, QueuePow
    <3> QED  BY <1>1, <2>2, <3>1 DEF SumsExact
  <2>4. PrevSum' = PrevSum
    BY <1>7 DEF PrevSum, fl
  <2>5. n <= pagecount'[fl] * 2 ^ fl + PrevSum
    <3> DEFINE p == pagecount[fl]
               h == 2 ^ fl
    <3>1. p \in Nat /\ h \in Nat /\ p * h \in Nat /\ (p - 1) * h = p * h - h
      BY <1>1, <1>3, <2>1
    <3>2. pagecount'[fl] * 2 ^ fl = (p - 1) * h /\ n = op.n - h /\ op.n <= p * h + PrevSum
      BY <1>1, <2>2 DEF n
    <3> DEFINE q == p * h
    <3>3. pagecount'[fl] * 2 ^ fl = q - h /\ q \in Nat /\ h \in Nat /\ PrevSum \in Nat
          /\ op.n \in Nat /\ n = op.n - h /\ op.n <= q + PrevSum
      BY <1>1, <3>1, <3>2
    <3> HIDE DEF p, h, q
    <3> QED  BY <3>3
  <2> QED  BY <1>6, <1>7, <2>3, <2>4, <2>5 DEF OpOK
<1>13. IInv'
  BY <1>9, <1>10, <1>11, <1>12 DEF IInv
<1> QED  BY <1>8a, <1>13 DEF page, fl

LEMMA ListReturnKeeps ==
  ASSUME IInv, ListReturn
  PROVE  IInv' /\ InHands' = InHands
<1>0. /\ op.kind = "list" /\ op.n = 0 /\ op' = NoOp /\ held' = held \cup {op.pglist}
      /\ UNCHANGED <<size, allocated, managed, lists>>
  BY DEF ListReturn
<1>1. /\ op.pglist \in Seq(Pages) /\ op.pglist # <<>>
      /\ CallPages = Range(op.pglist) /\ Distinct(op.pglist) /\ Merging = {}
      /\ HeldOK(held) /\ HeldPages \cap Range(op.pglist) = {}
      /\ Core(size, allocated, managed, freelist, pagecount, InHands, {})
  BY <1>0, ListFacts
<1>2. op'.kind = "none" /\ op' \in OpType
  BY <1>0 DEF NoOp, OpType
<1>3. CallPages' = {} /\ Merging' = {}
  BY <1>2, HandsByKindNext
<1>4. HeldPages' = HeldPages \cup Range(op.pglist)
  BY <1>0 DEF HeldPages
<1>5. InHands' = InHands
  BY <1>1, <1>3, <1>4, Views
<1>6. Core(size, allocated, managed, freelist, pagecount, InHands, Merging)'
  BY <1>0, <1>1, <1>3, <1>5 DEF lists
<1>7. HeldOK(held')
  <2>1. \A l \in held : Range(l) \cap Range(op.pglist) = {}
    BY <1>1 DEF HeldPages
  <2> QED  BY <1>0, <1>1, <2>1 DEF HeldOK
<1>8. HandsOK'
  BY <1>2, <1>3, <1>7 DEF HandsOK
<1>9. OpOK'
  BY <1>2 DEF OpOK
<1> QED  BY <1>5, <1>2, <1>6, <1>8, <1>9 DEF IInv

LEMMA FreeStartKeeps ==
  ASSUME IInv, vm_pagelist_free
  PROVE  IInv' /\ InHands' = InHands
<1>0. PICK l \in held :
        /\ held' = held \ {l}
        /\ op' = [kind |-> "free", page |-> Head(l), pglist |-> Tail(l)]
  BY DEF vm_pagelist_free
<1>1. op.kind = "none" /\ UNCHANGED <<size, allocated, managed, lists>>
  BY DEF vm_pagelist_free, Idle, NoOp
<1>2. CallPages = {} /\ Merging = {}
  BY <1>1, HandsByKind
<1>3. HeldOK(held) /\ Core(size, allocated, managed, freelist, pagecount, InHands, {})
  BY <1>2 DEF IInv, HandsOK
<1>4. l \in Seq(Pages) /\ l # <<>> /\ Distinct(l)
      /\ \A m \in held : m # l => Range(m) \cap Range(l) = {}
  BY <1>3 DEF HeldOK
<1>5. /\ Tail(l) \in Seq(Pages) /\ Distinct(Tail(l))
      /\ Head(l) \in Pages /\ Head(l) \in Range(l)
      /\ Range(Tail(l)) = Range(l) \ {Head(l)}
  BY <1>4, TailRange
<1>6. op'.kind = "free" /\ op'.page = Head(l) /\ op'.pglist = Tail(l)
  BY <1>0
<1>7. CallPages' = Range(l) \ {Head(l)} /\ Merging' = {Head(l)}
  BY <1>5, <1>6, HandsByKindNext
<1>8. HeldPages' = HeldPages \ Range(l) /\ Range(l) \subseteq HeldPages
  <2>1. \A x : x \in HeldPages <=> \E m \in held : x \in Range(m)
    BY DEF HeldPages
  <2>2. \A x : x \in HeldPages' <=> \E m \in held \ {l} : x \in Range(m)
    BY <1>0 DEF HeldPages
  <2>3. \A m \in held \ {l} : \A x \in Range(m) : x \notin Range(l)
    BY <1>4
  <2>4. \A x : x \in HeldPages' <=> x \in HeldPages /\ x \notin Range(l)
    BY <2>1, <2>2, <2>3
  <2> QED  BY <2>1, <2>4
<1>9. InHands' = InHands
  BY <1>2, <1>5, <1>7, <1>8, Views
<1>10. Core(size, allocated, managed, freelist, pagecount, InHands, Merging)'
  <2>1. Core(size, allocated, managed, freelist, pagecount, InHands, {Head(l)})
    BY <1>3 DEF Core, FlagsOK
  <2> QED  BY <1>1, <1>7, <1>9, <2>1 DEF lists
<1>11. HeldOK(held')
  BY <1>0, <1>3 DEF HeldOK
<1>12. HandsOK'
  <2>1. HeldPages' \cap CallPages' = {} /\ HeldPages' \cap Merging' = {}
        /\ CallPages' \cap Merging' = {}
    BY <1>5, <1>7, <1>8
  <2> QED  BY <1>5, <1>6, <1>11, <2>1 DEF HandsOK
<1>13. op' \in OpType
  BY <1>0, <1>5 DEF OpType
<1>14. OpOK'
  BY <1>6 DEF OpOK
<1> QED  BY <1>9, <1>10, <1>12, <1>13, <1>14 DEF IInv

\* The block that is being freed.
LEMMA FreeFacts ==
  ASSUME IInv, op.kind = "free"
  PROVE  /\ op = [kind |-> "free", page |-> op.page, pglist |-> op.pglist]
         /\ op.page \in Pages /\ op.pglist \in Seq(Pages) /\ Distinct(op.pglist)
         /\ CallPages = Range(op.pglist) /\ Merging = {op.page}
         /\ op.page \in InHands /\ op.page \notin Range(op.pglist)
         /\ op.page \notin HeldPages /\ HeldPages \cap Range(op.pglist) = {}
         /\ Core(size, allocated, managed, freelist, pagecount, InHands, {op.page})
         /\ SegOf(op.page) \in FreeSegs /\ op.page \in PagesOf(Segs[SegOf(op.page)])
         /\ \E k \in Queues : size[op.page] = 2 ^ k
<1>1. /\ op = [kind |-> "free", page |-> op.page, pglist |-> op.pglist]
      /\ op.page \in Pages /\ op.pglist \in Seq(Pages)
  BY OpFacts DEF IInv
<1>2. CallPages = Range(op.pglist) /\ Merging = {op.page}
  BY HandsByKind
<1>3. /\ Distinct(op.pglist)
      /\ op.page \notin Range(op.pglist)
      /\ op.page \notin HeldPages /\ HeldPages \cap Range(op.pglist) = {}
      /\ Core(size, allocated, managed, freelist, pagecount, InHands, {op.page})
  BY <1>2 DEF IInv, HandsOK
<1>4. op.page \in InHands
  BY <1>2, Views
<1> DEFINE B == Listed(freelist) \cup InHands
<1>5. B \in SUBSET Pages /\ size \in [Pages -> Nat] /\ Tiles(B, size) /\ op.page \in B
  BY <1>3, <1>4, ListTypes DEF Core
<1> HIDE DEF B
<1>6. SegOf(op.page) \in FreeSegs /\ op.page \in PagesOf(Segs[SegOf(op.page)])
  BY <1>5, TileFacts
<1>7. \E k \in Queues : size[op.page] = 2 ^ k
  BY <1>5 DEF Tiles
<1> QED  BY <1>1, <1>2, <1>3, <1>4, <1>6, <1>7

\* What pm_find_buddy finds.
LEMMA BuddyFacts ==
  ASSUME IInv, op.kind = "free", NEW c \in pm_find_buddy(op.page),
         NEW k \in Queues, size[op.page] = 2 ^ k
  PROVE  /\ c \in Listed(freelist) /\ Adjacent(op.page, c, k, size) /\ Log2(size[c]) = k
         /\ size[c] = size[op.page]
         /\ IF BuddyLeft(Segs[SegOf(op.page)], op.page) THEN c + size[op.page] = op.page
            ELSE op.page + size[op.page] = c
<1> DEFINE page == op.page
           i    == SegOf(page)
<1>1. i \in 1 .. Len(Segs) /\ page \in PagesOf(Segs[i])
      /\ Core(size, allocated, managed, freelist, pagecount, InHands, {page})
  BY FreeFacts DEF FreeSegs
<1>2. /\ c \in PagesOf(Segs[i]) /\ size[c] = size[page] /\ c \in managed
      /\ IF BuddyLeft(Segs[i], page) THEN c + size[page] = page ELSE page + size[page] = c
  BY DEF pm_find_buddy, Mergeable
<1>3. SegOf(c) = i
  BY <1>1, <1>2, SegOfPage
<1>4. c \in Listed(freelist)
  BY <1>1, <1>2 DEF Core
<1>5. c + 2 ^ k = page \/ page + 2 ^ k = c
  BY <1>2
<1>6. Log2(size[c]) = k
  BY <1>2, QueuePow, Log2Pow
<1> QED  BY <1>2, <1>3, <1>4, <1>5, <1>6 DEF Adjacent

\* The block that is being freed and its buddy c, on list k, become one.
MergedWith(c, k) ==
  LET m == AtMost(op.page, c)
  IN  /\ size[op.page] = 2 ^ k /\ c \in Listed(freelist)
      /\ Listed(freelist') = Listed(freelist) \ {c}
      /\ InHands' = (InHands \ {op.page}) \cup {m}
      /\ size'[m] = 2 * 2 ^ k
      /\ \A x \in Listed(freelist) \cup InHands : x # m => size'[x] = size[x]

LEMMA FreeMergeKeeps ==
  ASSUME SmallSegs, IInv, FreeMerge
  PROVE  IInv' /\ \E c \in pm_find_buddy(op.page), k \in Queues : MergedWith(c, k)
<1> DEFINE page == op.page
<1>0. op.kind = "free" /\ UNCHANGED <<allocated, held>>
  BY DEF FreeMerge
<1>1. PICK c \in pm_find_buddy(page) :
        LET fl == Log2(size[c])
            merged == pm_merge_buddies(page, c)
        IN /\ freelist' = [freelist EXCEPT ![fl] = TAILQ_REMOVE(@, c)]
           /\ pagecount' = [pagecount EXCEPT ![fl] = @ - 1]
           /\ managed' = managed \ {c}
           /\ size' = [size EXCEPT ![merged.first] = merged.size]
           /\ op' = [op EXCEPT !.page = merged.first]
  BY DEF FreeMerge
<1> DEFINE m == AtMost(page, c)
<1>2. /\ op = [kind |-> "free", page |-> page, pglist |-> op.pglist]
      /\ page \in Pages /\ op.pglist \in Seq(Pages) /\ Distinct(op.pglist)
      /\ CallPages = Range(op.pglist) /\ Merging = {page}
      /\ page \in InHands /\ page \notin Range(op.pglist)
      /\ page \notin HeldPages /\ HeldPages \cap Range(op.pglist) = {}
      /\ Core(size, allocated, managed, freelist, pagecount, InHands, {page})
  BY <1>0, FreeFacts
<1>3. PICK k \in Queues : size[page] = 2 ^ k
  BY <1>0, FreeFacts
<1>4. /\ c \in Listed(freelist) /\ Adjacent(page, c, k, size) /\ Log2(size[c]) = k
      /\ size[c] = size[page]
  BY <1>0, <1>3, BuddyFacts
<1>5. op' = [kind |-> "free", page |-> m, pglist |-> op.pglist]
  BY <1>1, <1>2 DEF pm_merge_buddies
<1>6. MergeOf(page, c, size, managed, freelist, pagecount, k,
              size', managed', freelist', pagecount')
  BY <1>1, <1>4 DEF MergeOf, pm_merge_buddies
<1> HIDE DEF page
<1>7. /\ Core(size', allocated, managed', freelist', pagecount',
              (InHands \ {page}) \cup {m}, {m})
      /\ m \in {page, c}
      /\ MergeResult(page, c, k, size, freelist, InHands, size', freelist')
  BY <1>2, <1>4, <1>6, MergeCore
<1>8. c \notin InHands /\ c \in Pages
  BY <1>2, <1>4, ListTypes DEF Core
<1> HIDE DEF m
<1>9. op'.kind = "free" /\ op'.page = m /\ op'.pglist = op.pglist /\ m \in Pages
  BY <1>2, <1>5, <1>7, <1>8
<1>10. CallPages' = CallPages /\ Merging' = {m} /\ HeldPages' = HeldPages
  BY <1>0, <1>2, <1>9, HandsByKindNext, Views
<1>11. InHands' = (InHands \ {page}) \cup {m}
  BY <1>2, <1>10, Views
<1>12. Core(size, allocated, managed, freelist, pagecount, InHands, Merging)'
  BY <1>0, <1>7, <1>10, <1>11
<1>13. HandsOK'
  <2>1. m \notin Range(op.pglist) /\ m \notin HeldPages
    BY <1>2, <1>7, <1>8, Views
  <2>2. HeldOK(held)
    BY DEF IInv, HandsOK
  <2> QED  BY <1>0, <1>2, <1>9, <1>10, <2>1, <2>2 DEF HandsOK
<1>14. op' \in OpType
  BY <1>2, <1>5, <1>9 DEF OpType
<1>15. OpOK'
  BY <1>9 DEF OpOK
<1>16. IInv'
  BY <1>12, <1>13, <1>14, <1>15 DEF IInv
<1>17. MergedWith(c, k)
  BY <1>3, <1>4, <1>7, <1>11 DEF MergedWith, MergeResult, m, page
<1> QED  BY <1>16, <1>17 DEF page

LEMMA FreeInsertKeeps ==
  ASSUME IInv, FreeInsert
  PROVE  IInv' /\ InHands' = InHands \ {op.page}
<1> DEFINE page == op.page
<1>0. op.kind = "free" /\ size' = size /\ held' = held
      /\ managed' = managed \cup {page} /\ allocated' = allocated \ Block(page, size[page])
      /\ op' = IF op.pglist = <<>> THEN NoOp
               ELSE [op EXCEPT !.page = Head(op.pglist), !.pglist = Tail(@)]
  BY DEF FreeInsert
<1>2. /\ op = [kind |-> "free", page |-> page, pglist |-> op.pglist]
      /\ page \in Pages /\ op.pglist \in Seq(Pages) /\ Distinct(op.pglist)
      /\ CallPages = Range(op.pglist) /\ Merging = {page}
      /\ page \in InHands /\ page \notin Range(op.pglist)
      /\ page \notin HeldPages /\ HeldPages \cap Range(op.pglist) = {}
      /\ Core(size, allocated, managed, freelist, pagecount, InHands, {page})
  BY <1>0, FreeFacts
<1>3. PICK k \in Queues : size[page] = 2 ^ k
  BY <1>0, FreeFacts
<1>4. Log2(size[page]) = k
  BY <1>3, QueuePow, Log2Pow
<1>5. InsertOf(page, size, allocated, managed, freelist, pagecount, k,
               allocated', managed', freelist', pagecount')
  BY <1>0, <1>4 DEF FreeInsert, InsertOf
<1> HIDE DEF page
<1>6. Core(size, allocated', managed', freelist', pagecount', InHands \ {page}, {})
  BY <1>2, <1>3, <1>5, InsertCore
<1>7. HeldOK(held) /\ HeldPages' = HeldPages
  BY <1>0, Views DEF IInv, HandsOK
<1>8. CASE op.pglist = <<>>
  <2>1. op'.kind = "none" /\ op' \in OpType
    BY <1>0, <1>8 DEF NoOp, OpType
  <2>2. CallPages' = {} /\ Merging' = {} /\ CallPages = {}
    BY <1>2, <1>8, <2>1, HandsByKindNext, EmptyRange
  <2>3. InHands' = InHands \ {page}
    BY <1>2, <1>7, <2>2, Views
  <2>4. HandsOK'
    BY <1>0, <1>7, <2>1, <2>2 DEF HandsOK
  <2>5. OpOK'
    BY <2>1 DEF OpOK
  <2>6. IInv'
    BY <1>0, <1>6, <2>1, <2>2, <2>3, <2>4, <2>5 DEF IInv
  <2> QED  BY <2>3, <2>6 DEF page
<1>9. CASE op.pglist # <<>>
  <2> DEFINE l == op.pglist
  <2>1. op' = [kind |-> "free", page |-> Head(l), pglist |-> Tail(l)]
    BY <1>0, <1>2, <1>9
  <2>2. op'.kind = "free" /\ op'.page = Head(l) /\ op'.pglist = Tail(l)
    BY <2>1
  <2>3. /\ Tail(l) \in Seq(Pages) /\ Distinct(Tail(l))
        /\ Head(l) \in Pages /\ Head(l) \in Range(l)
        /\ Range(Tail(l)) = Range(l) \ {Head(l)}
    BY <1>2, <1>9, TailRange
  <2> HIDE DEF l
  <2>4. CallPages' = Range(l) \ {Head(l)} /\ Merging' = {Head(l)}
    BY <2>2, <2>3, HandsByKindNext
  <2>5. CallPages = Range(l) /\ page \notin Range(l) /\ HeldPages \cap Range(l) = {}
    BY <1>2 DEF l
  <2>6. InHands' = InHands \ {page}
    BY <1>2, <1>7, <2>3, <2>4, <2>5, Views
  <2>7. Core(size, allocated', managed', freelist', pagecount', InHands \ {page}, {Head(l)})
    BY <1>6 DEF Core, FlagsOK
  <2>8. HandsOK'
    <3>1. HeldPages' \cap CallPages' = {} /\ HeldPages' \cap Merging' = {}
          /\ CallPages' \cap Merging' = {}
      BY <1>7, <2>3, <2>4, <2>5
    <3> QED  BY <1>0, <1>7, <2>2, <2>3, <3>1 DEF HandsOK
  <2>9. op' \in OpType
    BY <2>1, <2>3 DEF OpType
  <2>10. OpOK'
    BY <2>2 DEF OpOK
  <2>11. IInv'
    BY <1>0, <2>4, <2>6, <2>7, <2>8, <2>9, <2>10 DEF IInv
  <2> QED  BY <2>6, <2>11 DEF page
<1> QED  BY <1>8, <1>9

-----------------------------------------------------------------------------
(* The blocks of init_vm_page *)

\* Somewhere on the way from a to b the set G is left.
LEMMA LastBefore ==
  ASSUME NEW a \in Int, NEW b \in Int, a <= b, NEW G, a \in G, b \notin G
  PROVE  \E n \in a .. b : n < b /\ n \in G /\ n + 1 \notin G
<1> SUFFICES ASSUME \A n \in a .. b : n < b /\ n \in G => n + 1 \in G PROVE FALSE
  OBVIOUS
<1>1. \A n \in a .. b : n \in G
  BY Stepwise
<1> QED  BY <1>1

\* Multiples of a power of two are multiples of smaller ones.
LEMMA PowMod ==
  ASSUME NEW a \in Nat, NEW j \in Nat, NEW k \in Nat, j <= k, a % 2 ^ k = 0
  PROVE  a % 2 ^ j = 0
<1>1. 2 ^ j \in Nat \ {0} /\ 2 ^ k \in Nat \ {0}
  BY PowPositive
<1>2. PICK m \in Nat : 2 ^ k = m * 2 ^ j
  BY PowDivides
<1>3. PICK q \in Nat : a = 2 ^ k * q
  BY <1>1, ModZero
<1>4. (m * 2 ^ j) * q = 2 ^ j * (m * q) /\ m * q \in Nat
  BY <1>1
<1>5. a = 2 ^ j * (m * q)
  BY <1>2, <1>3, <1>4
<1> QED  BY <1>1, <1>4, <1>5, ModZero

\* Multiples of s are at least s apart.
LEMMA MultiplesApart ==
  ASSUME NEW a \in Nat, NEW b \in Nat, NEW s \in Nat \ {0},
         a % s = 0, b % s = 0, a < b
  PROVE  a + s <= b
<1>1. PICK p \in Nat : a = s * p
  BY ModZero
<1>2. PICK q \in Nat : b = s * q
  BY ModZero
<1>3. ~ q <= p
  <2> SUFFICES ASSUME q <= p PROVE FALSE
    OBVIOUS
  <2>1. s * q <= s * p
    BY ProductOrder
  <2> QED  BY <1>1, <1>2, <2>1
<1>4. s * (p + 1) <= s * q
  BY <1>3, ProductOrder
<1>5. s * (p + 1) = s * p + s /\ s * p \in Nat /\ s * q \in Nat
  OBVIOUS
<1> QED  BY <1>1, <1>2, <1>4, <1>5

\* The trailing zeros of an address: the largest power of two that divides it.
LEMMA CtzFacts ==
  ASSUME NEW n \in Nat \ {0}
  PROVE  ctz(n) \in Nat /\ n % 2 ^ ctz(n) = 0 /\ n % 2 ^ (ctz(n) + 1) # 0
<1> DEFINE G == {k \in 0 .. n : n % 2 ^ k = 0}
<1>1. 0 \in G
  BY PowZero
<1>2. n \notin G
  <2> DEFINE s == 2 ^ n
  <2>1. s \in Nat /\ s > n /\ s >= 1
    BY PowPositive
  <2> HIDE DEF s
  <2>2. s \in Nat \ {0} /\ n \in 0 .. s - 1 /\ 0 \in Int /\ n = s * 0 + n
    BY <2>1
  <2>3. n % s = n
    BY <2>2, DivUnique
  <2> QED  BY <2>3 DEF s
<1>3. PICK k \in 0 .. n : k < n /\ k \in G /\ k + 1 \notin G
  <2>1. 0 \in Int /\ n \in Int /\ 0 <= n
    OBVIOUS
  <2> HIDE DEF G
  <2> QED  BY <1>1, <1>2, <2>1, LastBefore
<1>4. \E j \in 0 .. n : n % 2 ^ j = 0 /\ n % 2 ^ (j + 1) # 0
  <2>1. k + 1 \in 0 .. n
    BY <1>3
  <2> QED  BY <1>3, <2>1
<1>5. ctz(n) \in 0 .. n /\ n % 2 ^ ctz(n) = 0 /\ n % 2 ^ (ctz(n) + 1) # 0
  BY <1>4 DEF ctz
<1> QED  BY <1>5

\* The highest bit in which two different numbers differ.
LEMMA HighestFacts ==
  ASSUME NEW m \in Nat, NEW n \in Nat, m # n
  PROVE  LET h == HighestDiffering(m, n)
         IN  /\ h \in Nat
             /\ m \div 2 ^ h # n \div 2 ^ h
             /\ m \div 2 ^ (h + 1) = n \div 2 ^ (h + 1)
<1> DEFINE b == m + n
           G == {k \in 0 .. b : m \div 2 ^ k # n \div 2 ^ k}
<1>1. 0 \in G
  BY PowZero
<1>2. b \notin G
  <2> DEFINE s == 2 ^ b
  <2>1. s \in Nat /\ s > b /\ s >= 1
    BY PowPositive
  <2> HIDE DEF s
  <2>2. s \in Nat \ {0} /\ n \in 0 .. s - 1 /\ 0 \in Int /\ n = s * 0 + n
        /\ m \in 0 .. s - 1 /\ m = s * 0 + m
    BY <2>1
  <2>3. n \div s = 0 /\ m \div s = 0
    BY <2>2, DivUnique
  <2> QED  BY <2>3 DEF s
<1>3. PICK k \in 0 .. b : k < b /\ k \in G /\ k + 1 \notin G
  <2>1. 0 \in Int /\ b \in Int /\ 0 <= b
    OBVIOUS
  <2> HIDE DEF G, b
  <2> QED  BY <1>1, <1>2, <2>1, LastBefore
<1>4. \E j \in 0 .. m + n : m \div 2 ^ j # n \div 2 ^ j
                            /\ m \div 2 ^ (j + 1) = n \div 2 ^ (j + 1)
  <2>1. k + 1 \in 0 .. b
    BY <1>3
  <2> QED  BY <1>3, <2>1
<1>5. LET h == HighestDiffering(m, n)
      IN  /\ h \in 0 .. m + n
          /\ m \div 2 ^ h # n \div 2 ^ h
          /\ m \div 2 ^ (h + 1) = n \div 2 ^ (h + 1)
  BY <1>4 DEF HighestDiffering
<1> QED  BY <1>5

\* Two numbers that differ in bit h, and the smaller one a multiple of 2^m.
LEMMA DifferBelow ==
  ASSUME NEW a \in Nat, NEW e \in Nat, a < e, NEW m \in Nat, a % 2 ^ m = 0,
         e < a + 2 ^ m, NEW h \in Nat,
         e \div 2 ^ h # a \div 2 ^ h, e \div 2 ^ (h + 1) = a \div 2 ^ (h + 1)
  PROVE  /\ h < m /\ a % 2 ^ h = 0 /\ a + 2 ^ h <= e /\ e < a + 2 ^ (h + 1)
<1> DEFINE s == 2 ^ h
           u == e \div s
           v == a \div s
           x == s * u
<1>1. s \in Nat \ {0} /\ 2 ^ m \in Nat \ {0} /\ 2 ^ (h + 1) \in Nat \ {0} /\ h + 1 \in Nat
  BY PowPositive
<1> HIDE DEF s
<1>2. /\ u \in Nat /\ e % s \in Nat /\ e = s * u + (e % s) /\ e % s < s
      /\ v \in Nat /\ a % s \in Nat /\ a = s * v + (a % s) /\ a % s < s
  BY <1>1, DivMod
<1>3. u # v
  BY DEF s
<1> DEFINE re == e % s
           ra == a % s
<1> HIDE DEF u, v, x, re, ra
<1>4. /\ u \in Nat /\ re \in Nat /\ e = s * u + re /\ re < s
      /\ v \in Nat /\ ra \in Nat /\ a = s * v + ra /\ ra < s
  BY <1>2 DEF re, ra
<1>5. ~ u < v
  <2> SUFFICES ASSUME u < v PROVE FALSE
    OBVIOUS
  <2>1. s * (u + 1) <= s * v
    BY <1>1, <1>4, ProductOrder
  <2>2. s * (u + 1) = s * u + s /\ s * u \in Nat /\ s * v \in Nat
    BY <1>1, <1>4
  <2> QED  BY <1>1, <1>4, <2>1, <2>2
<1>6. s * (v + 1) <= x
  BY <1>1, <1>3, <1>4, <1>5, ProductOrder DEF x
<1>7. s * (v + 1) = s * v + s /\ s * v \in Nat /\ x \in Nat /\ x <= e
  BY <1>1, <1>4 DEF x
<1>8. a < x /\ x % s = 0
  <2>1. a < x
    BY <1>1, <1>4, <1>6, <1>7
  <2> QED  BY <1>1, <1>4, <1>7, <2>1, ModZero DEF x
<1>9. h < m
  <2> SUFFICES ASSUME m <= h PROVE FALSE
    OBVIOUS
  <2>1. x % 2 ^ m = 0
    <3>1. x % 2 ^ h = 0
      BY <1>8 DEF s
    <3> QED  BY <1>7, <3>1, PowMod
  <2>2. a + 2 ^ m <= x
    BY <1>1, <1>7, <1>8, <2>1, MultiplesApart
  <2> QED  BY <1>1, <1>7, <2>2
<1>10. a % s = 0
  <2>0. h <= m
    BY <1>9
  <2>1. a % 2 ^ h = 0
    BY <2>0, PowMod, Zenon
  <2> QED  BY <2>1 DEF s
<1>11. a + s <= e
  <2>1. a + s <= x
    BY <1>1, <1>7, <1>8, <1>10, MultiplesApart
  <2> QED  BY <1>1, <1>7, <2>1
<1>12. e < a + 2 ^ (h + 1)
  <2> DEFINE t == 2 ^ (h + 1)
             d == a \div t
  <2>1. t \in Nat \ {0} /\ a % t = 0
    BY <1>1, <1>9, PowMod
  <2>2. e \div t = d
    OBVIOUS
  <2> HIDE DEF t
  <2>3. /\ d \in Nat /\ a = t * d + (a % t)
        /\ e % t \in Nat /\ e = t * (e \div t) + (e % t) /\ e % t < t
    BY <2>1, DivMod
  <2> DEFINE r == e % t
  <2> HIDE DEF d, r
  <2>4. a = t * d /\ r \in Nat /\ e = t * d + r /\ r < t /\ t * d \in Nat
    <3>1. t * d \in Nat
      BY <2>1, <2>3
    <3>2. a = t * d + 0
      BY <2>1, <2>3
    <3>3. e = t * d + r /\ r \in Nat /\ r < t
      BY <2>2, <2>3 DEF r
    <3> QED  BY <3>1, <3>2, <3>3
  <2>5. e < a + t
    BY <2>1, <2>4
  <2> QED  BY <2>5 DEF t
<1> QED  BY <1>9, <1>10, <1>11, <1>12 DEF s

\* The largest aligned block that starts at pa and does not go past the end.
LEMMA InitialSizeFacts ==
  ASSUME NEW pa \in Nat \ {0}, NEW end \in Nat, pa < end
  PROVE  \E k \in Queues :
           /\ InitialSize(pa, end) = 2 ^ k
           /\ pa % 2 ^ k = 0 /\ pa + 2 ^ k <= end
           /\ k < NQueues - 1 => pa % 2 ^ (k + 1) # 0 \/ end < pa + 2 ^ (k + 1)
<1> DEFINE N == NQueues - 1
           m == AtMost(N, ctz(pa))
           h == HighestDiffering(end, pa)
<1>1. N \in Nat /\ NQueues = N + 1 /\ ctz(pa) \in Nat /\ Queues = 0 .. N
  <2>1. NQueues \in Nat \ {0}
    BY PhysmemAssumption
  <2>2. ctz(pa) \in Nat
    BY CtzFacts
  <2> QED  BY <2>1, <2>2 DEF Queues
<1>2. m \in 0 .. N /\ m \in Nat /\ m <= ctz(pa) /\ (m < N => m = ctz(pa))
  BY <1>1 DEF AtMost
<1>3. pa % 2 ^ m = 0 /\ (m < N => pa % 2 ^ (m + 1) # 0)
  <2>1. pa % 2 ^ ctz(pa) = 0 /\ pa % 2 ^ (ctz(pa) + 1) # 0
    BY CtzFacts
  <2>2. pa % 2 ^ m = 0
    BY <1>1, <1>2, <2>1, PowMod
  <2> QED  BY <1>2, <2>1, <2>2
<1>4. InitialSize(pa, end) = IF pa + 2 ^ m > end THEN 2 ^ AtMost(N, h) ELSE 2 ^ m
  BY DEF InitialSize
<1>5. 2 ^ m \in Nat
  BY <1>2, PowNat
<1> HIDE DEF N, m
<1>6. CASE pa + 2 ^ m > end
  <2>1. /\ h \in Nat
        /\ end \div 2 ^ h # pa \div 2 ^ h
        /\ end \div 2 ^ (h + 1) = pa \div 2 ^ (h + 1)
    BY HighestFacts
  <2> HIDE DEF h
  <2>2. end < pa + 2 ^ m
    BY <1>5, <1>6
  <2>3. h < m /\ pa % 2 ^ h = 0 /\ pa + 2 ^ h <= end /\ end < pa + 2 ^ (h + 1)
    BY <1>2, <1>3, <2>1, <2>2, DifferBelow
  <2>4. AtMost(N, h) = h /\ h \in Queues
    BY <1>1, <1>2, <2>1, <2>3 DEF AtMost
  <2> QED  BY <1>4, <1>6, <2>3, <2>4
<1>7. CASE ~ pa + 2 ^ m > end
  <2>1. pa + 2 ^ m <= end
    BY <1>5, <1>7
  <2>2. m \in Queues
    BY <1>1, <1>2
  <2>3. m < NQueues - 1 => pa % 2 ^ (m + 1) # 0
    BY <1>1, <1>3
  <2> QED  BY <1>3, <1>4, <1>7, <2>1, <2>2, <2>3
<1> QED  BY <1>6, <1>7

\* The segments cover the pages.
LEMMA PagesCovered ==
  \A pg \in Pages : \E i \in 1 .. Len(Segs) : pg \in PagesOf(Segs[i])
<1> DEFINE n == Len(Segs)
           End(j) == Segs[j].first + Segs[j].npages
           G == {j \in 1 .. n : \A pg \in 0 .. End(j) - 1 :
                   \E i \in 1 .. n : pg \in PagesOf(Segs[i])}
<1>1. n \in Nat /\ n \in 1 .. n /\ 1 \in 1 .. n
  BY PhysmemAssumption, LenProperties
<1>2. \A j \in 1 .. n : Segs[j].first \in Nat /\ Segs[j].npages \in Nat
  BY SegTypes
<1>3. 1 \in G
  <2>1. Segs[1].first = 0
    BY PhysmemAssumption
  <2>2. PagesOf(Segs[1]) = 0 .. End(1) - 1
    BY <1>1, <1>2, <2>1 DEF PagesOf
  <2> QED  BY <1>1, <2>2
<1>4. \A j \in 1 .. n : j < n /\ j \in G => j + 1 \in G
  <2> SUFFICES ASSUME NEW j \in 1 .. n, j < n, j \in G PROVE j + 1 \in G
    OBVIOUS
  <2>1. j + 1 \in 2 .. n /\ (j + 1) - 1 = j /\ j + 1 \in 1 .. n
    BY <1>1
  <2>2. Segs[j + 1].first = End(j)
    BY <2>1, PhysmemAssumption
  <2>3. Segs[j + 1].first \in Nat /\ Segs[j + 1].npages \in Nat
    BY <1>2, <2>1
  <2>4. \A pg \in 0 .. End(j + 1) - 1 : \E i \in 1 .. n : pg \in PagesOf(Segs[i])
    <3> SUFFICES ASSUME NEW pg \in 0 .. End(j + 1) - 1
                 PROVE  \E i \in 1 .. n : pg \in PagesOf(Segs[i])
      OBVIOUS
    <3>1. CASE pg < End(j)
      <4>1. pg \in 0 .. End(j) - 1
        BY <1>2, <2>3, <3>1
      <4> QED  BY <4>1
    <3>2. CASE ~ pg < End(j)
      <4>1. pg \in PagesOf(Segs[j + 1])
        BY <1>2, <2>2, <2>3, <3>2 DEF PagesOf
      <4> QED  BY <2>1, <4>1
    <3> QED  BY <3>1, <3>2
  <2> QED  BY <2>1, <2>4
<1>5. \A j \in 1 .. n : j \in G
  <2>1. 1 \in Int /\ n \in Int
    BY <1>1
  <2> HIDE DEF G, n
  <2> QED  BY <1>3, <1>4, <2>1, Stepwise
<1>6. n \in G
  BY <1>1, <1>5
<1> QED  BY <1>6 DEF Pages, NPages

\* What init_vm_page makes of a page in segment i: its block is the largest one
\* that is aligned by address and ends in the segment.
LEMMA InitSizeFacts ==
  ASSUME NEW i \in 1 .. Len(Segs), NEW pg \in PagesOf(Segs[i])
  PROVE  LET pa  == Segs[i].start + pg - Segs[i].first
             end == Segs[i].start + Segs[i].npages
         IN  \E k \in Queues :
               /\ InitSize[pg] = 2 ^ k
               /\ pa \in Nat /\ pa % 2 ^ k = 0 /\ pa + 2 ^ k <= end
               /\ k < NQueues - 1 => pa % 2 ^ (k + 1) # 0 \/ end < pa + 2 ^ (k + 1)
<1> DEFINE pa  == Segs[i].start + pg - Segs[i].first
           end == Segs[i].start + Segs[i].npages
<1>1. Segs[i].start \in Nat \ {0} /\ Segs[i].first \in Nat /\ Segs[i].npages \in Nat
  BY SegTypes
<1>2. pa \in Nat \ {0} /\ end \in Nat /\ pa < end
  <2> DEFINE f  == Segs[i].first
             n  == Segs[i].npages
             st == Segs[i].start
  <2>1. pg \in f .. f + n - 1
    BY DEF PagesOf
  <2>2. f \in Nat /\ n \in Nat /\ st \in Nat \ {0}
    BY <1>1
  <2>3. pa = st + pg - f /\ end = st + n
    OBVIOUS
  <2> HIDE DEF f, n, st, pa, end
  <2> QED  BY <2>1, <2>2, <2>3
<1>3. pg \in Pages /\ SegOf(pg) = i
  BY SegOfPage
<1>4. InitSize[pg] = InitialSize(pa, end)
  BY <1>3 DEF InitSize
<1> HIDE DEF pa, end
<1>5. \E k \in Queues :
        /\ InitialSize(pa, end) = 2 ^ k
        /\ pa % 2 ^ k = 0 /\ pa + 2 ^ k <= end
        /\ k < NQueues - 1 => pa % 2 ^ (k + 1) # 0 \/ end < pa + 2 ^ (k + 1)
  BY <1>2, InitialSizeFacts
<1>6. \E k \in Queues :
        /\ InitSize[pg] = 2 ^ k
        /\ pa \in Nat /\ pa % 2 ^ k = 0 /\ pa + 2 ^ k <= end
        /\ k < NQueues - 1 => pa % 2 ^ (k + 1) # 0 \/ end < pa + 2 ^ (k + 1)
  BY <1>2, <1>4, <1>5
<1> QED  BY <1>6 DEF pa, end

LEMMA InitSizeFits ==
  ASSUME NEW i \in 1 .. Len(Segs), NEW pg \in PagesOf(Segs[i])
  PROVE  /\ pg \in Nat /\ pg \in Pages /\ InitSize[pg] \in Nat \ {0}
         /\ \E k \in Queues : InitSize[pg] = 2 ^ k
         /\ Segs[i].first <= pg
         /\ pg + InitSize[pg] <= Segs[i].first + Segs[i].npages
<1>1. PICK k \in Queues :
        /\ InitSize[pg] = 2 ^ k
        /\ Segs[i].start + pg - Segs[i].first + 2 ^ k <= Segs[i].start + Segs[i].npages
  BY InitSizeFacts
<1>2. 2 ^ k \in Nat \ {0}
  BY QueuePow
<1>3. Segs[i].start \in Nat /\ Segs[i].first \in Nat /\ Segs[i].npages \in Nat
  BY SegTypes
<1>4. pg \in Pages
  BY SegOfPage
<1>5. pg \in Nat /\ Segs[i].first <= pg
  BY <1>3 DEF PagesOf
<1>6. pg + 2 ^ k <= Segs[i].first + Segs[i].npages
  <2> DEFINE f  == Segs[i].first
             n  == Segs[i].npages
             st == Segs[i].start
             s  == 2 ^ k
  <2>1. f \in Nat /\ n \in Nat /\ st \in Nat /\ s \in Nat /\ st + pg - f + s <= st + n
    BY <1>1, <1>2, <1>3
  <2> HIDE DEF f, n, st, s
  <2>2. pg + s <= f + n
    BY <1>5, <2>1
  <2> QED  BY <2>2 DEF f, n, s
<1> QED  BY <1>1, <1>2, <1>4, <1>5, <1>6

LEMMA InitSizeType == InitSize \in [Pages -> Nat]
<1>1. \A pg \in Pages : InitSize[pg] \in Nat
  BY PagesCovered, InitSizeFits
<1> QED  BY <1>1 DEF InitSize

-----------------------------------------------------------------------------
(* The loop that fills the free lists *)

\* The loop stops at the first page of each free segment and after each block.
LEMMA FirstPagesClosed ==
  /\ FirstPages \in SUBSET Pages
  /\ \A i \in FreeSegs :
       /\ Segs[i].first \in FirstPages /\ Segs[i].first \in PagesOf(Segs[i])
       /\ \A pg \in FirstPages \cap PagesOf(Segs[i]) :
            pg + InitSize[pg] \in PagesOf(Segs[i]) => pg + InitSize[pg] \in FirstPages
<1>1. \A i \in FreeSegs : i \in 1 .. Len(Segs) /\ ~ Segs[i].used
  BY DEF FreeSegs
<1>2. \A i \in FreeSegs : Segs[i].first \in PagesOf(Segs[i])
  BY <1>1, SegTypes DEF PagesOf
<1>3. \A i \in FreeSegs : \A pg \in PagesOf(Segs[i]) : pg \in Pages
  BY <1>1, SegOfPage
<1>4. \A i \in FreeSegs : Segs[i].first \in FirstPages
  BY <1>1, <1>2, <1>3 DEF FirstPages, LoopClosed
<1>5. ASSUME NEW i \in FreeSegs, NEW pg \in FirstPages \cap PagesOf(Segs[i]),
             pg + InitSize[pg] \in PagesOf(Segs[i])
      PROVE  pg + InitSize[pg] \in FirstPages
  <2> DEFINE c == pg + InitSize[pg]
  <2>1. c \in Pages /\ c \in PagesOf(Segs[i])
    BY <1>3, <1>5
  <2>2. \A F \in SUBSET Pages : LoopClosed(F) => pg \in F
    BY DEF FirstPages
  <2>3. ASSUME NEW F \in SUBSET Pages, LoopClosed(F) PROVE c \in F
    BY <1>1, <2>1, <2>2, <2>3 DEF LoopClosed
  <2> HIDE DEF c
  <2>4. c \in FirstPages
    BY <2>1, <2>3 DEF FirstPages
  <2> QED  BY <2>4 DEF c
<1> QED  BY <1>2, <1>4, <1>5 DEF FirstPages

\* It does not stop in segments in use.
LEMMA FirstPagesFree ==
  \A pg \in FirstPages : \E i \in FreeSegs : pg \in PagesOf(Segs[i])
<1> DEFINE F == {pg \in Pages : \E i \in FreeSegs : pg \in PagesOf(Segs[i])}
<1>1. \A i \in FreeSegs : i \in 1 .. Len(Segs) /\ ~ Segs[i].used
  BY DEF FreeSegs
<1>2. \A i \in FreeSegs : Segs[i].first \in PagesOf(Segs[i])
  BY <1>1, SegTypes DEF PagesOf
<1>3. \A i \in FreeSegs : \A pg \in PagesOf(Segs[i]) : pg \in Pages
  BY <1>1, SegOfPage
<1>4. \A i \in FreeSegs : PagesOf(Segs[i]) \subseteq F
  BY <1>3
<1>5. F \in SUBSET Pages /\ LoopClosed(F)
  <2> HIDE DEF F
  <2>1. \A i \in 1 .. Len(Segs) : ~ Segs[i].used => i \in FreeSegs
    BY DEF FreeSegs
  <2>2. F \in SUBSET Pages
    BY DEF F
  <2> QED  BY <1>2, <1>4, <2>1, <2>2 DEF LoopClosed
<1>6. FirstPages \subseteq F
  <2> HIDE DEF F
  <2> QED  BY <1>5 DEF FirstPages
<1> QED  BY <1>6

\* It comes to each other page from the block before.
LEMMA FirstPagesFrom ==
  ASSUME NEW i \in FreeSegs, NEW c \in FirstPages \cap PagesOf(Segs[i]),
         c # Segs[i].first
  PROVE  \E pg \in FirstPages \cap PagesOf(Segs[i]) : pg + InitSize[pg] = c
<1> SUFFICES ASSUME \A pg \in FirstPages \cap PagesOf(Segs[i]) : pg + InitSize[pg] # c
             PROVE  FALSE
  OBVIOUS
<1> DEFINE F == FirstPages \ {c}
<1>1. i \in 1 .. Len(Segs) /\ SegOf(c) = i
  BY SegOfPage DEF FreeSegs
<1>2. \A j \in FreeSegs : c \in PagesOf(Segs[j]) => j = i
  BY <1>1, SegOfPage DEF FreeSegs
<1>3. \A j \in FreeSegs :
        /\ Segs[j].first \in F
        /\ \A pg \in F \cap PagesOf(Segs[j]) :
             pg + InitSize[pg] \in PagesOf(Segs[j]) => pg + InitSize[pg] \in F
  <2> SUFFICES ASSUME NEW j \in FreeSegs
               PROVE  /\ Segs[j].first \in F
                      /\ \A pg \in F \cap PagesOf(Segs[j]) :
                           pg + InitSize[pg] \in PagesOf(Segs[j]) => pg + InitSize[pg] \in F
    OBVIOUS
  <2>1. /\ Segs[j].first \in FirstPages /\ Segs[j].first \in PagesOf(Segs[j])
        /\ \A pg \in FirstPages \cap PagesOf(Segs[j]) :
            pg + InitSize[pg] \in PagesOf(Segs[j]) => pg + InitSize[pg] \in FirstPages
    BY FirstPagesClosed
  <2> QED  BY <1>2, <2>1
<1>4. F \in SUBSET Pages /\ LoopClosed(F)
  <2>1. \A j \in 1 .. Len(Segs) : ~ Segs[j].used => j \in FreeSegs
    BY DEF FreeSegs
  <2>2. F \in SUBSET Pages
    BY FirstPagesClosed
  <2> HIDE DEF F
  <2> QED  BY <1>3, <2>1, <2>2 DEF LoopClosed
<1>5. c \in F
  <2> HIDE DEF F
  <2> QED  BY <1>4 DEF FirstPages
<1> QED  BY <1>5

\* So the blocks do not overlap,
LEMMA FirstPagesApart ==
  \A b, c \in FirstPages : b < c => b + InitSize[b] <= c
<1> DEFINE n == NPages - 1
           G == {m \in 0 .. n : \A b, c \in FirstPages :
                   b < c /\ c <= m => b + InitSize[b] <= c}
<1>0. n \in Int /\ FirstPages \subseteq 0 .. n /\ FirstPages \subseteq Nat
  BY PagesNat, FirstPagesClosed DEF Pages
<1>1. 0 <= n => 0 \in G
  BY <1>0
<1>2. \A m \in 0 .. n : m < n /\ m \in G => m + 1 \in G
  <2> SUFFICES ASSUME NEW m \in 0 .. n, m < n, m \in G,
                      NEW b \in FirstPages, NEW c \in FirstPages, b < c, c <= m + 1
               PROVE  b + InitSize[b] <= c
    BY <1>0
  <2>0. c <= m \/ c = m + 1
    BY <1>0
  <2> SUFFICES ASSUME c = m + 1 PROVE b + InitSize[b] <= c
    BY <2>0
  <2>1. PICK i \in FreeSegs : c \in PagesOf(Segs[i])
    BY FirstPagesFree
  <2>2. PICK j \in FreeSegs : b \in PagesOf(Segs[j])
    BY FirstPagesFree
  <2>3. i \in 1 .. Len(Segs) /\ j \in 1 .. Len(Segs)
    BY DEF FreeSegs
  <2>4. /\ b \in Nat /\ c \in Nat /\ InitSize[b] \in Nat \ {0}
        /\ b + InitSize[b] <= Segs[j].first + Segs[j].npages
        /\ Segs[i].first \in Nat /\ Segs[i].npages \in Nat
        /\ Segs[j].first \in Nat /\ Segs[j].npages \in Nat
    BY <2>1, <2>2, <2>3, InitSizeFits, SegTypes
  <2>5. CASE c = Segs[i].first
    <3>1. j # i
      BY <2>2, <2>4, <2>5 DEF PagesOf
    <3>2. ~ i < j
      <4> SUFFICES ASSUME i < j PROVE FALSE
        OBVIOUS
      <4>1. Segs[i].first + Segs[i].npages <= Segs[j].first
        BY <2>3, SegsInOrder
      <4> QED  BY <2>2, <2>4, <2>5, <4>1 DEF PagesOf
    <3>3. j < i
      BY <2>3, <3>1, <3>2
    <3>4. Segs[j].first + Segs[j].npages <= Segs[i].first
      BY <2>3, <3>3, SegsInOrder
    <3> QED  BY <2>4, <2>5, <3>4
  <2>6. CASE c # Segs[i].first
    <3>1. PICK p \in FirstPages \cap PagesOf(Segs[i]) : p + InitSize[p] = c
      BY <2>1, <2>6, FirstPagesFrom
    <3>2. p \in Nat /\ InitSize[p] \in Nat \ {0}
      BY <2>3, InitSizeFits
    <3>3. \A x, y \in FirstPages : x < y /\ y <= m => x + InitSize[x] <= y
      OBVIOUS
    <3>4. ~ p < b
      BY <2>4, <3>1, <3>2, <3>3
    <3>5. ~ b < p \/ b + InitSize[b] <= c
      BY <2>4, <3>1, <3>2, <3>3
    <3>6. b = p \/ b < p
      BY <2>4, <3>2, <3>4
    <3> QED  BY <2>4, <3>1, <3>2, <3>5, <3>6
  <2> QED  BY <2>5, <2>6
<1>3. \A m \in 0 .. n : m \in G
  <2> HIDE DEF G, n
  <2> QED  BY <1>0, <1>1, <1>2, Stepwise
<1>4. SUFFICES ASSUME NEW b \in FirstPages, NEW c \in FirstPages, b < c
               PROVE  b + InitSize[b] <= c
  OBVIOUS
<1>5. c \in 0 .. n /\ c \in Nat
  BY <1>0
<1>6. c \in G
  <2> HIDE DEF G
  <2> QED  BY <1>3, <1>5
<1>7. \A x, y \in FirstPages : x < y /\ y <= c => x + InitSize[x] <= y
  BY <1>6
<1>8. c <= c
  BY <1>5
<1> QED  BY <1>4, <1>7, <1>8

\* and they cover the free segments.
LEMMA FirstPagesCover ==
  \A i \in FreeSegs : \A pg \in PagesOf(Segs[i]) :
    \E b \in FirstPages : b <= pg /\ pg < b + InitSize[b]
<1> SUFFICES ASSUME NEW i \in FreeSegs
             PROVE  \A pg \in PagesOf(Segs[i]) :
                      \E b \in FirstPages : b <= pg /\ pg < b + InitSize[b]
  OBVIOUS
<1> DEFINE s == Segs[i].first
           e == Segs[i].first + Segs[i].npages - 1
           G == {pg \in s .. e :
                   \E b \in FirstPages \cap (s .. e) : b <= pg /\ pg < b + InitSize[b]}
<1>1. i \in 1 .. Len(Segs) /\ PagesOf(Segs[i]) = s .. e
  BY DEF FreeSegs, PagesOf
<1>2. s \in Nat /\ e \in Int /\ s <= e
  BY <1>1, SegTypes
<1>3. \A b \in s .. e : b \in Nat /\ InitSize[b] \in Nat \ {0}
  BY <1>1, InitSizeFits
<1>4. s \in FirstPages
      /\ \A pg \in FirstPages \cap (s .. e) :
           pg + InitSize[pg] \in s .. e => pg + InitSize[pg] \in FirstPages
  BY <1>1, FirstPagesClosed
<1> HIDE DEF s, e
<1>5. s \in G
  <2>1. s \in FirstPages \cap (s .. e) /\ s <= s /\ s < s + InitSize[s]
    BY <1>2, <1>3, <1>4
  <2> QED  BY <2>1
<1>6. \A pg \in s .. e : pg < e /\ pg \in G => pg + 1 \in G
  <2> SUFFICES ASSUME NEW pg \in s .. e, pg < e, pg \in G PROVE pg + 1 \in G
    OBVIOUS
  <2>1. PICK b \in FirstPages \cap (s .. e) : b <= pg /\ pg < b + InitSize[b]
    OBVIOUS
  <2>2. b \in Nat /\ InitSize[b] \in Nat \ {0} /\ pg + 1 \in s .. e /\ pg \in Nat
    BY <1>2, <1>3
  <2>3. CASE pg + 1 < b + InitSize[b]
    <3>1. b <= pg + 1
      BY <2>1, <2>2
    <3> QED  BY <2>2, <2>3, <3>1
  <2>4. CASE ~ pg + 1 < b + InitSize[b]
    <3>1. pg + 1 = b + InitSize[b]
      BY <2>1, <2>2, <2>4
    <3>2. pg + 1 \in FirstPages
      BY <1>4, <2>2, <3>1
    <3>3. InitSize[pg + 1] \in Nat \ {0}
      BY <1>3, <2>2
    <3>4. pg + 1 <= pg + 1 /\ pg + 1 < (pg + 1) + InitSize[pg + 1]
      BY <2>2, <3>3
    <3> QED  BY <2>2, <3>2, <3>4
  <2> QED  BY <2>3, <2>4
<1>7. \A pg \in s .. e : pg \in G
  <2>1. s \in Int
    BY <1>2
  <2> HIDE DEF G
  <2> QED  BY <1>2, <1>5, <1>6, <2>1, Stepwise
<1> QED  BY <1>1, <1>7

-----------------------------------------------------------------------------
(* The initial state *)

\* The blocks at which the loop stops partition the free segments.
LEMMA InitTiles == Tiles(FirstPages, InitSize)
<1>1. \A b \in FirstPages : Fits(b, InitSize[b]) /\ \E k \in Queues : InitSize[b] = 2 ^ k
  <2> SUFFICES ASSUME NEW b \in FirstPages
               PROVE  Fits(b, InitSize[b]) /\ \E k \in Queues : InitSize[b] = 2 ^ k
    OBVIOUS
  <2>1. PICK i \in FreeSegs : b \in PagesOf(Segs[i])
    BY FirstPagesFree
  <2>2. i \in 1 .. Len(Segs)
    BY DEF FreeSegs
  <2> QED  BY <2>1, <2>2, InitSizeFits DEF Fits
<1>2. \A b, c \in FirstPages : b # c => b + InitSize[b] <= c \/ c + InitSize[c] <= b
  <2>1. FirstPages \subseteq Nat
    BY FirstPagesClosed, PagesNat
  <2> QED  BY <2>1, FirstPagesApart
<1> QED  BY <1>1, <1>2, FirstPagesCover DEF Tiles

\* The free lists hold the blocks at which the loop stops, by their sizes.
LEMMA InitLists ==
  ASSUME Init
  PROVE  /\ freelist \in [Queues -> Seq(Pages)]
         /\ ListsOK(freelist, InitSize)
         /\ Listed(freelist) = FirstPages
<1> DEFINE s == [i \in 1 .. NPages |-> i - 1]
           S(fl) == {pg \in FirstPages : InitSize[pg] = 2 ^ fl}
<1>1. NPages \in Nat
  BY PagesNat
<1>2. s \in Seq(Pages) /\ Range(s) = Pages /\ Distinct(s)
  <2>1. \A i \in 1 .. NPages : i - 1 \in Pages
    BY <1>1 DEF Pages
  <2>2. s \in Seq(Pages)
    BY <1>1, <2>1, IsASeq
  <2>3. DOMAIN s = 1 .. NPages
    OBVIOUS
  <2>4. \A pg \in Pages : pg + 1 \in DOMAIN s /\ s[pg + 1] = pg
    BY <1>1 DEF Pages
  <2>5. Range(s) = Pages
    BY <2>1, <2>3, <2>4 DEF Range
  <2>6. Distinct(s)
    BY <1>1 DEF Distinct
  <2> QED  BY <2>2, <2>5, <2>6
<1>3. freelist = [fl \in Queues |-> Sublist(s, S(fl))]
  BY DEF Init
<1> HIDE DEF s
<1>4. FirstPages \in SUBSET Pages
  BY FirstPagesClosed
<1>5. \A fl \in Queues : /\ Sublist(s, S(fl)) \in Seq(Pages)
                         /\ Range(Sublist(s, S(fl))) = Pages \cap S(fl)
                         /\ Distinct(Sublist(s, S(fl)))
  BY <1>2, SublistRange
<1>6. \A fl \in Queues : Pages \cap S(fl) = S(fl)
  BY <1>4
<1>7. \A fl \in Queues : /\ freelist[fl] \in Seq(Pages) /\ Range(freelist[fl]) = S(fl)
                         /\ Distinct(freelist[fl])
  <2> HIDE DEF S
  <2> QED  BY <1>3, <1>5, <1>6
<1>8. freelist \in [Queues -> Seq(Pages)]
  <2> HIDE DEF S
  <2> QED  BY <1>3, <1>5
<1>9. ListsOK(freelist, InitSize)
  <2>1. \A fl \in Queues : \A pg \in S(fl) : InitSize[pg] = 2 ^ fl
    OBVIOUS
  <2> HIDE DEF S
  <2> QED  BY <1>7, <2>1 DEF ListsOK
<1>10. \A pg \in FirstPages : \E fl \in Queues : pg \in S(fl)
  BY InitTiles DEF Tiles
<1>11. \A fl \in Queues : S(fl) \subseteq FirstPages
  OBVIOUS
<1>12. \A pg : pg \in Listed(freelist) <=> \E fl \in Queues : pg \in Range(freelist[fl])
  BY DEF Listed
<1>13. Listed(freelist) = FirstPages
  <2> HIDE DEF S
  <2>1. \A pg : pg \in Listed(freelist) <=> pg \in FirstPages
    BY <1>7, <1>10, <1>11, <1>12
  <2> QED  BY <2>1
<1> QED  BY <1>8, <1>9, <1>13

\* The invariant holds after init_vm_page has made the lists.
LEMMA InitKeeps ==
  ASSUME Init
  PROVE  IInv
<1>1. op = NoOp /\ op.kind = "none" /\ held = {}
  BY DEF Init, NoOp
<1>2. CallPages = {} /\ Merging = {} /\ HeldPages = {}
  BY <1>1, HandsByKind DEF HeldPages
<1>3. InHands = {}
  BY <1>2, Views
<1>4. /\ size = InitSize /\ managed = FirstPages
      /\ pagecount = [fl \in Queues |-> Len(freelist[fl])]
      /\ allocated = UNION {PagesOf(Segs[i]) : i \in {i \in 1 .. Len(Segs) : Segs[i].used}}
  BY DEF Init
<1>5. /\ freelist \in [Queues -> Seq(Pages)]
      /\ ListsOK(freelist, InitSize)
      /\ Listed(freelist) = FirstPages
  BY InitLists
<1>6. \A pg \in allocated : \E i \in 1 .. Len(Segs) : Segs[i].used /\ pg \in PagesOf(Segs[i])
  BY <1>4
<1>7. allocated \in SUBSET Pages
  BY <1>6, SegOfPage
<1>8. \A b \in FirstPages : Block(b, InitSize[b]) \cap allocated = {}
  <2> SUFFICES ASSUME NEW b \in FirstPages, NEW pg \in Block(b, InitSize[b]),
                      pg \in allocated
               PROVE  FALSE
    OBVIOUS
  <2>1. FirstPages \in SUBSET Pages /\ InitSize \in [Pages -> Nat]
        /\ Tiles(FirstPages, InitSize)
    BY FirstPagesClosed, InitSizeType, InitTiles
  <2>2. Fits(b, InitSize[b]) /\ InitSize[b] \in Nat \ {0} /\ b \in Pages
    BY <2>1, TileFacts
  <2>3. SegOf(b) \in FreeSegs /\ pg \in PagesOf(Segs[SegOf(b)])
    BY <2>2, FitsFacts
  <2>4. PICK i \in 1 .. Len(Segs) : Segs[i].used /\ pg \in PagesOf(Segs[i])
    BY <1>6
  <2>5. SegOf(b) = i
    <3>1. SegOf(b) \in 1 .. Len(Segs)
      BY <2>3 DEF FreeSegs
    <3> QED  BY <2>3, <2>4, <3>1, SegOfPage
  <2> QED  BY <2>3, <2>4, <2>5 DEF FreeSegs
<1>9. Core(size, allocated, managed, freelist, pagecount, InHands, Merging)
  <2>1. FlagsOK(FirstPages, {}, InitSize, allocated)
    BY <1>8 DEF FlagsOK
  <2>2. FirstPages \cup {} = FirstPages /\ FirstPages \cap {} = {} /\ {} \ {} = {}
    OBVIOUS
  <2> QED  BY <1>2, <1>3, <1>4, <1>5, <1>7, <2>1, <2>2, InitSizeType, InitTiles DEF Core
<1>10. HandsOK
  BY <1>1, <1>2 DEF HandsOK, HeldOK
<1>11. OpOK
  BY <1>1 DEF OpOK
<1>12. op \in OpType
  BY <1>1 DEF OpType
<1> QED  BY <1>9, <1>10, <1>11, <1>12 DEF IInv

\* A step that changes nothing.
LEMMA StutterKeeps ==
  ASSUME IInv, UNCHANGED vars
  PROVE  IInv'
<1>1. /\ size' = size /\ allocated' = allocated /\ managed' = managed
      /\ freelist' = freelist /\ pagecount' = pagecount /\ held' = held /\ op' = op
  BY DEF vars, lists
<1>2. HeldPages' = HeldPages /\ CallPages' = CallPages /\ Merging' = Merging
  BY <1>1 DEF HeldPages, CallPages, Merging
<1>3. InHands' = InHands
  BY <1>2, Views
<1>4. HandsOK'
  BY <1>1, <1>2 DEF IInv, HandsOK
<1>5. OpOK'
  <2>1. PrevSum' = PrevSum
    BY <1>1 DEF PrevSum
  <2> QED  BY <1>1, <2>1 DEF IInv, OpOK
<1> QED  BY <1>1, <1>2, <1>3, <1>4, <1>5 DEF IInv

\* The invariant of the allocator, where no block can outgrow the lists.
THEOREM PhysmemInvariant ==
  ASSUME SmallSegs
  PROVE  Spec => []IInv
<1>1. Init => IInv
  BY InitKeeps
<1>2. IInv /\ [Next]_vars => IInv'
  BY PageAllocKeeps, PageSplitKeeps, PageTakeKeeps, ListAllocKeeps, ListDownKeeps,
     ListSplitKeeps, ListTakeKeeps, ListReturnKeeps, FreeStartKeeps, FreeMergeKeeps,
     FreeInsertKeeps, StutterKeeps DEF Next
<1> QED  BY <1>1, <1>2, PTL DEF Spec

-----------------------------------------------------------------------------
(* What the invariant says of the pages and the free lists *)

\* The partition and the flags give the conservation of pages,
LEMMA ConservedFrom ==
  ASSUME IInv
  PROVE  PagesConserved
<1> DEFINE usable == UNION {PagesOf(Segs[i]) : i \in {i \in 1 .. Len(Segs) : ~ Segs[i].used}}
           mixed  == IF op.kind = "free" THEN Block(op.page, size[op.page]) ELSE {}
           L == OnLists
           H == InHands
           B == OnLists \cup InHands
<1>1. /\ size \in [Pages -> Nat] /\ allocated \in SUBSET Pages
      /\ Tiles(B, size) /\ L \cap H = {} /\ FlagsOK(L, H \ Merging, size, allocated)
      /\ B \in SUBSET Pages
  BY Views, ListTypes DEF IInv, Core
<1>2. \A pg : pg \in usable <=> \E i \in FreeSegs : pg \in PagesOf(Segs[i])
  BY DEF FreeSegs
<1>3. mixed = UNION {Block(b, size[b]) : b \in Merging}
  BY DEF Merging
<1>4. Merging \subseteq H
  BY Views
<1> HIDE DEF usable, mixed, L, H, B
<1>5. B = L \cup H
  BY DEF L, H, B
<1>6. \A b \in B : /\ b \in Nat /\ size[b] \in Nat /\ Fits(b, size[b])
                   /\ size[b] \in Nat \ {0} /\ b \in Pages
  BY <1>1, TileFacts
<1>7. \A b \in B : Block(b, size[b]) \subseteq PagesOf(Segs[SegOf(b)])
                   /\ SegOf(b) \in FreeSegs
  BY <1>6, FitsFacts
<1>8. \A b, c \in B : b # c => Block(b, size[b]) \cap Block(c, size[c]) = {}
  BY <1>1, TilesApart
<1>9. \A pg \in usable : \E b \in B : pg \in Block(b, size[b])
  <2> SUFFICES ASSUME NEW pg \in usable PROVE \E b \in B : pg \in Block(b, size[b])
    OBVIOUS
  <2>1. PICK i \in FreeSegs : pg \in PagesOf(Segs[i])
    BY <1>2
  <2>2. PICK b \in B : b <= pg /\ pg < b + size[b]
    BY <1>1, <2>1 DEF Tiles
  <2>3. pg \in Int
    BY <2>1 DEF PagesOf
  <2> QED  BY <1>6, <2>2, <2>3 DEF Block
<1> DEFINE U == UNION {Block(b, size[b]) : b \in H}
<1>10. (allocated \cap usable) \ mixed = U \ mixed
  <2>1. \A pg : pg \in U <=> \E b \in H : pg \in Block(b, size[b])
    OBVIOUS
  <2>2. \A pg : pg \in mixed <=> \E b \in Merging : pg \in Block(b, size[b])
    BY <1>3
  <2> HIDE DEF U
  <2>3. ASSUME NEW pg, pg \in allocated, pg \in usable, pg \notin mixed PROVE pg \in U
    <3>1. PICK b \in B : pg \in Block(b, size[b])
      BY <1>9, <2>3
    <3>2. b \notin L
      BY <1>1, <2>3, <3>1 DEF FlagsOK
    <3> QED  BY <1>5, <2>1, <3>1, <3>2
  <2>4. ASSUME NEW pg, pg \in U, pg \notin mixed PROVE pg \in allocated /\ pg \in usable
    <3>1. PICK b \in H : pg \in Block(b, size[b])
      BY <2>1, <2>4
    <3>2. b \in H \ Merging
      BY <2>2, <2>4, <3>1
    <3>3. pg \in allocated
      BY <1>1, <3>1, <3>2 DEF FlagsOK
    <3>4. pg \in usable
      BY <1>2, <1>5, <1>7, <3>1
    <3> QED  BY <3>3, <3>4
  <2> QED  BY <2>3, <2>4
<1>11. /\ \A pg \in usable : \E b \in L \cup H : pg \in Block(b, size[b])
       /\ \A b, c \in L \cup H : b # c => Block(b, size[b]) \cap Block(c, size[c]) = {}
       /\ L \cap H = {}
       /\ \A b \in L \cup H : Block(b, size[b]) \subseteq PagesOf(Segs[SegOf(b)])
       /\ (allocated \cap usable) \ mixed = U \ mixed
  BY <1>1, <1>5, <1>7, <1>8, <1>9, <1>10
<1> QED  BY <1>11 DEF PagesConserved, usable, mixed, L, H

\* the state of the lists what merging and the counters rely on,
LEMMA ExactFrom ==
  ASSUME IInv
  PROVE  FreeListsExact
<1>1. /\ managed = OnLists /\ ListsOK(freelist, size)
      /\ pagecount = [fl \in Queues |-> Len(freelist[fl])]
  BY Views DEF IInv, Core
<1>2. ASSUME NEW fl \in Queues
      PROVE  /\ pagecount[fl] = Len(freelist[fl])
             /\ Distinct(freelist[fl])
             /\ \A i \in 1 .. Len(freelist[fl]) : size[freelist[fl][i]] = 2 ^ fl
  <2>1. /\ freelist[fl] \in Seq(Pages) /\ Distinct(freelist[fl])
        /\ \A pg \in Range(freelist[fl]) : size[pg] = 2 ^ fl
    BY <1>1 DEF ListsOK
  <2>2. \A i \in 1 .. Len(freelist[fl]) : freelist[fl][i] \in Range(freelist[fl])
    BY <2>1 DEF Range
  <2> QED  BY <1>1, <2>1, <2>2
<1> QED  BY <1>1, <1>2 DEF FreeListsExact

\* and the sums that the list of the next step is not empty.
LEMMA NotDryFrom ==
  ASSUME IInv
  PROVE  NeverRunsDry
<1>1. op \in OpType /\ OpOK
      /\ Core(size, allocated, managed, freelist, pagecount, InHands, Merging)
  BY DEF IInv
<1> SUFFICES ASSUME op.kind = "list", op.n # 0, ~ PrevSum >= op.n
             PROVE  freelist[op.fl] # <<>>
  BY <1>1 DEF NeverRunsDry, OpOK
<1> SUFFICES ASSUME freelist[op.fl] = <<>> PROVE FALSE
  OBVIOUS
<1>2. op.n \in Nat /\ op.fl \in Queues /\ op.sums \in [Queues -> Nat]
  BY <1>1, OpFacts
<1>3. pagecount[op.fl] = 0
  <2>1. pagecount[op.fl] = Len(freelist[op.fl])
    BY <1>1, <1>2 DEF Core
  <2> QED  BY <2>1
<1>4. 2 ^ op.fl \in Nat
  BY <1>2, QueuePow
<1>5. op.n <= pagecount[op.fl] * 2 ^ op.fl + PrevSum
  BY <1>1 DEF OpOK
<1>6. PrevSum \in Nat
  <2>1. op.fl > 0 => op.fl - 1 \in Queues
    BY <1>2, QueuePow
  <2> QED  BY <1>2, <2>1 DEF PrevSum
<1>7. pagecount[op.fl] * 2 ^ op.fl = 0
  BY <1>3, <1>4
<1> QED  BY <1>2, <1>5, <1>6, <1>7

\* No page is given out twice or lost, over any sequence of allocations,
\* splits, frees and merges.
THEOREM PagesAreConserved ==
  ASSUME SmallSegs
  PROVE  Spec => []PagesConserved
<1>1. IInv => PagesConserved
  BY ConservedFrom
<1> QED  BY <1>1, PhysmemInvariant, PTL

\* The free lists, the sizes of pages, their flags and the counters agree.
THEOREM FreeListsAreExact ==
  ASSUME SmallSegs
  PROVE  Spec => []FreeListsExact
<1>1. IInv => FreeListsExact
  BY ExactFrom
<1> QED  BY <1>1, PhysmemInvariant, PTL

\* The assertions of pm_split_page and pm_take_page hold.
THEOREM AllocationNeverRunsDry ==
  ASSUME SmallSegs
  PROVE  Spec => []NeverRunsDry
<1>1. IInv => NeverRunsDry
  BY NotDryFrom
<1> QED  BY <1>1, PhysmemInvariant, PTL

-----------------------------------------------------------------------------
(* Complete merging *)

\* Blocks that leave the lists do no harm.
LEMMA FewerBlocks ==
  ASSUME NEW L, NEW sz, NEW X, MergedBut(L, sz, X),
         NEW nL \in SUBSET L, NEW nsz, NEW nX, \A x \in nL : nsz[x] = sz[x],
         \A x \in X : x \in nX \/ x \notin nL
  PROVE  MergedBut(nL, nsz, nX)
<1> SUFFICES ASSUME NEW i \in FreeSegs, NEW b \in nL \cap PagesOf(Segs[i]),
                    NEW c \in nL \cap PagesOf(Segs[i]), Pair(i, b, c, nsz)
             PROVE  b \in nX \/ c \in nX
  BY DEF MergedBut
<1>1. /\ b \in L \cap PagesOf(Segs[i]) /\ c \in L \cap PagesOf(Segs[i])
      /\ nsz[b] = sz[b] /\ nsz[c] = sz[c]
  OBVIOUS
<1>2. Pair(i, b, c, sz)
  BY <1>1 DEF Pair
<1>3. b \in X \/ c \in X
  BY <1>1, <1>2 DEF MergedBut
<1> QED  BY <1>3

\* The distance of a page from the start of its segment.
LEMMA Offset ==
  ASSUME NEW i \in FreeSegs, NEW b \in PagesOf(Segs[i])
  PROVE  /\ i \in 1 .. Len(Segs) /\ SegOf(b) = i
         /\ b \in Nat /\ Segs[i].first \in Nat /\ b - Segs[i].first \in Nat
<1>1. i \in 1 .. Len(Segs)
  BY DEF FreeSegs
<1>2. Segs[i].first \in Nat /\ Segs[i].npages \in Nat /\ SegOf(b) = i
  BY <1>1, SegTypes, SegOfPage
<1> QED  BY <1>1, <1>2 DEF PagesOf

\* After a split, the new buddies are the two halves and, when the block was not
\* aligned in its segment, each half and a neighbour of its size.
LEMMA SplitMerges ==
  ASSUME NEW sz, NEW al, NEW mg, NEW fr, NEW pc, NEW H,
         Core(sz, al, mg, fr, pc, H, {}),
         NEW fl \in Queues, NEW nsz, NEW nfr, SplitResult(sz, fr, H, fl, nsz, nfr),
         MergedBut(Listed(fr), sz, {Head(fr[fl])}),
         NEW X, Head(nfr[fl - 1]) \in X, fr[fl - 1] # <<>> => Head(fr[fl]) \in X
  PROVE  MergedBut(Listed(nfr), nsz, X)
<1> DEFINE page  == Head(fr[fl])
           h     == 2 ^ (fl - 1)
           buddy == page + h
           L     == Listed(fr)
<1>1. /\ fl - 1 \in Queues /\ Head(nfr[fl - 1]) = buddy /\ Listed(nfr) = L \cup {buddy}
      /\ nsz[page] = h /\ nsz[buddy] = h
      /\ \A x \in L : x # page => nsz[x] = sz[x]
  BY DEF SplitResult
<1>2. h \in Nat \ {0} /\ fl - 1 \in Nat
  BY <1>1, QueuePow
<1>3. fr[fl - 1] = <<>> => Range(fr[fl - 1]) = {}
  BY EmptyRange
<1>4. \A pg \in L : \E k \in Queues : sz[pg] = 2 ^ k /\ pg \in Range(fr[k])
  BY ListTypes DEF Core
<1> SUFFICES ASSUME NEW i \in FreeSegs, NEW b \in Listed(nfr) \cap PagesOf(Segs[i]),
                    NEW c \in Listed(nfr) \cap PagesOf(Segs[i]), Pair(i, b, c, nsz),
                    b \notin X, c \notin X
             PROVE  FALSE
  BY DEF MergedBut
<1> HIDE DEF L
<1>5. /\ b \in L /\ c \in L /\ b # buddy /\ c # buddy
      /\ nsz[b] = nsz[c] /\ b + nsz[b] = c
  BY <1>1 DEF Pair
<1>6. b # page
  BY <1>1, <1>5
<1>7. CASE c = page
  <2>1. sz[b] = h
    BY <1>1, <1>5, <1>6, <1>7
  <2>2. PICK k \in Queues : sz[b] = 2 ^ k /\ b \in Range(fr[k])
    BY <1>4, <1>5
  <2>3. k = fl - 1
    BY <1>2, <2>1, <2>2, QueuePow, PowOrder
  <2>4. fr[fl - 1] # <<>>
    BY <1>3, <2>2, <2>3
  <2> QED  BY <1>7, <2>4
<1>8. CASE c # page
  <2>1. nsz[b] = sz[b] /\ nsz[c] = sz[c]
    BY <1>1, <1>5, <1>6, <1>8
  <2>2. Pair(i, b, c, sz)
    BY <2>1 DEF Pair
  <2>3. b = page \/ c = page
    BY <1>5, <2>2 DEF MergedBut, L
  <2> QED  BY <1>6, <1>8, <2>3
<1> QED  BY <1>7, <1>8

-----------------------------------------------------------------------------
(* Each step preserves it *)

LEMMA LooseByKind ==
  /\ op.kind = "page" => Loose = {Head(freelist[op.fl])}
  /\ op.kind \in {"none", "free"} => Loose = {}
  /\ op.kind = "list" =>
       Loose = {pg \in Range(freelist[op.fl]) :
                  \/ PrevSum < op.n /\ pg = Head(freelist[op.fl])
                  \/ PrevSum + 2 ^ op.fl < op.n /\ pg = freelist[op.fl][2]}
  BY DEF Loose

LEMMA LooseByKindNext ==
  /\ op'.kind = "page" => Loose' = {Head(freelist'[op'.fl])}
  /\ op'.kind \in {"none", "free"} => Loose' = {}
  /\ op'.kind = "list" =>
       Loose' = {pg \in Range(freelist'[op'.fl]) :
                   \/ PrevSum' < op'.n /\ pg = Head(freelist'[op'.fl])
                   \/ PrevSum' + 2 ^ op'.fl < op'.n /\ pg = freelist'[op'.fl][2]}
  BY DEF Loose

\* Steps that only look at the lists, or pass blocks on.
LEMMA QuietMerge ==
  ASSUME IInv, MergeInv,
         vm_page_alloc \/ vm_pagelist_alloc \/ ListDown \/ ListReturn \/ vm_pagelist_free
  PROVE  MergeInv'
<1>1. size' = size /\ freelist' = freelist
  BY DEF vm_page_alloc, vm_pagelist_alloc, ListDown, ListReturn, vm_pagelist_free, lists
<1>2. Loose = {}
  <2>1. CASE vm_page_alloc \/ vm_pagelist_alloc \/ vm_pagelist_free
    <3>1. op.kind = "none"
      BY <2>1 DEF vm_page_alloc, vm_pagelist_alloc, vm_pagelist_free, Idle, NoOp
    <3> QED  BY <3>1, LooseByKind
  <2>2. CASE ListDown \/ ListReturn
    <3>1. op.kind = "list" /\ (PrevSum >= op.n \/ op.n = 0)
      BY <2>2 DEF ListDown, ListReturn
    <3>2. PrevSum \in Nat /\ op.n \in Nat /\ 2 ^ op.fl \in Nat
      BY <3>1, ListFacts, QueuePow
    <3>3. ~ (PrevSum < op.n) /\ ~ (PrevSum + 2 ^ op.fl < op.n)
      BY <3>1, <3>2
    <3> QED  BY <3>1, <3>3, LooseByKind
  <2> QED  BY <2>1, <2>2
<1>3. MergedBut(OnLists', size', Loose')
  <2> DEFINE L == OnLists
  <2>1. OnLists' = L
    BY <1>1 DEF OnLists
  <2>2. MergedBut(L, size, {})
    BY <1>2 DEF MergeInv
  <2> HIDE DEF L
  <2>3. MergedBut(L, size, Loose')
    BY <2>2 DEF MergedBut
  <2> QED  BY <1>1, <2>1, <2>3
<1>4. op'.kind = "page" =>
        \A k \in Queues : op'.n <= k /\ k < op'.fl => freelist'[k] = <<>>
  <2> SUFFICES ASSUME op'.kind = "page", NEW k \in Queues, op'.n <= k, k < op'.fl
               PROVE  freelist'[k] = <<>>
    OBVIOUS
  <2>1. CASE vm_page_alloc
    <3>1. PICK n \in Queues, fl \in Queues :
            /\ \A j \in n .. fl - 1 : freelist[j] = <<>>
            /\ op' = [kind |-> "page", n |-> n, fl |-> fl]
      BY <2>1 DEF vm_page_alloc
    <3>2. op'.n = n /\ op'.fl = fl /\ n \in Nat /\ fl \in Nat /\ k \in Nat
      BY <3>1, QueuePow
    <3>3. k \in n .. fl - 1
      BY <3>2
    <3> QED  BY <1>1, <3>1, <3>3
  <2>2. CASE vm_pagelist_alloc
    <3>1. \E n, fl, sums, l : op' = [kind |-> "list", n |-> n, fl |-> fl, sums |-> sums,
                                     pglist |-> l]
      BY <2>2 DEF vm_pagelist_alloc
    <3> QED  BY <3>1
  <2>3. CASE ListDown
    <3>1. op = [kind |-> "list", n |-> op.n, fl |-> op.fl, sums |-> op.sums,
                pglist |-> op.pglist]
          /\ op' = [op EXCEPT !.fl = @ - 1]
      BY <2>3, ListFacts DEF ListDown
    <3> QED  BY <3>1
  <2>4. CASE ListReturn
    BY <2>4 DEF ListReturn, NoOp
  <2>5. CASE vm_pagelist_free
    <3>1. \E pg, l : op' = [kind |-> "free", page |-> pg, pglist |-> l]
      BY <2>5 DEF vm_pagelist_free
    <3> QED  BY <3>1
  <2> QED  BY <2>1, <2>2, <2>3, <2>4, <2>5
<1> QED  BY <1>3, <1>4 DEF MergeInv

\* A block that is taken is no one's buddy any more.
LEMMA TakesMerge ==
  ASSUME IInv, MergeInv, PageTake \/ ListTake
  PROVE  MergeInv'
<1> DEFINE fl   == op.fl
           page == Head(freelist[fl])
<1>1. fl \in Queues /\ freelist[fl] # <<>> /\ pm_take_page(fl) /\ Merging = {}
      /\ op'.kind # "page"
  <2>1. CASE PageTake
    <3>1. op.kind = "page" /\ fl \in Queues /\ freelist[fl] # <<>>
      BY <2>1, OpFacts DEF IInv, PageTake, OpOK
    <3> QED  BY <2>1, <3>1, HandsByKind DEF PageTake, NoOp
  <2>2. CASE ListTake
    <3>1. op.kind = "list" /\ op.n > 0 /\ PrevSum < op.n
      BY <2>2 DEF ListTake
    <3>2. /\ fl \in Queues /\ freelist[fl] # <<>> /\ Merging = {}
          /\ op = [kind |-> "list", n |-> op.n, fl |-> op.fl, sums |-> op.sums,
                   pglist |-> op.pglist]
      BY <3>1, ListFacts
    <3>3. op'.kind = "list"
      BY <2>2, <3>2 DEF ListTake
    <3> QED  BY <2>2, <3>2, <3>3 DEF ListTake
  <2> QED  BY <2>1, <2>2
<1>2. Core(size, allocated, managed, freelist, pagecount, InHands, {})
  BY <1>1 DEF IInv
<1>3. /\ freelist \in [Queues -> Seq(Pages)] /\ ListsOK(freelist, size)
      /\ freelist' = [freelist EXCEPT ![fl] = Tail(freelist[fl])]
  BY <1>1, <1>2 DEF Core, pm_take_page
<1>4. TakeResult(size, freelist, InHands, fl, freelist') /\ size' = size
  <2> HIDE DEF fl
  <2> QED  BY <1>1, <1>2, TakeState
<1>5. Listed(freelist') = Listed(freelist) \ {page}
  BY <1>4 DEF TakeResult
<1>6. \A x \in Loose : x = page \/ x \in Loose'
  <2>1. CASE PageTake
    BY <2>1, LooseByKind DEF PageTake
  <2>2. CASE ListTake
    <3> SUFFICES ASSUME NEW x \in Loose, x # page PROVE x \in Loose'
      OBVIOUS
    <3>1. /\ op.kind = "list"
          /\ op' = [op EXCEPT !.n = @ - 2 ^ fl, !.pglist = Append(@, page)]
      BY <2>2 DEF ListTake
    <3>2. /\ op = [kind |-> "list", n |-> op.n, fl |-> op.fl, sums |-> op.sums,
                   pglist |-> op.pglist]
          /\ op.n \in Nat /\ PrevSum \in Nat /\ 2 ^ fl \in Nat
      BY <1>1, <3>1, ListFacts, QueuePow
    <3>3. op'.kind = "list" /\ op'.n = op.n - 2 ^ fl /\ op'.fl = fl /\ op'.sums = op.sums
      BY <3>1, <3>2
    <3>4. PrevSum' = PrevSum
      BY <3>3 DEF PrevSum
    <3>5. /\ x \in Range(freelist[fl]) /\ PrevSum + 2 ^ fl < op.n
          /\ x = freelist[fl][2]
      BY <3>1, LooseByKind
    <3>6. /\ freelist'[fl] = Tail(freelist[fl]) /\ Tail(freelist[fl]) \in Seq(Pages)
          /\ x \in Range(Tail(freelist[fl]))
      BY <1>1, <1>3, <3>5, HeadFacts
    <3>7. Tail(freelist[fl]) # <<>>
      BY <3>6, EmptyRange
    <3>8. Head(Tail(freelist[fl])) = freelist[fl][2]
      <4> DEFINE s == freelist[fl]
      <4>1. s \in Seq(Pages) /\ s # <<>> /\ Tail(s) # <<>>
        BY <1>1, <1>3, <3>7
      <4> HIDE DEF s
      <4>2. Head(Tail(s)) = s[2]
        BY <4>1
      <4> QED  BY <4>2 DEF s
    <3>9. PrevSum' < op'.n
      BY <3>2, <3>3, <3>4, <3>5
    <3> QED  BY <3>3, <3>5, <3>6, <3>8, <3>9, LooseByKindNext
  <2> QED  BY <2>1, <2>2
<1>7. MergedBut(OnLists', size', Loose')
  <2> DEFINE L == OnLists
             X == Loose
             Y == Loose'
  <2>1. MergedBut(L, size, X) /\ OnLists' = L \ {page}
    BY <1>5, Views DEF MergeInv
  <2>2. \A x \in X : x \in Y \/ x \notin L \ {page}
    BY <1>6
  <2> HIDE DEF L, X, Y, page
  <2>3. MergedBut(L \ {page}, size, Y)
    BY <2>1, <2>2, FewerBlocks
  <2> QED  BY <1>4, <2>1, <2>3 DEF Y
<1> QED  BY <1>1, <1>7 DEF MergeInv

\* vm_page_alloc splits a block for a list that is empty.
LEMMA PageSplitMerges ==
  ASSUME IInv, MergeInv, PageSplit
  PROVE  MergeInv'
<1> DEFINE fl   == op.fl
           g    == fl - 1
           page == Head(freelist[fl])
<1>1. /\ op.kind = "page" /\ fl \in Queues /\ freelist[fl] # <<>>
      /\ op.n \in Nat /\ fl > op.n /\ pm_split_page(fl)
      /\ op = [kind |-> "page", n |-> op.n, fl |-> op.fl]
  BY OpFacts DEF IInv, PageSplit, OpOK
<1>2. fl \in Nat /\ fl > 0 /\ g \in Queues /\ g \in Nat /\ op.n <= g /\ g < fl
  BY <1>1, QueuePow
<1>3. op' = [kind |-> "page", n |-> op.n, fl |-> g]
  BY <1>1 DEF PageSplit
<1>4. op'.kind = "page" /\ op'.fl = g /\ op'.n = op.n
  BY <1>3
<1>5. \A k \in Queues : op.n <= k /\ k < fl => freelist[k] = <<>>
  BY <1>1 DEF MergeInv
<1>6. Loose = {page} /\ Loose' = {Head(freelist'[g])}
  BY <1>1, <1>4, LooseByKind, LooseByKindNext
<1>7. Core(size, allocated, managed, freelist, pagecount, InHands, {})
  BY <1>1, HandsByKind DEF IInv
<1>8. SplitResult(size, freelist, InHands, fl, size', freelist')
  <2> HIDE DEF fl
  <2> QED  BY <1>1, <1>2, <1>7, SplitState
<1>9. MergedBut(Listed(freelist), size, {page}) /\ freelist[g] = <<>>
  BY <1>2, <1>5, <1>6, Views DEF MergeInv
<1>10. MergedBut(OnLists', size', Loose')
  <2> DEFINE X == Loose'
  <2>1. Head(freelist'[g]) \in X
    BY <1>6
  <2> HIDE DEF X, fl
  <2>2. MergedBut(Listed(freelist'), size', X)
    BY <1>1, <1>7, <1>8, <1>9, <2>1, SplitMerges
  <2> QED  BY <2>2, Views DEF X
<1>11. ASSUME NEW k \in Queues, op'.n <= k, k < op'.fl PROVE freelist'[k] = <<>>
  <2>1. k \in Nat /\ k # g /\ k # fl /\ k < fl /\ op.n <= k
    BY <1>2, <1>4, <1>11, QueuePow
  <2>2. freelist'[k] = freelist[k]
    <3>1. freelist \in [Queues -> Seq(Pages)]
      BY <1>7 DEF Core
    <3> QED  BY <1>1, <2>1, <3>1 DEF pm_split_page
  <2> QED  BY <1>5, <2>1, <2>2
<1> QED  BY <1>10, <1>11 DEF MergeInv

\* vm_pagelist_alloc splits a block although the next list may not be empty, but
\* then it needs that list's block, one half and a part of the other.
LEMMA ListSplitMerges ==
  ASSUME IInv, MergeInv, ListSplit
  PROVE  MergeInv'
<1> DEFINE fl   == op.fl
           g    == fl - 1
           page == Head(freelist[fl])
<1>1. /\ op.kind = "list" /\ op.n > 0 /\ PrevSum < op.n /\ op.n < 2 ^ fl
      /\ pm_split_page(fl)
      /\ op' = [op EXCEPT !.fl = @ - 1, !.sums = SplitSums(@, fl)]
  BY DEF ListSplit
<1>2. /\ op = [kind |-> "list", n |-> op.n, fl |-> fl, sums |-> op.sums,
               pglist |-> op.pglist]
      /\ op.n \in Nat /\ fl \in Queues /\ fl \in Nat
      /\ op.sums \in [Queues -> Nat] /\ PrevSum \in Nat
      /\ SumsExact(op.sums, pagecount, fl)
      /\ freelist[fl] # <<>>
      /\ Core(size, allocated, managed, freelist, pagecount, InHands, {})
  BY <1>1, ListFacts
<1>3. fl > 0
  <2> SUFFICES ASSUME fl = 0 PROVE FALSE
    BY <1>2
  <2>1. 2 ^ fl = 1
    BY PowZero
  <2> QED  BY <1>1, <1>2, <2>1
<1>4. /\ g \in Queues /\ g \in Nat /\ g < fl /\ 2 ^ g \in Nat \ {0}
      /\ (g > 0 => g - 1 \in Queues /\ g - 1 # g)
  <2>1. g \in Queues
    BY <1>2, <1>3, QueuePow
  <2> HIDE DEF g
  <2>2. g \in Nat /\ 2 ^ g \in Nat \ {0} /\ (g > 0 => g - 1 \in Queues /\ g - 1 # g)
    BY <2>1, QueuePow
  <2> QED  BY <1>2, <2>1, <2>2 DEF g
<1>5. op' = [kind |-> "list", n |-> op.n, fl |-> g, sums |-> SplitSums(op.sums, fl),
             pglist |-> op.pglist]
  BY <1>1, <1>2
<1>6. /\ op'.kind = "list" /\ op'.fl = g /\ op'.n = op.n
      /\ op'.sums = SplitSums(op.sums, fl)
  BY <1>5
<1>7. g > 0 => op'.sums[g - 1] = op.sums[g - 1] /\ op.sums[g - 1] \in Nat
  BY <1>2, <1>4, <1>6 DEF SplitSums
<1>8. PrevSum' = (IF g > 0 THEN op.sums[g - 1] ELSE 0) /\ PrevSum' \in Nat
  BY <1>4, <1>6, <1>7 DEF PrevSum
<1>9. PrevSum = pagecount[g] * 2 ^ g + PrevSum'
  <2>1. PrevSum = op.sums[g]
    BY <1>3 DEF PrevSum
  <2>2. op.sums[g] = pagecount[g] * 2 ^ g + (IF g = 0 THEN 0 ELSE op.sums[g - 1])
    BY <1>2, <1>4 DEF SumsExact
  <2>3. (IF g = 0 THEN 0 ELSE op.sums[g - 1]) = PrevSum'
    <3> HIDE DEF g
    <3> QED  BY <1>4, <1>8
  <2> QED  BY <2>1, <2>2, <2>3
<1>10. /\ pagecount[g] \in Nat /\ pagecount[g] * 2 ^ g \in Nat
       /\ freelist[g] # <<>> => pagecount[g] * 2 ^ g >= 2 ^ g
  <2>1. pagecount[g] \in Nat /\ (pagecount[g] > 0 <=> freelist[g] # <<>>)
    BY <1>2, <1>4, CountNat
  <2> DEFINE q == 2 ^ g
             p == pagecount[g]
  <2>2. q \in Nat \ {0} /\ p \in Nat
    BY <1>4, <2>1
  <2> HIDE DEF p, q
  <2>3. p * q \in Nat /\ (p > 0 => p * q >= q)
    <3>1. p * q = q * p /\ q * 1 = q /\ p * q \in Nat
      BY <2>2
    <3>2. p > 0 => q * 1 <= q * p
      BY <2>2, ProductOrder
    <3> QED  BY <3>1, <3>2
  <2> QED  BY <2>1, <2>3 DEF p, q
<1>11. PrevSum' < op.n /\ (freelist[g] # <<>> => PrevSum' + 2 ^ g < op.n)
  <2> DEFINE q == 2 ^ g
             r == pagecount[g] * 2 ^ g
  <2>1. /\ q \in Nat /\ r \in Nat /\ PrevSum = r + PrevSum' /\ PrevSum < op.n
        /\ freelist[g] # <<>> => r >= q
    BY <1>1, <1>4, <1>9, <1>10
  <2> HIDE DEF q, r, g
  <2>2. PrevSum' < op.n /\ (freelist[g] # <<>> => PrevSum' + q < op.n)
    BY <1>2, <1>8, <2>1
  <2> QED  BY <2>2 DEF q
<1>12. SplitResult(size, freelist, InHands, fl, size', freelist')
  <2> HIDE DEF fl
  <2> QED  BY <1>1, <1>2, <1>3, SplitState
<1> DEFINE s == freelist[g]
           buddy == page + size[page] \div 2
           r == <<buddy, page>> \o s
<1>13. /\ freelist'[g] = r /\ s \in Seq(Pages) /\ page \in Pages
       /\ freelist' \in [Queues -> Seq(Pages)]
  <2>1. freelist \in [Queues -> Seq(Pages)] /\ ListsOK(freelist, size)
    BY <1>2 DEF Core
  <2>2. Core(size', allocated', managed', freelist', pagecount', InHands, {})
    <3> HIDE DEF fl
    <3> QED  BY <1>1, <1>2, <1>3, SplitState
  <2> QED  BY <1>1, <1>2, <1>4, <2>1, <2>2, HeadFacts DEF pm_split_page, Core
<1>14. /\ Head(r) = buddy /\ r[2] = page /\ buddy \in Range(r) /\ page \in Range(r)
  <2>1. r \in Seq(Pages)
    BY <1>4, <1>13
  <2> HIDE DEF s, page, buddy
  <2>2. /\ Len(r) = Len(s) + 2 /\ Len(s) \in Nat /\ r[1] = buddy /\ r[2] = page
    BY <1>13
  <2>3. Head(r) = r[1] /\ 1 \in DOMAIN r /\ 2 \in DOMAIN r
    BY <2>1, <2>2
  <2> HIDE DEF r
  <2> QED  BY <2>2, <2>3 DEF Range
<1> HIDE DEF r, s, buddy
<1>15. Head(freelist'[g]) \in Loose' /\ (freelist[g] # <<>> => page \in Loose')
  BY <1>6, <1>11, <1>13, <1>14, LooseByKindNext
<1>16. MergedBut(Listed(freelist), size, {page})
  <2>1. ~ (PrevSum + 2 ^ fl < op.n)
    BY <1>1, <1>2, QueuePow
  <2>2. Loose \subseteq {page}
    BY <1>1, <2>1, LooseByKind
  <2>3. MergedBut(Listed(freelist), size, Loose)
    BY Views DEF MergeInv
  <2> HIDE DEF page
  <2> QED  BY <2>2, <2>3 DEF MergedBut
<1>17. MergedBut(OnLists', size', Loose')
  <2> DEFINE X == Loose'
  <2>1. Head(freelist'[g]) \in X /\ (freelist[g] # <<>> => page \in X)
    BY <1>15
  <2> HIDE DEF X, fl
  <2>2. MergedBut(Listed(freelist'), size', X)
    BY <1>2, <1>12, <1>16, <2>1, SplitMerges
  <2> QED  BY <2>2, Views DEF X
<1> QED  BY <1>6, <1>17 DEF MergeInv

\* A merge only takes a block from the lists.
LEMMA FreeMergeMerges ==
  ASSUME SmallSegs, IInv, MergeInv, FreeMerge
  PROVE  MergeInv'
<1> DEFINE page == op.page
           L == Listed(freelist)
           H == InHands
<1>0. op.kind = "free" /\ op'.kind = "free"
  <2>1. op.kind = "free"
    BY DEF FreeMerge
  <2>2. op = [kind |-> "free", page |-> op.page, pglist |-> op.pglist]
    BY <2>1, FreeFacts
  <2>3. \E x : op' = [op EXCEPT !.page = x]
    BY DEF FreeMerge
  <2> QED  BY <2>1, <2>2, <2>3
<1>1. PICK c \in pm_find_buddy(page), k \in Queues : MergedWith(c, k)
  BY FreeMergeKeeps
<1> DEFINE m == AtMost(page, c)
           s == 2 ^ k
<1>2. /\ size[page] = s /\ c \in L
      /\ Listed(freelist') = L \ {c}
      /\ InHands' = (H \ {page}) \cup {m}
      /\ size'[m] = 2 * s
      /\ \A x \in L \cup H : x # m => size'[x] = size[x]
  BY <1>1 DEF MergedWith
<1>3. /\ Adjacent(page, c, k, size) /\ size[c] = s
      /\ IF BuddyLeft(Segs[SegOf(page)], page) THEN c + s = page ELSE page + s = c
  BY <1>0, <1>2, BuddyFacts
<1>4. /\ page \in H /\ page \in Pages
      /\ SegOf(page) \in FreeSegs /\ page \in PagesOf(Segs[SegOf(page)])
      /\ Core(size, allocated, managed, freelist, pagecount, H, {page})
  BY <1>0, FreeFacts
<1>5. L \cap H = {} /\ L \in SUBSET Pages
  BY <1>4, ListTypes DEF Core
<1>6. c \in Nat /\ page \in Nat /\ s \in Nat \ {0}
  BY <1>2, <1>4, <1>5, PagesNat, QueuePow
<1>7. SegOf(c) = SegOf(page) /\ c \in PagesOf(Segs[SegOf(page)])
  BY <1>3 DEF Adjacent, pm_find_buddy
<1>8. m = IF BuddyLeft(Segs[SegOf(page)], page) THEN c ELSE page
  BY <1>3, <1>6 DEF AtMost
<1>9. MergedBut(L, size, {}) /\ Loose' = {}
  BY <1>0, LooseByKind, LooseByKindNext, Views DEF MergeInv
<1> HIDE DEF L, H, page, s, m
<1>10. \A x \in L \ {c} : size'[x] = size[x]
  BY <1>2, <1>4, <1>5, <1>8
<1>11. MergedBut(L \ {c}, size', {})
  BY <1>9, <1>10, FewerBlocks
<1>12. MergedBut(OnLists', size', Loose')
  BY <1>2, <1>9, <1>11, Views
<1> QED  BY <1>0, <1>12 DEF MergeInv

\* A block is only put on a list when its buddy is not free.
LEMMA FreeInsertMerges ==
  ASSUME IInv, MergeInv, FreeInsert
  PROVE  MergeInv'
<1> DEFINE page == op.page
           L == Listed(freelist)
           H == InHands
<1>0. op.kind = "free" /\ size' = size /\ pm_find_buddy(page) = {}
      /\ managed' = managed \cup {page}
  BY DEF FreeInsert
<1>1. IInv' /\ InHands' = H \ {page}
  BY FreeInsertKeeps
<1>2. /\ page \in H /\ page \in Pages
      /\ SegOf(page) \in FreeSegs /\ page \in PagesOf(Segs[SegOf(page)])
      /\ Core(size, allocated, managed, freelist, pagecount, H, {page})
  BY <1>0, FreeFacts
<1>3. PICK k \in Queues : size[page] = 2 ^ k
  BY <1>0, FreeFacts
<1> DEFINE s == 2 ^ k
<1>4. s \in Nat \ {0} /\ page \in Nat /\ size[page] = s
  BY <1>2, <1>3, QueuePow, PagesNat
<1>5. Listed(freelist') = L \cup {page} /\ managed = L
  BY <1>0, <1>1, <1>2 DEF IInv, Core
<1>6. Loose = {} /\ Loose' = {} /\ op'.kind # "page"
  <2>1. op'.kind \in {"none", "free"}
    <3>1. op = [kind |-> "free", page |-> op.page, pglist |-> op.pglist]
      BY <1>0, FreeFacts
    <3>2. CASE op.pglist = <<>>
      BY <3>2 DEF FreeInsert, NoOp
    <3>3. CASE op.pglist # <<>>
      <4>1. op' = [kind |-> "free", page |-> Head(op.pglist), pglist |-> Tail(op.pglist)]
        BY <3>1, <3>3 DEF FreeInsert
      <4> QED  BY <4>1
    <3> QED  BY <3>2, <3>3
  <2> QED  BY <1>0, <2>1, LooseByKind, LooseByKindNext
<1>7. MergedBut(L, size, {})
  BY <1>6, Views DEF MergeInv
<1> HIDE DEF L, H, page, s
<1>8. MergedBut(L \cup {page}, size, {})
  <2> SUFFICES ASSUME NEW i \in FreeSegs, NEW b \in (L \cup {page}) \cap PagesOf(Segs[i]),
                      NEW c \in (L \cup {page}) \cap PagesOf(Segs[i]), Pair(i, b, c, size)
               PROVE  FALSE
    BY DEF MergedBut
  <2>1. /\ size[b] = size[c] /\ b + size[b] = c
        /\ (b - Segs[i].first) % (2 * size[b]) = 0
    BY DEF Pair
  <2>2. CASE b = page
    <3>1. page + s = c /\ size[c] = s /\ ~ BuddyLeft(Segs[i], page) /\ SegOf(page) = i
      BY <1>4, <2>1, <2>2, Offset DEF BuddyLeft
    <3>2. c # page
      BY <1>4, <3>1
    <3>3. c \in pm_find_buddy(page)
      BY <1>4, <1>5, <3>1, <3>2 DEF pm_find_buddy, Mergeable
    <3> QED  BY <1>0, <3>3
  <2>3. CASE c = page
    <3> DEFINE a == b - Segs[i].first
    <3>1. size[b] = s /\ b + s = page /\ a % (2 * s) = 0
      BY <1>4, <2>1, <2>3
    <3>2. /\ SegOf(page) = i /\ Segs[i].first \in Nat
          /\ page - Segs[i].first \in Nat
      BY <2>3, Offset
    <3>3. a \in Nat /\ b \in Nat
      BY Offset
    <3>4. a + s = page - Segs[i].first
      <4>1. b + s = page
        BY <3>1
      <4> QED  BY <1>4, <3>2, <3>3, <4>1
    <3> HIDE DEF a
    <3>5. a % s = 0
      BY <1>4, <3>1, <3>3, ModHalf
    <3>6. (a + s) % (2 * s) # 0
      BY <1>4, <3>1, <3>3, <3>5, ModTwice
    <3>7. BuddyLeft(Segs[i], page)
      BY <1>4, <3>4, <3>6 DEF BuddyLeft
    <3>8. b # page
      BY <1>4, <3>1, <3>3
    <3>9. b \in pm_find_buddy(page)
      BY <1>4, <1>5, <3>1, <3>2, <3>7, <3>8 DEF pm_find_buddy, Mergeable
    <3> QED  BY <1>0, <3>9
  <2>4. CASE b # page /\ c # page
    <3>1. b \in L \cap PagesOf(Segs[i]) /\ c \in L \cap PagesOf(Segs[i])
      BY <2>4
    <3> QED  BY <1>7, <3>1 DEF MergedBut
  <2> QED  BY <2>2, <2>3, <2>4
<1>9. MergedBut(OnLists', size', Loose')
  BY <1>0, <1>5, <1>6, <1>8, Views
<1> QED  BY <1>6, <1>9 DEF MergeInv

\* Adding a multiple of s does not change what is a multiple of s.
LEMMA MultiplesDiffer ==
  ASSUME NEW a \in Nat, NEW b \in Nat, NEW s \in Nat \ {0}, a % s = 0
  PROVE  (a + b) % s = 0 <=> b % s = 0
<1>1. PICK p \in Nat : a = s * p
  BY ModZero
<1>2. ASSUME b % s = 0 PROVE (a + b) % s = 0
  <2>1. PICK q \in Nat : b = s * q
    BY <1>2, ModZero
  <2>2. s * (p + q) = s * p + s * q /\ p + q \in Nat
    OBVIOUS
  <2>3. a + b = s * (p + q) /\ a + b \in Nat
    BY <1>1, <2>1, <2>2
  <2> QED  BY <2>2, <2>3, ModZero
<1>3. ASSUME (a + b) % s = 0 PROVE b % s = 0
  <2>0. a + b \in Nat
    OBVIOUS
  <2>1. PICK q \in Nat : a + b = s * q
    BY <1>3, <2>0, ModZero
  <2>2. q >= p
    <3> SUFFICES ASSUME q < p PROVE FALSE
      OBVIOUS
    <3>1. s * (q + 1) <= s * p
      BY ProductOrder
    <3>2. s * (q + 1) = s * q + s /\ s * q \in Nat /\ s * p \in Nat
      OBVIOUS
    <3> QED  BY <1>1, <2>1, <3>1, <3>2
  <2>3. s * (q - p) = s * q - s * p /\ q - p \in Nat /\ s * q \in Nat /\ s * p \in Nat
    BY <2>2
  <2>4. b = s * (q - p)
    BY <1>1, <2>1, <2>3
  <2> QED  BY <2>3, <2>4, ModZero
<1> QED  BY <1>2, <1>3

\* A segment that starts at an odd multiple of 2^k begins with one block of that
\* size; those that follow start at multiples of 2^(k+1) up to the last 2^(k+1)
\* pages.
LEMMA LoopAligned ==
  ASSUME NEW i \in FreeSegs, NEW k \in Nat, k < NQueues - 1,
         Segs[i].start % 2 ^ k = 0, Segs[i].start % 2 ^ (k + 1) # 0,
         2 ^ k <= Segs[i].npages,
         NEW b \in FirstPages \cap PagesOf(Segs[i]), b # Segs[i].first
  PROVE  LET pa  == Segs[i].start + b - Segs[i].first
             end == Segs[i].start + Segs[i].npages
         IN  pa % 2 ^ (k + 1) = 0 \/ end < pa + 2 ^ (k + 1)
<1> DEFINE st == Segs[i].start
           fp == Segs[i].first
           end == st + Segs[i].npages
           pa(pg) == st + pg - fp
           s == 2 ^ k
           A(pg) == pa(pg) % (2 * s) = 0 \/ end < pa(pg) + 2 * s
           F == {pg \in Pages : pg \in PagesOf(Segs[i]) => pg = fp \/ A(pg)}
<1>1. /\ i \in 1 .. Len(Segs) /\ st \in Nat \ {0} /\ fp \in Nat /\ Segs[i].npages \in Nat \ {0}
      /\ NQueues \in Nat \ {0}
  BY SegTypes, PhysmemAssumption DEF FreeSegs
<1>2. s \in Nat \ {0} /\ 2 ^ (k + 1) = 2 * s /\ 2 * s \in Nat \ {0}
  BY PowPositive, PowNext
<1>3. ASSUME NEW pg \in PagesOf(Segs[i]), pg = fp \/ A(pg)
      PROVE  A(pg + InitSize[pg])
  <2> DEFINE a == pa(pg)
             nx == pg + InitSize[pg]
  <2>1. PICK q \in Queues :
          /\ InitSize[pg] = 2 ^ q /\ a \in Nat /\ a % 2 ^ q = 0
          /\ q < NQueues - 1 => a % 2 ^ (q + 1) # 0 \/ end < a + 2 ^ (q + 1)
    BY <1>1, InitSizeFacts
  <2> DEFINE t == 2 ^ q
  <2>2. q \in Nat /\ t \in Nat \ {0} /\ pg \in Nat /\ 2 ^ (q + 1) = 2 * t
    <3>1. q \in Nat /\ t \in Nat \ {0} /\ pg \in Nat
      BY <1>1, QueuePow, InitSizeFits
    <3> QED  BY <3>1, PowNext
  <2>3. pa(nx) = a + t
    <3>1. nx = pg + t
      BY <2>1
    <3> HIDE DEF nx, t, st, fp
    <3> QED  BY <1>1, <2>2, <3>1
  <2>4. ASSUME q <= k, a % 2 ^ (q + 1) = 0 PROVE end < a + 2 * t
    <3>1. q < NQueues - 1
      BY <1>1, <2>2, <2>4
    <3>2. end < a + 2 ^ (q + 1)
      BY <2>1, <2>4, <3>1
    <3> QED  BY <2>2, <3>2
  <2>5. CASE pg = fp
    <3>1. a = st
      BY <1>1, <2>5
    <3>2. q <= k
      <4> SUFFICES ASSUME k + 1 <= q PROVE FALSE
        BY <2>2
      <4>1. a % 2 ^ (k + 1) = 0
        BY <2>1, <2>2, PowMod
      <4> QED  BY <3>1, <4>1
    <3>3. q = k
      <4> SUFFICES ASSUME q + 1 <= k PROVE FALSE
        BY <2>2, <3>2
      <4>1. a % 2 ^ (q + 1) = 0
        <5>1. a % 2 ^ k = 0 /\ q + 1 \in Nat
          BY <2>2, <3>1
        <5> HIDE DEF a
        <5> QED  BY <2>1, <5>1, PowMod
      <4>2. end < a + 2 * t
        BY <2>4, <3>2, <4>1
      <4>3. 2 * t <= s
        <5>1. 2 ^ (q + 1) <= 2 ^ k
          BY <2>2, PowOrder
        <5> QED  BY <2>2, <5>1
      <4>4. s <= Segs[i].npages /\ end = st + Segs[i].npages
        OBVIOUS
      <4> HIDE DEF a, s, t, end, st
      <4> QED  BY <1>1, <1>2, <2>2, <3>1, <4>2, <4>3, <4>4
    <3>4. st % s = 0 /\ st % (2 * s) # 0
      BY <1>2
    <3>5. t = s
      BY <3>3
    <3> HIDE DEF st, s, t
    <3>6. st >= s /\ (st - s) % (2 * s) = 0
      BY <1>1, <1>2, <3>4, ModTwice
    <3>7. (2 * s) % (2 * s) = 0
      BY <1>2
    <3> DEFINE d == st - s
               e == 2 * s
    <3>8. d \in Nat /\ e \in Nat \ {0} /\ d % e = 0 /\ e % e = 0 /\ st + s = d + e
      BY <1>1, <1>2, <3>6, <3>7
    <3> HIDE DEF d, e
    <3>9. (d + e) % e = 0
      BY <3>8, MultiplesDiffer
    <3>10. (st + s) % (2 * s) = 0
      BY <3>8, <3>9 DEF e
    <3> QED  BY <2>3, <3>1, <3>5, <3>10
  <2>6. CASE a % (2 * s) = 0 /\ k + 1 <= q
    <3>1. t % t = 0
      <4> HIDE DEF t
      <4> QED  BY <2>2
    <3>2. t % 2 ^ (k + 1) = 0
      BY <2>2, <2>6, <3>1, PowMod
    <3> DEFINE e == 2 * s
    <3>3. e \in Nat \ {0} /\ t % e = 0 /\ a % e = 0
      BY <1>2, <2>6, <3>2
    <3> HIDE DEF e, t, a
    <3>4. (a + t) % e = 0
      BY <2>1, <2>2, <3>3, MultiplesDiffer
    <3> QED  BY <2>3, <3>4 DEF e
  <2>7. CASE a % (2 * s) = 0 /\ q <= k
    <3>1. a % 2 ^ (q + 1) = 0
      <4>1. a % 2 ^ (k + 1) = 0 /\ q + 1 \in Nat /\ q + 1 <= k + 1
        BY <1>2, <2>2, <2>7
      <4> HIDE DEF a
      <4> QED  BY <2>1, <4>1, PowMod
    <3>2. end < a + 2 * t
      BY <2>4, <2>7, <3>1
    <3>3. t <= s
      BY <2>2, <2>7, PowOrder
    <3>4. end < (a + t) + 2 * s
      <4> HIDE DEF a, s, t
      <4> QED  BY <1>1, <1>2, <2>1, <2>2, <3>2, <3>3
    <3> QED  BY <2>3, <3>4
  <2>8. CASE end < a + 2 * s
    <3>1. end < (a + t) + 2 * s
      <4> HIDE DEF a, s, t
      <4> QED  BY <1>1, <1>2, <2>1, <2>2, <2>8
    <3> QED  BY <2>3, <3>1
  <2>9. q <= k \/ k + 1 <= q
    BY <2>2
  <2> QED  BY <1>3, <2>5, <2>6, <2>7, <2>8, <2>9
<1>4. LoopClosed(F)
  <2> SUFFICES ASSUME NEW j \in 1 .. Len(Segs), ~ Segs[j].used
               PROVE  /\ Segs[j].first \in F
                      /\ \A pg \in F \cap PagesOf(Segs[j]) :
                           pg + InitSize[pg] \in PagesOf(Segs[j]) => pg + InitSize[pg] \in F
    BY DEF LoopClosed
  <2>1. Segs[j].first \in PagesOf(Segs[j])
    BY SegTypes DEF PagesOf
  <2>2. \A x \in PagesOf(Segs[j]) : x \in Pages /\ (x \in PagesOf(Segs[i]) => j = i)
    <3> SUFFICES ASSUME NEW x \in PagesOf(Segs[j])
                 PROVE  x \in Pages /\ (x \in PagesOf(Segs[i]) => j = i)
      OBVIOUS
    <3>1. x \in Pages /\ SegOf(x) = j
      BY SegOfPage
    <3>2. x \in PagesOf(Segs[i]) => SegOf(x) = i
      BY <1>1, SegOfPage
    <3> QED  BY <3>1, <3>2
  <2> HIDE DEF A
  <2>3. Segs[j].first \in F
    BY <2>1, <2>2
  <2>4. ASSUME NEW pg \in F \cap PagesOf(Segs[j]), pg + InitSize[pg] \in PagesOf(Segs[j])
        PROVE  pg + InitSize[pg] \in F
    <3>1. CASE j = i
      <4>1. A(pg + InitSize[pg])
        BY <1>3, <2>4, <3>1
      <4> QED  BY <2>2, <2>4, <4>1
    <3>2. CASE j # i
      BY <2>2, <2>4, <3>2
    <3> QED  BY <3>1, <3>2
  <2> QED  BY <2>3, <2>4
<1>5. A(b)
  <2> HIDE DEF A
  <2>1. F \in SUBSET Pages /\ b \in Pages
    BY <1>1, SegOfPage
  <2>2. b \in F
    <3> HIDE DEF F
    <3> QED  BY <1>4, <2>1 DEF FirstPages
  <2> QED  BY <2>2
<1> QED  BY <1>2, <1>5

\* The loop of init_vm_page leaves no buddies but at the start of a segment: two
\* blocks that start at a multiple of twice their size would have been one, and
\* other buddies would follow a block of their own size.
LEMMA InitMerges ==
  ASSUME Init
  PROVE  MergeInv
<1>1. op.kind = "none" /\ size = InitSize
  BY DEF Init, NoOp
<1>2. Loose = {}
  BY <1>1, LooseByKind
<1>3. OnLists = FirstPages
  BY InitLists, Views
<1>4. MergedBut(FirstPages, InitSize, {})
  <2> SUFFICES ASSUME NEW i \in FreeSegs, NEW b \in FirstPages \cap PagesOf(Segs[i]),
                      NEW c \in FirstPages \cap PagesOf(Segs[i]), Pair(i, b, c, InitSize)
               PROVE  FALSE
    BY DEF MergedBut
  <2> DEFINE st  == Segs[i].start
             o   == b - Segs[i].first
             pa  == Segs[i].start + b - Segs[i].first
             end == Segs[i].start + Segs[i].npages
  <2>1. i \in 1 .. Len(Segs) /\ b \in Nat /\ o \in Nat
    BY Offset
  <2>2. PICK k \in Queues :
          /\ InitSize[b] = 2 ^ k /\ pa \in Nat /\ pa % 2 ^ k = 0
          /\ k < NQueues - 1 => pa % 2 ^ (k + 1) # 0 \/ end < pa + 2 ^ (k + 1)
    BY <2>1, InitSizeFacts
  <2> DEFINE s == 2 ^ k
  <2>3. /\ InitSize[c] = s /\ s < 2 ^ (NQueues - 1)
        /\ c = b + s /\ o % (2 * s) = 0
        /\ b = Segs[i].first => st % (2 * s) = 0
    BY <2>2 DEF Pair
  <2>4. k \in Nat /\ s \in Nat \ {0} /\ NQueues - 1 \in Nat /\ 2 ^ (k + 1) = 2 * s
    <3>1. NQueues \in Nat \ {0}
      BY PhysmemAssumption
    <3>2. k \in Nat /\ s \in Nat \ {0}
      BY QueuePow
    <3> QED  BY <3>1, <3>2, PowNext
  <2>5. k < NQueues - 1
    BY <2>3, <2>4, PowOrder
  <2>6. /\ st \in Nat /\ Segs[i].first \in Nat /\ Segs[i].npages \in Nat
        /\ c + s <= Segs[i].first + Segs[i].npages
    BY <2>1, <2>3, SegTypes, InitSizeFits
  <2>7. pa = o + st /\ pa + 2 * s <= end /\ s <= Segs[i].npages
    <3> DEFINE f == Segs[i].first
               n == Segs[i].npages
    <3>1. /\ b \in Nat /\ f \in Nat /\ st \in Nat /\ n \in Nat /\ s \in Nat
          /\ b - f \in Nat /\ c = b + s /\ c + s <= f + n
      BY <2>1, <2>3, <2>4, <2>6
    <3>2. o = b - f /\ pa = st + b - f /\ end = st + n
      OBVIOUS
    <3> HIDE DEF s, st, f, n, pa, o, end
    <3>3. pa = o + st /\ pa + 2 * s <= end /\ s <= n
      BY <3>1, <3>2
    <3> QED  BY <3>3 DEF n
  <2>8. pa % (2 * s) # 0
    <3>1. end \in Nat /\ pa \in Nat
      BY <2>2, <2>6
    <3>2. pa % (2 * s) # 0 \/ end < pa + 2 * s
      BY <2>2, <2>4, <2>5
    <3> HIDE DEF s, pa, end
    <3> QED  BY <2>4, <2>7, <3>1, <3>2
  <2>9. pa % s = 0
    BY <2>2
  <2> HIDE DEF s, pa, end, o, st
  <2>10. o % s = 0
    BY <2>1, <2>3, <2>4, ModHalf
  <2>11. st % s = 0 /\ st % (2 * s) # 0
    <3>1. 2 * s \in Nat \ {0}
      BY <2>4
    <3>2. (o + st) % s = 0 /\ (o + st) % (2 * s) # 0
      BY <2>7, <2>8, <2>9
    <3> QED  BY <2>1, <2>3, <2>4, <2>6, <2>10, <3>1, <3>2, MultiplesDiffer
  <2>12. b # Segs[i].first
    BY <2>3, <2>11
  <2>13. pa % 2 ^ (k + 1) = 0 \/ end < pa + 2 ^ (k + 1)
    <3>1. /\ Segs[i].start % 2 ^ k = 0 /\ Segs[i].start % 2 ^ (k + 1) # 0
          /\ 2 ^ k <= Segs[i].npages
      BY <2>4, <2>7, <2>11 DEF st, s
    <3> QED  BY <2>4, <2>5, <2>12, <3>1, LoopAligned DEF pa, end
  <2>14. pa \in Nat /\ end \in Nat
    BY <2>2, <2>6 DEF st, end
  <2> QED  BY <2>4, <2>7, <2>8, <2>13, <2>14
<1> QED  BY <1>1, <1>2, <1>3, <1>4 DEF MergeInv

LEMMA StutterMerges ==
  ASSUME MergeInv, UNCHANGED vars
  PROVE  MergeInv'
<1>1. /\ size' = size /\ freelist' = freelist /\ op' = op
  BY DEF vars, lists
<1>2. OnLists' = OnLists /\ Loose' = Loose
  BY <1>1 DEF OnLists, Loose, PrevSum
<1> QED  BY <1>1, <1>2 DEF MergeInv

LEMMA MergedFrom ==
  ASSUME IInv, MergeInv
  PROVE  BuddiesMerged
<1> SUFFICES ASSUME Idle, NEW i \in 1 .. Len(Segs),
                    NEW b \in OnLists \cap PagesOf(Segs[i]),
                    NEW c \in OnLists \cap PagesOf(Segs[i]),
                    Pair(i, b, c, size)
             PROVE  FALSE
  BY DEF BuddiesMerged, Pair
<1>1. Loose = {}
  <2>1. op.kind = "none"
    BY DEF Idle, NoOp
  <2> QED  BY <2>1, LooseByKind
<1>2. i \in FreeSegs
  <2>1. SegOf(b) \in FreeSegs
    <3> DEFINE B == Listed(freelist) \cup InHands
    <3>1. B \in SUBSET Pages /\ size \in [Pages -> Nat] /\ Tiles(B, size)
      BY ListTypes DEF IInv, Core
    <3>2. b \in B
      BY Views
    <3> HIDE DEF B
    <3> QED  BY <3>1, <3>2, TileFacts
  <2>2. SegOf(b) = i
    BY SegOfPage
  <2> QED  BY <2>1, <2>2
<1> QED  BY <1>1, <1>2 DEF MergeInv, MergedBut

\* Merging is complete by the code's notion of a buddy, wherever segments start:
\* whenever no call is under way no free block has a free buddy, but for the pair
\* at the start of a segment that init_vm_page may have made.
THEOREM BuddiesAreMerged ==
  ASSUME SmallSegs
  PROVE  Spec => []BuddiesMerged
<1>1. Init => MergeInv
  BY InitMerges
<1>2. IInv /\ MergeInv /\ [Next]_vars => MergeInv'
  BY QuietMerge, TakesMerge, PageSplitMerges, ListSplitMerges, FreeMergeMerges,
     FreeInsertMerges, StutterMerges DEF Next
<1>3. IInv /\ MergeInv => BuddiesMerged
  BY MergedFrom
<1> QED  BY <1>1, <1>2, <1>3, PhysmemInvariant, PTL DEF Spec
=============================================================================
