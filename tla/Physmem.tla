------------------------------ MODULE Physmem ------------------------------
(***************************************************************************)
(* The allocator of physical pages (sys/kern/vm_physmem.c): a buddy system *)
(* over segments of memory.  Each call holds physmem_lock to its end, so   *)
(* one call is under way at a time; its splits and merges are steps of     *)
(* their own.  A page is its index in the array of vm_page_t, and          *)
(* addresses are page numbers.                                             *)
(***************************************************************************)
EXTENDS TailQueue

CONSTANTS
  NQueues,   \* PM_NQUEUES
  Segs,      \* seglist after vm_boot_alloc: a sequence of records with the
             \* first page's index and address, npages and used
  MaxHeld    \* bound on what callers hold at a time

NPages == Segs[Len(Segs)].first + Segs[Len(Segs)].npages
Pages == 0 .. NPages - 1
Queues == 0 .. NQueues - 1
PagesOf(seg) == seg.first .. seg.first + seg.npages - 1

\* No board plugs the page at address 0 (sys/mips/board.c, sys/aarch64/board.c).
ASSUME PhysmemAssumption ==
  /\ NQueues \in Nat \ {0} /\ MaxHeld \in Nat
  /\ Segs \in Seq([first : Nat, start : Nat \ {0}, npages : Nat \ {0},
                   used : BOOLEAN])
  /\ Len(Segs) > 0 /\ Segs[1].first = 0
  /\ \A i \in 2 .. Len(Segs) : Segs[i].first = Segs[i - 1].first + Segs[i - 1].npages

VARIABLES
  size,       \* [Pages -> Nat], of a block whose first page it is
  allocated,  \* pages with PG_ALLOCATED
  managed,    \* pages with PG_MANAGED
  freelist,   \* [Queues -> sequences of pages]
  pagecount,  \* [Queues -> Nat]
  held,       \* the lists of pages that callers have
  op          \* the call that holds physmem_lock

lists == <<freelist, pagecount>>
vars == <<size, allocated, managed, lists, held, op>>

NoOp == [kind |-> "none"]
Idle == op = NoOp

\* The segment of a page, and the pages of a block.
SegOf(pg) == CHOOSE i \in 1 .. Len(Segs) : pg \in PagesOf(Segs[i])
Block(pg, n) == pg .. pg + n - 1

AtMost(m, n) == IF m <= n THEN m ELSE n
Log2(n) == CHOOSE k \in 0 .. n : 2 ^ k = n

-----------------------------------------------------------------------------
(* init_vm_page *)

\* The number of trailing zero bits of an address, and the highest bit in which two numbers
\* differ.
ctz(n) == CHOOSE k \in 0 .. n : n % 2 ^ k = 0 /\ n % 2 ^ (k + 1) # 0
HighestDiffering(m, n) ==
  CHOOSE k \in 0 .. m + n :
    /\ m \div 2 ^ k # n \div 2 ^ k
    /\ m \div 2 ^ (k + 1) = n \div 2 ^ (k + 1)

\* The largest aligned block that starts at address pa and ends in a segment.
InitialSize(pa, end) ==
  LET s == 2 ^ AtMost(NQueues - 1, ctz(pa))
  IN IF pa + s > end THEN 2 ^ AtMost(NQueues - 1, HighestDiffering(end, pa)) ELSE s

InitSize ==
  [pg \in Pages |-> LET seg == Segs[SegOf(pg)]
                    IN InitialSize(seg.start + pg - seg.first, seg.start + seg.npages)]

\* The pages at which the loop that fills the free lists stops: the first one
\* of each free segment and, after each such page, the one that follows its
\* block, and no others.
LoopClosed(F) ==
  \A i \in 1 .. Len(Segs) :
    ~ Segs[i].used =>
      /\ Segs[i].first \in F
      /\ \A pg \in F \cap PagesOf(Segs[i]) :
           pg + InitSize[pg] \in PagesOf(Segs[i]) => pg + InitSize[pg] \in F

FirstPages == {pg \in Pages : \A F \in SUBSET Pages : LoopClosed(F) => pg \in F}

Init ==
  /\ size = InitSize
  /\ allocated = UNION {PagesOf(Segs[i]) : i \in {i \in 1 .. Len(Segs) : Segs[i].used}}
  /\ managed = FirstPages
  /\ freelist = [fl \in Queues |->
       Sublist([i \in 1 .. NPages |-> i - 1],
               {pg \in FirstPages : InitSize[pg] = 2 ^ fl})]
  /\ pagecount = [fl \in Queues |-> Len(freelist[fl])]
  /\ held = {} /\ op = NoOp

-----------------------------------------------------------------------------
(* The steps on blocks *)

pm_split_page(fl) ==
  LET page == Head(freelist[fl])
      half == size[page] \div 2
      buddy == page + half
  IN /\ freelist' = [freelist EXCEPT ![fl] = Tail(@),
                                     ![fl - 1] = <<buddy, page>> \o @]
     /\ pagecount' = [pagecount EXCEPT ![fl] = @ - 1, ![fl - 1] = @ + 2]
     /\ size' = [size EXCEPT ![page] = half, ![buddy] = half]
     /\ managed' = managed \cup {buddy}
     /\ UNCHANGED allocated

\* Variant: only the first page of the block is marked.
Marked_First(pg) == {pg}

\* The pages that pm_take_page marks as allocated.
Marked(pg) == Block(pg, size[pg])

\* Variant: the counter is not kept up to date.
CountTaken_Not(fl) == pagecount

CountTaken(fl) == [pagecount EXCEPT ![fl] = @ - 1]

pm_take_page(fl) ==
  LET page == Head(freelist[fl])
  IN /\ freelist' = [freelist EXCEPT ![fl] = Tail(@)]
     /\ pagecount' = CountTaken(fl)
     /\ managed' = managed \ {page}
     /\ allocated' = allocated \cup Marked(page)
     /\ UNCHANGED size

-----------------------------------------------------------------------------
(* vm_page_alloc *)

vm_page_alloc ==
  /\ Idle /\ Cardinality(held) < MaxHeld
  /\ \E n, fl \in Queues :
       /\ n <= fl /\ freelist[fl] # <<>>
       /\ \A k \in n .. fl - 1 : freelist[k] = <<>>
       /\ op' = [kind |-> "page", n |-> n, fl |-> fl]
  /\ UNCHANGED <<size, allocated, managed, lists, held>>

PageSplit ==
  /\ op.kind = "page" /\ op.fl > op.n
  /\ pm_split_page(op.fl)
  /\ op' = [op EXCEPT !.fl = @ - 1]
  /\ UNCHANGED held

PageTake ==
  /\ op.kind = "page" /\ op.fl = op.n
  /\ pm_take_page(op.fl)
  /\ held' = held \cup {<<Head(freelist[op.fl])>>}
  /\ op' = NoOp

-----------------------------------------------------------------------------
(* vm_pagelist_alloc *)

\* Pages on the free lists up to fl, as the counters have it.
Sums ==
  LET sum[fl \in Queues] ==
        pagecount[fl] * 2 ^ fl + (IF fl = 0 THEN 0 ELSE sum[fl - 1])
  IN sum

vm_pagelist_alloc ==
  /\ Idle /\ Cardinality(held) < MaxHeld
  /\ \E n \in 1 .. NPages, fl \in Queues :
       /\ Sums[fl] >= n
       /\ \A k \in Queues : k < fl => Sums[k] < n
       /\ op' = [kind |-> "list", n |-> n, fl |-> fl, sums |-> Sums, pglist |-> <<>>]
  /\ UNCHANGED <<size, allocated, managed, lists, held>>

PrevSum == IF op.fl > 0 THEN op.sums[op.fl - 1] ELSE 0

ListDown ==
  /\ op.kind = "list" /\ op.n > 0
  /\ PrevSum >= op.n
  /\ op' = [op EXCEPT !.fl = @ - 1]
  /\ UNCHANGED <<size, allocated, managed, lists, held>>

\* The sums of the smaller pages after a split of a page on list fl.
SplitSums(sums, fl) == [sums EXCEPT ![fl - 1] = @ + 2 ^ fl]

ListSplit ==
  /\ op.kind = "list" /\ op.n > 0
  /\ PrevSum < op.n /\ op.n < 2 ^ op.fl
  /\ pm_split_page(op.fl)
  /\ op' = [op EXCEPT !.fl = @ - 1, !.sums = SplitSums(@, op.fl)]
  /\ UNCHANGED held

ListTake ==
  /\ op.kind = "list" /\ op.n > 0
  /\ PrevSum < op.n /\ op.n >= 2 ^ op.fl
  /\ pm_take_page(op.fl)
  /\ op' = [op EXCEPT !.n = @ - 2 ^ op.fl,
                      !.pglist = Append(@, Head(freelist[op.fl]))]
  /\ UNCHANGED held

ListReturn ==
  /\ op.kind = "list" /\ op.n = 0
  /\ held' = held \cup {op.pglist}
  /\ op' = NoOp
  /\ UNCHANGED <<size, allocated, managed, lists>>

-----------------------------------------------------------------------------
(* vm_page_free and vm_pagelist_free *)

vm_pagelist_free ==
  /\ Idle
  /\ \E pglist \in held :
       /\ held' = held \ {pglist}
       /\ op' = [kind |-> "free", page |-> Head(pglist), pglist |-> Tail(pglist)]
  /\ UNCHANGED <<size, allocated, managed, lists>>

\* Variant: the buddy is always looked for on the right.
BuddyLeft_Never(seg, pg) == FALSE

\* Whether the buddy of a block is on its left, by the block's index in its
\* segment (not by its address).
BuddyLeft(seg, pg) == (pg - seg.first) % (2 * size[pg]) # 0

\* Variant: a free block of any size will do.
Mergeable_AnySize(buddy, pg) == buddy \in managed

Mergeable(buddy, pg) == size[buddy] = size[pg] /\ buddy \in managed

\* The set of the page's buddy, or nothing.
pm_find_buddy(pg) ==
  LET seg == Segs[SegOf(pg)]
  IN {buddy \in PagesOf(seg) :
        /\ IF BuddyLeft(seg, pg) THEN buddy + size[pg] = pg ELSE pg + size[pg] = buddy
        /\ Mergeable(buddy, pg)}

\* The block that two buddies are merged to, by its first page and its size.
pm_merge_buddies(pg1, pg2) == [first |-> AtMost(pg1, pg2), size |-> 2 * size[pg1]]

\* One turn of the loop of pm_free_from_seg.
FreeMerge ==
  /\ op.kind = "free"
  /\ \E buddy \in pm_find_buddy(op.page) :
       LET fl == Log2(size[buddy])
           merged == pm_merge_buddies(op.page, buddy)
       IN /\ freelist' = [freelist EXCEPT ![fl] = TAILQ_REMOVE(@, buddy)]
          /\ pagecount' = [pagecount EXCEPT ![fl] = @ - 1]
          /\ managed' = managed \ {buddy}
          /\ size' = [size EXCEPT ![merged.first] = merged.size]
          /\ op' = [op EXCEPT !.page = merged.first]
  /\ UNCHANGED <<allocated, held>>

\* The rest of pm_free_from_seg, and on to the next page of the list.  A block
\* that is too large for the last queue goes to memory past the array, which
\* is not modelled.
FreeInsert ==
  /\ op.kind = "free" /\ pm_find_buddy(op.page) = {}
  /\ LET fl == Log2(size[op.page])
     IN IF fl \in Queues
        THEN /\ freelist' = [freelist EXCEPT ![fl] = <<op.page>> \o @]
             /\ pagecount' = [pagecount EXCEPT ![fl] = @ + 1]
        ELSE UNCHANGED lists
  /\ managed' = managed \cup {op.page}
  /\ allocated' = allocated \ Block(op.page, size[op.page])
  /\ op' = IF op.pglist = <<>> THEN NoOp
           ELSE [op EXCEPT !.page = Head(op.pglist), !.pglist = Tail(@)]
  /\ UNCHANGED <<size, held>>

-----------------------------------------------------------------------------
Next ==
  \/ vm_page_alloc \/ PageSplit \/ PageTake
  \/ vm_pagelist_alloc \/ ListDown \/ ListSplit \/ ListTake \/ ListReturn
  \/ vm_pagelist_free \/ FreeMerge \/ FreeInsert

Spec == Init /\ [][Next]_vars

-----------------------------------------------------------------------------
(* Properties *)

\* The first pages of the blocks on free lists, of those that callers have, of
\* those in the list of the call under way, and of the one that is being freed.
OnLists == UNION {Range(freelist[fl]) : fl \in Queues}
HeldPages == UNION {Range(pglist) : pglist \in held}
CallPages == IF op.kind \in {"list", "free"} THEN Range(op.pglist) ELSE {}
Merging == IF op.kind = "free" THEN {op.page} ELSE {}
InHands == HeldPages \cup CallPages \cup Merging

\* Free blocks and the blocks given out cover the memory and do not overlap:
\* no page is given out twice or lost over splits and merges, and the pages
\* with PG_ALLOCATED are those given out.  (The block that pm_free_from_seg
\* merges has both flags in it.)
PagesConserved ==
  LET usable == UNION {PagesOf(Segs[i]) : i \in {i \in 1 .. Len(Segs) : ~ Segs[i].used}}
      mixed == IF op.kind = "free" THEN Block(op.page, size[op.page]) ELSE {}
  IN /\ \A pg \in usable : \E b \in OnLists \cup InHands : pg \in Block(b, size[b])
     /\ \A b, c \in OnLists \cup InHands :
          b # c => Block(b, size[b]) \cap Block(c, size[c]) = {}
     /\ OnLists \cap InHands = {}
     /\ \A b \in OnLists \cup InHands : Block(b, size[b]) \subseteq PagesOf(Segs[SegOf(b)])
     /\ (allocated \cap usable) \ mixed
          = (UNION {Block(b, size[b]) : b \in InHands}) \ mixed

\* The free lists agree with the sizes and flags of pages, on which merging
\* relies, and with the counters, on which vm_pagelist_alloc relies.
FreeListsExact ==
  /\ OnLists = managed
  /\ \A fl \in Queues :
       /\ pagecount[fl] = Len(freelist[fl])
       /\ Distinct(freelist[fl])
       /\ \A i \in 1 .. Len(freelist[fl]) : size[freelist[fl][i]] = 2 ^ fl

\* The assertions of pm_split_page and pm_take_page: once vm_pagelist_alloc has
\* seen that there is enough, its sums never lead it to an empty list.
NeverRunsDry ==
  op.kind \in {"page", "list"} /\ ~ (op.kind = "list" /\ (op.n = 0 \/ PrevSum >= op.n))
    => freelist[op.fl] # <<>>

\* Merging is complete by the code's notion of a buddy, wherever a segment
\* starts: when no call is under way, no two free blocks are buddies by their
\* index (as pm_find_buddy has it), whichever of them was freed last and however
\* vm_pagelist_alloc split blocks.  The pair at the start of a segment may be
\* free from the beginning (init_vm_page made two blocks of it) when its address is
\* no multiple of its size.  In a segment that starts at an odd page, as the
\* boards' first ones do, buddies by index are not the halves that pm_split_page
\* made, so the free memory may stay in smaller blocks than it came in.
BuddiesMerged ==
  Idle =>
    \A i \in 1 .. Len(Segs) :
      LET seg == Segs[i]
      IN \A b, c \in OnLists \cap PagesOf(seg) :
           ~ /\ size[b] = size[c] /\ size[b] < 2 ^ (NQueues - 1)
             /\ b + size[b] = c
             /\ (b - seg.first) % (2 * size[b]) = 0
             /\ b = seg.first => seg.start % (2 * size[b]) = 0

\* A page with PG_MANAGED is on one of the free lists (include/sys/vm.h).
ManagedOnFreeq == managed \subseteq OnLists
=============================================================================
