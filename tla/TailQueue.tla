----------------------------- MODULE TailQueue -----------------------------
(***************************************************************************)
(* The intrusive tail queues and lists of include/sys/queue.h, as          *)
(* sequences.  TAILQ_INSERT_TAIL is Append, TAILQ_FIRST is Head,           *)
(* LIST_INSERT_HEAD is Cons, TAILQ_INSERT_AFTER and TAILQ_INSERT_BEFORE    *)
(* are InsertAt; the rest is below.  Loops that walk a queue while a       *)
(* condition holds are given as the number of elements they pass, and      *)
(* conditions on elements as sets of elements, so that the operators can   *)
(* be both evaluated and reasoned about without recursion.                 *)
(***************************************************************************)
EXTENDS Integers, FiniteSets, Sequences, SequencesExt

\* Position of an element of a queue.
IndexOf(s, e) == CHOOSE i \in DOMAIN s : s[i] = e

\* TAILQ_REMOVE / LIST_REMOVE of an element that is on the queue.
TAILQ_REMOVE(s, e) == RemoveAt(s, IndexOf(s, e))

\* TAILQ_REMOVE of the element at i followed by its reinsertion at k.
Move(s, i, k) == InsertAt(RemoveAt(s, i), k, s[i])

\* How many elements a walk from the front passes while it stays in S.
RunAhead(s, S) == Cardinality({j \in 1..Len(s) : \A l \in 1..j : s[l] \in S})

\* How many elements a walk from position i passes while it stays in S:
\* towards the front, and towards the back.
RunBefore(s, i, S) ==
  Cardinality({j \in 1..(i - 1) : \A l \in j..(i - 1) : s[l] \in S})

RunAfter(s, i, S) ==
  Cardinality({j \in (i + 1)..Len(s) : \A l \in (i + 1)..j : s[l] \in S})

\* The elements of s that are in S, in the order of s: the k-th of them is the
\* one with k - 1 others before it.
Sublist(s, S) ==
  LET I       == {i \in 1..Len(s) : s[i] \in S}
      Rank(i) == Cardinality({j \in I : j < i})
  IN  [k \in 1..Cardinality(I) |-> s[CHOOSE i \in I : Rank(i) = k - 1]]

\* No element occurs twice.
Distinct(s) == \A i, j \in DOMAIN s : s[i] = s[j] => i = j
=============================================================================
