----------------------------- MODULE Turnstile -----------------------------
(***************************************************************************)
(* The turnstiles of sys/kern/turnstile.c: the queues of threads blocked   *)
(* on mutexes, and the priorities these threads lend to the owners.        *)
(*                                                                         *)
(* Every thread is created with one turnstile (turnstile_alloc), so a      *)
(* turnstile is named by the thread it was allocated for; threads give     *)
(* their turnstiles away when they block and get some turnstile back when  *)
(* they wake up.  The turnstile chains and the td_contested lists are not  *)
(* kept: a turnstile is linked on the chain of its channel exactly while   *)
(* it is USED_BLOCKED (lines 353-356 and 225-236) and on the td_contested  *)
(* list of its owner exactly while ts_owner is set (349-352, 251-252).     *)
(* td_wchan and td_waitpt only serve debuggers.                            *)
(***************************************************************************)
EXTENDS Sched

CONSTANT Mutexes  \* the waiting channels: mutexes, numbered in lock order

VARIABLES
  ts_state,      \* [Turnstiles -> TsState]
  ts_wchan,      \* channel of a turnstile in use, or NULL
  ts_owner,      \* owner of that channel, or NULL
  ts_blocked,    \* threads blocked on the turnstile, by decreasing priority
  ts_free,       \* turnstiles of the threads that blocked after the first
  td_turnstile,  \* the turnstile a thread has, or NULL while it is blocked
  td_blocked     \* the turnstile a thread is blocked on, or NULL

tsVars == <<ts_state, ts_wchan, ts_owner, ts_blocked, ts_free,
            td_turnstile, td_blocked>>

Turnstiles == Threads

TsState == {"FREE_UNBLOCKED", "FREE_BLOCKED", "USED_BLOCKED"}

\* turnstile_ctor for the turnstile of every thread.
TurnstileInit ==
  /\ ts_state = [ts \in Turnstiles |-> "FREE_UNBLOCKED"]
  /\ ts_wchan = [ts \in Turnstiles |-> NULL]
  /\ ts_owner = [ts \in Turnstiles |-> NULL]
  /\ ts_blocked = [ts \in Turnstiles |-> <<>>]
  /\ ts_free = [ts \in Turnstiles |-> <<>>]
  /\ td_turnstile = [td \in Threads |-> td]
  /\ td_blocked = [td \in Threads |-> NULL]

(***************************************************************************)
(* Positions on ts_blocked.                                                *)
(***************************************************************************)

\* Threads of higher, and of lower, priority than p.
Above(p) == {td \in Threads : prio_gt(td_prio[td], p)}

Below(p) == {td \in Threads : prio_lt(td_prio[td], p)}

\* TAILQ_INSERT_HEAD, then adjust_thread_forward: td goes behind the leading
\* threads of strictly higher priority, in front of those of its own.
InsertBlocked(s, td) == InsertAt(s, RunAhead(s, Above(td_prio[td])) + 1, td)

\* Variant: the queue keeps its order when a priority changes.
adjust_thread_InPlace(s, td, prio) == s

\* adjust_thread for td, already on the queue, whose priority becomes prio.
adjust_thread(s, td, prio) ==
  LET i == IndexOf(s, td)
  IN  IF prio_gt(prio, td_prio[td])
      THEN Move(s, i, i - RunBefore(s, i, Below(prio)))
      ELSE IF prio_lt(prio, td_prio[td])
      THEN Move(s, i, i + RunAfter(s, i, Above(prio)))
      ELSE s

(***************************************************************************)
(* propagate_priority: the walk from owner along blocked owners of lower   *)
(* priority than prio.  Borrowers is the set of threads that the walk      *)
(* lends prio to.                                                          *)
(***************************************************************************)
\* Variant: priority is lent to the owner only, not along the chain.
Borrowers_OwnerOnly(owner, prio) == Below(prio) \cap {owner}

Borrowers(owner, prio) ==
  LET walk[n \in 0..Cardinality(Threads)] ==
        IF n = 0 THEN owner
        ELSE IF /\ walk[n - 1] # NULL
                /\ td_blocked[walk[n - 1]] # NULL
                /\ prio_lt(td_prio[walk[n - 1]], prio)
        THEN ts_owner[td_blocked[walk[n - 1]]]
        ELSE NULL
  IN  {td \in Below(prio) : \E n \in 0..Cardinality(Threads) : walk[n] = td}

\* A borrower that is blocked moves forward on the queue it is blocked on.
LentBlocked(blocked, borrowers, prio) ==
  [ts \in Turnstiles |->
     IF \E td \in borrowers : td_blocked[td] = ts
     THEN adjust_thread(blocked[ts],
                        CHOOSE td \in borrowers : td_blocked[td] = ts, prio)
     ELSE blocked[ts]]

(***************************************************************************)
(* turnstile_lookup: the turnstile in use for a channel, if there is one.  *)
(***************************************************************************)
\* Variant: the chain is searched without a look at the channel.
InUse_AnyChannel(ts, wchan) == ts_state[ts] = "USED_BLOCKED"

InUse(ts, wchan) == ts_state[ts] = "USED_BLOCKED" /\ ts_wchan[ts] = wchan

Contended(wchan) == \E ts \in Turnstiles : InUse(ts, wchan)

\* switch_away: td, already on ts_blocked, blocks and lends its priority.
switch_away(td, ts, owner, blocked) ==
  LET prio      == td_prio[td]
      borrowers == Borrowers(owner, prio)
  IN  /\ td_turnstile' = [td_turnstile EXCEPT ![td] = NULL]
      /\ td_blocked' = [td_blocked EXCEPT ![td] = ts]
      /\ td_prio' = WithPrio(borrowers, prio)
      /\ td_borrowing' = td_borrowing \cup borrowers
      /\ ts_blocked' = LentBlocked(blocked, borrowers, prio)
      /\ sched_switch("BLOCKED", Requeued(borrowers, prio), td_prio')
      /\ UNCHANGED td_base_prio

\* turnstile_wait of the first thread to block on wchan: its own turnstile
\* becomes the queue.
turnstile_wait_first(td, wchan, owner) ==
  LET ts == td_turnstile[td]
  IN  /\ ~ Contended(wchan)
      /\ ts_wchan' = [ts_wchan EXCEPT ![ts] = wchan]
      /\ ts_owner' = [ts_owner EXCEPT ![ts] = owner]
      /\ ts_state' = [ts_state EXCEPT ![ts] = "USED_BLOCKED"]
      /\ switch_away(td, ts, owner, [ts_blocked EXCEPT ![ts] = Append(@, td)])
      /\ UNCHANGED ts_free

\* turnstile_wait of a later thread: its turnstile goes to ts_free.
turnstile_wait_next(td, wchan, owner) ==
  \E ts \in Turnstiles :
    LET nts == td_turnstile[td]
    IN  /\ InUse(ts, wchan)
        /\ ts_state' = [ts_state EXCEPT ![nts] = "FREE_BLOCKED"]
        /\ ts_free' = [ts_free EXCEPT ![ts] = <<nts>> \o @]
        /\ switch_away(td, ts, owner,
                       [ts_blocked EXCEPT ![ts] = InsertBlocked(@, td)])
        /\ UNCHANGED <<ts_wchan, ts_owner>>

(***************************************************************************)
(* turnstile_broadcast by td, the owner of wchan.                          *)
(***************************************************************************)

\* Variant: the turnstile itself is given away too early.
GivenBack_OneTooFew(ts, i) == IF i < Len(ts_free[ts]) THEN ts_free[ts][i] ELSE ts

\* give_back_turnstiles: the i-th blocked thread gets the i-th free turnstile,
\* the one for whom none is left gets ts itself.
GivenBack(ts, i) == IF i <= Len(ts_free[ts]) THEN ts_free[ts][i] ELSE ts

give_back_turnstiles(ts) ==
  LET blocked == ts_blocked[ts]
      given   == {GivenBack(ts, i) : i \in DOMAIN blocked}
  IN  /\ td_turnstile' =
           [td \in Threads |->
              IF td \in Range(blocked)
              THEN GivenBack(ts, IndexOf(blocked, td))
              ELSE td_turnstile[td]]
      /\ ts_state' = [u \in Turnstiles |->
                        IF u \in given THEN "FREE_UNBLOCKED" ELSE ts_state[u]]
      /\ ts_wchan' = [u \in Turnstiles |->
                        IF u = ts /\ ts \in given THEN NULL ELSE ts_wchan[u]]
      /\ ts_free' = [ts_free EXCEPT
                       ![ts] = SubSeq(@, Len(blocked) + 1, Len(@))]

\* unlend_self: prio is the best priority among the first waiters of the other
\* turnstiles td owns, the lowest one if there are none.
OwnedElsewhere(td, ts) == {u \in Turnstiles \ {ts} : ts_owner[u] = td}

OfferedPrio(td, ts, prio) ==
  LET offers == {td_prio[Head(ts_blocked[u])] : u \in OwnedElsewhere(td, ts)}
                  \cup {LowestPrio}
  IN  prio \in offers /\ \A p \in offers : ~ prio_gt(p, prio)

\* sched_unlend_prio lends the offer with sched_lend_prio unless the base
\* priority is at least as high, and sched_lend_prio asserts that it raises
\* the active priority.
UnlendAssertion(td, prio) ==
  prio_le(prio, td_base_prio[td]) \/ prio_lt(td_prio[td], prio)

UnlentPrio(td, prio) ==
  IF prio_le(prio, td_base_prio[td]) THEN td_base_prio[td] ELSE prio

UnlentBorrowing(td, prio) ==
  IF prio_le(prio, td_base_prio[td])
  THEN td_borrowing \ {td} ELSE td_borrowing \cup {td}

turnstile_broadcast(td, wchan) ==
  \E ts \in Turnstiles, prio \in Prio :
    LET blocked == ts_blocked[ts]
    IN  /\ InUse(ts, wchan)
        /\ OfferedPrio(td, ts, prio)
        /\ UnlendAssertion(td, prio)
        /\ give_back_turnstiles(ts)
        /\ ts_owner' = [ts_owner EXCEPT ![ts] = NULL]
        /\ td_prio' = [td_prio EXCEPT ![td] = UnlentPrio(td, prio)]
        /\ td_borrowing' = UnlentBorrowing(td, prio)
        /\ td_blocked' = [u \in Threads |->
                            IF u \in Range(blocked)
                            THEN NULL ELSE td_blocked[u]]
        /\ ts_blocked' = [ts_blocked EXCEPT ![ts] = <<>>]
        /\ sched_wakeup(blocked, td_prio')
        /\ UNCHANGED <<curthread, td_base_prio>>

\* The assertion in sched_lend_prio fails and the kernel panics.
BroadcastPanics(td, wchan) ==
  \E ts \in Turnstiles, prio \in Prio :
    /\ InUse(ts, wchan)
    /\ OfferedPrio(td, ts, prio)
    /\ ~ UnlendAssertion(td, prio)

(***************************************************************************)
(* sched_set_prio of td, with turnstile_adjust if td is blocked.           *)
(***************************************************************************)
sched_set_prio(td, prio) ==
  LET old       == td_prio[td]
      keep      == td \in td_borrowing /\ prio_gt(old, prio)
      adjusted  == IF td_blocked[td] = NULL THEN ts_blocked
                   ELSE [ts_blocked EXCEPT ![td_blocked[td]] =
                           adjust_thread(@, td, prio)]
      propagate == /\ td_blocked[td] # NULL
                   /\ Head(adjusted[td_blocked[td]]) = td
                   /\ prio_gt(prio, old)
      borrowers == IF propagate
                   THEN Borrowers(ts_owner[td_blocked[td]], prio) ELSE {}
      changed   == borrowers \cup (IF prio = old THEN {} ELSE {td})
  IN  /\ td_base_prio' = [td_base_prio EXCEPT ![td] = prio]
      /\ IF keep
         THEN UNCHANGED <<td_prio, runq, ts_blocked, td_borrowing>>
         ELSE /\ td_prio' = WithPrio(changed, prio)
              /\ ts_blocked' = LentBlocked(adjusted, borrowers, prio)
              /\ runq' = Requeued(changed, prio)
              /\ td_borrowing' = td_borrowing \cup borrowers
      /\ UNCHANGED <<curthread, td_state, td_needswitch, ts_state, ts_wchan,
                     ts_owner, ts_free, td_turnstile, td_blocked>>

TurnstileTypeOK ==
  /\ ts_state \in [Turnstiles -> TsState]
  /\ ts_wchan \in [Turnstiles -> Mutexes \cup {NULL}]
  /\ ts_owner \in [Turnstiles -> Threads \cup {NULL}]
  /\ ts_blocked \in [Turnstiles -> Seq(Threads)]
  /\ ts_free \in [Turnstiles -> Seq(Turnstiles)]
  /\ td_turnstile \in [Threads -> Turnstiles \cup {NULL}]
  /\ td_blocked \in [Threads -> Turnstiles \cup {NULL}]
=============================================================================
