------------------------------ MODULE MutexInv ------------------------------
(***************************************************************************)
(* The inductive invariant of Mutex.  It says how the four descriptions of *)
(* one fact agree: that a thread waits for a mutex is recorded in its own  *)
(* state (td_state, td_blocked, its program counter), in a turnstile       *)
(* (ts_blocked, ts_wchan, ts_owner), in the mutex (MTX_CONTESTED) and in   *)
(* where the turnstile of the thread is (td_turnstile, ts_free).           *)
(***************************************************************************)
EXTENDS Mutex

\* td_blocked, the state of a thread and the queues of the turnstiles agree.
BlockedLinks ==
  /\ \A td \in Threads :
       /\ td_state[td] = "BLOCKED" <=> td_blocked[td] # NULL
       /\ td_turnstile[td] = NULL <=> td_blocked[td] # NULL
  /\ \A td \in Threads, ts \in Turnstiles :
       td_blocked[td] = ts <=> td \in Range(ts_blocked[ts])
  /\ \A ts \in Turnstiles : Distinct(ts_blocked[ts])

\* A thread that has a turnstile does not share it, and nobody waits there.
OwnTurnstiles ==
  /\ \A td, u \in Threads :
       td_turnstile[td] # NULL /\ td_turnstile[td] = td_turnstile[u] => td = u
  /\ \A td \in Threads :
       td_turnstile[td] # NULL => ts_state[td_turnstile[td]] = "FREE_UNBLOCKED"

\* The turnstiles on ts_free lists are there once, and on one list only.
FreeTurnstiles ==
  /\ \A ts \in Turnstiles :
       /\ Distinct(ts_free[ts])
       /\ \A u \in Range(ts_free[ts]) : ts_state[u] = "FREE_BLOCKED"
  /\ \A ts, us \in Turnstiles :
       Range(ts_free[ts]) \cap Range(ts_free[us]) # {} => ts = us

\* A turnstile in use describes a contested mutex; any other one is clean.
UsedTurnstiles ==
  /\ \A ts \in Turnstiles :
       IF ts_state[ts] = "USED_BLOCKED"
       THEN /\ ts_wchan[ts] \in m_contested
            /\ ts_owner[ts] # NULL
            /\ ts_owner[ts] = m_owner[ts_wchan[ts]]
            /\ Len(ts_blocked[ts]) = Len(ts_free[ts]) + 1
       ELSE /\ ts_wchan[ts] = NULL /\ ts_owner[ts] = NULL
            /\ ts_blocked[ts] = <<>> /\ ts_free[ts] = <<>>
  /\ \A m \in m_contested : Contended(m)
  /\ \A ts, us \in Turnstiles :
       /\ ts_state[ts] = "USED_BLOCKED" /\ ts_state[us] = "USED_BLOCKED"
       /\ ts_wchan[ts] = ts_wchan[us]
       => ts = us

\* Where a thread is in mtx_lock or mtx_unlock, and with which mutex.
ControlPoints ==
  \A td \in Threads :
    /\ td_blocked[td] # NULL => /\ td_pc[td] = "enable_cas"
                                /\ td_mtx[td] = ts_wchan[td_blocked[td]]
    /\ td_pc[td] \in {"cas", "slow", "enable_cas"} =>
         td_mtx[td] \in Mutexes /\ m_owner[td_mtx[td]] # td
    /\ td_pc[td] = "xchg" =>
         /\ td_mtx[td] \in m_contested /\ m_owner[td_mtx[td]] = td
         /\ m_count[td_mtx[td]] = 0

TurnstileInv == /\ BlockedLinks
                /\ OwnTurnstiles
                /\ FreeTurnstiles
                /\ UsedTurnstiles
                /\ ControlPoints

\* Every mutex operation keeps the turnstiles, the threads and the mutexes in
\* agreement, and the run queues consistent.
IInv == TypeOK /\ RunqConsistent /\ TurnstileInv

\* A thread that wants a mutex holds only mutexes before it: the owners of a
\* chain of blocked threads wait for ever greater mutexes, so that the walk of
\* propagate_priority comes to no thread twice.
LockOrder ==
  \A td \in Threads :
    td_pc[td] \in {"cas", "slow", "enable_cas"} =>
      \A h \in Held(td) : h < td_mtx[td]
=============================================================================
