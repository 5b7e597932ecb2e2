---------------------------- MODULE AbstractLock ----------------------------
(***************************************************************************)
(* What a sleep mutex promises (include/sys/mutex.h): at most one holder,  *)
(* which alone can release it; a thread sleeps for a mutex only if it      *)
(* found it held, and whoever releases it wakes up every thread that       *)
(* sleeps for it.                                                          *)
(***************************************************************************)
EXTENDS Integers

CONSTANTS Threads, Mutexes, NULL

VARIABLES
  holder,  \* [Mutexes -> Threads \cup {NULL}]
  depth,   \* [Mutexes -> Nat], acquisitions beyond the first
  wants,   \* [Threads -> Mutexes \cup {NULL}]
  asleep   \* the threads that sleep until the mutex they want is released

lockVars == <<holder, depth, wants, asleep>>

LockInit ==
  /\ holder = [m \in Mutexes |-> NULL]
  /\ depth = [m \in Mutexes |-> 0]
  /\ wants = [td \in Threads |-> NULL]
  /\ asleep = {}

\* The mutex is held by another thread: keep trying.
Request(td, m) ==
  /\ wants[td] = NULL
  /\ holder[m] \notin {td, NULL}
  /\ wants' = [wants EXCEPT ![td] = m]
  /\ UNCHANGED <<holder, depth, asleep>>

Grab(td, m) ==
  /\ wants[td] \in {m, NULL}
  /\ td \notin asleep
  /\ holder[m] = NULL
  /\ holder' = [holder EXCEPT ![m] = td]
  /\ wants' = [wants EXCEPT ![td] = NULL]
  /\ UNCHANGED <<depth, asleep>>

FallAsleep(td) ==
  /\ wants[td] # NULL
  /\ holder[wants[td]] \notin {td, NULL}
  /\ asleep' = asleep \cup {td}
  /\ UNCHANGED <<holder, depth, wants>>

Reenter(td, m) ==
  /\ holder[m] = td
  /\ \E d \in {1, -1} : /\ depth[m] + d >= 0
                        /\ depth' = [depth EXCEPT ![m] = @ + d]
  /\ UNCHANGED <<holder, wants, asleep>>

Release(td, m) ==
  /\ holder[m] = td
  /\ depth[m] = 0
  /\ holder' = [holder EXCEPT ![m] = NULL]
  /\ asleep' = {u \in asleep : wants[u] # m}
  /\ UNCHANGED <<depth, wants>>

LockNext ==
  \E td \in Threads :
    \/ FallAsleep(td)
    \/ \E m \in Mutexes : \/ Request(td, m)
                          \/ Grab(td, m)
                          \/ Reenter(td, m)
                          \/ Release(td, m)

LockSpec == LockInit /\ [][LockNext]_lockVars
=============================================================================
