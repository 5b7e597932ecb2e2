-------------------------------- MODULE Pgrp --------------------------------
(***************************************************************************)
(* The process tree, process groups, sessions and the job control counters *)
(* of sys/kern/proc.c.  All of this state is protected by all_proc_mtx;    *)
(* the operators below are the parts of system calls that run with it.     *)
(*                                                                         *)
(* A process is its pid, a group and a session the pid they were named     *)
(* after.  0 is proc0, its group and its session, and also "none".  The    *)
(* lists p_children and pg_members are derived from p_parent and p_pgrp.   *)
(***************************************************************************)
EXTENDS Integers, FiniteSets

CONSTANT PidMax    \* bound: PID_MAX

ASSUME PgrpAssumption == PidMax \in Nat \ {0}

Pids == 1 .. PidMax
InitPid == 1

VARIABLES
  p_state,     \* [Pids -> PState]
  p_parent,    \* [Pids -> 0 .. PidMax]
  p_pgrp,      \* [0 .. PidMax -> 0 .. PidMax]
  pg_session,  \* [0 .. PidMax -> 0 .. PidMax], 0 if there is no such group
  pg_jobc,     \* [Pids -> Int]
  s_count,     \* [Pids -> Nat], groups of a session, 0 if there is none
  s_leader,    \* [Pids -> 0 .. PidMax]
  miscounted   \* history: groups whose counter is known to be off (see below)

treeVars == <<p_parent>>
groupVars == <<p_pgrp, pg_session, pg_jobc, s_count, s_leader, miscounted>>

PState == {"none", "normal", "stopped", "dying", "zombie"}

Procs == {p \in Pids : p_state[p] # "none"}
Children(p) == {c \in Procs : p_parent[c] = p}
Members(g) == {p \in Procs : p_pgrp[p] = g}
proc_is_alive(p) == p_state[p] \in {"normal", "stopped"}
proc_is_session_leader(p) == pg_session[p_pgrp[p]] = p

\* init after start_init has made it the leader of a session.
PgrpInit ==
  /\ p_state = [p \in Pids |-> IF p = InitPid THEN "normal" ELSE "none"]
  /\ p_parent = [p \in Pids |-> 0]
  /\ p_pgrp = [p \in 0 .. PidMax |-> IF p = InitPid THEN InitPid ELSE 0]
  /\ pg_session = [g \in 0 .. PidMax |-> IF g = InitPid THEN InitPid ELSE 0]
  /\ pg_jobc = [g \in Pids |-> 0]
  /\ s_count = [s \in Pids |-> IF s = InitPid THEN 1 ELSE 0]
  /\ s_leader = [s \in Pids |-> IF s = InitPid THEN InitPid ELSE 0]
  /\ miscounted = {}

\* Variant: a number is free as soon as no process has it.
pid_is_taken_ProcsOnly(pid) == pid \in Procs

pid_is_taken(pid) ==
  pid \in Procs \/ pg_session[pid] # 0 \/ s_count[pid] # 0

(***************************************************************************)
(* Job control.  Counters are adjusted for a process that enters or leaves *)
(* group pg and for its children, zombies included.  sess is pg_session    *)
(* with pg in it.                                                          *)
(***************************************************************************)
same_session_p(pg1, pg2, sess) == pg1 # pg2 /\ sess[pg1] = sess[pg2]

\* Variant: the children of the process are forgotten.
Affected_Self(p, pg, sess, g) ==
  {q \in {p} : g = pg /\ same_session_p(p_pgrp[p_parent[p]], pg, sess)}

\* Those of p and its children that make p's entering or leaving pg change
\* the counter of g.
Affected(p, pg, sess, g) ==
  {q \in {p} : g = pg /\ same_session_p(p_pgrp[p_parent[p]], pg, sess)}
    \cup {c \in Children(p) : p_pgrp[c] = g /\ same_session_p(g, pg, sess)}

pgrp_jobc_enter(p, pg, sess, jobc) ==
  [g \in Pids |-> jobc[g] + Cardinality(Affected(p, pg, sess, g))]

pgrp_jobc_leave(p, pg, sess, jobc) ==
  [g \in Pids |-> jobc[g] - Cardinality(Affected(p, pg, sess, g))]

\* Groups for which pgrp_maybe_orphan goes on to look for stopped members,
\* and finds one; jobc is the result of pgrp_jobc_leave(p, pg, ...).
Orphaned(p, pg, sess, jobc) ==
  {g \in Pids : /\ Affected(p, pg, sess, g) # {}
                /\ jobc[g] <= 0
                /\ \E q \in Members(g) : p_state[q] = "stopped"}

\* Zombies among the children of p that are counted in g.
ZombiesCounted(p, pg, sess, g) ==
  {c \in Affected(p, pg, sess, g) : p_state[c] = "zombie"}

(***************************************************************************)
(* Leaving a group: the last member removes it, and the last group its     *)
(* session.  members is what is left of group g.                           *)
(***************************************************************************)
Removed(g, left) == {h \in {g} : left = {}}

\* Variant: the session is let go of for the group and for its last member.
SessionDropped_Twice(count, removed) ==
  [s \in Pids |-> count[s] - 2 * Cardinality({g \in removed : pg_session[g] = s})]

SessionDropped(count, removed) ==
  [s \in Pids |-> count[s] - Cardinality({g \in removed : pg_session[g] = s})]

\* session_drop and pool_free for the groups in removed; count, jobc, sess
\* and off are the new values so far.
pgrp_remove(removed, count, jobc, sess, leader, off) ==
  /\ s_count' = SessionDropped(count, removed)
  /\ pg_session' = [g \in 0 .. PidMax |-> IF g \in removed THEN 0 ELSE sess[g]]
  /\ pg_jobc' = [g \in Pids |-> IF g \in removed THEN 0 ELSE jobc[g]]
  /\ s_leader' = [s \in Pids |-> IF s_count'[s] = 0 THEN 0 ELSE leader[s]]
  /\ miscounted' = off \ removed

\* proc_reap and pgrp_leave for the group's side.
pgrp_leave(p) ==
  /\ p_pgrp' = [p_pgrp EXCEPT ![p] = 0]
  /\ pgrp_remove(Removed(p_pgrp[p], Members(p_pgrp[p]) \ {p}),
                 s_count, pg_jobc, pg_session, s_leader, miscounted)

\* _pgrp_enter: p moves to target; sess and count have target in them.
_pgrp_enter(p, target, sess, count, leader) ==
  LET old == p_pgrp[p]
      jobc == pgrp_jobc_leave(p, old, sess,
                pgrp_jobc_enter(p, target, sess, pg_jobc))
      off == {g \in Pids : Cardinality(ZombiesCounted(p, target, sess, g))
                             # Cardinality(ZombiesCounted(p, old, sess, g))}
  IN /\ p_pgrp' = [p_pgrp EXCEPT ![p] = target]
     /\ pgrp_remove(Removed(old, Members(old) \ {p}),
                    count, jobc, sess, leader, miscounted \cup off)

\* Groups whose stopped members pgrp_maybe_orphan signals on the way.
EnterOrphans(p, target, sess) ==
  Orphaned(p, p_pgrp[p], sess,
    pgrp_jobc_leave(p, p_pgrp[p], sess, pgrp_jobc_enter(p, target, sess, pg_jobc)))

(***************************************************************************)
(* setpgid and setsid.                                                     *)
(***************************************************************************)
\* The conditions under which pgrp_enter moves target to group pgid.
MaySetpgid(p, target, pgid) ==
  /\ target \in Procs /\ proc_is_alive(target)
  /\ target = p \/ p_parent[target] = p
  /\ s_leader[pg_session[p_pgrp[target]]] # target
  /\ pg_session[p_pgrp[target]] = pg_session[p_pgrp[p]]
  /\ p_pgrp[target] # pgid
  /\ \/ pg_session[pgid] = 0 /\ pgid = target
     \/ pg_session[pgid] = pg_session[p_pgrp[p]]

\* pg_session and s_count once the group exists.
SetpgidSessions(p, pgid) == [pg_session EXCEPT ![pgid] = pg_session[p_pgrp[p]]]
SetpgidCounts(p, pgid) ==
  IF pg_session[pgid] = 0
  THEN [s_count EXCEPT ![pg_session[p_pgrp[p]]] = @ + 1]
  ELSE s_count

pgrp_enter(p, target, pgid) ==
  /\ MaySetpgid(p, target, pgid)
  /\ _pgrp_enter(target, pgid, SetpgidSessions(p, pgid), SetpgidCounts(p, pgid),
                 s_leader)

MaySetsid(p) == pg_session[p] = 0

SetsidSessions(p) == [pg_session EXCEPT ![p] = p]

session_enter(p) ==
  /\ MaySetsid(p)
  /\ _pgrp_enter(p, p, SetsidSessions(p), [s_count EXCEPT ![p] = 1],
                 [s_leader EXCEPT ![p] = p])

(***************************************************************************)
(* Exit: p leaves job control but stays in its group as a zombie, and its  *)
(* children become children of init.                                       *)
(***************************************************************************)
\* Children whose group counts them by definition once init is their parent.
Adopted(p) ==
  {c \in Children(p) : /\ p_state[c] # "zombie"
                       /\ same_session_p(p_pgrp[InitPid], p_pgrp[c], pg_session)}

\* session_leave, pgrp_jobc_leave and proc_reparent in proc_exit.
GroupsOnExit(p) ==
  /\ s_leader' = IF proc_is_session_leader(p)
                 THEN [s_leader EXCEPT ![pg_session[p_pgrp[p]]] = 0] ELSE s_leader
  /\ pg_jobc' = pgrp_jobc_leave(p, p_pgrp[p], pg_session, pg_jobc)
  /\ miscounted' =
       miscounted \cup {p_pgrp[c] : c \in Adopted(p)}
         \cup {g \in Pids : ZombiesCounted(p, p_pgrp[p], pg_session, g) # {}}
  /\ UNCHANGED <<p_pgrp, pg_session, s_count>>

ExitOrphans(p) ==
  Orphaned(p, p_pgrp[p], pg_session,
           pgrp_jobc_leave(p, p_pgrp[p], pg_session, pg_jobc))

proc_reparent(p) ==
  p_parent' = [c \in Pids |-> IF c \in Children(p) THEN InitPid ELSE p_parent[c]]

(***************************************************************************)
(* Properties.                                                             *)
(***************************************************************************)
PgrpTypeOK ==
  /\ p_state \in [Pids -> PState]
  /\ p_parent \in [Pids -> 0 .. PidMax]
  /\ p_pgrp \in [0 .. PidMax -> 0 .. PidMax]
  /\ pg_session \in [0 .. PidMax -> 0 .. PidMax]
  /\ pg_jobc \in [Pids -> Int]
  /\ s_count \in [Pids -> Nat]
  /\ s_leader \in [Pids -> 0 .. PidMax]
  /\ miscounted \in SUBSET Pids

(***************************************************************************)
(* GroupsConsistent: fork, exit, wait4, setpgid and setsid in any order    *)
(* keep the tree, the groups and the sessions in agreement.  Nobody is a   *)
(* child of a zombie or of a process that is gone; a group exists exactly  *)
(* as long as it has members, zombies among them, and a session as long as *)
(* it has groups; and pid_alloc never gives a number to a process while    *)
(* it still names a group or session the process does not belong to.       *)
(***************************************************************************)
GroupsConsistent ==
  /\ \A p \in Procs \ {InitPid} :
       p_parent[p] # 0 /\ p_state[p_parent[p]] \notin {"none", "zombie"}
  /\ \A g \in Pids : pg_session[g] # 0 <=> Members(g) # {}
  /\ \A s \in Pids : s_count[s] = Cardinality({g \in Pids : pg_session[g] = s})
  /\ \A g \in Procs : pg_session[g] # 0 => pg_session[p_pgrp[g]] = pg_session[g]
  /\ \A s \in Procs : s_count[s] # 0 => pg_session[p_pgrp[s]] = s
=============================================================================
