----------------------------- MODULE ProcProofs -----------------------------
(***************************************************************************)
(* What is proved of Pgrp and Proc, for any number of pids and of calls,   *)
(* any arguments of wait4 and any signals: the process tree, the groups    *)
(* and the sessions agree, a process is stopped exactly if its thread is,  *)
(* no parent sleeps through a change of state of its children, and the     *)
(* counters of job control are what their definition says.                 *)
(***************************************************************************)
EXTENDS Proc, FiniteSetTheorems, TLAPS

\* The process has left job control and given its children away.
Left(p) == p_state[p] = "zombie" \/ pc[p] \in {"notify", "zombie", "reap"}

\* With all_proc_mtx.
Holding == {"look", "notify", "zombie", "reap"}

\* The states a process may be in while its thread is at at.
StatesAt(at) ==
  IF at = "none" THEN {"none", "zombie"}
  ELSE IF at = "stop" THEN {"normal", "stopped"}
  ELSE IF at = "stopped" THEN {"stopped"}
  ELSE IF at \in {"dying", "notify", "zombie", "reap"} THEN {"dying"}
  ELSE {"normal"}

\* Processes and their threads agree, there is one owner of all_proc_mtx, and
\* init lives.
LifeOK ==
  /\ \A p \in Pids : p_state[p] \in StatesAt(pc[p])
  /\ \A p \in Pids : p \in td_stopping <=> pc[p] = "stop" /\ p_state[p] = "stopped"
  /\ \A p \in Pids : pc[p] \in Holding <=> all_proc = p
  /\ \A p \in Pids : "KILL" \in td_sigpend[p] => p_state[p] # "stopped"
  /\ td_sigpend[InitPid] = {} /\ p_state[InitPid] = "normal"

\* Parents are there until they have given their children away.
TreeOK ==
  /\ p_parent[InitPid] = 0
  /\ \A p \in Procs \ {InitPid} : p_parent[p] \in Procs /\ ~ Left(p_parent[p])

GroupsLive == \A g \in Pids : pg_session[g] # 0 <=> \E p \in Procs : p_pgrp[p] = g

Groups(sess, s) == {g \in Pids : sess[g] = s}

SessionsCounted == \A s \in Pids : s_count[s] = Cardinality(Groups(pg_session, s))

\* A process with the name of a group or of a session belongs to it.
NamesOK ==
  /\ \A g \in Procs : pg_session[g] # 0 => pg_session[p_pgrp[g]] = pg_session[g]
  /\ \A s \in Procs : s_count[s] # 0 => pg_session[p_pgrp[s]] = s

\* The process a session is named after stays in the group named after it and
\* leads the session until it exits.
LeadersOK ==
  \A p \in Procs : pg_session[p_pgrp[p]] = p => p_pgrp[p] = p /\ (Left(p) \/ s_leader[p] = p)

GroupsOK ==
  /\ PgrpTypeOK
  /\ TreeOK
  /\ \A p \in Procs : p_pgrp[p] \in Pids
  /\ pg_session[0] = 0
  /\ GroupsLive
  /\ SessionsCounted
  /\ NamesOK
  /\ LeadersOK

\* Nobody has told p yet to look at its children again.
Silent(p) == \/ pc[p] \in {"look", "unsleep"} /\ p \notin child_changed
             \/ pc[p] = "asleep"

\* A parent nobody has told has not missed anything: none of its children is
\* about to be a zombie, those it should report are among the ones it has yet
\* to look at, and it has a child to wait for.
Informed(p) ==
  /\ pc[p] = "look" => w_left[p] \subseteq Children(p)
  /\ pc[p] \in {"unsleep", "asleep"} => w_left[p] = {}
  /\ Silent(p) =>
       /\ \A c \in Children(p) : pc[c] \notin {"zombie", "reap"}
       /\ WaitsByPid(p) =>
            /\ \A c \in Children(p) : child_matches(p, c) /\ Reportable(p, c) => c \in w_left[p]
            /\ \E c \in Children(p) : child_matches(p, c)

WaitOK == \A p \in Pids : Informed(p)

IInv == TypeOK /\ LifeOK /\ GroupsOK /\ WaitOK

-----------------------------------------------------------------------------
(* What the invariant is for. *)

LEMMA Consistent ==
  ASSUME IInv
  PROVE  GroupsConsistent /\ StopsAgree /\ NoMissedChild
<1>1. GroupsConsistent
  <2>1. ASSUME NEW p \in Procs \ {InitPid}
        PROVE  p_parent[p] # 0 /\ p_state[p_parent[p]] \notin {"none", "zombie"}
    <3>1. p_parent[p] \in Procs /\ ~ Left(p_parent[p])
      BY DEF IInv, GroupsOK, TreeOK
    <3> QED  BY <3>1, PgrpAssumption DEF Procs, Left, Pids
  <2>2. \A g \in Pids : pg_session[g] # 0 <=> Members(g) # {}
    BY DEF IInv, GroupsOK, GroupsLive, Members
  <2>3. /\ \A g \in Procs : pg_session[g] # 0 => pg_session[p_pgrp[g]] = pg_session[g]
        /\ \A s \in Procs : s_count[s] # 0 => pg_session[p_pgrp[s]] = s
    BY DEF IInv, GroupsOK, NamesOK
  <2>4. \A s \in Pids : s_count[s] = Cardinality({g \in Pids : pg_session[g] = s})
    BY DEF IInv, GroupsOK, SessionsCounted, Groups
  <2> QED  BY <2>1, <2>2, <2>3, <2>4 DEF GroupsConsistent
<1>2. StopsAgree
  <2> SUFFICES ASSUME NEW p \in Pids
               PROVE  /\ p_state[p] = "stopped" <=> p \in td_stopping \/ pc[p] = "stopped"
                      /\ "KILL" \in td_sigpend[p] => p_state[p] # "stopped"
    BY DEF StopsAgree
  <2> QED  BY DEF IInv, LifeOK, StatesAt
<1>3. NoMissedChild
  <2> SUFFICES ASSUME NEW p \in Pids, pc[p] = "asleep", WaitsByPid(p)
               PROVE  /\ {c \in Children(p) : child_matches(p, c)} # {}
                      /\ \A c \in {d \in Children(p) : child_matches(p, d)} :
                           ~ Reportable(p, c)
    BY DEF NoMissedChild
  <2>1. Informed(p) /\ Silent(p)
    BY DEF IInv, WaitOK, Silent
  <2>2. w_left[p] = {}
    BY <2>1 DEF Informed
  <2> QED  BY <2>1, <2>2 DEF Informed
<1> QED  BY <1>1, <1>2, <1>3

-----------------------------------------------------------------------------
(* Steps that leave the groups alone. *)

LEMMA GroupsAside ==
  ASSUME GroupsOK, UNCHANGED <<treeVars, groupVars>>, p_state' \in [Pids -> PState],
         \A p \in Pids : /\ p_state'[p] = "none" <=> p_state[p] = "none"
                         /\ Left(p)' <=> Left(p)
  PROVE  GroupsOK'
<1>1. UNCHANGED <<p_parent, p_pgrp, pg_session, pg_jobc, s_count, s_leader, miscounted>>
  BY DEF treeVars, groupVars
<1>2. Procs' = Procs
  BY DEF Procs
<1>3. Procs \subseteq Pids /\ Procs' \subseteq Pids
  BY DEF Procs
<1>4. PgrpTypeOK'
  BY <1>1 DEF GroupsOK, PgrpTypeOK
<1>5. TreeOK'
  <2>1. ASSUME NEW p \in Procs \ {InitPid}
        PROVE  p_parent'[p] \in Procs /\ ~ Left(p_parent[p])'
    <3>1. PICK q \in Procs : q = p_parent[p] /\ ~ Left(q)
      BY DEF GroupsOK, TreeOK
    <3>2. ~ Left(q)' /\ p_parent'[p] = q
      BY <1>1, <1>3, <3>1
    <3> QED  BY <3>1, <3>2 DEF Left
  <2>2. p_parent'[InitPid] = 0
    BY <1>1 DEF GroupsOK, TreeOK
  <2> QED  BY <1>2, <2>1, <2>2 DEF TreeOK
<1>6. LeadersOK'
  BY <1>1, <1>2, <1>3 DEF GroupsOK, LeadersOK
<1>7. GroupsLive' /\ SessionsCounted' /\ NamesOK'
  <2>1. GroupsLive'
    BY <1>1, <1>2 DEF GroupsOK, GroupsLive
  <2>2. SessionsCounted'
    BY <1>1 DEF GroupsOK, SessionsCounted, Groups
  <2>3. NamesOK'
    BY <1>1, <1>2 DEF GroupsOK, NamesOK
  <2> QED  BY <2>1, <2>2, <2>3
<1> QED  BY <1>1, <1>2, <1>4, <1>5, <1>6, <1>7 DEF GroupsOK

-----------------------------------------------------------------------------
(* Parents that wait. *)

\* Process c does nothing in this step that its parent should know of.
Calm(c) ==
  /\ pc'[c] \in {"zombie", "reap"} => pc[c] \in {"zombie", "reap"}
  /\ \/ p_state'[c] = "dying"
     \/ p_state'[c] = p_state[c] /\ (c \in state_changed' => c \in state_changed)

LEMMA Undisturbed ==
  ASSUME NEW q \in Pids, Informed(q),
         pc'[q] = pc[q], w_pid'[q] = w_pid[q], w_options'[q] = w_options[q],
         w_left'[q] = w_left[q], q \in child_changed => q \in child_changed',
         pc[q] = "look" => Children(q) \subseteq Children(q)',
         Silent(q)' => Children(q)' = Children(q) /\ \A c \in Children(q) : Calm(c)
  PROVE  Informed(q)'
<1>1. ASSUME Silent(q)' PROVE Silent(q)
  BY <1>1 DEF Silent
<1>2. /\ pc'[q] = "look" => w_left'[q] \subseteq Children(q)'
      /\ pc'[q] \in {"unsleep", "asleep"} => w_left'[q] = {}
  BY DEF Informed
<1>3. ASSUME Silent(q)', NEW c \in Children(q)'
      PROVE  pc'[c] \notin {"zombie", "reap"}
  BY <1>1, <1>3 DEF Informed, Calm
<1>4. ASSUME Silent(q)', WaitsByPid(q)', NEW c \in Children(q)',
             child_matches(q, c)', Reportable(q, c)'
      PROVE  c \in w_left'[q]
  <2>1. c \in Children(q) /\ Calm(c) /\ Silent(q)
    BY <1>1, <1>4
  <2>2. WaitsByPid(q)
    BY <1>4 DEF WaitsByPid
  <2>3. child_matches(q, c)
    BY <1>4 DEF child_matches, WaitsByPid, Pids
  <2>4. Reportable(q, c)
    BY <1>4, <2>1 DEF Reportable, Calm
  <2> QED  BY <2>1, <2>2, <2>3, <2>4 DEF Informed
<1>5. ASSUME Silent(q)', WaitsByPid(q)'
      PROVE  \E c \in Children(q)' : child_matches(q, c)'
  <2>1. WaitsByPid(q) /\ Silent(q) /\ Children(q)' = Children(q)
    BY <1>1, <1>5 DEF WaitsByPid
  <2>2. PICK c \in Children(q) : child_matches(q, c)
    BY <2>1 DEF Informed
  <2>3. child_matches(q, c)'
    BY <2>1, <2>2 DEF child_matches, WaitsByPid, Pids
  <2> QED  BY <2>1, <2>2, <2>3
<1> QED  BY <1>2, <1>3, <1>4, <1>5 DEF Informed

\* Outside of the scan and the sleep there is nothing to show.
LEMMA Elsewhere ==
  ASSUME NEW q \in Pids, pc'[q] \notin {"look", "unsleep", "asleep"}
  PROVE  Informed(q)'
BY DEF Informed, Silent

\* A step that changes neither the tree nor what parents are told, and where
\* only the actor moves on.
LEMMA OthersUndisturbed ==
  ASSUME TypeOK, WaitOK, NEW p \in Pids, UNCHANGED treeVars, Procs' = Procs,
         \A q \in Pids : q # p => /\ pc'[q] = pc[q]
                                  /\ w_pid'[q] = w_pid[q] /\ w_options'[q] = w_options[q]
                                  /\ w_left'[q] = w_left[q]
                                  /\ q \in child_changed => q \in child_changed',
         \A c \in Procs : Calm(c)
  PROVE  \A q \in Pids : q # p => Informed(q)'
<1> SUFFICES ASSUME NEW q \in Pids, q # p PROVE Informed(q)'
  OBVIOUS
<1>1. Children(q)' = Children(q)
  BY DEF Children, treeVars
<1>2. \A c \in Children(q) : Calm(c)
  BY DEF Children
<1> QED  BY <1>1, <1>2, Undisturbed DEF WaitOK

-----------------------------------------------------------------------------
(* Continuing processes and waking up parents. *)

Told(D, others) == ({p_parent[c] : c \in D} \cup others) \ {0}

Continued(D, others, p, to) ==
  /\ Told(D, others) \in SUBSET Pids
  /\ p_state' \in [Pids -> PState] /\ pc' \in [Pids -> Pc]
  /\ state_changed' = state_changed \cup D
  /\ child_changed' = child_changed \cup Told(D, others)
  /\ td_stopping' = td_stopping \ D
  /\ \A q \in Pids :
       /\ p_state'[q] = IF q \in D THEN "normal" ELSE p_state[q]
       /\ pc'[q] = IF q = p THEN to
                   ELSE IF q \in D \ td_stopping THEN "check"
                   ELSE IF q \in Told(D, others) /\ pc[q] = "asleep" THEN "woken"
                   ELSE pc[q]

LEMMA ContinueFacts ==
  ASSUME TypeOK, LifeOK, NEW D \in SUBSET Pids, NEW others \in SUBSET (0 .. PidMax),
         NEW p \in Pids, NEW to \in Pc, ContinueAndWake(D, others, p, to),
         \A q \in D : p_state[q] = "stopped"
  PROVE  Continued(D, others, p, to)
<1>1. /\ p_state' = [q \in Pids |-> IF q \in D THEN "normal" ELSE p_state[q]]
      /\ state_changed' = state_changed \cup D
      /\ child_changed' = child_changed \cup Told(D, others)
      /\ td_stopping' = td_stopping \ D
      /\ pc' = [q \in Pids |->
           CASE q = p -> to
             [] q # p /\ q \in D \ td_stopping -> "check"
             [] q # p /\ q \in Told(D, others) /\ pc[q] = "asleep" -> "woken"
             [] OTHER -> pc[q]]
  BY DEF ContinueAndWake, Told, Notified, NotStopping
<1>2. \A c \in D : p_parent[c] \in 0 .. PidMax
  BY DEF TypeOK, PgrpTypeOK
<1>3. Told(D, others) \in SUBSET Pids
  <2> SUFFICES ASSUME NEW x \in Told(D, others) PROVE x \in Pids
    OBVIOUS
  <2>1. x \in 0 .. PidMax /\ x # 0
    BY <1>2 DEF Told
  <2> QED  BY <2>1, PgrpAssumption DEF Pids
<1>4. p_state' \in [Pids -> PState]
  BY <1>1 DEF TypeOK, PgrpTypeOK, PState
<1> HIDE DEF Told
<1>5. \A q \in Pids : pc'[q] = IF q = p THEN to
                          ELSE IF q \in D \ td_stopping THEN "check"
                          ELSE IF q \in Told(D, others) /\ pc[q] = "asleep" THEN "woken"
                          ELSE pc[q]
  <2> SUFFICES ASSUME NEW q \in Pids
               PROVE  pc'[q] = IF q = p THEN to
                          ELSE IF q \in D \ td_stopping THEN "check"
                          ELSE IF q \in Told(D, others) /\ pc[q] = "asleep" THEN "woken"
                          ELSE pc[q]
    OBVIOUS
  <2>1. pc'[q] = CASE q = p -> to
             [] q # p /\ q \in D \ td_stopping -> "check"
             [] q # p /\ q \in Told(D, others) /\ pc[q] = "asleep" -> "woken"
             [] OTHER -> pc[q]
    BY <1>1
  <2>2. CASE q = p
    BY <2>1, <2>2
  <2>3. CASE q # p /\ q \in D \ td_stopping
    <3>1. pc[q] # "asleep"
      BY <2>3 DEF LifeOK, StatesAt
    <3> QED  BY <2>1, <2>3, <3>1
  <2>4. CASE q # p /\ q \notin D \ td_stopping
    BY <2>1, <2>4
  <2> QED  BY <2>2, <2>3, <2>4
<1>6. pc' \in [Pids -> Pc]
  <2>1. pc' = [q \in Pids |-> pc'[q]]
    BY <1>1
  <2>2. \A q \in Pids : pc'[q] \in Pc
    BY <1>5 DEF TypeOK, Pc
  <2> QED  BY <2>1, <2>2
<1> QED  BY <1>1, <1>3, <1>4, <1>5, <1>6 DEF Continued

\* The actor is not stopped and goes where its state allows; nobody gets a
\* SIGKILL and stays stopped.
LEMMA ContinueLife ==
  ASSUME TypeOK, LifeOK, NEW D \in SUBSET Pids, NEW others \in SUBSET (0 .. PidMax),
         NEW p \in Pids, NEW to \in Pc, ContinueAndWake(D, others, p, to),
         \A q \in D : p_state[q] = "stopped", p \notin D,
         p_state[p] \in StatesAt(to), to \notin {"stop", "stopped"},
         to \in Holding <=> all_proc' = p,
         \A q \in Pids : q # p => (all_proc' = q <=> all_proc = q),
         \A q \in Pids : "KILL" \in td_sigpend'[q] =>
                           "KILL" \in td_sigpend[q] \/ p_state'[q] # "stopped",
         td_sigpend'[InitPid] = {}
  PROVE  LifeOK'
<1>0. Continued(D, others, p, to)
  BY ContinueFacts
<1>1. /\ Told(D, others) \in SUBSET Pids
      /\ p_state' \in [Pids -> PState] /\ pc' \in [Pids -> Pc]
      /\ state_changed' = state_changed \cup D
      /\ child_changed' = child_changed \cup Told(D, others)
      /\ td_stopping' = td_stopping \ D
      /\ \A q \in Pids :
           /\ p_state'[q] = IF q \in D THEN "normal" ELSE p_state[q]
           /\ pc'[q] = IF q = p THEN to
                       ELSE IF q \in D \ td_stopping THEN "check"
                       ELSE IF q \in Told(D, others) /\ pc[q] = "asleep" THEN "woken"
                       ELSE pc[q]
  BY <1>0 DEF Continued
<1>2. ASSUME NEW q \in Pids
      PROVE  /\ p_state'[q] \in StatesAt(pc'[q])
             /\ q \in td_stopping' <=> pc'[q] = "stop" /\ p_state'[q] = "stopped"
             /\ pc'[q] \in Holding <=> all_proc' = q
             /\ "KILL" \in td_sigpend'[q] => p_state'[q] # "stopped"
  <2>1. /\ p_state[q] \in StatesAt(pc[q])
        /\ q \in td_stopping <=> pc[q] = "stop" /\ p_state[q] = "stopped"
        /\ pc[q] \in Holding <=> all_proc = q
        /\ "KILL" \in td_sigpend[q] => p_state[q] # "stopped"
    BY DEF LifeOK
  <2>2. "KILL" \in td_sigpend'[q] => p_state'[q] # "stopped"
    BY <1>1, <2>1
  <2>3. CASE q = p
    <3>1. p_state'[q] = p_state[q] /\ pc'[q] = to
      BY <1>1, <2>3
    <3>2. p_state[q] # "stopped"
      BY <2>3 DEF StatesAt
    <3>3. q \notin td_stopping
      BY <2>1, <3>2
    <3> QED  BY <1>1, <2>2, <2>3, <3>1, <3>3
  <2>4. CASE q # p /\ q \in D
    <3>1. p_state'[q] = "normal" /\ p_state[q] = "stopped" /\ q \notin td_stopping'
      BY <1>1, <2>4
    <3>2. pc[q] \in {"stop", "stopped"}
      BY <2>1, <3>1 DEF StatesAt
    <3>3. CASE q \in td_stopping
      <4>1. pc'[q] = "stop"
        BY <1>1, <2>1, <2>4, <3>3
      <4> QED  BY <2>1, <2>2, <2>4, <3>1, <3>3, <4>1 DEF StatesAt, Holding
    <3>4. CASE q \notin td_stopping
      <4>1. pc'[q] = "check" /\ all_proc' # q
        BY <1>1, <2>1, <2>4, <3>2, <3>4 DEF Holding
      <4> QED  BY <2>2, <3>1, <4>1 DEF StatesAt, Holding
    <3> QED  BY <3>3, <3>4
  <2>5. CASE q # p /\ q \notin D
    <3>1. p_state'[q] = p_state[q] /\ (q \in td_stopping' <=> q \in td_stopping)
          /\ (all_proc' = q <=> all_proc = q)
      BY <1>1, <2>5
    <3>2. CASE pc[q] = "asleep" /\ pc'[q] = "woken"
      BY <2>1, <2>2, <3>1, <3>2 DEF StatesAt, Holding
    <3>3. CASE pc'[q] = pc[q]
      BY <2>1, <2>2, <3>1, <3>3
    <3> QED  BY <1>1, <2>5, <3>2, <3>3
  <2> QED  BY <2>3, <2>4, <2>5
<1>3. p_state'[InitPid] = "normal"
  BY <1>1, PgrpAssumption DEF LifeOK, InitPid, Pids
<1> QED  BY <1>2, <1>3 DEF LifeOK

\* A parent that nobody tells has no child among those that are continued.
LEMMA ContinueWait ==
  ASSUME TypeOK, LifeOK, WaitOK, NEW D \in SUBSET Pids,
         NEW others \in SUBSET (0 .. PidMax),
         NEW p \in Pids, NEW to \in Pc, ContinueAndWake(D, others, p, to),
         \A c \in D : p_state[c] = "stopped",
         UNCHANGED waitVars, NEW q \in Pids, q # p,
         pc[q] = "look" => Children(q) \subseteq Children(q)',
         q \notin Told(D, others) => Children(q)' = Children(q),
         p \in Children(q) => q \in Told(D, others) \/ to \notin {"zombie", "reap"}
  PROVE  Informed(q)'
<1>0. Continued(D, others, p, to)
  BY ContinueFacts
<1>1. /\ Told(D, others) \in SUBSET Pids
      /\ p_state' \in [Pids -> PState] /\ pc' \in [Pids -> Pc]
      /\ state_changed' = state_changed \cup D
      /\ child_changed' = child_changed \cup Told(D, others)
      /\ td_stopping' = td_stopping \ D
      /\ \A r \in Pids :
           /\ p_state'[r] = IF r \in D THEN "normal" ELSE p_state[r]
           /\ pc'[r] = IF r = p THEN to
                       ELSE IF r \in D \ td_stopping THEN "check"
                       ELSE IF r \in Told(D, others) /\ pc[r] = "asleep" THEN "woken"
                       ELSE pc[r]
  BY <1>0 DEF Continued
<1>2. CASE pc'[q] # pc[q]
  <2>1. pc'[q] \notin {"look", "unsleep", "asleep"}
    BY <1>1, <1>2
  <2> QED  BY <2>1, Elsewhere
<1>3. CASE pc'[q] = pc[q]
  <2>1. ASSUME Silent(q)'
        PROVE  Children(q)' = Children(q) /\ \A c \in Children(q) : Calm(c)
    <3>1. q \notin Told(D, others)
      BY <1>1, <1>3, <2>1 DEF Silent
    <3>2. ASSUME NEW c \in Children(q) PROVE Calm(c)
      <4>1. c \in Pids /\ p_parent[c] = q /\ q # 0
        BY PgrpAssumption DEF Children, Procs, Pids
      <4>2. c \notin D
        BY <3>1, <4>1 DEF Told
      <4>3. p_state'[c] = p_state[c] /\ (c \in state_changed' => c \in state_changed)
        BY <1>1, <4>1, <4>2
      <4>4. pc'[c] \in {"zombie", "reap"} => pc[c] \in {"zombie", "reap"}
        BY <1>1, <3>1, <3>2, <4>1, <4>2
      <4> QED  BY <4>3, <4>4 DEF Calm
    <3> QED  BY <3>1, <3>2
  <2>2. w_pid'[q] = w_pid[q] /\ w_options'[q] = w_options[q] /\ w_left'[q] = w_left[q]
    BY DEF waitVars
  <2>3. q \in child_changed => q \in child_changed'
    BY <1>1
  <2>4. Informed(q)
    BY DEF WaitOK
  <2> QED  BY <1>3, <2>1, <2>2, <2>3, <2>4, Undisturbed
<1> QED  BY <1>2, <1>3

-----------------------------------------------------------------------------
(* Steps in which one process goes on. *)

NormalPc == {"user", "check", "scan", "look", "unsleep", "asleep", "woken"}

LEMMA SoloLife ==
  ASSUME TypeOK, LifeOK, NEW p \in Pids, NEW to \in Pc, Goto(p, to),
         \A q \in Pids : q # p => /\ p_state'[q] = p_state[q]
                                  /\ q \in td_stopping' <=> q \in td_stopping
                                  /\ all_proc' = q <=> all_proc = q
                                  /\ td_sigpend'[q] = td_sigpend[q],
         p_state'[p] \in StatesAt(to),
         p \in td_stopping' <=> to = "stop" /\ p_state'[p] = "stopped",
         to \in Holding <=> all_proc' = p,
         "KILL" \in td_sigpend'[p] => p_state'[p] # "stopped",
         p = InitPid => td_sigpend'[p] = {} /\ p_state'[p] = "normal"
  PROVE  LifeOK'
<1>1. \A q \in Pids : pc'[q] = IF q = p THEN to ELSE pc[q]
  BY DEF TypeOK, Goto
<1>2. ASSUME NEW q \in Pids
      PROVE  /\ p_state'[q] \in StatesAt(pc'[q])
             /\ q \in td_stopping' <=> pc'[q] = "stop" /\ p_state'[q] = "stopped"
             /\ pc'[q] \in Holding <=> all_proc' = q
             /\ "KILL" \in td_sigpend'[q] => p_state'[q] # "stopped"
  <2>1. CASE q = p
    BY <1>1, <2>1
  <2>2. CASE q # p
    <3>1. pc'[q] = pc[q] /\ p_state'[q] = p_state[q] /\ td_sigpend'[q] = td_sigpend[q]
          /\ (q \in td_stopping' <=> q \in td_stopping) /\ (all_proc' = q <=> all_proc = q)
      BY <1>1, <2>2
    <3>2. /\ p_state[q] \in StatesAt(pc[q])
          /\ q \in td_stopping <=> pc[q] = "stop" /\ p_state[q] = "stopped"
          /\ pc[q] \in Holding <=> all_proc = q
          /\ "KILL" \in td_sigpend[q] => p_state[q] # "stopped"
      BY DEF LifeOK
    <3> QED  BY <3>1, <3>2
  <2> QED  BY <2>1, <2>2
<1>3. p_state'[InitPid] = "normal" /\ td_sigpend'[InitPid] = {}
  <2>1. InitPid \in Pids
    BY PgrpAssumption DEF InitPid, Pids
  <2> QED  BY <2>1 DEF LifeOK
<1> QED  BY <1>2, <1>3 DEF LifeOK

\* Most steps of wait4: neither states nor groups nor signals change.
LEMMA Solo ==
  ASSUME IInv, NEW p \in Pids, NEW to \in NormalPc, pc[p] \in NormalPc, Goto(p, to),
         UNCHANGED <<p_state, treeVars, groupVars, td_sigpend, td_stopping>>,
         state_changed' \subseteq state_changed,
         \A q \in Pids : q # p => /\ w_pid'[q] = w_pid[q] /\ w_options'[q] = w_options[q]
                                  /\ w_left'[q] = w_left[q]
                                  /\ q \in child_changed => q \in child_changed'
                                  /\ all_proc' = q <=> all_proc = q,
         to = "look" <=> all_proc' = p,
         Informed(p)'
  PROVE  LifeOK' /\ GroupsOK' /\ WaitOK'
<1>1. \A q \in Pids : pc'[q] = IF q = p THEN to ELSE pc[q]
  BY DEF IInv, TypeOK, Goto
<1>2. p_state[p] = "normal" /\ p \notin td_stopping
  BY DEF IInv, LifeOK, StatesAt, NormalPc
<1>3. to \in Pc /\ p_state'[p] \in StatesAt(to) /\ to # "stop"
      /\ (to \in Holding <=> to = "look")
  BY <1>2 DEF NormalPc, Pc, StatesAt, Holding
<1>4. LifeOK'
  <2>1. "KILL" \in td_sigpend'[p] => p_state'[p] # "stopped"
    BY <1>2
  <2>2. p = InitPid => td_sigpend'[p] = {} /\ p_state'[p] = "normal"
    BY <1>2 DEF IInv, LifeOK
  <2> QED  BY <1>2, <1>3, <2>1, <2>2, SoloLife DEF IInv
<1>5. GroupsOK'
  <2>1. \A q \in Pids : Left(q)' <=> Left(q)
    BY <1>1 DEF Left, NormalPc
  <2>2. p_state' \in [Pids -> PState]
    BY DEF IInv, TypeOK, PgrpTypeOK
  <2> QED  BY <2>1, <2>2, GroupsAside DEF IInv
<1>6. WaitOK'
  <2>1. Procs' = Procs
    BY DEF Procs
  <2>2. \A c \in Procs : Calm(c)
    BY <1>1 DEF Calm, Procs, NormalPc
  <2>3. \A q \in Pids : q # p => Informed(q)'
    BY <1>1, <2>1, <2>2, OthersUndisturbed DEF IInv
  <2> QED  BY <2>3 DEF WaitOK
<1> QED  BY <1>4, <1>5, <1>6

-----------------------------------------------------------------------------
(* wait4. *)

LEMMA NextCall ==
  ASSUME TypeOK, NEW p \in Pids, Syscall(p)
  PROVE  pc[p] = "user" /\ ops' \in 0 .. MaxOps
BY ProcAssumption DEF Syscall, TypeOK

\* Leaving wait4.
LEMMA ReturnFacts ==
  ASSUME TypeOK, NEW p \in Pids, Return(p)
  PROVE  /\ Goto(p, "user") /\ pc' \in [Pids -> Pc]
         /\ w_pid' \in [Pids -> -PidMax .. PidMax] /\ w_options' \in [Pids -> SUBSET Options]
         /\ w_left' \in [Pids -> SUBSET Pids]
         /\ pc'[p] = "user"
         /\ \A q \in Pids : q # p => /\ w_pid'[q] = w_pid[q] /\ w_options'[q] = w_options[q]
                                     /\ w_left'[q] = w_left[q]
<1>1. -1 \in -PidMax .. PidMax
  BY PgrpAssumption
<1>2. /\ Goto(p, "user")
      /\ w_pid' = [w_pid EXCEPT ![p] = -1]
      /\ w_options' = [w_options EXCEPT ![p] = {}]
      /\ w_left' = [w_left EXCEPT ![p] = {}]
  BY DEF Return
<1>3. /\ w_pid \in [Pids -> -PidMax .. PidMax] /\ w_options \in [Pids -> SUBSET Options]
      /\ w_left \in [Pids -> SUBSET Pids] /\ pc \in [Pids -> Pc]
  BY DEF TypeOK
<1>4. w_pid' \in [Pids -> -PidMax .. PidMax]
  BY <1>1, <1>2, <1>3
<1>5. w_options' \in [Pids -> SUBSET Options] /\ w_left' \in [Pids -> SUBSET Pids]
  BY <1>2, <1>3
<1>6. pc' \in [Pids -> Pc] /\ pc'[p] = "user"
  BY <1>2, <1>3 DEF Goto, Pc
<1> QED  BY <1>2, <1>3, <1>4, <1>5, <1>6

LEMMA WaitStartKeeps ==
  ASSUME IInv, NEW p \in Pids, WaitStart(p)
  PROVE  IInv'
<1>1. PICK pid \in WaitPids, options \in WaitOptions :
        /\ w_pid' = [w_pid EXCEPT ![p] = pid]
        /\ w_options' = [w_options EXCEPT ![p] = options]
  BY DEF WaitStart
<1>2. /\ Syscall(p) /\ child_changed' = child_changed \ {p} /\ Goto(p, "scan")
      /\ UNCHANGED <<p_state, treeVars, groupVars, state_changed, sigVars, td_stopping,
                     all_proc, w_left>>
  BY DEF WaitStart
<1>3. pc[p] = "user" /\ ops' \in 0 .. MaxOps
  BY <1>2, NextCall DEF IInv
<1>4. pid \in -PidMax .. PidMax /\ options \in SUBSET Options
  BY ProcAssumption
<1>5. /\ w_pid' \in [Pids -> -PidMax .. PidMax]
      /\ \A q \in Pids : q # p => w_pid'[q] = w_pid[q]
  BY <1>1, <1>4 DEF IInv, TypeOK
<1>6. /\ w_options' \in [Pids -> SUBSET Options]
      /\ \A q \in Pids : q # p => w_options'[q] = w_options[q]
  BY <1>1, <1>4 DEF IInv, TypeOK
<1>7. pc' \in [Pids -> Pc] /\ pc'[p] = "scan"
  BY <1>2 DEF Goto, IInv, TypeOK, Pc
<1>8. Informed(p)'
  BY <1>7, Elsewhere
<1>9. all_proc' # p
  BY <1>2, <1>3 DEF IInv, LifeOK, Holding
<1>10. LifeOK' /\ GroupsOK' /\ WaitOK'
  <2>1. "scan" \in NormalPc /\ pc[p] \in NormalPc
    BY <1>3 DEF NormalPc
  <2>2. \A q \in Pids : q # p => /\ w_pid'[q] = w_pid[q] /\ w_options'[q] = w_options[q]
                                 /\ w_left'[q] = w_left[q]
                                 /\ q \in child_changed => q \in child_changed'
                                 /\ all_proc' = q <=> all_proc = q
    BY <1>2, <1>5, <1>6
  <2>3. UNCHANGED <<p_state, treeVars, groupVars, td_sigpend, td_stopping, state_changed>>
    BY <1>2 DEF sigVars
  <2> QED  BY <1>2, <1>8, <1>9, <2>1, <2>2, <2>3, Solo
<1>11. TypeOK'
  BY <1>2, <1>3, <1>5, <1>6, <1>7, <1>10 DEF IInv, TypeOK, GroupsOK, sigVars
<1> QED  BY <1>10, <1>11 DEF IInv

LEMMA WaitScanKeeps ==
  ASSUME IInv, NEW p \in Pids, WaitScan(p)
  PROVE  IInv'
<1> DEFINE matching == {c \in Children(p) : child_matches(p, c)}
<1>1. /\ pc[p] = "scan" /\ all_proc = 0
      /\ UNCHANGED <<p_state, treeVars, groupVars, state_changed, child_changed, sigVars,
                     td_stopping, ops>>
      /\ \/ Return(p) /\ UNCHANGED all_proc
         \/ /\ matching # {} /\ all_proc' = p /\ Goto(p, "look")
            /\ w_left' = [w_left EXCEPT ![p] = matching]
            /\ UNCHANGED <<w_pid, w_options>>
  BY DEF WaitScan
<1>2. matching \in SUBSET Pids
  BY DEF Children, Procs
<1>3. UNCHANGED <<p_state, treeVars, groupVars, td_sigpend, td_stopping, state_changed>>
  BY <1>1 DEF sigVars
<1>4. "user" \in NormalPc /\ "look" \in NormalPc /\ pc[p] \in NormalPc
  BY <1>1 DEF NormalPc
<1>5. \A q \in Pids : q # 0
  BY DEF Pids
<1>6. CASE Return(p) /\ UNCHANGED all_proc
  <2>1. /\ Goto(p, "user") /\ pc' \in [Pids -> Pc]
        /\ w_pid' \in [Pids -> -PidMax .. PidMax] /\ w_options' \in [Pids -> SUBSET Options]
        /\ w_left' \in [Pids -> SUBSET Pids] /\ pc'[p] = "user"
        /\ \A q \in Pids : q # p => /\ w_pid'[q] = w_pid[q] /\ w_options'[q] = w_options[q]
                                    /\ w_left'[q] = w_left[q]
    BY <1>6, ReturnFacts DEF IInv
  <2>2. Informed(p)'
    BY <2>1, Elsewhere
  <2>3. LifeOK' /\ GroupsOK' /\ WaitOK'
    BY <1>1, <1>3, <1>4, <1>5, <1>6, <2>1, <2>2, Solo
  <2>4. TypeOK'
    BY <1>1, <1>6, <2>1, <2>3 DEF IInv, TypeOK, GroupsOK, sigVars
  <2> QED  BY <2>3, <2>4 DEF IInv
<1>7. CASE /\ matching # {} /\ all_proc' = p /\ Goto(p, "look")
           /\ w_left' = [w_left EXCEPT ![p] = matching]
           /\ UNCHANGED <<w_pid, w_options>>
  <2>1. /\ w_left' \in [Pids -> SUBSET Pids] /\ w_left'[p] = matching
        /\ \A q \in Pids : q # p => w_left'[q] = w_left[q]
    <3> HIDE DEF matching
    <3> QED  BY <1>2, <1>7 DEF IInv, TypeOK
  <2>2. pc' \in [Pids -> Pc] /\ pc'[p] = "look" /\ \A q \in Pids : q # p => pc'[q] = pc[q]
    BY <1>7 DEF Goto, IInv, TypeOK, Pc
  <2>3. Children(p)' = Children(p)
    BY <1>1 DEF Children, Procs, treeVars
  <2>4. \A c \in Children(p) : child_matches(p, c)' <=> child_matches(p, c)
    BY <1>1, <1>7 DEF child_matches, groupVars
  <2>5. \A c \in Children(p) : pc'[c] \notin {"zombie", "reap"}
    <3> SUFFICES ASSUME NEW c \in Children(p) PROVE pc'[c] \notin {"zombie", "reap"}
      OBVIOUS
    <3>1. c \in Pids
      BY DEF Children, Procs
    <3>2. pc[c] \notin Holding
      BY <1>1, <1>5, <3>1 DEF IInv, LifeOK
    <3> QED  BY <2>2, <3>1, <3>2 DEF Holding
  <2>6. Informed(p)'
    BY <1>7, <2>1, <2>2, <2>3, <2>4, <2>5 DEF Informed
  <2>7. LifeOK' /\ GroupsOK' /\ WaitOK'
    <3>1. \A q \in Pids : q # p => (all_proc' = q <=> all_proc = q)
      BY <1>1, <1>5, <1>7
    <3> QED  BY <1>1, <1>3, <1>4, <1>7, <2>1, <2>6, <3>1, Solo
  <2>8. all_proc' \in 0 .. PidMax
    BY <1>7 DEF Pids
  <2>9. TypeOK'
    BY <1>1, <1>7, <2>1, <2>2, <2>7, <2>8 DEF IInv, TypeOK, GroupsOK, sigVars
  <2> QED  BY <2>7, <2>9 DEF IInv
<1> QED  BY <1>1, <1>6, <1>7

\* The owner of all_proc_mtx is the only one.
LEMMA OneHolder ==
  ASSUME LifeOK, NEW p \in Pids, pc[p] \in Holding
  PROVE  all_proc = p /\ \A q \in Pids : q # p => pc[q] \notin Holding
BY DEF LifeOK

\* The mutex is let go of.
LEMMA Unlocked ==
  ASSUME LifeOK, NEW p \in Pids, pc[p] \in Holding, all_proc' = 0
  PROVE  \A q \in Pids : (q # p => (all_proc' = q <=> all_proc = q)) /\ all_proc' # q
<1>1. all_proc = p
  BY OneHolder
<1>2. \A q \in Pids : q # 0
  BY DEF Pids
<1> QED  BY <1>1, <1>2

LEMMA WaitLookKeeps ==
  ASSUME IInv, NEW p \in Pids, NEW c \in Pids, WaitLook(p, c)
  PROVE  IInv'
<1>1. /\ pc[p] = "look" /\ c \in w_left[p]
      /\ UNCHANGED <<p_state, treeVars, groupVars, child_changed, sigVars, td_stopping, ops>>
      /\ \/ state_changed' = state_changed \ {c} /\ Return(p) /\ all_proc' = 0
         \/ /\ ~ Reportable(p, c) /\ w_left' = [w_left EXCEPT ![p] = @ \ {c}]
            /\ UNCHANGED <<state_changed, all_proc, pc, w_pid, w_options>>
  BY DEF WaitLook
<1>2. UNCHANGED <<p_state, treeVars, groupVars, td_sigpend, td_stopping>>
  BY <1>1 DEF sigVars
<1>3. "user" \in NormalPc /\ "look" \in NormalPc /\ pc[p] \in NormalPc /\ pc[p] \in Holding
  BY <1>1 DEF NormalPc, Holding
<1>4. all_proc = p
  BY <1>3, OneHolder DEF IInv
<1>5. CASE state_changed' = state_changed \ {c} /\ Return(p) /\ all_proc' = 0
  <2>1. /\ Goto(p, "user") /\ pc' \in [Pids -> Pc]
        /\ w_pid' \in [Pids -> -PidMax .. PidMax] /\ w_options' \in [Pids -> SUBSET Options]
        /\ w_left' \in [Pids -> SUBSET Pids] /\ pc'[p] = "user"
        /\ \A q \in Pids : q # p => /\ w_pid'[q] = w_pid[q] /\ w_options'[q] = w_options[q]
                                    /\ w_left'[q] = w_left[q]
    BY <1>5, ReturnFacts DEF IInv
  <2>2. Informed(p)'
    BY <2>1, Elsewhere
  <2>3. \A q \in Pids : (q # p => (all_proc' = q <=> all_proc = q)) /\ all_proc' # q
    BY <1>3, <1>5, Unlocked DEF IInv
  <2>4. LifeOK' /\ GroupsOK' /\ WaitOK'
    BY <1>1, <1>2, <1>3, <1>5, <2>1, <2>2, <2>3, Solo
  <2>5. all_proc' \in 0 .. PidMax /\ state_changed' \in SUBSET Pids
    BY <1>5, PgrpAssumption DEF IInv, TypeOK
  <2>6. TypeOK'
    BY <1>1, <2>1, <2>4, <2>5 DEF IInv, TypeOK, GroupsOK, sigVars
  <2> QED  BY <2>4, <2>6 DEF IInv
<1>6. CASE /\ ~ Reportable(p, c) /\ w_left' = [w_left EXCEPT ![p] = @ \ {c}]
           /\ UNCHANGED <<state_changed, all_proc, pc, w_pid, w_options>>
  <2>1. /\ w_left' \in [Pids -> SUBSET Pids] /\ w_left'[p] = w_left[p] \ {c}
        /\ \A q \in Pids : q # p => w_left'[q] = w_left[q]
    BY <1>6 DEF IInv, TypeOK
  <2>2. Goto(p, "look")
    BY <1>1, <1>6 DEF Goto, IInv, TypeOK
  <2>3. Informed(p) /\ (Silent(p)' <=> Silent(p)) /\ (WaitsByPid(p)' <=> WaitsByPid(p))
    BY <1>1, <1>6 DEF IInv, WaitOK, Silent, WaitsByPid
  <2>4. Children(p)' = Children(p)
    BY <1>1 DEF Children, Procs, treeVars
  <2>5. \A d \in Children(p) : /\ child_matches(p, d)' <=> child_matches(p, d)
                               /\ Reportable(p, d)' <=> Reportable(p, d)
    BY <1>1, <1>6 DEF child_matches, Reportable, groupVars
  <2>6. Informed(p)'
    BY <1>1, <1>6, <2>1, <2>3, <2>4, <2>5 DEF Informed
  <2>7. LifeOK' /\ GroupsOK' /\ WaitOK'
    BY <1>1, <1>2, <1>3, <1>4, <1>6, <2>1, <2>2, <2>6, Solo
  <2>8. TypeOK'
    BY <1>1, <1>6, <2>1, <2>7 DEF IInv, TypeOK, GroupsOK, sigVars
  <2> QED  BY <2>7, <2>8 DEF IInv
<1> QED  BY <1>1, <1>5, <1>6

LEMMA WaitNoneKeeps ==
  ASSUME IInv, NEW p \in Pids, WaitNone(p)
  PROVE  IInv'
<1>1. /\ pc[p] = "look" /\ w_left[p] = {} /\ all_proc' = 0
      /\ UNCHANGED <<p_state, treeVars, groupVars, state_changed, child_changed, sigVars,
                     td_stopping, ops>>
      /\ Return(p) \/ (Goto(p, "unsleep") /\ UNCHANGED waitVars)
  BY DEF WaitNone
<1>2. UNCHANGED <<p_state, treeVars, groupVars, td_sigpend, td_stopping>>
  BY <1>1 DEF sigVars
<1>3. "user" \in NormalPc /\ "unsleep" \in NormalPc /\ pc[p] \in NormalPc /\ pc[p] \in Holding
  BY <1>1 DEF NormalPc, Holding
<1>4. \A q \in Pids : (q # p => (all_proc' = q <=> all_proc = q)) /\ all_proc' # q
  BY <1>1, <1>3, Unlocked DEF IInv
<1>5. all_proc' \in 0 .. PidMax
  BY <1>1, PgrpAssumption
<1>6. CASE Return(p)
  <2>1. /\ Goto(p, "user") /\ pc' \in [Pids -> Pc]
        /\ w_pid' \in [Pids -> -PidMax .. PidMax] /\ w_options' \in [Pids -> SUBSET Options]
        /\ w_left' \in [Pids -> SUBSET Pids] /\ pc'[p] = "user"
        /\ \A q \in Pids : q # p => /\ w_pid'[q] = w_pid[q] /\ w_options'[q] = w_options[q]
                                    /\ w_left'[q] = w_left[q]
    BY <1>6, ReturnFacts DEF IInv
  <2>2. Informed(p)'
    BY <2>1, Elsewhere
  <2>3. LifeOK' /\ GroupsOK' /\ WaitOK'
    BY <1>1, <1>2, <1>3, <1>4, <2>1, <2>2, Solo
  <2>4. TypeOK'
    BY <1>1, <1>5, <2>1, <2>3 DEF IInv, TypeOK, GroupsOK, sigVars
  <2> QED  BY <2>3, <2>4 DEF IInv
<1>7. CASE Goto(p, "unsleep") /\ UNCHANGED waitVars
  <2>1. pc' \in [Pids -> Pc] /\ pc'[p] = "unsleep" /\ \A q \in Pids : q # p => pc'[q] = pc[q]
    BY <1>7 DEF Goto, IInv, TypeOK, Pc
  <2>2. UNCHANGED <<w_pid, w_options, w_left>>
    BY <1>7 DEF waitVars
  <2>3. Informed(p) /\ (Silent(p)' <=> Silent(p)) /\ (WaitsByPid(p)' <=> WaitsByPid(p))
    BY <1>1, <2>1, <2>2 DEF IInv, WaitOK, Silent, WaitsByPid
  <2>4. Children(p)' = Children(p)
    BY <1>1 DEF Children, Procs, treeVars
  <2>5. \A d \in Children(p) : /\ child_matches(p, d)' <=> child_matches(p, d)
                               /\ Reportable(p, d)' <=> Reportable(p, d)
    BY <1>1, <2>2 DEF child_matches, Reportable, groupVars
  <2>6. \A d \in Children(p) : pc'[d] \in {"zombie", "reap"} => pc[d] \in {"zombie", "reap"}
    BY <2>1 DEF Children, Procs
  <2>7. Informed(p)'
    BY <1>1, <2>1, <2>2, <2>3, <2>4, <2>5, <2>6 DEF Informed
  <2>8. LifeOK' /\ GroupsOK' /\ WaitOK'
    BY <1>1, <1>2, <1>3, <1>4, <1>7, <2>2, <2>7, Solo
  <2>9. TypeOK'
    BY <1>1, <1>5, <2>1, <2>2, <2>8 DEF IInv, TypeOK, GroupsOK, sigVars
  <2> QED  BY <2>8, <2>9 DEF IInv
<1> QED  BY <1>1, <1>6, <1>7

LEMMA WaitSleepKeeps ==
  ASSUME IInv, NEW p \in Pids, WaitSleep(p)
  PROVE  IInv'
<1>1. /\ pc[p] = "unsleep"
      /\ UNCHANGED <<p_state, treeVars, groupVars, state_changed, sigVars, td_stopping,
                     all_proc, waitVars, ops>>
      /\ \/ child_changed' = child_changed \ {p} /\ Goto(p, "scan")
         \/ p \notin child_changed /\ Goto(p, "asleep") /\ UNCHANGED child_changed
  BY DEF WaitSleep, MustRescan
<1>2. UNCHANGED <<p_state, treeVars, groupVars, td_sigpend, td_stopping>>
  BY <1>1 DEF sigVars
<1>3. UNCHANGED <<w_pid, w_options, w_left>>
  BY <1>1 DEF waitVars
<1>4. "scan" \in NormalPc /\ "asleep" \in NormalPc /\ pc[p] \in NormalPc
  BY <1>1 DEF NormalPc
<1>5. all_proc' # p
  BY <1>1 DEF IInv, LifeOK, Holding
<1>6. child_changed' \in SUBSET Pids
  BY <1>1 DEF IInv, TypeOK
<1>7. CASE child_changed' = child_changed \ {p} /\ Goto(p, "scan")
  <2>1. pc' \in [Pids -> Pc] /\ pc'[p] = "scan"
    BY <1>7 DEF Goto, IInv, TypeOK, Pc
  <2>2. Informed(p)'
    BY <2>1, Elsewhere
  <2>3. LifeOK' /\ GroupsOK' /\ WaitOK'
    BY <1>1, <1>2, <1>3, <1>4, <1>5, <1>7, <2>2, Solo
  <2>4. TypeOK'
    BY <1>1, <1>3, <1>6, <2>1, <2>3 DEF IInv, TypeOK, GroupsOK, sigVars
  <2> QED  BY <2>3, <2>4 DEF IInv
<1>8. CASE p \notin child_changed /\ Goto(p, "asleep") /\ UNCHANGED child_changed
  <2>1. pc' \in [Pids -> Pc] /\ pc'[p] = "asleep" /\ \A q \in Pids : q # p => pc'[q] = pc[q]
    BY <1>8 DEF Goto, IInv, TypeOK, Pc
  <2>2. Informed(p) /\ Silent(p) /\ (WaitsByPid(p)' <=> WaitsByPid(p))
    BY <1>1, <1>3, <1>8 DEF IInv, WaitOK, Silent, WaitsByPid
  <2>3. Children(p)' = Children(p)
    BY <1>1 DEF Children, Procs, treeVars
  <2>4. \A d \in Children(p) : /\ child_matches(p, d)' <=> child_matches(p, d)
                               /\ Reportable(p, d)' <=> Reportable(p, d)
    BY <1>1, <1>3 DEF child_matches, Reportable, groupVars
  <2>5. \A d \in Children(p) : pc'[d] \in {"zombie", "reap"} => pc[d] \in {"zombie", "reap"}
    BY <2>1 DEF Children, Procs
  <2>6. Informed(p)'
    BY <1>1, <1>3, <2>1, <2>2, <2>3, <2>4, <2>5 DEF Informed
  <2>7. LifeOK' /\ GroupsOK' /\ WaitOK'
    BY <1>1, <1>2, <1>3, <1>4, <1>5, <1>8, <2>6, Solo
  <2>8. TypeOK'
    BY <1>1, <1>3, <1>6, <2>1, <2>7 DEF IInv, TypeOK, GroupsOK, sigVars
  <2> QED  BY <2>7, <2>8 DEF IInv
<1> QED  BY <1>1, <1>7, <1>8

\* Other steps of one process that does not go to sleep.
LEMMA StepAside ==
  ASSUME IInv, NEW p \in Pids, NEW to \in NormalPc \ {"look", "unsleep", "asleep"},
         pc[p] \in NormalPc \ {"look"}, Goto(p, to),
         UNCHANGED <<p_state, treeVars, groupVars, state_changed, td_sigpend, td_stopping,
                     all_proc, waitVars>>,
         child_changed' = child_changed \/ child_changed' = child_changed \ {p},
         chld_ignored' \in SUBSET Pids, ops' \in 0 .. MaxOps
  PROVE  IInv'
<1>1. UNCHANGED <<w_pid, w_options, w_left>>
  BY DEF waitVars
<1>2. to \in NormalPc /\ pc[p] \in NormalPc /\ to # "look"
  OBVIOUS
<1>3. all_proc' # p
  BY DEF IInv, LifeOK, Holding, NormalPc
<1>4. pc' \in [Pids -> Pc] /\ pc'[p] = to
  BY DEF Goto, IInv, TypeOK, Pc, NormalPc
<1>5. Informed(p)'
  BY <1>4, Elsewhere
<1>6. \A q \in Pids : q # p => (q \in child_changed => q \in child_changed')
  OBVIOUS
<1>7. LifeOK' /\ GroupsOK' /\ WaitOK'
  BY <1>1, <1>2, <1>3, <1>5, <1>6, Solo
<1>8. child_changed' \in SUBSET Pids
  BY DEF IInv, TypeOK
<1>9. TypeOK'
  BY <1>1, <1>4, <1>7, <1>8 DEF IInv, TypeOK, GroupsOK
<1> QED  BY <1>7, <1>9 DEF IInv

LEMMA WaitWokenKeeps ==
  ASSUME IInv, NEW p \in Pids, WaitWoken(p)
  PROVE  IInv'
<1>1. /\ pc[p] \in NormalPc \ {"look"} /\ "scan" \in NormalPc \ {"look", "unsleep", "asleep"}
      /\ child_changed' = child_changed \ {p} /\ Goto(p, "scan")
      /\ UNCHANGED <<p_state, treeVars, groupVars, state_changed, sigVars, td_stopping,
                     all_proc, waitVars, ops>>
  BY DEF WaitWoken, NormalPc
<1>2. chld_ignored' \in SUBSET Pids /\ ops' \in 0 .. MaxOps /\ td_sigpend' = td_sigpend
  BY <1>1 DEF IInv, TypeOK, sigVars
<1> QED  BY <1>1, <1>2, StepAside

LEMMA SigDoneKeeps ==
  ASSUME IInv, NEW p \in Pids, SigDone(p)
  PROVE  IInv'
<1>1. /\ pc[p] \in NormalPc \ {"look"} /\ "user" \in NormalPc \ {"look", "unsleep", "asleep"}
      /\ Goto(p, "user")
      /\ UNCHANGED <<p_state, treeVars, groupVars, state_changed, child_changed, sigVars,
                     td_stopping, all_proc, waitVars, ops>>
  BY DEF SigDone, NormalPc
<1>2. chld_ignored' \in SUBSET Pids /\ ops' \in 0 .. MaxOps /\ td_sigpend' = td_sigpend
  BY <1>1 DEF IInv, TypeOK, sigVars
<1> QED  BY <1>1, <1>2, StepAside

LEMMA SigactionChldKeeps ==
  ASSUME IInv, NEW p \in Pids, SigactionChld(p)
  PROVE  IInv'
<1>1. /\ Syscall(p)
      /\ chld_ignored' = chld_ignored \ {p} \/ chld_ignored' = chld_ignored \cup {p}
      /\ UNCHANGED <<p_state, treeVars, groupVars, state_changed, child_changed,
                     td_sigpend, td_stopping, all_proc, pc, waitVars>>
  BY DEF SigactionChld
<1>2. pc[p] = "user" /\ ops' \in 0 .. MaxOps
  BY <1>1, NextCall DEF IInv
<1>3. pc[p] \in NormalPc \ {"look"} /\ "user" \in NormalPc \ {"look", "unsleep", "asleep"}
  BY <1>2 DEF NormalPc
<1>4. Goto(p, "user")
  BY <1>1, <1>2 DEF Goto, IInv, TypeOK
<1>5. chld_ignored' \in SUBSET Pids
  BY <1>1 DEF IInv, TypeOK
<1> QED  BY <1>1, <1>2, <1>3, <1>4, <1>5, StepAside

-----------------------------------------------------------------------------
(* Signals, stopping and dying. *)

\* A step in which the state of one process changes, of which its parent need
\* not know.
LEMMA SoloRest ==
  ASSUME IInv, NEW p \in Pids, NEW to \in Pc \ {"look", "unsleep", "asleep"}, Goto(p, to),
         UNCHANGED <<treeVars, groupVars, waitVars>>, p_state' \in [Pids -> PState],
         \A q \in Pids : q # p => p_state'[q] = p_state[q],
         p_state'[p] = "none" <=> p_state[p] = "none", Left(p)' <=> Left(p),
         \A q \in Pids : q \in child_changed => q \in child_changed',
         \A c \in Procs : Calm(c)
  PROVE  GroupsOK' /\ WaitOK'
<1>1. \A q \in Pids : pc'[q] = IF q = p THEN to ELSE pc[q]
  BY DEF IInv, TypeOK, Goto
<1>2. GroupsOK'
  <2>1. \A q \in Pids : /\ p_state'[q] = "none" <=> p_state[q] = "none"
                        /\ Left(q)' <=> Left(q)
    BY <1>1 DEF Left
  <2> QED  BY <2>1, GroupsAside DEF IInv
<1>3. Procs' = Procs
  BY DEF Procs
<1>4. \A q \in Pids : w_pid'[q] = w_pid[q] /\ w_options'[q] = w_options[q]
                      /\ w_left'[q] = w_left[q]
  BY DEF waitVars
<1>5. \A q \in Pids : q # p => Informed(q)'
  BY <1>1, <1>3, <1>4, OthersUndisturbed DEF IInv
<1>6. Informed(p)'
  BY <1>1, Elsewhere
<1> QED  BY <1>2, <1>5, <1>6 DEF WaitOK

LEMMA DieKeeps ==
  ASSUME IInv, NEW p \in Pids \ {InitPid}, pc[p] \in {"user", "check"}, Die(p),
         td_sigpend' \in [Pids -> SUBSET Pending],
         \A q \in Pids : q # p => td_sigpend'[q] = td_sigpend[q],
         UNCHANGED <<treeVars, groupVars, chld_ignored, all_proc, waitVars>>,
         ops' \in 0 .. MaxOps
  PROVE  IInv'
<1>1. /\ p_state' = [p_state EXCEPT ![p] = "dying"] /\ Goto(p, "dying")
      /\ UNCHANGED <<state_changed, child_changed, td_stopping>>
  BY DEF Die
<1>2. /\ p_state' \in [Pids -> PState] /\ p_state'[p] = "dying"
      /\ \A q \in Pids : q # p => p_state'[q] = p_state[q]
  BY <1>1 DEF IInv, TypeOK, PgrpTypeOK, PState
<1>3. p_state[p] = "normal" /\ p \notin td_stopping /\ all_proc # p
  BY DEF IInv, LifeOK, StatesAt, Holding
<1>4. /\ pc' \in [Pids -> Pc] /\ pc'[p] = "dying"
      /\ \A q \in Pids : q # p => pc'[q] = pc[q]
  BY <1>1 DEF Goto, IInv, TypeOK, Pc
<1>5. LifeOK'
  <2>1. p_state'[p] \in StatesAt("dying") /\ "dying" \in Pc /\ "dying" \notin Holding
    BY <1>2 DEF StatesAt, Pc, Holding
  <2> QED  BY <1>1, <1>2, <1>3, <2>1, SoloLife DEF IInv
<1>6. GroupsOK' /\ WaitOK'
  <2>1. Left(p)' <=> Left(p)
    BY <1>2, <1>3, <1>4 DEF Left
  <2>2. \A c \in Procs : Calm(c)
    BY <1>1, <1>2, <1>4 DEF Calm, Procs
  <2>3. "dying" \in Pc \ {"look", "unsleep", "asleep"}
    BY DEF Pc
  <2> QED  BY <1>1, <1>2, <1>3, <2>1, <2>2, <2>3, SoloRest
<1>7. TypeOK'
  BY <1>1, <1>4, <1>5, <1>6 DEF IInv, TypeOK, GroupsOK, waitVars
<1> QED  BY <1>5, <1>6, <1>7 DEF IInv

LEMMA ExitKeeps ==
  ASSUME IInv, NEW p \in Pids, Exit(p)
  PROVE  IInv'
<1>1. /\ Syscall(p) /\ p # InitPid /\ Die(p)
      /\ UNCHANGED <<treeVars, groupVars, sigVars, all_proc, waitVars>>
  BY DEF Exit
<1>2. pc[p] = "user" /\ ops' \in 0 .. MaxOps
  BY <1>1, NextCall DEF IInv
<1>3. td_sigpend' = td_sigpend /\ chld_ignored' = chld_ignored
      /\ td_sigpend' \in [Pids -> SUBSET Pending]
  BY <1>1 DEF sigVars, IInv, TypeOK
<1> QED  BY <1>1, <1>2, <1>3, DieKeeps

LEMMA ProcStopKeeps ==
  ASSUME IInv, NEW p \in Pids \ {InitPid}, pc[p] \in {"user", "check"}, proc_stop(p),
         td_sigpend' \in [Pids -> SUBSET Pending],
         \A q \in Pids : q # p => td_sigpend'[q] = td_sigpend[q],
         "KILL" \notin td_sigpend'[p],
         UNCHANGED <<treeVars, groupVars, chld_ignored, all_proc, waitVars, ops>>
  PROVE  IInv'
<1>1. /\ p_state' = [p_state EXCEPT ![p] = "stopped"]
      /\ state_changed' = state_changed \cup {p}
      /\ child_changed' = child_changed \cup {p_parent[p]}
      /\ td_stopping' = td_stopping \cup {p}
      /\ pc' = [q \in Pids |->
           CASE q = p -> "stop"
             [] q # p /\ q = p_parent[p] /\ pc[q] = "asleep" -> "woken"
             [] OTHER -> pc[q]]
  BY DEF proc_stop, Notified
<1>2. p_state[p] = "normal" /\ p \notin td_stopping /\ all_proc # p
  BY DEF IInv, LifeOK, StatesAt, Holding
<1>3. p_parent[p] \in Pids
  BY <1>2 DEF IInv, GroupsOK, TreeOK, Procs
<1>4. /\ p_state' \in [Pids -> PState] /\ p_state'[p] = "stopped"
      /\ \A q \in Pids : q # p => p_state'[q] = p_state[q]
  BY <1>1 DEF IInv, TypeOK, PgrpTypeOK, PState
<1>5. \A q \in Pids : pc'[q] = IF q = p THEN "stop"
                               ELSE IF q = p_parent[p] /\ pc[q] = "asleep" THEN "woken"
                               ELSE pc[q]
  <2> SUFFICES ASSUME NEW q \in Pids
               PROVE  pc'[q] = IF q = p THEN "stop"
                               ELSE IF q = p_parent[p] /\ pc[q] = "asleep" THEN "woken"
                               ELSE pc[q]
    OBVIOUS
  <2>1. pc'[q] = CASE q = p -> "stop"
                   [] q # p /\ q = p_parent[p] /\ pc[q] = "asleep" -> "woken"
                   [] OTHER -> pc[q]
    BY <1>1
  <2> QED  BY <2>1
<1>6. pc' \in [Pids -> Pc]
  <2>1. \A q \in Pids : pc'[q] \in Pc
    BY <1>5 DEF IInv, TypeOK, Pc
  <2> QED  BY <1>1, <2>1
<1>7. LifeOK'
  <2>1. ASSUME NEW q \in Pids
        PROVE  /\ p_state'[q] \in StatesAt(pc'[q])
               /\ q \in td_stopping' <=> pc'[q] = "stop" /\ p_state'[q] = "stopped"
               /\ pc'[q] \in Holding <=> all_proc' = q
               /\ "KILL" \in td_sigpend'[q] => p_state'[q] # "stopped"
    <3>1. /\ p_state[q] \in StatesAt(pc[q])
          /\ q \in td_stopping <=> pc[q] = "stop" /\ p_state[q] = "stopped"
          /\ pc[q] \in Holding <=> all_proc = q
          /\ "KILL" \in td_sigpend[q] => p_state[q] # "stopped"
      BY DEF IInv, LifeOK
    <3>2. CASE q = p
      BY <1>1, <1>2, <1>4, <1>5, <3>2 DEF StatesAt, Holding
    <3>3. CASE q # p /\ q = p_parent[p] /\ pc[q] = "asleep"
      BY <1>1, <1>4, <1>5, <3>1, <3>3 DEF StatesAt, Holding
    <3>4. CASE q # p /\ pc'[q] = pc[q]
      BY <1>1, <1>4, <3>1, <3>4
    <3> QED  BY <1>5, <3>2, <3>3, <3>4
  <2>2. InitPid \in Pids
    BY PgrpAssumption DEF InitPid, Pids
  <2>3. td_sigpend'[InitPid] = {} /\ p_state'[InitPid] = "normal"
    BY <1>4, <2>2 DEF IInv, LifeOK
  <2> QED  BY <2>1, <2>3 DEF LifeOK
<1>8. GroupsOK'
  <2>1. \A q \in Pids : /\ p_state'[q] = "none" <=> p_state[q] = "none"
                        /\ Left(q)' <=> Left(q)
    BY <1>2, <1>4, <1>5 DEF Left
  <2> QED  BY <1>4, <2>1, GroupsAside DEF IInv
<1>9. WaitOK'
  <2> SUFFICES ASSUME NEW q \in Pids PROVE Informed(q)'
    BY DEF WaitOK
  <2>1. CASE pc'[q] # pc[q]
    <3>1. pc'[q] \notin {"look", "unsleep", "asleep"}
      BY <1>5, <2>1
    <3> QED  BY <3>1, Elsewhere
  <2>2. CASE pc'[q] = pc[q]
    <3>1. Children(q)' = Children(q)
      BY <1>2, <1>4 DEF Children, Procs, treeVars
    <3>2. ASSUME Silent(q)' PROVE \A c \in Children(q) : Calm(c)
      <4>1. q # p_parent[p]
        BY <1>1, <1>5, <2>2, <3>2 DEF Silent
      <4>2. ASSUME NEW c \in Children(q) PROVE Calm(c)
        <5>1. c # p /\ c \in Pids
          BY <4>1, <4>2 DEF Children, Procs
        <5> QED  BY <1>1, <1>4, <1>5, <5>1 DEF Calm
      <4> QED  BY <4>2
    <3>3. w_pid'[q] = w_pid[q] /\ w_options'[q] = w_options[q] /\ w_left'[q] = w_left[q]
      BY DEF waitVars
    <3>4. (q \in child_changed => q \in child_changed') /\ Informed(q)
      BY <1>1 DEF IInv, WaitOK
    <3> QED  BY <2>2, <3>1, <3>2, <3>3, <3>4, Undisturbed
  <2> QED  BY <2>1, <2>2
<1>10. TypeOK'
  <2>1. /\ state_changed' \in SUBSET Pids /\ child_changed' \in SUBSET Pids
        /\ td_stopping' \in SUBSET Pids
    BY <1>1, <1>3 DEF IInv, TypeOK
  <2> QED  BY <1>6, <1>8, <2>1 DEF IInv, TypeOK, GroupsOK, waitVars
<1> QED  BY <1>7, <1>8, <1>9, <1>10 DEF IInv

\* Stop signals are only looked at when there is no SIGKILL.
LEMMA KillFirst ==
  ASSUME NEW set \in SUBSET Pending, "KILL" \in set
  PROVE  FirstPending(set) \in {"HUP", "KILL"}
BY DEF FirstPending, StopSignals

LEMMA SigCheckKeeps ==
  ASSUME IInv, NEW p \in Pids, SigCheck(p)
  PROVE  IInv'
<1>1. PICK sig : sig = FirstPending(td_sigpend[p])
  OBVIOUS
<1>2. /\ pc[p] \in {"user", "check"} /\ td_sigpend[p] # {}
      /\ td_sigpend' = [td_sigpend EXCEPT ![p] = @ \ {sig}]
      /\ \/ sig \in {"HUP", "KILL"} /\ Die(p)
         \/ sig \in StopSignals /\ proc_stop(p)
         \/ /\ sig \in StopSignals /\ Goto(p, "check")
            /\ UNCHANGED <<p_state, state_changed, child_changed, td_stopping>>
      /\ UNCHANGED <<treeVars, groupVars, chld_ignored, all_proc, waitVars, ops>>
  BY <1>1 DEF SigCheck, sig_ignore_ttystop, StopSignals
<1>3. p # InitPid
  BY <1>2 DEF IInv, LifeOK
<1>4. /\ td_sigpend' \in [Pids -> SUBSET Pending] /\ td_sigpend'[p] = td_sigpend[p] \ {sig}
      /\ \A q \in Pids : q # p => td_sigpend'[q] = td_sigpend[q]
  BY <1>2 DEF IInv, TypeOK
<1>5. ops' \in 0 .. MaxOps
  BY <1>2 DEF IInv, TypeOK
<1>6. CASE sig \in {"HUP", "KILL"} /\ Die(p)
  BY <1>2, <1>3, <1>4, <1>5, <1>6, DieKeeps
<1>7. sig \in StopSignals => "KILL" \notin td_sigpend'[p]
  <2>1. td_sigpend[p] \in SUBSET Pending
    BY DEF IInv, TypeOK
  <2> QED  BY <1>1, <1>4, <2>1, KillFirst DEF StopSignals
<1>8. CASE sig \in StopSignals /\ proc_stop(p)
  BY <1>2, <1>3, <1>4, <1>7, <1>8, ProcStopKeeps
<1>9. CASE /\ sig \in StopSignals /\ Goto(p, "check")
           /\ UNCHANGED <<p_state, state_changed, child_changed, td_stopping>>
  <2>1. p_state[p] = "normal" /\ p \notin td_stopping /\ all_proc # p
    BY <1>2 DEF IInv, LifeOK, StatesAt, Holding
  <2>2. /\ "check" \in Pc \ {"look", "unsleep", "asleep"} /\ "check" \in Pc
        /\ "check" \notin Holding /\ p_state'[p] \in StatesAt("check")
    BY <1>9, <2>1 DEF Pc, Holding, StatesAt
  <2>3. /\ pc' \in [Pids -> Pc] /\ pc'[p] = "check"
        /\ \A q \in Pids : q # p => pc'[q] = pc[q]
    BY <1>9 DEF Goto, IInv, TypeOK, Pc
  <2>4. LifeOK'
    BY <1>2, <1>3, <1>4, <1>7, <1>9, <2>1, <2>2, SoloLife DEF IInv
  <2>5. GroupsOK' /\ WaitOK'
    <3>1. Left(p)' <=> Left(p)
      BY <1>2, <1>9, <2>3 DEF Left
    <3>2. \A c \in Procs : Calm(c)
      BY <1>9, <2>3 DEF Calm, Procs
    <3>3. p_state' \in [Pids -> PState]
      BY <1>9 DEF IInv, TypeOK, PgrpTypeOK
    <3> QED  BY <1>2, <1>9, <2>2, <3>1, <3>2, <3>3, SoloRest
  <2>6. TypeOK'
    BY <1>2, <1>4, <1>9, <2>3, <2>5 DEF IInv, TypeOK, GroupsOK, waitVars
  <2> QED  BY <2>4, <2>5, <2>6 DEF IInv
<1> QED  BY <1>2, <1>6, <1>8, <1>9

LEMMA StopThreadKeeps ==
  ASSUME IInv, NEW p \in Pids, StopThread(p)
  PROVE  IInv'
<1>1. PICK to : to = IF p \in td_stopping THEN "stopped" ELSE "check"
  OBVIOUS
<1>2. /\ pc[p] = "stop" /\ td_stopping' = td_stopping \ {p} /\ Goto(p, to)
      /\ UNCHANGED <<p_state, treeVars, groupVars, state_changed, child_changed, sigVars,
                     all_proc, waitVars, ops>>
  BY <1>1 DEF StopThread
<1>3. /\ p_state[p] = IF p \in td_stopping THEN "stopped" ELSE "normal"
      /\ all_proc # p
  BY <1>2 DEF IInv, LifeOK, StatesAt, Holding
<1>4. /\ to \in Pc \ {"look", "unsleep", "asleep"} /\ to \in Pc /\ to # "stop"
      /\ to \notin Holding /\ p_state'[p] \in StatesAt(to)
  BY <1>1, <1>2, <1>3 DEF Pc, Holding, StatesAt
<1>5. /\ pc' \in [Pids -> Pc] /\ pc'[p] = to
      /\ \A q \in Pids : q # p => pc'[q] = pc[q]
  BY <1>2, <1>4 DEF Goto, IInv, TypeOK
<1>6. td_sigpend' = td_sigpend /\ chld_ignored' = chld_ignored
  BY <1>2 DEF sigVars
<1>7. LifeOK'
  <2>1. "KILL" \in td_sigpend'[p] => p_state'[p] # "stopped"
    BY <1>2, <1>6 DEF IInv, LifeOK
  <2>2. p = InitPid => td_sigpend'[p] = {} /\ p_state'[p] = "normal"
    BY <1>2, <1>6 DEF IInv, LifeOK
  <2> QED  BY <1>2, <1>3, <1>4, <1>6, <2>1, <2>2, SoloLife DEF IInv
<1>8. GroupsOK' /\ WaitOK'
  <2>1. Left(p)' <=> Left(p)
    BY <1>1, <1>2, <1>5 DEF Left
  <2>2. \A c \in Procs : Calm(c)
    BY <1>1, <1>2, <1>5 DEF Calm, Procs
  <2>3. p_state' \in [Pids -> PState]
    BY <1>2 DEF IInv, TypeOK, PgrpTypeOK
  <2> QED  BY <1>2, <1>4, <2>1, <2>2, <2>3, SoloRest
<1>9. TypeOK'
  BY <1>2, <1>5, <1>6, <1>8 DEF IInv, TypeOK, GroupsOK, waitVars
<1> QED  BY <1>7, <1>8, <1>9 DEF IInv

\* The signals that a call makes pending.
LEMMA SigPutType ==
  ASSUME NEW pending \in SUBSET Pending, NEW sig
  PROVE  /\ SigPut(pending, sig) \in SUBSET Pending
         /\ "KILL" \in SigPut(pending, sig) => "KILL" \in pending \/ sig = "KILL"
         /\ sig = "CONT" => SigPut(pending, sig) \subseteq pending
BY DEF SigPut, Pending, StopSignals, sigprop_cont

LEMMA KillKeeps ==
  ASSUME IInv, NEW p \in Pids, NEW targets \in SUBSET Procs, NEW sig \in Kills,
         Kill(p, targets, sig)
  PROVE  IInv'
<1> DEFINE accepting == {q \in targets \ {InitPid} :
                           proc_is_alive(q) /\ ~ sig_ignore_ttystop(q, sig)}
           D == IF sigprop_cont(sig) THEN Stopped(accepting) ELSE {}
<1>1. /\ Syscall(p) /\ all_proc = 0
      /\ td_sigpend' = [q \in Pids |->
             IF q \in accepting THEN SigPut(td_sigpend[q], sig) ELSE td_sigpend[q]]
      /\ ContinueAndWake(D, {}, p, "user")
      /\ UNCHANGED <<treeVars, groupVars, chld_ignored, all_proc, waitVars>>
  BY DEF Kill
<1>2. pc[p] = "user" /\ ops' \in 0 .. MaxOps
  BY <1>1, NextCall DEF IInv
<1>3. p_state[p] = "normal"
  BY <1>2 DEF IInv, LifeOK, StatesAt
<1>4. D \in SUBSET Pids /\ (\A q \in D : p_state[q] = "stopped") /\ p \notin D
  BY <1>3 DEF Stopped, Procs
<1>5. sig = "KILL" => \A q \in accepting : p_state[q] = "stopped" => q \in D
  BY DEF sigprop_cont, Stopped
<1>6. accepting \in SUBSET Pids /\ InitPid \notin accepting
  BY DEF Procs
<1> HIDE DEF accepting, D
<1>7. {} \in SUBSET (0 .. PidMax) /\ "user" \in Pc
  BY DEF Pc
<1>8. Continued(D, {}, p, "user")
  BY <1>1, <1>4, <1>7, ContinueFacts DEF IInv
<1>9. /\ td_sigpend' \in [Pids -> SUBSET Pending]
      /\ \A q \in Pids : td_sigpend'[q] = IF q \in accepting THEN SigPut(td_sigpend[q], sig)
                                          ELSE td_sigpend[q]
  <2>1. \A q \in Pids : td_sigpend[q] \in SUBSET Pending /\ SigPut(td_sigpend[q], sig) \in SUBSET Pending
    BY SigPutType DEF IInv, TypeOK
  <2> QED  BY <1>1, <2>1
<1>10. LifeOK'
  <2>1. /\ p_state[p] \in StatesAt("user") /\ "user" \notin {"stop", "stopped"}
        /\ "user" \notin Holding
    BY <1>3 DEF StatesAt, Holding
  <2>2. all_proc' # p /\ \A q \in Pids : q # p => (all_proc' = q <=> all_proc = q)
    BY <1>1, <1>2 DEF IInv, LifeOK, Holding
  <2>3. ASSUME NEW q \in Pids, "KILL" \in td_sigpend'[q]
        PROVE  "KILL" \in td_sigpend[q] \/ p_state'[q] # "stopped"
    <3>1. CASE q \notin accepting
      BY <1>9, <2>3, <3>1
    <3>2. CASE q \in accepting /\ "KILL" \notin td_sigpend[q]
      <4>1. td_sigpend[q] \in SUBSET Pending
        BY DEF IInv, TypeOK
      <4>2. sig = "KILL"
        BY <1>9, <2>3, <3>2, <4>1, SigPutType
      <4>3. p_state'[q] = IF q \in D THEN "normal" ELSE p_state[q]
        BY <1>8 DEF Continued
      <4> QED  BY <1>5, <3>2, <4>2, <4>3
    <3> QED  BY <3>1, <3>2
  <2>4. td_sigpend'[InitPid] = {}
    <3>1. InitPid \in Pids
      BY PgrpAssumption DEF InitPid, Pids
    <3> QED  BY <1>6, <1>9, <3>1 DEF IInv, LifeOK
  <2> QED  BY <1>1, <1>4, <1>7, <2>1, <2>2, <2>3, <2>4, ContinueLife DEF IInv
<1>11. GroupsOK'
  <2>1. \A q \in Pids : /\ p_state'[q] = "none" <=> p_state[q] = "none"
                        /\ Left(q)' <=> Left(q)
    <3> SUFFICES ASSUME NEW q \in Pids
                 PROVE  /\ p_state'[q] = "none" <=> p_state[q] = "none"
                        /\ Left(q)' <=> Left(q)
      OBVIOUS
    <3>1. /\ p_state'[q] = IF q \in D THEN "normal" ELSE p_state[q]
          /\ pc'[q] = IF q = p THEN "user"
                      ELSE IF q \in D \ td_stopping THEN "check"
                      ELSE IF q \in Told(D, {}) /\ pc[q] = "asleep" THEN "woken"
                      ELSE pc[q]
      BY <1>8 DEF Continued
    <3>2. q \in D => pc[q] \in {"stop", "stopped"} /\ p_state[q] = "stopped"
      BY <1>4 DEF IInv, LifeOK, StatesAt
    <3> QED  BY <1>2, <1>3, <3>1, <3>2 DEF Left
  <2>2. p_state' \in [Pids -> PState]
    BY <1>8 DEF Continued
  <2> QED  BY <1>1, <2>1, <2>2, GroupsAside DEF IInv
<1>12. WaitOK'
  <2> SUFFICES ASSUME NEW q \in Pids PROVE Informed(q)'
    BY DEF WaitOK
  <2>1. CASE q = p
    <3>1. pc'[q] = "user"
      BY <1>8, <2>1 DEF Continued
    <3> QED  BY <3>1, Elsewhere
  <2>2. CASE q # p
    <3>1. Procs' = Procs
      <4>1. \A r \in Pids : p_state'[r] = IF r \in D THEN "normal" ELSE p_state[r]
        BY <1>8 DEF Continued
      <4> QED  BY <1>4, <4>1 DEF Procs
    <3>2. Children(q)' = Children(q)
      BY <1>1, <3>1 DEF Children, treeVars
    <3>3. "user" \notin {"zombie", "reap"}
      OBVIOUS
    <3> QED  BY <1>1, <1>4, <1>7, <2>2, <3>2, <3>3, ContinueWait DEF IInv
  <2> QED  BY <2>1, <2>2
<1>13. TypeOK'
  <2>1. /\ state_changed' \in SUBSET Pids /\ child_changed' \in SUBSET Pids
        /\ td_stopping' \in SUBSET Pids /\ pc' \in [Pids -> Pc]
    BY <1>4, <1>8 DEF Continued, IInv, TypeOK
  <2> QED  BY <1>1, <1>2, <1>9, <1>11, <2>1 DEF IInv, TypeOK, GroupsOK, waitVars
<1> QED  BY <1>10, <1>11, <1>12, <1>13 DEF IInv

-----------------------------------------------------------------------------
(* Exit, once all_proc_mtx is held. *)

LEMMA ExitNotifyKeeps ==
  ASSUME IInv, NEW p \in Pids, ExitNotify(p)
  PROVE  IInv'
<1>1. PICK to \in {"reap", "zombie"} :
        /\ ContinueAndWake({}, {p_parent[p]}, p, to)
        /\ pc[p] = "notify"
        /\ UNCHANGED <<treeVars, groupVars, sigVars, all_proc, waitVars, ops>>
  BY DEF ExitNotify, ToldOnExit
<1>2. p_state[p] = "dying" /\ all_proc = p /\ p # InitPid
  BY <1>1 DEF IInv, LifeOK, StatesAt, Holding
<1>3. p_parent[p] \in Pids
  BY <1>2 DEF IInv, GroupsOK, TreeOK, Procs
<1>4. /\ {} \in SUBSET Pids /\ {p_parent[p]} \in SUBSET (0 .. PidMax) /\ to \in Pc
      /\ \A q \in {} : p_state[q] = "stopped"
  BY <1>3 DEF Pc, Pids
<1>5. Continued({}, {p_parent[p]}, p, to)
  BY <1>1, <1>4, ContinueFacts DEF IInv
<1>6. Told({}, {p_parent[p]}) = {p_parent[p]}
  BY <1>3 DEF Told, Pids
<1>7. /\ p_state' \in [Pids -> PState] /\ pc' \in [Pids -> Pc]
      /\ state_changed' = state_changed
      /\ child_changed' = child_changed \cup {p_parent[p]}
      /\ td_stopping' = td_stopping
      /\ \A q \in Pids :
           /\ p_state'[q] = p_state[q]
           /\ pc'[q] = IF q = p THEN to
                       ELSE IF q = p_parent[p] /\ pc[q] = "asleep" THEN "woken"
                       ELSE pc[q]
  BY <1>5, <1>6 DEF Continued
<1>8. td_sigpend' = td_sigpend /\ chld_ignored' = chld_ignored
  BY <1>1 DEF sigVars
<1>9. LifeOK'
  <2>1. /\ p_state[p] \in StatesAt(to) /\ to \notin {"stop", "stopped"} /\ to \in Holding
        /\ all_proc' = p /\ p \notin {}
    BY <1>1, <1>2 DEF StatesAt, Holding
  <2>2. /\ \A q \in Pids : q # p => (all_proc' = q <=> all_proc = q)
        /\ \A q \in Pids : "KILL" \in td_sigpend'[q] =>
                             "KILL" \in td_sigpend[q] \/ p_state'[q] # "stopped"
        /\ td_sigpend'[InitPid] = {}
    BY <1>1, <1>8 DEF IInv, LifeOK
  <2> QED  BY <1>1, <1>4, <2>1, <2>2, ContinueLife DEF IInv
<1>10. GroupsOK'
  <2>1. \A q \in Pids : /\ p_state'[q] = "none" <=> p_state[q] = "none"
                        /\ Left(q)' <=> Left(q)
    BY <1>1, <1>7 DEF Left
  <2> QED  BY <1>1, <1>7, <2>1, GroupsAside DEF IInv
<1>11. WaitOK'
  <2> SUFFICES ASSUME NEW q \in Pids PROVE Informed(q)'
    BY DEF WaitOK
  <2>1. CASE q = p
    <3>1. pc'[q] \notin {"look", "unsleep", "asleep"}
      BY <1>7, <2>1
    <3> QED  BY <3>1, Elsewhere
  <2>2. CASE q # p
    <3>1. Procs' = Procs
      BY <1>7 DEF Procs
    <3>2. Children(q)' = Children(q)
      BY <1>1, <3>1 DEF Children, treeVars
    <3>3. p \in Children(q) => q \in Told({}, {p_parent[p]})
      BY <1>6 DEF Children
    <3> QED  BY <1>1, <1>4, <2>2, <3>2, <3>3, ContinueWait DEF IInv
  <2> QED  BY <2>1, <2>2
<1>12. TypeOK'
  <2>1. child_changed' \in SUBSET Pids
    BY <1>3, <1>7 DEF IInv, TypeOK
  <2> QED  BY <1>1, <1>7, <1>8, <1>10, <2>1 DEF IInv, TypeOK, GroupsOK, waitVars
<1> QED  BY <1>9, <1>10, <1>11, <1>12 DEF IInv

LEMMA ExitZombieKeeps ==
  ASSUME IInv, NEW p \in Pids, ExitZombie(p)
  PROVE  IInv'
<1>1. /\ pc[p] = "zombie" /\ p_state' = [p_state EXCEPT ![p] = "zombie"]
      /\ Goto(p, "none") /\ all_proc' = 0
      /\ UNCHANGED <<treeVars, groupVars, state_changed, child_changed, sigVars,
                     td_stopping, waitVars, ops>>
  BY DEF ExitZombie
<1>2. p_state[p] = "dying" /\ all_proc = p /\ p # InitPid /\ p \notin td_stopping
  BY <1>1 DEF IInv, LifeOK, StatesAt, Holding
<1>3. /\ p_state' \in [Pids -> PState] /\ p_state'[p] = "zombie"
      /\ \A q \in Pids : q # p => p_state'[q] = p_state[q]
  BY <1>1 DEF IInv, TypeOK, PgrpTypeOK, PState
<1>4. /\ pc' \in [Pids -> Pc] /\ pc'[p] = "none"
      /\ \A q \in Pids : q # p => pc'[q] = pc[q]
  BY <1>1 DEF Goto, IInv, TypeOK, Pc
<1>5. \A q \in Pids : (q # p => (all_proc' = q <=> all_proc = q)) /\ all_proc' # q
  BY <1>1, Unlocked DEF IInv, Holding
<1>6. td_sigpend' = td_sigpend /\ chld_ignored' = chld_ignored
  BY <1>1 DEF sigVars
<1>7. LifeOK'
  <2>1. p_state'[p] \in StatesAt("none") /\ "none" \in Pc /\ "none" \notin Holding
    BY <1>3 DEF StatesAt, Pc, Holding
  <2> QED  BY <1>1, <1>2, <1>3, <1>5, <1>6, <2>1, SoloLife DEF IInv
<1>8. GroupsOK'
  <2>1. \A q \in Pids : /\ p_state'[q] = "none" <=> p_state[q] = "none"
                        /\ Left(q)' <=> Left(q)
    BY <1>1, <1>2, <1>3, <1>4 DEF Left
  <2> QED  BY <1>1, <1>3, <2>1, GroupsAside DEF IInv
<1>9. WaitOK'
  <2> SUFFICES ASSUME NEW q \in Pids PROVE Informed(q)'
    BY DEF WaitOK
  <2>1. CASE q = p
    BY <1>4, <2>1, Elsewhere
  <2>2. CASE q # p
    <3>1. Children(q)' = Children(q)
      BY <1>1, <1>2, <1>3 DEF Children, Procs, treeVars
    <3>2. Informed(q)
      BY DEF IInv, WaitOK
    <3>3. ASSUME Silent(q)' PROVE \A c \in Children(q) : Calm(c)
      <4>1. Silent(q)
        BY <1>1, <1>4, <2>2, <3>3 DEF Silent
      <4>2. p \notin Children(q)
        BY <1>1, <3>2, <4>1 DEF Informed
      <4> QED  BY <1>1, <1>3, <1>4, <4>2 DEF Calm, Children, Procs
    <3>4. w_pid'[q] = w_pid[q] /\ w_options'[q] = w_options[q] /\ w_left'[q] = w_left[q]
      BY <1>1 DEF waitVars
    <3>5. pc'[q] = pc[q] /\ (q \in child_changed => q \in child_changed')
      BY <1>1, <1>4, <2>2
    <3> QED  BY <3>1, <3>2, <3>3, <3>4, <3>5, Undisturbed
  <2> QED  BY <2>1, <2>2
<1>10. TypeOK'
  <2>1. all_proc' \in 0 .. PidMax
    BY <1>1, PgrpAssumption
  <2> QED  BY <1>1, <1>4, <1>6, <1>8, <2>1 DEF IInv, TypeOK, GroupsOK, waitVars
<1> QED  BY <1>7, <1>8, <1>9, <1>10 DEF IInv

-----------------------------------------------------------------------------
(* Groups and sessions. *)

LEMMA GroupsFinite ==
  ASSUME NEW sess, NEW s
  PROVE  /\ IsFiniteSet(Groups(sess, s)) /\ Cardinality(Groups(sess, s)) \in Nat
         /\ Cardinality(Groups(sess, s)) = 0 <=> Groups(sess, s) = {}
<1>1. IsFiniteSet(Pids)
  BY FS_Interval, PgrpAssumption DEF Pids
<1>2. Groups(sess, s) \in SUBSET Pids
  BY DEF Groups
<1>3. IsFiniteSet(Groups(sess, s))
  BY <1>1, <1>2, FS_Subset
<1> QED  BY <1>3, FS_CardinalityType, FS_EmptySet

\* new is sess without the removed group, if any; count counts the groups of
\* sess.
Dropping(old, removed, sess, new, count) ==
  /\ old \in Pids /\ removed \in SUBSET {old}
  /\ \A g \in Pids : new[g] = IF g \in removed THEN 0 ELSE sess[g]
  /\ sess[old] = pg_session[old]
  /\ \A s \in Pids : count[s] = Cardinality(Groups(sess, s))

\* session_drop counts the sessions of what is left.
LEMMA DropCounts ==
  ASSUME NEW old, NEW removed, NEW sess, NEW new, NEW count,
         Dropping(old, removed, sess, new, count)
  PROVE  \A s \in Pids : SessionDropped(count, removed)[s] = Cardinality(Groups(new, s))
<1> SUFFICES ASSUME NEW s \in Pids
             PROVE  SessionDropped(count, removed)[s] = Cardinality(Groups(new, s))
  OBVIOUS
<1>1. SessionDropped(count, removed)[s]
        = count[s] - Cardinality({g \in removed : pg_session[g] = s})
  BY DEF SessionDropped
<1>2. IsFiniteSet(Groups(sess, s)) /\ Cardinality(Groups(sess, s)) \in Nat
  BY GroupsFinite
<1>3. /\ old \in Pids /\ removed \in SUBSET {old}
      /\ \A g \in Pids : new[g] = IF g \in removed THEN 0 ELSE sess[g]
      /\ sess[old] = pg_session[old]
      /\ count[s] = Cardinality(Groups(sess, s)) /\ count[s] \in Nat
  BY <1>2 DEF Dropping
<1>4. s # 0
  BY DEF Pids
<1>5. CASE removed = {old} /\ pg_session[old] = s
  <2>1. {g \in removed : pg_session[g] = s} = {old}
    BY <1>5
  <2>2. Cardinality({old}) = 1
    BY FS_Singleton
  <2>3. Groups(new, s) = Groups(sess, s) \ {old} /\ old \in Groups(sess, s)
    BY <1>4, <1>5, <1>3 DEF Groups
  <2>4. Cardinality(Groups(sess, s) \ {old}) = Cardinality(Groups(sess, s)) - 1
    BY <1>2, <2>3, FS_RemoveElement
  <2> QED  BY <1>1, <1>3, <2>1, <2>2, <2>3, <2>4
<1>6. CASE ~ (removed = {old} /\ pg_session[old] = s)
  <2>1. {g \in removed : pg_session[g] = s} = {}
    BY <1>6, <1>3
  <2>2. Cardinality({}) = 0
    BY FS_EmptySet
  <2>3. \A g \in Pids : new[g] = s <=> sess[g] = s
    BY <1>4, <1>6, <1>3
  <2>4. Groups(new, s) = Groups(sess, s)
    BY <2>3 DEF Groups
  <2> QED  BY <1>1, <1>3, <2>1, <2>2, <2>4
<1> QED  BY <1>5, <1>6

\* What holds when a process has left group old and before the group is removed
\* if nobody is left in it: sess, count and leader are the sessions so far.
Moving(old, removed, sess, count, leader) ==
  /\ old \in removed <=> \A p \in Procs' : p_pgrp'[p] # old
  /\ \A g \in Pids : sess[g] # 0 <=> g = old \/ \E p \in Procs' : p_pgrp'[p] = g
  /\ \A s \in Pids : count[s] = Cardinality(Groups(sess, s))
  /\ sess[0] = 0 /\ sess[old] = pg_session[old]
  /\ \A p \in Procs' : p_pgrp'[p] \in Pids
  /\ \A g \in Procs' : sess[g] # 0 => sess[p_pgrp'[g]] = sess[g]
  /\ \A s \in Procs' : Groups(sess, s) # {} => sess[p_pgrp'[s]] = s
  /\ \A p \in Procs' : sess[p_pgrp'[p]] = p =>
       p_pgrp'[p] = p /\ (p_state'[p] = "zombie" \/ pc'[p] \in {"notify", "zombie", "reap"}
                            \/ leader[p] = p)

LEMMA RemoveOK ==
  ASSUME NEW old \in Pids, NEW removed \in SUBSET {old},
         NEW sess \in [0 .. PidMax -> 0 .. PidMax], NEW count, NEW jobc \in [Pids -> Int],
         NEW leader \in [Pids -> 0 .. PidMax], NEW off \in SUBSET Pids,
         pgrp_remove(removed, count, jobc, sess, leader, off),
         Moving(old, removed, sess, count, leader)
  PROVE  /\ pg_session' \in [0 .. PidMax -> 0 .. PidMax] /\ pg_jobc' \in [Pids -> Int]
         /\ s_count' \in [Pids -> Nat] /\ s_leader' \in [Pids -> 0 .. PidMax]
         /\ miscounted' \in SUBSET Pids
         /\ pg_session'[0] = 0
         /\ GroupsLive' /\ SessionsCounted' /\ NamesOK' /\ LeadersOK'
<1>1. /\ s_count' = SessionDropped(count, removed)
      /\ pg_session' = [g \in 0 .. PidMax |-> IF g \in removed THEN 0 ELSE sess[g]]
      /\ pg_jobc' = [g \in Pids |-> IF g \in removed THEN 0 ELSE jobc[g]]
      /\ s_leader' = [s \in Pids |-> IF s_count'[s] = 0 THEN 0 ELSE leader[s]]
      /\ miscounted' = off \ removed
  BY DEF pgrp_remove
<1>2. 0 \in 0 .. PidMax /\ \A g \in Pids : g \in 0 .. PidMax /\ g # 0
  BY PgrpAssumption DEF Pids
<1>3. /\ pg_session' \in [0 .. PidMax -> 0 .. PidMax] /\ pg_jobc' \in [Pids -> Int]
      /\ s_leader' \in [Pids -> 0 .. PidMax] /\ miscounted' \in SUBSET Pids
  BY <1>1, <1>2
<1>4. \A g \in Pids : pg_session'[g] = IF g \in removed THEN 0 ELSE sess[g]
  BY <1>1, <1>2
<1>5. pg_session'[0] = 0
  BY <1>1, <1>2 DEF Moving
<1>6. \A s \in Pids : s_count'[s] = Cardinality(Groups(pg_session', s))
  <2>1. PICK new : new = pg_session'
    OBVIOUS
  <2>2. Dropping(old, removed, sess, new, count)
    BY <1>4, <2>1 DEF Dropping, Moving
  <2>3. \A s \in Pids : SessionDropped(count, removed)[s] = Cardinality(Groups(new, s))
    BY <2>2, DropCounts
  <2> QED  BY <1>1, <2>1, <2>3
<1>7. s_count' \in [Pids -> Nat]
  <2>1. \A s \in Pids : s_count'[s] \in Nat
    BY <1>6, GroupsFinite
  <2>2. s_count' = [s \in Pids |-> count[s] - Cardinality({g \in removed : pg_session[g] = s})]
    BY <1>1 DEF SessionDropped
  <2>3. s_count' = [s \in Pids |-> s_count'[s]]
    BY <2>2
  <2> QED  BY <2>1, <2>3
<1>8. SessionsCounted'
  BY <1>6 DEF SessionsCounted, Groups
<1>9. Procs' \subseteq Pids
  BY DEF Procs
<1>10. \A p \in Procs' : p_pgrp'[p] \in Pids /\ p_pgrp'[p] \notin removed
  BY DEF Moving
<1>11. GroupsLive'
  <2> SUFFICES ASSUME NEW g \in Pids
               PROVE  pg_session'[g] # 0 <=> \E p \in Procs' : p_pgrp'[p] = g
    BY DEF GroupsLive
  <2> QED  BY <1>4, <1>10 DEF Moving
<1>12. NamesOK'
  <2>1. ASSUME NEW g \in Procs', pg_session'[g] # 0
        PROVE  pg_session'[p_pgrp'[g]] = pg_session'[g]
    BY <1>4, <1>9, <1>10, <2>1 DEF Moving
  <2>2. ASSUME NEW s \in Procs', s_count'[s] # 0
        PROVE  pg_session'[p_pgrp'[s]] = s
    <3>1. s \in Pids
      BY <1>9
    <3>2. Groups(pg_session', s) # {}
      BY <1>6, <2>2, <3>1, FS_EmptySet
    <3>3. Groups(sess, s) # {}
      BY <1>2, <1>4, <3>1, <3>2 DEF Groups
    <3> QED  BY <1>4, <1>10, <3>3 DEF Moving
  <2> QED  BY <2>1, <2>2 DEF NamesOK
<1>13. LeadersOK'
  <2> SUFFICES ASSUME NEW p \in Procs', pg_session'[p_pgrp'[p]] = p
               PROVE  /\ p_pgrp'[p] = p
                      /\ p_state'[p] = "zombie" \/ pc'[p] \in {"notify", "zombie", "reap"}
                           \/ s_leader'[p] = p
    BY DEF LeadersOK, Left
  <2>1. p \in Pids /\ p_pgrp'[p] \in Pids
    BY <1>9, <1>10
  <2>2. sess[p_pgrp'[p]] = p
    BY <1>2, <1>4, <2>1
  <2>3. s_count'[p] # 0
    <3>1. p_pgrp'[p] \in Groups(pg_session', p)
      BY <2>1 DEF Groups
    <3> QED  BY <1>6, <2>1, <3>1, GroupsFinite
  <2>4. s_leader'[p] = leader[p]
    BY <1>1, <2>1, <2>3
  <2> QED  BY <2>2, <2>4 DEF Moving
<1> QED  BY <1>3, <1>5, <1>7, <1>8, <1>11, <1>12, <1>13

\* A process that has left for good leaves its group.
LEMMA LeaveGroup ==
  ASSUME GroupsOK, NEW c \in Procs \ {InitPid}, Left(c), pgrp_leave(c),
         p_state' = [p_state EXCEPT ![c] = "none"], p_parent' = [p_parent EXCEPT ![c] = 0],
         \A q \in Pids : q # c => (Left(q)' <=> Left(q))
  PROVE  GroupsOK'
<1>1. PICK old : old = p_pgrp[c]
  OBVIOUS
<1>2. c \in Pids /\ old \in Pids /\ old # 0 /\ InitPid \in Pids
  BY <1>1, PgrpAssumption DEF GroupsOK, Procs, Pids, InitPid
<1>3. PICK removed : removed = Removed(old, Members(old) \ {c})
  OBVIOUS
<1>4. /\ p_pgrp' = [p_pgrp EXCEPT ![c] = 0]
      /\ pgrp_remove(removed, s_count, pg_jobc, pg_session, s_leader, miscounted)
  BY <1>1, <1>3 DEF pgrp_leave
<1>5. /\ removed \in SUBSET {old}
      /\ old \in removed <=> Members(old) \ {c} = {}
  BY <1>3 DEF Removed
<1>6. /\ p_state \in [Pids -> PState] /\ p_parent \in [Pids -> 0 .. PidMax]
      /\ p_pgrp \in [0 .. PidMax -> 0 .. PidMax] /\ c \in 0 .. PidMax /\ 0 \in 0 .. PidMax
      /\ Pids \subseteq 0 .. PidMax
  <2>1. c \in 0 .. PidMax /\ 0 \in 0 .. PidMax /\ Pids \subseteq 0 .. PidMax
    BY <1>2, PgrpAssumption DEF Pids
  <2> QED  BY <2>1 DEF GroupsOK, PgrpTypeOK
<1>7. /\ \A q \in Pids : p_state'[q] = IF q = c THEN "none" ELSE p_state[q]
      /\ \A q \in Pids : p_parent'[q] = IF q = c THEN 0 ELSE p_parent[q]
      /\ \A q \in Pids : p_pgrp'[q] = IF q = c THEN 0 ELSE p_pgrp[q]
  BY <1>2, <1>4, <1>6
<1>8. Procs' = Procs \ {c} /\ Procs \subseteq Pids
  BY <1>7 DEF Procs
<1>9. Moving(old, removed, pg_session, s_count, s_leader)
  <2>1. old \in removed <=> \A p \in Procs' : p_pgrp'[p] # old
    BY <1>5, <1>7, <1>8 DEF Members
  <2>2. \A g \in Pids : pg_session[g] # 0 <=> g = old \/ \E p \in Procs' : p_pgrp'[p] = g
    <3>1. \A g \in Pids : (\E p \in Procs : p_pgrp[p] = g)
                            <=> g = old \/ \E p \in Procs' : p_pgrp'[p] = g
      BY <1>1, <1>7, <1>8
    <3> QED  BY <3>1 DEF GroupsOK, GroupsLive
  <2>3. \A s \in Pids : s_count[s] = Cardinality(Groups(pg_session, s))
    BY DEF GroupsOK, SessionsCounted
  <2>4. pg_session[0] = 0
    BY DEF GroupsOK
  <2>5. \A p \in Procs' : p_pgrp'[p] \in Pids
    BY <1>7, <1>8 DEF GroupsOK
  <2>6. \A g \in Procs' : pg_session[g] # 0 => pg_session[p_pgrp'[g]] = pg_session[g]
    BY <1>7, <1>8 DEF GroupsOK, NamesOK
  <2>7. ASSUME NEW s \in Procs', Groups(pg_session, s) # {}
        PROVE  pg_session[p_pgrp'[s]] = s
    <3>1. s \in Pids /\ s \in Procs /\ s # c
      BY <1>8
    <3>2. s_count[s] # 0
      BY <2>3, <2>7, <3>1, GroupsFinite
    <3> QED  BY <1>7, <3>1, <3>2 DEF GroupsOK, NamesOK
  <2>8. ASSUME NEW p \in Procs', pg_session[p_pgrp'[p]] = p
        PROVE  p_pgrp'[p] = p /\ (p_state'[p] = "zombie"
                 \/ pc'[p] \in {"notify", "zombie", "reap"} \/ s_leader[p] = p)
    <3>1. p \in Pids /\ p \in Procs /\ p # c /\ p_pgrp'[p] = p_pgrp[p]
      BY <1>7, <1>8
    <3>2. p_pgrp[p] = p /\ (Left(p) \/ s_leader[p] = p)
      BY <2>8, <3>1 DEF GroupsOK, LeadersOK
    <3>3. Left(p) => Left(p)'
      BY <3>1
    <3> QED  BY <3>1, <3>2, <3>3 DEF Left
  <2> QED  BY <2>1, <2>2, <2>3, <2>4, <2>5, <2>6, <2>7, <2>8 DEF Moving
<1>10. /\ pg_session \in [0 .. PidMax -> 0 .. PidMax] /\ pg_jobc \in [Pids -> Int]
       /\ s_leader \in [Pids -> 0 .. PidMax] /\ miscounted \in SUBSET Pids
  BY DEF GroupsOK, PgrpTypeOK
<1>11. /\ pg_session' \in [0 .. PidMax -> 0 .. PidMax] /\ pg_jobc' \in [Pids -> Int]
       /\ s_count' \in [Pids -> Nat] /\ s_leader' \in [Pids -> 0 .. PidMax]
       /\ miscounted' \in SUBSET Pids
       /\ pg_session'[0] = 0
       /\ GroupsLive' /\ SessionsCounted' /\ NamesOK' /\ LeadersOK'
  BY <1>2, <1>4, <1>5, <1>9, <1>10, RemoveOK
<1>12. PgrpTypeOK'
  <2>1. p_state' \in [Pids -> PState] /\ p_parent' \in [Pids -> 0 .. PidMax]
    BY <1>6 DEF PState
  <2>2. p_pgrp' \in [0 .. PidMax -> 0 .. PidMax]
    BY <1>4, <1>6
  <2> QED  BY <1>11, <2>1, <2>2 DEF PgrpTypeOK
<1>13. TreeOK'
  <2>1. p_parent'[InitPid] = 0
    BY <1>2, <1>7 DEF GroupsOK, TreeOK
  <2>2. ASSUME NEW p \in Procs' \ {InitPid}
        PROVE  p_parent'[p] \in Procs' /\ ~ Left(p_parent[p])'
    <3>1. PICK q \in Procs : q = p_parent[p] /\ ~ Left(q)
      BY <1>8 DEF GroupsOK, TreeOK
    <3>2. q # c /\ q \in Pids /\ p_parent'[p] = q
      BY <1>7, <1>8, <3>1
    <3>3. ~ Left(q)'
      BY <3>1, <3>2
    <3> QED  BY <1>8, <3>1, <3>2, <3>3 DEF Left
  <2> QED  BY <2>1, <2>2 DEF TreeOK
<1>14. \A p \in Procs' : p_pgrp'[p] \in Pids
  BY <1>7, <1>8 DEF GroupsOK
<1> QED  BY <1>11, <1>12, <1>13, <1>14 DEF GroupsOK

LEMMA WaitReapKeeps ==
  ASSUME IInv, NEW p \in Pids, NEW c \in Pids, WaitReap(p, c)
  PROVE  IInv'
<1>1. /\ pc[p] = "look" /\ c \in w_left[p] /\ p_state[c] = "zombie" /\ pgrp_leave(c)
      /\ p_state' = [p_state EXCEPT ![c] = "none"]
      /\ p_parent' = [p_parent EXCEPT ![c] = 0]
      /\ state_changed' = state_changed \ {c}
      /\ td_sigpend' = [td_sigpend EXCEPT ![c] = {}]
      /\ chld_ignored' = chld_ignored \ {c}
      /\ child_changed' = child_changed \ {c}
      /\ pc' = [pc EXCEPT ![p] = "user", ![c] = "none"]
      /\ all_proc' = 0
      /\ w_pid' = [w_pid EXCEPT ![p] = -1]
      /\ w_options' = [w_options EXCEPT ![p] = {}]
      /\ w_left' = [w_left EXCEPT ![p] = {}]
      /\ UNCHANGED <<td_stopping, ops>>
  BY DEF WaitReap, Forget
<1>2. p # c /\ c # InitPid /\ pc[c] = "none" /\ p_state[p] = "normal"
      /\ p \notin td_stopping /\ c \notin td_stopping
  BY <1>1 DEF IInv, LifeOK, StatesAt
<1>3. c \in Children(p) /\ c \in Procs /\ p_parent[c] = p
  BY <1>1 DEF IInv, WaitOK, Informed, Children
<1>4. /\ pc' \in [Pids -> Pc]
      /\ \A q \in Pids : pc'[q] = IF q = p THEN "user" ELSE IF q = c THEN "none" ELSE pc[q]
  BY <1>1, <1>2 DEF IInv, TypeOK, Pc
<1>5. \A q \in Pids : p_state'[q] = IF q = c THEN "none" ELSE p_state[q]
  BY <1>1 DEF IInv, TypeOK, PgrpTypeOK
<1>6. \A q \in Pids : (q # p => (all_proc' = q <=> all_proc = q)) /\ all_proc' # q
  BY <1>1, Unlocked DEF IInv, Holding
<1>7. /\ td_sigpend' \in [Pids -> SUBSET Pending]
      /\ \A q \in Pids : td_sigpend'[q] = IF q = c THEN {} ELSE td_sigpend[q]
  BY <1>1 DEF IInv, TypeOK
<1>8. LifeOK'
  <2>1. ASSUME NEW q \in Pids
        PROVE  /\ p_state'[q] \in StatesAt(pc'[q])
               /\ q \in td_stopping' <=> pc'[q] = "stop" /\ p_state'[q] = "stopped"
               /\ pc'[q] \in Holding <=> all_proc' = q
               /\ "KILL" \in td_sigpend'[q] => p_state'[q] # "stopped"
    <3>1. /\ p_state[q] \in StatesAt(pc[q])
          /\ q \in td_stopping <=> pc[q] = "stop" /\ p_state[q] = "stopped"
          /\ pc[q] \in Holding <=> all_proc = q
          /\ "KILL" \in td_sigpend[q] => p_state[q] # "stopped"
      BY DEF IInv, LifeOK
    <3>2. CASE q = p
      BY <1>1, <1>2, <1>4, <1>5, <1>6, <3>2 DEF StatesAt, Holding
    <3>3. CASE q = c
      BY <1>1, <1>2, <1>4, <1>5, <1>6, <1>7, <3>3 DEF StatesAt, Holding
    <3>4. CASE q # p /\ q # c
      BY <1>1, <1>4, <1>5, <1>6, <1>7, <3>1, <3>4
    <3> QED  BY <3>2, <3>3, <3>4
  <2>2. InitPid \in Pids
    BY PgrpAssumption DEF InitPid, Pids
  <2>3. td_sigpend'[InitPid] = {} /\ p_state'[InitPid] = "normal"
    BY <1>2, <1>5, <1>7, <2>2 DEF IInv, LifeOK
  <2> QED  BY <2>1, <2>3 DEF LifeOK
<1>9. GroupsOK'
  <2>1. \A q \in Pids : q # c => (Left(q)' <=> Left(q))
    BY <1>1, <1>4, <1>5 DEF Left
  <2>2. Left(c)
    BY <1>1 DEF Left
  <2> QED  BY <1>1, <1>2, <1>3, <2>1, <2>2, LeaveGroup DEF IInv
<1>10. /\ w_pid' \in [Pids -> -PidMax .. PidMax]
       /\ \A q \in Pids : q # p => w_pid'[q] = w_pid[q]
  <2>1. -1 \in -PidMax .. PidMax
    BY PgrpAssumption
  <2> QED  BY <1>1, <2>1 DEF IInv, TypeOK
<1>11. /\ w_options' \in [Pids -> SUBSET Options] /\ w_left' \in [Pids -> SUBSET Pids]
       /\ \A q \in Pids : q # p => w_options'[q] = w_options[q] /\ w_left'[q] = w_left[q]
  BY <1>1 DEF IInv, TypeOK
<1>12. WaitOK'
  <2> SUFFICES ASSUME NEW q \in Pids PROVE Informed(q)'
    BY DEF WaitOK
  <2>1. CASE q = p \/ q = c
    <3>1. pc'[q] \notin {"look", "unsleep", "asleep"}
      BY <1>4, <2>1
    <3> QED  BY <3>1, Elsewhere
  <2>2. CASE q # p /\ q # c
    <3>1. \A r \in Pids : p_parent'[r] = IF r = c THEN 0 ELSE p_parent[r]
      BY <1>1 DEF IInv, TypeOK, PgrpTypeOK
    <3>2. Children(q)' = Children(q)
      <4>1. q # 0
        BY DEF Pids
      <4> QED  BY <1>3, <1>5, <2>2, <3>1, <4>1 DEF Children, Procs
    <3>3. \A d \in Children(q) : Calm(d)
      <4>1. ASSUME NEW d \in Children(q) PROVE d \in Pids /\ d # c
        BY <1>3, <2>2 DEF Children, Procs
      <4> QED  BY <1>1, <1>4, <1>5, <4>1 DEF Calm
    <3>4. pc'[q] = pc[q] /\ (q \in child_changed => q \in child_changed') /\ Informed(q)
      BY <1>1, <1>4, <2>2 DEF IInv, WaitOK
    <3> QED  BY <1>10, <1>11, <2>2, <3>2, <3>3, <3>4, Undisturbed
  <2> QED  BY <2>1, <2>2
<1>13. TypeOK'
  <2>1. all_proc' \in 0 .. PidMax /\ state_changed' \in SUBSET Pids
        /\ child_changed' \in SUBSET Pids /\ chld_ignored' \in SUBSET Pids
    BY <1>1, PgrpAssumption DEF IInv, TypeOK
  <2> QED  BY <1>1, <1>4, <1>7, <1>9, <1>10, <1>11, <2>1 DEF IInv, TypeOK, GroupsOK
<1> QED  BY <1>8, <1>9, <1>12, <1>13 DEF IInv

LEMMA ExitReapKeeps ==
  ASSUME IInv, NEW p \in Pids, ExitReap(p)
  PROVE  IInv'
<1>1. /\ pc[p] = "reap" /\ pgrp_leave(p)
      /\ p_state' = [p_state EXCEPT ![p] = "none"]
      /\ p_parent' = [p_parent EXCEPT ![p] = 0]
      /\ state_changed' = state_changed \ {p}
      /\ td_sigpend' = [td_sigpend EXCEPT ![p] = {}]
      /\ chld_ignored' = chld_ignored \ {p}
      /\ child_changed' = child_changed \ {p}
      /\ Goto(p, "none") /\ all_proc' = 0
      /\ UNCHANGED <<td_stopping, waitVars, ops>>
  BY DEF ExitReap, Forget
<1>2. p_state[p] = "dying" /\ p # InitPid /\ p \notin td_stopping
  BY <1>1 DEF IInv, LifeOK, StatesAt
<1>3. /\ pc' \in [Pids -> Pc]
      /\ \A q \in Pids : pc'[q] = IF q = p THEN "none" ELSE pc[q]
  BY <1>1 DEF Goto, IInv, TypeOK, Pc
<1>4. \A q \in Pids : p_state'[q] = IF q = p THEN "none" ELSE p_state[q]
  BY <1>1 DEF IInv, TypeOK, PgrpTypeOK
<1>5. \A q \in Pids : (q # p => (all_proc' = q <=> all_proc = q)) /\ all_proc' # q
  BY <1>1, Unlocked DEF IInv, Holding
<1>6. /\ td_sigpend' \in [Pids -> SUBSET Pending] /\ td_sigpend'[p] = {}
      /\ \A q \in Pids : q # p => td_sigpend'[q] = td_sigpend[q]
  BY <1>1 DEF IInv, TypeOK
<1>7. LifeOK'
  <2>1. p_state'[p] \in StatesAt("none") /\ "none" \in Pc /\ "none" \notin Holding
    BY <1>4 DEF StatesAt, Pc, Holding
  <2> QED  BY <1>1, <1>2, <1>4, <1>5, <1>6, <2>1, SoloLife DEF IInv
<1>8. GroupsOK'
  <2>1. \A q \in Pids : q # p => (Left(q)' <=> Left(q))
    BY <1>3, <1>4 DEF Left
  <2>2. Left(p) /\ p \in Procs \ {InitPid}
    BY <1>1, <1>2 DEF Left, Procs
  <2> QED  BY <1>1, <2>1, <2>2, LeaveGroup DEF IInv
<1>9. WaitOK'
  <2> SUFFICES ASSUME NEW q \in Pids PROVE Informed(q)'
    BY DEF WaitOK
  <2>1. CASE q = p
    <3>1. pc'[q] \notin {"look", "unsleep", "asleep"}
      BY <1>3, <2>1
    <3> QED  BY <3>1, Elsewhere
  <2>2. CASE q # p
    <3>1. \A r \in Pids : p_parent'[r] = IF r = p THEN 0 ELSE p_parent[r]
      BY <1>1 DEF IInv, TypeOK, PgrpTypeOK
    <3>2. Informed(q) /\ pc'[q] = pc[q] /\ (q \in child_changed => q \in child_changed')
      BY <1>1, <1>3, <2>2 DEF IInv, WaitOK
    <3>3. pc[q] # "look"
      BY <1>1, <2>2 DEF IInv, LifeOK, Holding
    <3>4. ASSUME Silent(q)'
          PROVE  Children(q)' = Children(q) /\ \A d \in Children(q) : Calm(d)
      <4>1. Silent(q)
        BY <1>1, <2>2, <3>2, <3>4 DEF Silent
      <4>2. p \notin Children(q)
        BY <1>1, <3>2, <4>1 DEF Informed
      <4>3. p_parent[p] # q
        BY <1>2, <4>2 DEF Children, Procs
      <4>4. q # 0
        BY DEF Pids
      <4>5. Children(q)' = Children(q)
        BY <1>4, <3>1, <4>3, <4>4 DEF Children, Procs
      <4>6. ASSUME NEW d \in Children(q) PROVE d \in Pids /\ d # p
        BY <4>2, <4>6 DEF Children, Procs
      <4> QED  BY <1>1, <1>3, <1>4, <4>5, <4>6 DEF Calm
    <3>5. w_pid'[q] = w_pid[q] /\ w_options'[q] = w_options[q] /\ w_left'[q] = w_left[q]
      BY <1>1 DEF waitVars
    <3> QED  BY <3>2, <3>3, <3>4, <3>5, Undisturbed
  <2> QED  BY <2>1, <2>2
<1>10. TypeOK'
  <2>1. all_proc' \in 0 .. PidMax /\ state_changed' \in SUBSET Pids
        /\ child_changed' \in SUBSET Pids /\ chld_ignored' \in SUBSET Pids
    BY <1>1, PgrpAssumption DEF IInv, TypeOK
  <2> QED  BY <1>1, <1>3, <1>6, <1>8, <2>1 DEF IInv, TypeOK, GroupsOK, waitVars
<1> QED  BY <1>7, <1>8, <1>9, <1>10 DEF IInv

LEMMA AffectedFinite ==
  ASSUME GroupsOK, NEW m \in Pids, NEW pg, NEW sess, NEW g
  PROVE  Cardinality(Affected(m, pg, sess, g)) \in Nat
<1>1. IsFiniteSet(Pids)
  BY FS_Interval, PgrpAssumption DEF Pids
<1>2. Affected(m, pg, sess, g) \in SUBSET Pids
  BY DEF Affected, Children, Procs
<1>3. IsFiniteSet(Affected(m, pg, sess, g))
  BY <1>1, <1>2, FS_Subset
<1> QED  BY <1>3, FS_CardinalityType

LEMMA JobcType ==
  ASSUME GroupsOK, NEW m \in Pids, NEW pg, NEW sess, NEW jobc \in [Pids -> Int]
  PROVE  /\ pgrp_jobc_enter(m, pg, sess, jobc) \in [Pids -> Int]
         /\ pgrp_jobc_leave(m, pg, sess, jobc) \in [Pids -> Int]
<1>1. \A g \in Pids : Cardinality(Affected(m, pg, sess, g)) \in Nat
  BY AffectedFinite
<1>2. \A g \in Pids : jobc[g] + Cardinality(Affected(m, pg, sess, g)) \in Int
  BY <1>1
<1>3. \A g \in Pids : jobc[g] - Cardinality(Affected(m, pg, sess, g)) \in Int
  BY <1>1
<1> QED  BY <1>2, <1>3 DEF pgrp_jobc_enter, pgrp_jobc_leave

\* Process m moves to group target of session S, which is the session of m or
\* a new one of which m is the leader; sess, count and leader have target in
\* them.
Entering(m, target, S, sess, count, leader) ==
  /\ p_pgrp[m] # target
  /\ (pg_session[target] = 0 /\ target = m) \/ pg_session[target] = S
  /\ sess = [pg_session EXCEPT ![target] = S]
  /\ \A s \in Pids : count[s] = Cardinality(Groups(sess, s))
  /\ \/ S = pg_session[p_pgrp[m]] /\ S # m /\ leader = s_leader
     \/ S = m /\ target = m /\ pg_session[m] = 0 /\ leader = [s_leader EXCEPT ![m] = m]

LEMMA EnterGroup ==
  ASSUME GroupsOK, NEW m \in Procs, NEW target \in Pids, NEW S \in Pids, NEW sess,
         NEW count, NEW leader, Entering(m, target, S, sess, count, leader),
         _pgrp_enter(m, target, sess, count, leader),
         Procs' = Procs, UNCHANGED p_parent, p_state' \in [Pids -> PState],
         \A q \in Pids : Left(q)' <=> Left(q)
  PROVE  GroupsOK'
<1>1. PICK old : old = p_pgrp[m]
  OBVIOUS
<1>2. m \in Pids /\ old \in Pids /\ Procs \subseteq Pids
  BY <1>1 DEF GroupsOK, Procs
<1>3. PICK removed : removed = Removed(old, Members(old) \ {m})
  OBVIOUS
<1>4. /\ removed \in SUBSET {old}
      /\ old \in removed <=> Members(old) \ {m} = {}
  BY <1>3 DEF Removed
<1>5. PICK jobc \in [Pids -> Int], off \in SUBSET Pids :
        /\ p_pgrp' = [p_pgrp EXCEPT ![m] = target]
        /\ pgrp_remove(removed, count, jobc, sess, leader, off)
  <2>1. pg_jobc \in [Pids -> Int] /\ miscounted \in SUBSET Pids
    BY DEF GroupsOK, PgrpTypeOK
  <2>2. PICK jobc : jobc = pgrp_jobc_leave(m, old, sess,
                             pgrp_jobc_enter(m, target, sess, pg_jobc))
    OBVIOUS
  <2>3. PICK off : off = {g \in Pids : Cardinality(ZombiesCounted(m, target, sess, g))
                             # Cardinality(ZombiesCounted(m, old, sess, g))}
    OBVIOUS
  <2>4. jobc \in [Pids -> Int]
    BY <1>2, <2>1, <2>2, JobcType
  <2>5. miscounted \cup off \in SUBSET Pids
    BY <2>1, <2>3
  <2>6. /\ p_pgrp' = [p_pgrp EXCEPT ![m] = target]
        /\ pgrp_remove(removed, count, jobc, sess, leader, miscounted \cup off)
    BY <1>1, <1>3, <2>2, <2>3 DEF _pgrp_enter
  <2> QED  BY <2>4, <2>5, <2>6
<1>6. /\ Pids \subseteq 0 .. PidMax /\ 0 \notin Pids /\ 0 \in 0 .. PidMax
      /\ p_pgrp \in [0 .. PidMax -> 0 .. PidMax] /\ pg_session \in [0 .. PidMax -> 0 .. PidMax]
      /\ s_leader \in [Pids -> 0 .. PidMax]
  <2>1. Pids \subseteq 0 .. PidMax /\ 0 \notin Pids /\ 0 \in 0 .. PidMax
    BY PgrpAssumption DEF Pids
  <2> QED  BY <2>1 DEF GroupsOK, PgrpTypeOK
<1>7. /\ old # target
      /\ (pg_session[target] = 0 /\ target = m) \/ pg_session[target] = S
      /\ \A s \in Pids : count[s] = Cardinality(Groups(sess, s))
      /\ \/ S = pg_session[old] /\ S # m /\ \A p \in Pids : leader[p] = s_leader[p]
         \/ /\ S = m /\ target = m /\ pg_session[m] = 0 /\ leader[m] = m
            /\ \A p \in Pids : p # m => leader[p] = s_leader[p]
  BY <1>1, <1>2, <1>6 DEF Entering
<1>8. sess \in [0 .. PidMax -> 0 .. PidMax] /\ leader \in [Pids -> 0 .. PidMax]
  <2>1. sess = [pg_session EXCEPT ![target] = S]
    BY DEF Entering
  <2>2. leader = s_leader \/ leader = [s_leader EXCEPT ![m] = m]
    BY DEF Entering
  <2>3. S \in 0 .. PidMax /\ m \in 0 .. PidMax
    BY <1>2, <1>6
  <2>4. sess \in [0 .. PidMax -> 0 .. PidMax]
    BY <1>6, <2>1, <2>3
  <2>5. leader \in [Pids -> 0 .. PidMax]
    BY <1>6, <2>2, <2>3
  <2> QED  BY <2>4, <2>5
<1>9. /\ sess[target] = S /\ sess[0] = pg_session[0] /\ S # 0
      /\ \A g \in Pids : g # target => sess[g] = pg_session[g]
  BY <1>6 DEF Entering
<1>10. \A q \in Pids : p_pgrp'[q] = IF q = m THEN target ELSE p_pgrp[q]
  BY <1>2, <1>5, <1>6
<1>11. \A p \in Procs : p_pgrp[p] \in Pids /\ pg_session[p_pgrp[p]] # 0
  BY DEF GroupsOK, GroupsLive
<1>12. \A g \in Pids : pg_session[g] # 0 => sess[g] = pg_session[g]
  BY <1>7, <1>9
<1>13. \A s \in Procs : Groups(pg_session, s) # {} => pg_session[p_pgrp[s]] = s
  <2> SUFFICES ASSUME NEW s \in Procs, Groups(pg_session, s) # {}
               PROVE  pg_session[p_pgrp[s]] = s
    OBVIOUS
  <2>1. s_count[s] = Cardinality(Groups(pg_session, s))
    BY <1>2 DEF GroupsOK, SessionsCounted
  <2>2. s_count[s] # 0
    BY <2>1, GroupsFinite
  <2> QED  BY <2>2 DEF GroupsOK, NamesOK
<1>14. Moving(old, removed, sess, count, leader)
  <2>1. old \in removed <=> \A p \in Procs' : p_pgrp'[p] # old
    BY <1>2, <1>4, <1>7, <1>10 DEF Members
  <2>2. ASSUME NEW g \in Pids
        PROVE  sess[g] # 0 <=> g = old \/ \E p \in Procs' : p_pgrp'[p] = g
    <3>1. CASE g = target
      BY <1>2, <1>9, <1>10, <3>1
    <3>2. CASE g # target
      <4>1. pg_session[g] # 0 <=> \E p \in Procs : p_pgrp[p] = g
        BY DEF GroupsOK, GroupsLive
      <4>2. (\E p \in Procs : p_pgrp[p] = g) <=> g = old \/ \E p \in Procs' : p_pgrp'[p] = g
        BY <1>1, <1>2, <1>10, <3>2
      <4> QED  BY <1>9, <3>2, <4>1, <4>2
    <3> QED  BY <3>1, <3>2
  <2>3. sess[0] = 0 /\ sess[old] = pg_session[old]
    BY <1>2, <1>7, <1>9 DEF GroupsOK
  <2>4. \A p \in Procs' : p_pgrp'[p] \in Pids
    BY <1>2, <1>10, <1>11
  <2>5. ASSUME NEW g \in Procs', sess[g] # 0
        PROVE  sess[p_pgrp'[g]] = sess[g]
    <3>1. g \in Pids /\ g \in Procs
      BY <1>2
    <3>2. CASE g = m
      <4>1. CASE target = m
        BY <1>9, <1>10, <3>1, <3>2, <4>1
      <4>2. CASE target # m
        <5>1. sess[m] = pg_session[m] /\ S = pg_session[old]
          BY <1>2, <1>7, <1>9, <4>2
        <5>2. pg_session[old] = pg_session[m]
          BY <1>1, <2>5, <3>2, <5>1 DEF GroupsOK, NamesOK
        <5> QED  BY <1>9, <1>10, <3>1, <3>2, <5>1, <5>2
      <4> QED  BY <4>1, <4>2
    <3>3. CASE g # m
      <4>1. sess[g] = pg_session[g]
        BY <1>7, <1>9, <3>1, <3>3
      <4>2. pg_session[p_pgrp[g]] = pg_session[g]
        BY <2>5, <3>1, <4>1 DEF GroupsOK, NamesOK
      <4>3. sess[p_pgrp[g]] = pg_session[p_pgrp[g]]
        BY <1>11, <1>12, <3>1
      <4> QED  BY <1>10, <3>1, <3>3, <4>1, <4>2, <4>3
    <3> QED  BY <3>2, <3>3
  <2>6. ASSUME NEW s \in Procs', Groups(sess, s) # {}
        PROVE  sess[p_pgrp'[s]] = s
    <3>1. s \in Pids /\ s \in Procs
      BY <1>2
    <3>2. PICK g \in Pids : sess[g] = s
      BY <2>6 DEF Groups
    <3>3. CASE S = m
      <4>1. CASE s = m
        BY <1>9, <1>10, <3>1, <3>3, <4>1
      <4>2. CASE s # m
        <5>1. pg_session[g] = s
          BY <1>9, <3>2, <3>3, <4>2
        <5>2. pg_session[p_pgrp[s]] = s
          BY <1>13, <3>1, <5>1 DEF Groups
        <5>3. sess[p_pgrp[s]] = pg_session[p_pgrp[s]]
          BY <1>11, <1>12, <3>1
        <5> QED  BY <1>10, <3>1, <4>2, <5>2, <5>3
      <4> QED  BY <4>1, <4>2
    <3>4. CASE S # m
      <4>1. S = pg_session[old]
        BY <1>7, <3>4
      <4>2. Groups(pg_session, s) # {}
        <5>1. CASE g = target
          BY <1>2, <1>9, <3>2, <4>1, <5>1 DEF Groups
        <5>2. CASE g # target
          BY <1>9, <3>2, <5>2 DEF Groups
        <5> QED  BY <5>1, <5>2
      <4>3. pg_session[p_pgrp[s]] = s
        BY <1>13, <3>1, <4>2
      <4>4. s # m
        BY <1>1, <3>4, <4>1, <4>3
      <4>5. sess[p_pgrp[s]] = pg_session[p_pgrp[s]]
        BY <1>11, <1>12, <3>1
      <4> QED  BY <1>10, <3>1, <4>3, <4>4, <4>5
    <3> QED  BY <3>3, <3>4
  <2>7. ASSUME NEW p \in Procs', sess[p_pgrp'[p]] = p
        PROVE  p_pgrp'[p] = p /\ (p_state'[p] = "zombie"
                 \/ pc'[p] \in {"notify", "zombie", "reap"} \/ leader[p] = p)
    <3>1. p \in Pids /\ p \in Procs
      BY <1>2
    <3>2. CASE p = m
      BY <1>7, <1>9, <1>10, <2>7, <3>1, <3>2
    <3>3. CASE p # m
      <4>1. p_pgrp'[p] = p_pgrp[p] /\ sess[p_pgrp[p]] = pg_session[p_pgrp[p]]
        BY <1>10, <1>11, <1>12, <3>1, <3>3
      <4>2. p_pgrp[p] = p /\ (Left(p) \/ s_leader[p] = p)
        BY <2>7, <3>1, <4>1 DEF GroupsOK, LeadersOK
      <4>3. (Left(p) => Left(p)') /\ leader[p] = s_leader[p]
        BY <1>7, <3>1, <3>3
      <4> QED  BY <4>1, <4>2, <4>3 DEF Left
    <3> QED  BY <3>2, <3>3
  <2> QED  BY <1>7, <2>1, <2>2, <2>3, <2>4, <2>5, <2>6, <2>7 DEF Moving
<1>15. /\ pg_session' \in [0 .. PidMax -> 0 .. PidMax] /\ pg_jobc' \in [Pids -> Int]
       /\ s_count' \in [Pids -> Nat] /\ s_leader' \in [Pids -> 0 .. PidMax]
       /\ miscounted' \in SUBSET Pids
       /\ pg_session'[0] = 0
       /\ GroupsLive' /\ SessionsCounted' /\ NamesOK' /\ LeadersOK'
  BY <1>2, <1>4, <1>5, <1>8, <1>14, RemoveOK
<1>16. PgrpTypeOK'
  <2>1. p_parent' \in [Pids -> 0 .. PidMax]
    BY DEF GroupsOK, PgrpTypeOK
  <2>2. p_pgrp' \in [0 .. PidMax -> 0 .. PidMax]
    BY <1>5, <1>6
  <2> QED  BY <1>15, <2>1, <2>2 DEF PgrpTypeOK
<1>17. TreeOK'
  <2>1. p_parent'[InitPid] = 0
    BY DEF GroupsOK, TreeOK
  <2>2. ASSUME NEW p \in Procs' \ {InitPid}
        PROVE  p_parent'[p] \in Procs' /\ ~ Left(p_parent[p])'
    <3>1. PICK q \in Procs : q = p_parent[p] /\ ~ Left(q)
      BY DEF GroupsOK, TreeOK
    <3>2. ~ Left(q)' /\ p_parent'[p] = q
      BY <1>2, <3>1
    <3> QED  BY <3>1, <3>2 DEF Left
  <2> QED  BY <2>1, <2>2 DEF TreeOK
<1>18. \A p \in Procs' : p_pgrp'[p] \in Pids
  BY <1>2, <1>10, <1>11
<1> QED  BY <1>15, <1>16, <1>17, <1>18 DEF GroupsOK

-----------------------------------------------------------------------------
(* setpgid and setsid. *)

LEMMA HangupFacts ==
  ASSUME TypeOK, LifeOK, NEW groups, Hangup(groups)
  PROVE  /\ td_sigpend' \in [Pids -> SUBSET Pending]
         /\ \A q \in Pids : "KILL" \in td_sigpend'[q] => "KILL" \in td_sigpend[q]
         /\ td_sigpend'[InitPid] = {}
<1>1. PICK targets :
        td_sigpend' = [q \in Pids |->
          IF q \notin targets THEN td_sigpend[q]
          ELSE SigPut(IF q = InitPid THEN td_sigpend[q] ELSE SigPut(td_sigpend[q], "HUP"),
                      "CONT")]
  BY DEF Hangup
<1>2. ASSUME NEW q \in Pids
      PROVE  /\ td_sigpend'[q] \in SUBSET Pending
             /\ "KILL" \in td_sigpend'[q] => "KILL" \in td_sigpend[q]
             /\ q = InitPid => td_sigpend'[q] \subseteq td_sigpend[q]
  <2>1. td_sigpend[q] \in SUBSET Pending
    BY DEF TypeOK
  <2>2. PICK hup : hup = SigPut(td_sigpend[q], "HUP")
    OBVIOUS
  <2>3. hup \in SUBSET Pending /\ ("KILL" \in hup => "KILL" \in td_sigpend[q])
    BY <2>1, <2>2, SigPutType
  <2>4. PICK cont : cont = SigPut(IF q = InitPid THEN td_sigpend[q] ELSE hup, "CONT")
    OBVIOUS
  <2>5. /\ cont \in SUBSET Pending /\ ("KILL" \in cont => "KILL" \in td_sigpend[q])
        /\ q = InitPid => cont \subseteq td_sigpend[q]
    <3>1. CASE q = InitPid
      BY <2>1, <2>4, <3>1, SigPutType
    <3>2. CASE q # InitPid
      BY <2>3, <2>4, <3>2, SigPutType
    <3> QED  BY <3>1, <3>2
  <2>6. td_sigpend'[q] = IF q \notin targets THEN td_sigpend[q] ELSE cont
    BY <1>1, <2>2, <2>4
  <2> QED  BY <2>1, <2>5, <2>6
<1>3. InitPid \in Pids
  BY PgrpAssumption DEF InitPid, Pids
<1>4. td_sigpend'[InitPid] = {}
  BY <1>2, <1>3 DEF LifeOK
<1>5. td_sigpend' = [q \in Pids |-> td_sigpend'[q]]
  BY <1>1
<1> QED  BY <1>2, <1>4, <1>5

\* Continuing processes neither ends nor starts one.
LEMMA ContinueStays ==
  ASSUME TypeOK, LifeOK, NEW D \in SUBSET Pids, NEW others, NEW p \in Pids, NEW to,
         Continued(D, others, p, to), \A q \in D : p_state[q] = "stopped"
  PROVE  /\ Procs' = Procs
         /\ \A q \in Pids : q # p => (Left(q)' <=> Left(q))
<1>1. \A q \in Pids :
        /\ p_state'[q] = IF q \in D THEN "normal" ELSE p_state[q]
        /\ pc'[q] = IF q = p THEN to
                    ELSE IF q \in D \ td_stopping THEN "check"
                    ELSE IF q \in Told(D, others) /\ pc[q] = "asleep" THEN "woken"
                    ELSE pc[q]
  BY DEF Continued
<1>2. Procs' = Procs
  BY <1>1 DEF Procs
<1>3. ASSUME NEW q \in Pids, q # p PROVE Left(q)' <=> Left(q)
  <2>1. q \in D => pc[q] \in {"stop", "stopped"} /\ p_state[q] = "stopped"
    BY DEF LifeOK, StatesAt
  <2> QED  BY <1>1, <1>3, <2>1 DEF Left
<1> QED  BY <1>2, <1>3

\* Process p moves process m to group target of session S.
Moves(p, m, target, S, sess, count, leader, orphans) ==
  /\ m \in Procs /\ S \in Pids
  /\ Entering(m, target, S, sess, count, leader)
  /\ _pgrp_enter(m, target, sess, count, leader)
  /\ Syscall(p) /\ all_proc = 0 /\ Hangup(orphans)
  /\ ContinueAndWake(StoppedIn(orphans), {}, p, "user")
  /\ UNCHANGED <<treeVars, chld_ignored, all_proc, waitVars>>

\* A call that continues processes.
LEMMA CallStays ==
  ASSUME IInv, NEW p \in Pids, Syscall(p), NEW D \in SUBSET Pids,
         \A q \in D : p_state[q] = "stopped", ContinueAndWake(D, {}, p, "user")
  PROVE  /\ Procs' = Procs /\ p_state' \in [Pids -> PState]
         /\ \A q \in Pids : Left(q)' <=> Left(q)
<1>1. pc[p] = "user" /\ p_state[p] = "normal"
  <2>1. pc[p] = "user"
    BY NextCall DEF IInv
  <2> QED  BY <2>1 DEF IInv, LifeOK, StatesAt
<1>2. {} \in SUBSET (0 .. PidMax) /\ "user" \in Pc /\ p \notin D
  BY <1>1 DEF Pc
<1>3. Continued(D, {}, p, "user")
  BY <1>2, ContinueFacts DEF IInv
<1>4. /\ Procs' = Procs
      /\ \A q \in Pids : q # p => (Left(q)' <=> Left(q))
  BY <1>3, ContinueStays DEF IInv
<1>5. pc'[p] = "user" /\ p_state'[p] = "normal" /\ p_state' \in [Pids -> PState]
  BY <1>1, <1>2, <1>3 DEF Continued
<1>6. Left(p)' <=> Left(p)
  BY <1>1, <1>5 DEF Left
<1> QED  BY <1>4, <1>5, <1>6

LEMMA MoveKeeps ==
  ASSUME IInv, NEW p \in Pids, NEW m, NEW target \in Pids, NEW S,
         NEW sess, NEW count, NEW leader, NEW orphans,
         Moves(p, m, target, S, sess, count, leader, orphans)
  PROVE  IInv'
<1>0. /\ m \in Procs /\ S \in Pids
      /\ Entering(m, target, S, sess, count, leader)
      /\ _pgrp_enter(m, target, sess, count, leader)
      /\ Syscall(p) /\ all_proc = 0 /\ Hangup(orphans)
      /\ ContinueAndWake(StoppedIn(orphans), {}, p, "user")
      /\ UNCHANGED <<treeVars, chld_ignored, all_proc, waitVars>>
  BY DEF Moves
<1>1. PICK D : D = StoppedIn(orphans)
  OBVIOUS
<1>2. pc[p] = "user" /\ ops' \in 0 .. MaxOps
  BY <1>0, NextCall DEF IInv
<1>3. p_state[p] = "normal"
  BY <1>2 DEF IInv, LifeOK, StatesAt
<1>4. D \in SUBSET Pids /\ (\A q \in D : p_state[q] = "stopped") /\ p \notin D
  BY <1>1, <1>3 DEF StoppedIn, Stopped, Procs
<1>5. {} \in SUBSET (0 .. PidMax) /\ "user" \in Pc /\ ContinueAndWake(D, {}, p, "user")
  BY <1>0, <1>1 DEF Pc
<1>6. Continued(D, {}, p, "user")
  BY <1>4, <1>5, ContinueFacts DEF IInv
<1>7. /\ td_sigpend' \in [Pids -> SUBSET Pending]
      /\ \A q \in Pids : "KILL" \in td_sigpend'[q] => "KILL" \in td_sigpend[q]
      /\ td_sigpend'[InitPid] = {}
  BY <1>0, HangupFacts DEF IInv
<1>8. LifeOK'
  <2>1. /\ p_state[p] \in StatesAt("user") /\ "user" \notin {"stop", "stopped"}
        /\ "user" \notin Holding
    BY <1>3 DEF StatesAt, Holding
  <2>2. all_proc' # p /\ \A q \in Pids : q # p => (all_proc' = q <=> all_proc = q)
    BY <1>0, <1>2 DEF IInv, LifeOK, Holding
  <2> QED  BY <1>4, <1>5, <1>7, <2>1, <2>2, ContinueLife DEF IInv
<1>9. /\ Procs' = Procs /\ p_state' \in [Pids -> PState]
      /\ \A q \in Pids : Left(q)' <=> Left(q)
  BY <1>0, <1>4, <1>5, CallStays
<1>10. GroupsOK'
  <2>1. UNCHANGED p_parent
    BY <1>0 DEF treeVars
  <2> QED  BY <1>0, <1>9, <2>1, EnterGroup DEF IInv
<1>11. WaitOK'
  <2> SUFFICES ASSUME NEW q \in Pids PROVE Informed(q)'
    BY DEF WaitOK
  <2>1. CASE q = p
    <3>1. pc'[q] = "user"
      BY <1>6, <2>1 DEF Continued
    <3> QED  BY <3>1, Elsewhere
  <2>2. CASE q # p
    <3>1. Children(q)' = Children(q)
      BY <1>0, <1>9 DEF Children, treeVars
    <3>2. "user" \notin {"zombie", "reap"}
      OBVIOUS
    <3> QED  BY <1>0, <1>4, <1>5, <2>2, <3>1, <3>2, ContinueWait DEF IInv
  <2> QED  BY <2>1, <2>2
<1>12. TypeOK'
  <2>1. /\ state_changed' \in SUBSET Pids /\ child_changed' \in SUBSET Pids
        /\ td_stopping' \in SUBSET Pids /\ pc' \in [Pids -> Pc]
    BY <1>4, <1>6 DEF Continued, IInv, TypeOK
  <2> QED  BY <1>0, <1>2, <1>7, <1>10, <2>1 DEF IInv, TypeOK, GroupsOK, waitVars
<1> QED  BY <1>8, <1>10, <1>11, <1>12 DEF IInv

\* With sess, session S has one group more.
OneMore(sess, S) ==
  \A s \in Pids : Cardinality(Groups(sess, s)) = IF s = S THEN s_count[s] + 1 ELSE s_count[s]

LEMMA NewGroupCounted ==
  ASSUME GroupsOK, NEW target \in Pids, NEW S \in Pids, NEW sess, pg_session[target] = 0,
         sess = [pg_session EXCEPT ![target] = S]
  PROVE  OneMore(sess, S)
<1> SUFFICES ASSUME NEW s \in Pids
             PROVE  Cardinality(Groups(sess, s)) = IF s = S THEN s_count[s] + 1 ELSE s_count[s]
  BY DEF OneMore
<1>1. /\ s # 0 /\ sess[target] = S
      /\ \A g \in Pids : g # target => sess[g] = pg_session[g]
  <2>1. Pids \subseteq 0 .. PidMax /\ 0 \notin Pids
    BY PgrpAssumption DEF Pids
  <2> QED  BY <2>1 DEF GroupsOK, PgrpTypeOK
<1>2. s_count[s] = Cardinality(Groups(pg_session, s))
  BY DEF GroupsOK, SessionsCounted
<1>3. IsFiniteSet(Groups(pg_session, s)) /\ Cardinality(Groups(pg_session, s)) \in Nat
  BY GroupsFinite
<1>4. CASE s = S
  <2>1. Groups(sess, s) = Groups(pg_session, s) \cup {target} /\ target \notin Groups(pg_session, s)
    BY <1>1, <1>4 DEF Groups
  <2>2. Cardinality(Groups(pg_session, s) \cup {target}) = Cardinality(Groups(pg_session, s)) + 1
    BY <1>3, <2>1, FS_AddElement
  <2> QED  BY <1>2, <1>4, <2>1, <2>2
<1>5. CASE s # S
  <2>1. Groups(sess, s) = Groups(pg_session, s)
    BY <1>1, <1>5 DEF Groups
  <2> QED  BY <1>2, <1>5, <2>1
<1> QED  BY <1>4, <1>5

LEMMA SetpgidMoves ==
  ASSUME IInv, NEW p \in Pids, NEW target \in Pids, NEW pgid \in Pids,
         Setpgid(p, target, pgid)
  PROVE  \E S, sess, count, orphans :
           Moves(p, target, pgid, S, sess, count, s_leader, orphans)
<1>1. PICK sess, count, orphans :
        /\ sess = SetpgidSessions(p, pgid) /\ count = SetpgidCounts(p, pgid)
        /\ orphans = EnterOrphans(target, pgid, sess)
  OBVIOUS
<1>2. /\ Syscall(p) /\ all_proc = 0 /\ MaySetpgid(p, target, pgid)
      /\ _pgrp_enter(target, pgid, sess, count, s_leader)
      /\ Hangup(orphans) /\ ContinueAndWake(StoppedIn(orphans), {}, p, "user")
      /\ UNCHANGED <<treeVars, chld_ignored, all_proc, waitVars>>
  BY <1>1 DEF Setpgid, pgrp_enter
<1>3. PICK S : S = pg_session[p_pgrp[p]]
  OBVIOUS
<1>4. pc[p] = "user" /\ p \in Procs
  <2>1. pc[p] = "user"
    BY <1>2, NextCall DEF IInv
  <2> QED  BY <2>1 DEF IInv, LifeOK, StatesAt, Procs
<1>5. S \in Pids
  <2>1. p_pgrp[p] \in Pids /\ pg_session[p_pgrp[p]] # 0
    BY <1>4 DEF IInv, GroupsOK, GroupsLive
  <2>2. p_pgrp[p] \in 0 .. PidMax
    BY <2>1 DEF Pids
  <2>3. S \in 0 .. PidMax /\ S # 0
    BY <1>3, <2>1, <2>2 DEF IInv, GroupsOK, PgrpTypeOK
  <2> QED  BY <2>3 DEF Pids
<1>6. /\ target \in Procs /\ proc_is_alive(target) /\ S = pg_session[p_pgrp[target]]
      /\ s_leader[S] # target /\ p_pgrp[target] # pgid
      /\ (pg_session[pgid] = 0 /\ pgid = target) \/ pg_session[pgid] = S
  BY <1>2, <1>3 DEF MaySetpgid
<1>7. S # target
  <2>1. ~ Left(target)
    BY <1>6 DEF proc_is_alive, Left, IInv, LifeOK, StatesAt
  <2> QED  BY <1>6, <2>1 DEF IInv, GroupsOK, LeadersOK
<1>8. sess = [pg_session EXCEPT ![pgid] = S]
  BY <1>1, <1>3 DEF SetpgidSessions
<1>9. \A s \in Pids : count[s] = Cardinality(Groups(sess, s))
  <2>1. s_count \in [Pids -> Nat] /\ pg_session \in [0 .. PidMax -> 0 .. PidMax]
        /\ pgid \in 0 .. PidMax
    BY DEF IInv, GroupsOK, PgrpTypeOK, Pids
  <2>2. CASE pg_session[pgid] = 0
    <3>1. OneMore(sess, S)
      BY <1>5, <1>8, <2>2, NewGroupCounted DEF IInv
    <3>2. count = [s_count EXCEPT ![S] = @ + 1]
      BY <1>1, <1>3, <2>2 DEF SetpgidCounts
    <3> QED  BY <1>5, <2>1, <3>1, <3>2 DEF OneMore
  <2>3. CASE pg_session[pgid] # 0
    <3>1. sess = pg_session
      BY <1>6, <1>8, <2>1, <2>3
    <3>2. count = s_count
      BY <1>1, <2>3 DEF SetpgidCounts
    <3> QED  BY <3>1, <3>2 DEF IInv, GroupsOK, SessionsCounted
  <2> QED  BY <2>2, <2>3
<1>10. Entering(target, pgid, S, sess, count, s_leader)
  BY <1>6, <1>7, <1>8, <1>9 DEF Entering
<1>11. Moves(p, target, pgid, S, sess, count, s_leader, orphans)
  BY <1>2, <1>5, <1>6, <1>10 DEF Moves
<1> QED  BY <1>11

LEMMA SetsidMoves ==
  ASSUME IInv, NEW p \in Pids, Setsid(p)
  PROVE  \E sess, count, leader, orphans : Moves(p, p, p, p, sess, count, leader, orphans)
<1>1. PICK sess, count, leader, orphans :
        /\ sess = [pg_session EXCEPT ![p] = p] /\ count = [s_count EXCEPT ![p] = 1]
        /\ leader = [s_leader EXCEPT ![p] = p]
        /\ orphans = EnterOrphans(p, p, sess)
  OBVIOUS
<1>2. /\ Syscall(p) /\ all_proc = 0 /\ pg_session[p] = 0
      /\ _pgrp_enter(p, p, sess, count, leader)
      /\ Hangup(orphans) /\ ContinueAndWake(StoppedIn(orphans), {}, p, "user")
      /\ UNCHANGED <<treeVars, chld_ignored, all_proc, waitVars>>
  BY <1>1 DEF Setsid, session_enter, MaySetsid, SetsidSessions
<1>3. pc[p] = "user" /\ p \in Procs
  <2>1. pc[p] = "user"
    BY <1>2, NextCall DEF IInv
  <2> QED  BY <2>1 DEF IInv, LifeOK, StatesAt, Procs
<1>4. p_pgrp[p] # p
  BY <1>2, <1>3 DEF IInv, GroupsOK, GroupsLive
<1>5. s_count[p] = 0
  <2>1. pg_session[p_pgrp[p]] # p
    BY <1>3, <1>4 DEF IInv, GroupsOK, LeadersOK
  <2> QED  BY <1>3, <2>1 DEF IInv, GroupsOK, NamesOK
<1>6. \A s \in Pids : count[s] = Cardinality(Groups(sess, s))
  <2>1. s_count \in [Pids -> Nat]
    BY DEF IInv, GroupsOK, PgrpTypeOK
  <2>2. OneMore(sess, p)
    BY <1>1, <1>2, NewGroupCounted DEF IInv
  <2>3. \A s \in Pids : count[s] = IF s = p THEN 1 ELSE s_count[s]
    BY <1>1, <2>1
  <2> QED  BY <1>5, <2>2, <2>3 DEF OneMore
<1>7. Entering(p, p, p, sess, count, leader)
  BY <1>1, <1>2, <1>4, <1>6 DEF Entering
<1>8. Moves(p, p, p, p, sess, count, leader, orphans)
  BY <1>2, <1>3, <1>7 DEF Moves
<1> QED  BY <1>8

-----------------------------------------------------------------------------
(* fork, and exit when it takes all_proc_mtx. *)

LEMMA ForkKeeps ==
  ASSUME IInv, NEW p \in Pids, NEW c \in Pids, Fork(p, c)
  PROVE  IInv'
<1>1. /\ Syscall(p) /\ all_proc = 0
      /\ c \notin Procs /\ pg_session[c] = 0 /\ s_count[c] = 0
      /\ p_state' = [p_state EXCEPT ![c] = "normal"]
      /\ p_parent' = [p_parent EXCEPT ![c] = p]
      /\ p_pgrp' = [p_pgrp EXCEPT ![c] = p_pgrp[p]]
      /\ chld_ignored' = (IF p \in chld_ignored THEN chld_ignored \cup {c} ELSE chld_ignored)
      /\ Goto(c, "user")
      /\ UNCHANGED <<pg_session, pg_jobc, s_count, s_leader, miscounted, state_changed,
                     child_changed, td_sigpend, td_stopping, all_proc, waitVars>>
  BY DEF Fork, pid_is_taken
<1>2. pc[p] = "user" /\ ops' \in 0 .. MaxOps
  BY <1>1, NextCall DEF IInv
<1>3. p_state[p] = "normal" /\ p \in Procs /\ p # c
  BY <1>1, <1>2 DEF IInv, LifeOK, StatesAt, Procs
<1>4. p_state[c] = "none" /\ pc[c] = "none" /\ c # InitPid /\ c \notin td_stopping
  BY <1>1 DEF IInv, LifeOK, StatesAt, Procs
<1>5. /\ Procs \subseteq Pids /\ Pids \subseteq 0 .. PidMax /\ 0 \notin Pids /\ InitPid \in Pids
      /\ c \in 0 .. PidMax /\ p \in 0 .. PidMax
  BY PgrpAssumption DEF Procs, Pids, InitPid
<1>6. /\ p_state' \in [Pids -> PState]
      /\ \A q \in Pids : p_state'[q] = IF q = c THEN "normal" ELSE p_state[q]
  BY <1>1 DEF IInv, TypeOK, PgrpTypeOK, PState
<1>7. /\ p_parent' \in [Pids -> 0 .. PidMax]
      /\ \A q \in Pids : p_parent'[q] = IF q = c THEN p ELSE p_parent[q]
  BY <1>1, <1>5 DEF IInv, TypeOK, PgrpTypeOK
<1>8. /\ p_pgrp' \in [0 .. PidMax -> 0 .. PidMax]
      /\ \A q \in Pids : p_pgrp'[q] = IF q = c THEN p_pgrp[p] ELSE p_pgrp[q]
  BY <1>1, <1>5 DEF IInv, TypeOK, PgrpTypeOK
<1>9. /\ pc' \in [Pids -> Pc]
      /\ \A q \in Pids : pc'[q] = IF q = c THEN "user" ELSE pc[q]
  BY <1>1 DEF Goto, IInv, TypeOK, Pc
<1>10. Procs' = Procs \cup {c}
  BY <1>6 DEF Procs
<1>11. \A q \in Pids : q # c => (Left(q)' <=> Left(q))
  BY <1>6, <1>9 DEF Left
<1>12. LifeOK'
  <2>1. p_state'[c] \in StatesAt("user") /\ "user" \in Pc /\ "user" \notin Holding
    BY <1>6 DEF StatesAt, Pc, Holding
  <2>2. all_proc' # c
    BY <1>1, <1>5
  <2> QED  BY <1>1, <1>4, <1>6, <2>1, <2>2, SoloLife DEF IInv
<1>13. TreeOK'
  <2>1. p_parent'[InitPid] = 0
    BY <1>4, <1>5, <1>7 DEF IInv, GroupsOK, TreeOK
  <2>2. ASSUME NEW q \in Procs' \ {InitPid}
        PROVE  p_parent'[q] \in Procs' /\ ~ Left(p_parent[q])'
    <3>1. PICK x \in Procs : x = p_parent'[q] /\ ~ Left(x)
      <4>1. CASE q = c
        BY <1>2, <1>3, <1>7, <4>1 DEF Left
      <4>2. CASE q # c
        BY <1>5, <1>7, <1>10, <4>2 DEF IInv, GroupsOK, TreeOK
      <4> QED  BY <4>1, <4>2
    <3>2. ~ Left(x)'
      BY <1>1, <1>5, <1>11, <3>1
    <3> QED  BY <1>10, <3>1, <3>2 DEF Left
  <2> QED  BY <2>1, <2>2 DEF TreeOK
<1>14. \A q \in Procs : p_pgrp[q] \in Pids /\ pg_session[p_pgrp[q]] # 0
  BY DEF IInv, GroupsOK, GroupsLive
<1>15. \A q \in Procs' : p_pgrp'[q] \in Pids
  BY <1>3, <1>5, <1>8, <1>10, <1>14
<1>16. GroupsLive'
  <2> SUFFICES ASSUME NEW g \in Pids
               PROVE  pg_session'[g] # 0 <=> \E q \in Procs' : p_pgrp'[q] = g
    BY DEF GroupsLive
  <2>1. pg_session[g] # 0 <=> \E q \in Procs : p_pgrp[q] = g
    BY DEF IInv, GroupsOK, GroupsLive
  <2> QED  BY <1>1, <1>3, <1>5, <1>8, <1>10, <2>1
<1>17. SessionsCounted'
  BY <1>1 DEF IInv, GroupsOK, SessionsCounted, Groups
<1>18. NamesOK'
  <2>1. ASSUME NEW g \in Procs', pg_session'[g] # 0
        PROVE  pg_session'[p_pgrp'[g]] = pg_session'[g]
    BY <1>1, <1>5, <1>8, <1>10, <2>1 DEF IInv, GroupsOK, NamesOK
  <2>2. ASSUME NEW s \in Procs', s_count'[s] # 0
        PROVE  pg_session'[p_pgrp'[s]] = s
    BY <1>1, <1>5, <1>8, <1>10, <2>2 DEF IInv, GroupsOK, NamesOK
  <2> QED  BY <2>1, <2>2 DEF NamesOK
<1>19. LeadersOK'
  <2> SUFFICES ASSUME NEW q \in Procs', pg_session'[p_pgrp'[q]] = q
               PROVE  p_pgrp'[q] = q /\ (Left(q)' \/ s_leader'[q] = q)
    BY DEF LeadersOK, Left
  <2>1. q # c
    <3>1. Groups(pg_session, c) = {}
      BY <1>1, GroupsFinite DEF IInv, GroupsOK, SessionsCounted
    <3>2. pg_session[p_pgrp[p]] # c
      BY <1>3, <1>14, <3>1 DEF Groups
    <3> QED  BY <1>1, <1>8, <3>2
  <2>2. q \in Procs /\ q \in Pids /\ p_pgrp'[q] = p_pgrp[q]
    BY <1>5, <1>8, <1>10, <2>1
  <2>3. p_pgrp[q] = q /\ (Left(q) \/ s_leader[q] = q)
    BY <1>1, <2>2 DEF IInv, GroupsOK, LeadersOK
  <2> QED  BY <1>1, <1>11, <2>1, <2>2, <2>3
<1>20. GroupsOK'
  <2>1. PgrpTypeOK' /\ pg_session'[0] = 0
    BY <1>1, <1>6, <1>7, <1>8 DEF IInv, GroupsOK, PgrpTypeOK
  <2> QED  BY <1>13, <1>15, <1>16, <1>17, <1>18, <1>19, <2>1 DEF GroupsOK
<1>21. WaitOK'
  <2> SUFFICES ASSUME NEW q \in Pids PROVE Informed(q)'
    BY DEF WaitOK
  <2>1. CASE q = p \/ q = c
    <3>1. pc'[q] = "user"
      BY <1>2, <1>9, <2>1
    <3> QED  BY <3>1, Elsewhere
  <2>2. CASE q # p /\ q # c
    <3>1. Children(q)' = Children(q)
      BY <1>1, <1>5, <1>7, <1>10, <2>2 DEF Children
    <3>2. ASSUME NEW d \in Children(q) PROVE Calm(d)
      <4>1. d \in Pids /\ d # c
        BY <1>1, <1>5, <3>2 DEF Children
      <4> QED  BY <1>1, <1>6, <1>9, <4>1 DEF Calm
    <3>3. w_pid'[q] = w_pid[q] /\ w_options'[q] = w_options[q] /\ w_left'[q] = w_left[q]
      BY <1>1 DEF waitVars
    <3>4. pc'[q] = pc[q] /\ (q \in child_changed => q \in child_changed') /\ Informed(q)
      BY <1>1, <1>9, <2>2 DEF IInv, WaitOK
    <3> QED  BY <3>1, <3>2, <3>3, <3>4, Undisturbed
  <2> QED  BY <2>1, <2>2
<1>22. TypeOK'
  <2>1. chld_ignored' \in SUBSET Pids
    BY <1>1 DEF IInv, TypeOK
  <2> QED  BY <1>1, <1>2, <1>9, <1>20, <2>1 DEF IInv, TypeOK, GroupsOK, waitVars
<1> QED  BY <1>12, <1>20, <1>21, <1>22 DEF IInv

LEMMA ExitLeaveKeeps ==
  ASSUME IInv, NEW p \in Pids, ExitLeave(p)
  PROVE  IInv'
<1>1. PICK orphans, D : orphans = ExitOrphans(p) /\ D = StoppedIn(orphans)
  OBVIOUS
<1>2. /\ pc[p] = "dying" /\ all_proc = 0 /\ all_proc' = p
      /\ GroupsOnExit(p) /\ proc_reparent(p) /\ Hangup(orphans)
      /\ ContinueAndWake(D, {InitPid}, p, "notify")
      /\ UNCHANGED <<chld_ignored, waitVars, ops>>
  BY <1>1 DEF ExitLeave, NewParent
<1>3. p_state[p] = "dying" /\ p # InitPid /\ p \in Procs
  BY <1>2 DEF IInv, LifeOK, StatesAt, Procs
<1>4. D \in SUBSET Pids /\ (\A q \in D : p_state[q] = "stopped") /\ p \notin D
  BY <1>1, <1>3 DEF StoppedIn, Stopped, Procs
<1>5. /\ Procs \subseteq Pids /\ Pids \subseteq 0 .. PidMax /\ 0 \notin Pids
      /\ InitPid \in Pids /\ InitPid \in 0 .. PidMax
  BY PgrpAssumption DEF Procs, Pids, InitPid
<1>6. {InitPid} \in SUBSET (0 .. PidMax) /\ "notify" \in Pc
  BY <1>5 DEF Pc
<1>7. Continued(D, {InitPid}, p, "notify")
  BY <1>2, <1>4, <1>6, ContinueFacts DEF IInv
<1>8. /\ Procs' = Procs /\ p_state' \in [Pids -> PState] /\ pc'[p] = "notify"
      /\ \A q \in Pids : q # p => (Left(q)' <=> Left(q))
  <2>1. /\ Procs' = Procs
        /\ \A q \in Pids : q # p => (Left(q)' <=> Left(q))
    BY <1>4, <1>7, ContinueStays DEF IInv
  <2>2. p_state' \in [Pids -> PState] /\ pc'[p] = "notify"
    BY <1>7 DEF Continued
  <2> QED  BY <2>1, <2>2
<1>9. /\ td_sigpend' \in [Pids -> SUBSET Pending]
      /\ \A q \in Pids : "KILL" \in td_sigpend'[q] => "KILL" \in td_sigpend[q]
      /\ td_sigpend'[InitPid] = {}
  BY <1>2, HangupFacts DEF IInv
<1>10. LifeOK'
  <2>1. /\ p_state[p] \in StatesAt("notify") /\ "notify" \notin {"stop", "stopped"}
        /\ "notify" \in Holding
    BY <1>3 DEF StatesAt, Holding
  <2>2. \A q \in Pids : q # p => (all_proc' = q <=> all_proc = q)
    BY <1>2, <1>5
  <2> QED  BY <1>2, <1>4, <1>6, <1>9, <2>1, <2>2, ContinueLife DEF IInv
<1>11. /\ p_parent' = [c \in Pids |-> IF c \in Children(p) THEN InitPid ELSE p_parent[c]]
       /\ s_leader' = (IF proc_is_session_leader(p)
                       THEN [s_leader EXCEPT ![pg_session[p_pgrp[p]]] = 0] ELSE s_leader)
       /\ pg_jobc' = pgrp_jobc_leave(p, p_pgrp[p], pg_session, pg_jobc)
       /\ miscounted' =
            miscounted \cup {p_pgrp[c] : c \in Adopted(p)}
              \cup {g \in Pids : ZombiesCounted(p, p_pgrp[p], pg_session, g) # {}}
       /\ UNCHANGED <<p_pgrp, pg_session, s_count>>
  BY <1>2 DEF GroupsOnExit, proc_reparent
<1>12. /\ s_leader' \in [Pids -> 0 .. PidMax]
       /\ \A q \in Pids : q # p => s_leader'[q] = s_leader[q]
  <2>1. s_leader \in [Pids -> 0 .. PidMax] /\ 0 \in 0 .. PidMax
    BY PgrpAssumption DEF IInv, GroupsOK, PgrpTypeOK
  <2>2. proc_is_session_leader(p) => pg_session[p_pgrp[p]] = p
    BY DEF proc_is_session_leader
  <2> QED  BY <1>11, <2>1, <2>2
<1>13. PgrpTypeOK'
  <2>1. pg_jobc' \in [Pids -> Int]
    <3>1. pg_jobc \in [Pids -> Int]
      BY DEF IInv, GroupsOK, PgrpTypeOK
    <3> QED  BY <1>11, <3>1, JobcType DEF IInv
  <2>2. miscounted' \in SUBSET Pids
    <3>1. miscounted \in SUBSET Pids
      BY DEF IInv, GroupsOK, PgrpTypeOK
    <3>2. \A c \in Adopted(p) : p_pgrp[c] \in Pids
      BY DEF Adopted, Children, IInv, GroupsOK
    <3> QED  BY <1>11, <3>1, <3>2
  <2>3. p_parent' \in [Pids -> 0 .. PidMax]
    BY <1>5, <1>11 DEF IInv, GroupsOK, PgrpTypeOK
  <2> QED  BY <1>8, <1>11, <1>12, <2>1, <2>2, <2>3 DEF IInv, GroupsOK, PgrpTypeOK
<1>14. TreeOK'
  <2>1. p_parent'[InitPid] = 0
    <3>1. InitPid \notin Children(p)
      BY <1>5 DEF Children, IInv, GroupsOK, TreeOK
    <3> QED  BY <1>5, <1>11, <3>1 DEF IInv, GroupsOK, TreeOK
  <2>2. ASSUME NEW q \in Procs' \ {InitPid}
        PROVE  p_parent'[q] \in Procs' /\ ~ Left(p_parent[q])'
    <3>1. PICK x \in Procs : x = p_parent'[q] /\ ~ Left(x) /\ x # p
      <4>1. CASE q \in Children(p)
        <5>1. p_state[InitPid] = "normal" /\ InitPid \in Procs
          BY <1>5 DEF IInv, LifeOK, Procs
        <5>2. ~ Left(InitPid)
          BY <1>5, <5>1 DEF IInv, LifeOK, StatesAt, Left
        <5> QED  BY <1>3, <1>5, <1>8, <1>11, <4>1, <5>1, <5>2
      <4>2. CASE q \notin Children(p)
        <5>1. p_parent[q] \in Procs /\ ~ Left(p_parent[q])
          BY <1>8 DEF IInv, GroupsOK, TreeOK
        <5>2. p_parent[q] # p
          BY <1>8, <4>2 DEF Children
        <5> QED  BY <1>5, <1>8, <1>11, <4>2, <5>1, <5>2
      <4> QED  BY <4>1, <4>2
    <3>2. ~ Left(x)'
      BY <1>5, <1>8, <3>1
    <3> QED  BY <1>8, <3>1, <3>2 DEF Left
  <2> QED  BY <2>1, <2>2 DEF TreeOK
<1>15. LeadersOK'
  <2> SUFFICES ASSUME NEW q \in Procs', pg_session'[p_pgrp'[q]] = q
               PROVE  p_pgrp'[q] = q /\ (Left(q)' \/ s_leader'[q] = q)
    BY DEF LeadersOK, Left
  <2>1. q \in Procs /\ q \in Pids
    BY <1>5, <1>8
  <2>2. p_pgrp[q] = q /\ (Left(q) \/ s_leader[q] = q)
    BY <1>11, <2>1 DEF IInv, GroupsOK, LeadersOK
  <2>3. CASE q = p
    BY <1>8, <1>11, <2>2, <2>3 DEF Left
  <2>4. CASE q # p
    BY <1>8, <1>11, <1>12, <2>1, <2>2, <2>4
  <2> QED  BY <2>3, <2>4
<1>16. GroupsOK'
  <2>1. GroupsLive' /\ SessionsCounted' /\ NamesOK'
    <3>1. GroupsLive'
      BY <1>8, <1>11 DEF IInv, GroupsOK, GroupsLive
    <3>2. SessionsCounted'
      BY <1>11 DEF IInv, GroupsOK, SessionsCounted, Groups
    <3>3. NamesOK'
      BY <1>8, <1>11 DEF IInv, GroupsOK, NamesOK
    <3> QED  BY <3>1, <3>2, <3>3
  <2>2. pg_session'[0] = 0 /\ \A q \in Procs' : p_pgrp'[q] \in Pids
    BY <1>8, <1>11 DEF IInv, GroupsOK
  <2> QED  BY <1>13, <1>14, <1>15, <2>1, <2>2 DEF GroupsOK
<1>17. WaitOK'
  <2> SUFFICES ASSUME NEW q \in Pids PROVE Informed(q)'
    BY DEF WaitOK
  <2>1. CASE q = p
    BY <1>8, <2>1, Elsewhere
  <2>2. CASE q # p
    <3>1. pc[q] # "look"
      BY <1>2, <1>5 DEF IInv, LifeOK, Holding
    <3>2. ASSUME q \notin Told(D, {InitPid}) PROVE Children(q)' = Children(q)
      <4>1. q # InitPid
        BY <1>5, <3>2 DEF Told
      <4>2. \A c \in Procs : p_parent'[c] = q <=> p_parent[c] = q
        BY <1>5, <1>11, <2>2, <4>1 DEF Children
      <4> QED  BY <1>8, <4>2 DEF Children
    <3>3. "notify" \notin {"zombie", "reap"}
      OBVIOUS
    <3> QED  BY <1>2, <1>4, <1>6, <2>2, <3>1, <3>2, <3>3, ContinueWait DEF IInv
  <2> QED  BY <2>1, <2>2
<1>18. TypeOK'
  <2>1. /\ state_changed' \in SUBSET Pids /\ child_changed' \in SUBSET Pids
        /\ td_stopping' \in SUBSET Pids /\ pc' \in [Pids -> Pc]
    BY <1>4, <1>7 DEF Continued, IInv, TypeOK
  <2>2. all_proc' \in 0 .. PidMax
    BY <1>2, <1>5
  <2> QED  BY <1>2, <1>9, <1>16, <2>1, <2>2 DEF IInv, TypeOK, GroupsOK, waitVars
<1> QED  BY <1>10, <1>16, <1>17, <1>18 DEF IInv

-----------------------------------------------------------------------------
(* The theorems. *)

LEMMA InitOK ==
  ASSUME Init
  PROVE  IInv
<1>1. /\ Pids \subseteq 0 .. PidMax /\ 0 \notin Pids /\ 0 \in 0 .. PidMax
      /\ InitPid \in Pids /\ InitPid \in 0 .. PidMax /\ InitPid # 0
  BY PgrpAssumption DEF Pids, InitPid
<1>2. /\ p_state = [p \in Pids |-> IF p = InitPid THEN "normal" ELSE "none"]
      /\ p_parent = [p \in Pids |-> 0]
      /\ p_pgrp = [p \in 0 .. PidMax |-> IF p = InitPid THEN InitPid ELSE 0]
      /\ pg_session = [g \in 0 .. PidMax |-> IF g = InitPid THEN InitPid ELSE 0]
      /\ pg_jobc = [g \in Pids |-> 0]
      /\ s_count = [s \in Pids |-> IF s = InitPid THEN 1 ELSE 0]
      /\ s_leader = [s \in Pids |-> IF s = InitPid THEN InitPid ELSE 0]
      /\ miscounted = {}
  BY DEF Init, PgrpInit
<1>3. pc = [p \in Pids |-> IF p = InitPid THEN "user" ELSE "none"]
  BY DEF Init
<1>4. Procs = {InitPid}
  BY <1>1, <1>2 DEF Procs
<1>5. PgrpTypeOK
  <2>1. p_state \in [Pids -> PState]
    BY <1>2 DEF PState
  <2>2. /\ p_parent \in [Pids -> 0 .. PidMax] /\ s_leader \in [Pids -> 0 .. PidMax]
        /\ p_pgrp \in [0 .. PidMax -> 0 .. PidMax]
        /\ pg_session \in [0 .. PidMax -> 0 .. PidMax]
    BY <1>1, <1>2
  <2>3. pg_jobc \in [Pids -> Int] /\ s_count \in [Pids -> Nat] /\ miscounted \in SUBSET Pids
    BY <1>2
  <2> QED  BY <2>1, <2>2, <2>3 DEF PgrpTypeOK
<1>6. TypeOK
  <2>1. pc \in [Pids -> Pc]
    BY <1>3 DEF Pc
  <2>2. w_pid \in [Pids -> -PidMax .. PidMax]
    <3>1. -1 \in -PidMax .. PidMax
      BY PgrpAssumption
    <3> QED  BY <3>1 DEF Init
  <2>3. /\ td_sigpend \in [Pids -> SUBSET Pending] /\ w_options \in [Pids -> SUBSET Options]
        /\ w_left \in [Pids -> SUBSET Pids]
    BY DEF Init
  <2>4. /\ state_changed \in SUBSET Pids /\ child_changed \in SUBSET Pids
        /\ chld_ignored \in SUBSET Pids /\ td_stopping \in SUBSET Pids
    BY DEF Init
  <2>5. all_proc \in 0 .. PidMax /\ ops \in 0 .. MaxOps
    BY <1>1, ProcAssumption DEF Init
  <2> QED  BY <1>5, <2>1, <2>2, <2>3, <2>4, <2>5 DEF TypeOK
<1>7. LifeOK
  <2>1. ASSUME NEW p \in Pids
        PROVE  /\ p_state[p] \in StatesAt(pc[p])
               /\ p \in td_stopping <=> pc[p] = "stop" /\ p_state[p] = "stopped"
               /\ pc[p] \in Holding <=> all_proc = p
               /\ "KILL" \in td_sigpend[p] => p_state[p] # "stopped"
    <3>1. /\ p_state[p] = IF p = InitPid THEN "normal" ELSE "none"
          /\ pc[p] = IF p = InitPid THEN "user" ELSE "none"
      BY <1>2, <1>3
    <3>2. td_stopping = {} /\ all_proc # p
      BY <1>1 DEF Init
    <3> QED  BY <3>1, <3>2 DEF StatesAt, Holding
  <2>2. td_sigpend[InitPid] = {} /\ p_state[InitPid] = "normal"
    BY <1>1, <1>2 DEF Init
  <2> QED  BY <2>1, <2>2 DEF LifeOK
<1>8. GroupsOK
  <2>1. TreeOK
    BY <1>1, <1>2, <1>4 DEF TreeOK
  <2>2. \A g \in Pids : pg_session[g] = IF g = InitPid THEN InitPid ELSE 0
    BY <1>1, <1>2
  <2>3. pg_session[0] = 0 /\ p_pgrp[InitPid] = InitPid
    BY <1>1, <1>2
  <2>4. GroupsLive
    BY <1>1, <1>4, <2>2, <2>3 DEF GroupsLive
  <2>5. SessionsCounted
    <3> SUFFICES ASSUME NEW s \in Pids
                 PROVE  s_count[s] = Cardinality(Groups(pg_session, s))
      BY DEF SessionsCounted
    <3>1. CASE s = InitPid
      <4>1. Groups(pg_session, s) = {InitPid}
        BY <1>1, <2>2, <3>1 DEF Groups
      <4> QED  BY <1>2, <3>1, <4>1, FS_Singleton
    <3>2. CASE s # InitPid
      <4>1. Groups(pg_session, s) = {}
        BY <1>1, <2>2, <3>2 DEF Groups
      <4> QED  BY <1>2, <3>2, <4>1, FS_EmptySet
    <3> QED  BY <3>1, <3>2
  <2>6. NamesOK
    BY <1>1, <1>4, <2>2, <2>3 DEF NamesOK
  <2>7. LeadersOK
    BY <1>1, <1>2, <1>4, <2>3 DEF LeadersOK
  <2>8. \A p \in Procs : p_pgrp[p] \in Pids
    BY <1>1, <1>4, <2>3
  <2> QED  BY <1>5, <2>1, <2>3, <2>4, <2>5, <2>6, <2>7, <2>8 DEF GroupsOK
<1>9. WaitOK
  BY <1>3 DEF WaitOK, Informed, Silent
<1> QED  BY <1>6, <1>7, <1>8, <1>9 DEF IInv

LEMMA CallKeeps ==
  ASSUME IInv, NEW p \in Pids, Call(p)
  PROVE  IInv'
<1>1. CASE \E c \in Pids : Fork(p, c)
  BY <1>1, ForkKeeps
<1>2. CASE \E target, pgid \in Pids : Setpgid(p, target, pgid)
  BY <1>2, SetpgidMoves, MoveKeeps
<1>3. CASE Setsid(p)
  BY <1>3, SetsidMoves, MoveKeeps
<1>4. CASE \E target \in Procs, sig \in Kills : Kill(p, {target}, sig)
  <2>1. PICK target \in Procs, sig \in Kills : Kill(p, {target}, sig)
    BY <1>4
  <2>2. {target} \in SUBSET Procs
    OBVIOUS
  <2> QED  BY <2>1, <2>2, KillKeeps
<1>5. CASE \E g \in Pids, sig \in Kills : pg_session[g] # 0 /\ Kill(p, Members(g), sig)
  <2>1. PICK g \in Pids, sig \in Kills : Kill(p, Members(g), sig)
    BY <1>5
  <2>2. Members(g) \in SUBSET Procs
    BY DEF Members
  <2> QED  BY <2>1, <2>2, KillKeeps
<1>6. CASE SigactionChld(p) \/ WaitStart(p) \/ Exit(p)
  BY <1>6, SigactionChldKeeps, WaitStartKeeps, ExitKeeps
<1> QED  BY <1>1, <1>2, <1>3, <1>4, <1>5, <1>6 DEF Call

LEMMA GoKeeps ==
  ASSUME IInv, NEW p \in Pids, Go(p)
  PROVE  IInv'
<1>1. CASE \E c \in Pids : WaitReap(p, c) \/ WaitLook(p, c)
  BY <1>1, WaitReapKeeps, WaitLookKeeps
<1>2. CASE WaitScan(p) \/ WaitNone(p) \/ WaitSleep(p) \/ WaitWoken(p)
  BY <1>2, WaitScanKeeps, WaitNoneKeeps, WaitSleepKeeps, WaitWokenKeeps
<1>3. CASE SigCheck(p) \/ SigDone(p) \/ StopThread(p)
  BY <1>3, SigCheckKeeps, SigDoneKeeps, StopThreadKeeps
<1>4. CASE ExitLeave(p) \/ ExitNotify(p) \/ ExitZombie(p) \/ ExitReap(p)
  BY <1>4, ExitLeaveKeeps, ExitNotifyKeeps, ExitZombieKeeps, ExitReapKeeps
<1> QED  BY <1>1, <1>2, <1>3, <1>4 DEF Go

LEMMA StutterKeeps ==
  ASSUME IInv, UNCHANGED vars
  PROVE  IInv'
<1>1. UNCHANGED <<p_state, p_parent, p_pgrp, pg_session, pg_jobc, s_count, s_leader,
                  miscounted>>
  BY DEF vars, treeVars, groupVars
<1>2. UNCHANGED <<state_changed, child_changed, td_sigpend, chld_ignored, td_stopping,
                  all_proc, pc, w_pid, w_options, w_left, ops>>
  BY DEF vars, sigVars, waitVars
<1>3. Procs' = Procs
  BY <1>1 DEF Procs
<1>4. GroupsOK'
  <2>1. \A p \in Pids : Left(p)' <=> Left(p)
    BY <1>1, <1>2 DEF Left
  <2>2. p_state' \in [Pids -> PState] /\ UNCHANGED <<treeVars, groupVars>>
    BY <1>1 DEF IInv, GroupsOK, PgrpTypeOK, treeVars, groupVars
  <2> QED  BY <1>1, <2>1, <2>2, GroupsAside DEF IInv
<1>5. WaitOK'
  <2> SUFFICES ASSUME NEW q \in Pids PROVE Informed(q)'
    BY DEF WaitOK
  <2>1. Children(q)' = Children(q) /\ \A c \in Children(q) : Calm(c)
    BY <1>1, <1>2, <1>3 DEF Children, Calm
  <2> QED  BY <1>2, <2>1, Undisturbed DEF IInv, WaitOK
<1>6. LifeOK' /\ TypeOK'
  BY <1>1, <1>2 DEF IInv, LifeOK, TypeOK, PgrpTypeOK
<1> QED  BY <1>4, <1>5, <1>6 DEF IInv

(***************************************************************************)
(* Invariance: processes and threads agree, the tree, groups and sessions  *)
(* agree, and parents in wait4 have been told of what happened to their    *)
(* children, after any sequence of the steps of fork, exit, wait4, kill,   *)
(* setpgid, setsid and the delivery of signals.                            *)
(***************************************************************************)
THEOREM Invariance == Spec => []IInv
<1>1. Init => IInv
  BY InitOK
<1>2. IInv /\ [Next]_vars => IInv'
  <2> SUFFICES ASSUME IInv, [Next]_vars PROVE IInv'
    OBVIOUS
  <2>1. CASE Next
    <3>1. PICK p \in Pids : Call(p) \/ Go(p)
      BY <2>1 DEF Next
    <3> QED  BY <3>1, CallKeeps, GoKeeps
  <2>2. CASE UNCHANGED vars
    BY <2>2, StutterKeeps
  <2> QED  BY <2>1, <2>2
<1> QED  BY <1>1, <1>2, PTL DEF Spec

(***************************************************************************)
(* TypeCorrect: the variables keep their types; the number of groups of a  *)
(* session, which session_drop takes one from, never gets below zero.      *)
(***************************************************************************)
THEOREM TypeCorrect == Spec => []TypeOK
<1>1. IInv => TypeOK
  BY DEF IInv
<1> QED  BY <1>1, Invariance, PTL

(***************************************************************************)
(* GroupsSafe: the process tree, the process groups and the sessions of    *)
(* proc.c agree, whatever order processes fork, exit, are reaped and move  *)
(* between groups in, and pid_alloc never gives away the number of a group *)
(* or session that still exists.                                           *)
(***************************************************************************)
THEOREM GroupsSafe == Spec => []GroupsConsistent
<1>1. IInv => GroupsConsistent
  BY Consistent
<1> QED  BY <1>1, Invariance, PTL

(***************************************************************************)
(* StopsSafe: proc_stop, proc_continue and thread_continue keep the state  *)
(* of a process and that of its thread in agreement, although a process    *)
(* that stops lets go of its lock before its thread has stopped.           *)
(***************************************************************************)
THEOREM StopsSafe == Spec => []StopsAgree
<1>1. IInv => StopsAgree
  BY Consistent
<1> QED  BY <1>1, Invariance, PTL

(***************************************************************************)
(* ChildrenNoticed: do_waitpid does not sleep while there is a child to    *)
(* report: PF_CHILD_STATE_CHANGED, which it clears before it scans and     *)
(* looks at before it sleeps, closes the gap between the two.              *)
(***************************************************************************)
THEOREM ChildrenNoticed == Spec => []NoMissedChild
<1>1. IInv => NoMissedChild
  BY Consistent
<1> QED  BY <1>1, Invariance, PTL

-----------------------------------------------------------------------------
(* Job control. *)

\* The counter of every group, those that do not exist included; nobody is its
\* own parent.
JobsOK ==
  /\ p_pgrp[0] = 0
  /\ \A p \in Procs : p_parent[p] # p
  /\ \A g \in Pids \ miscounted : pg_jobc[g] = Cardinality(Qualifying(g))

\* The processes that count for group g.
Counts(q, g) ==
  /\ q \in Procs /\ p_pgrp[q] = g /\ ~ Left(q)
  /\ p_pgrp[p_parent[q]] # g /\ pg_session[p_pgrp[p_parent[q]]] = pg_session[g]

LEMMA QualifyingCounts ==
  ASSUME NEW g
  PROVE  /\ Qualifying(g) \in SUBSET Pids /\ IsFiniteSet(Qualifying(g))
         /\ \A q : q \in Qualifying(g) <=> Counts(q, g)
<1>1. Qualifying(g) \in SUBSET Pids
  BY DEF Qualifying, Members, Procs
<1>2. IsFiniteSet(Pids)
  BY FS_Interval, PgrpAssumption DEF Pids
<1>3. IsFiniteSet(Qualifying(g))
  BY <1>1, <1>2, FS_Subset
<1>4. \A q : q \in Qualifying(g) <=> Counts(q, g)
  BY DEF Qualifying, Members, Counts, Left, same_session_p
<1> QED  BY <1>1, <1>3, <1>4

LEMMA QualifyingLater ==
  ASSUME NEW CONSTANT g
  PROVE  \A q : q \in Qualifying(g)' <=> Counts(q, g)'
BY DEF Qualifying, Members, Counts, Left, same_session_p

\* Of the elements of Q those in A have left, those in B are new.
Exchanged(Q, A, B, R) == A \subseteq Q /\ B \cap (Q \ A) = {} /\ R = (Q \ A) \cup B

LEMMA CountChange ==
  ASSUME NEW Q, NEW A, NEW B, NEW R, IsFiniteSet(Q), IsFiniteSet(B), Exchanged(Q, A, B, R)
  PROVE  /\ Cardinality(Q) \in Nat /\ Cardinality(A) \in Nat /\ Cardinality(B) \in Nat
         /\ Cardinality(R) = Cardinality(Q) - Cardinality(A) + Cardinality(B)
<1>0. A \subseteq Q /\ B \cap (Q \ A) = {} /\ R = (Q \ A) \cup B
  BY DEF Exchanged
<1>1. IsFiniteSet(A) /\ IsFiniteSet(Q \ A) /\ Q \cap A = A
  BY <1>0, FS_Subset, FS_Difference
<1>2. Cardinality(Q \ A) = Cardinality(Q) - Cardinality(A)
  BY <1>1, FS_Difference
<1>3. Cardinality((Q \ A) \cup B) = Cardinality(Q \ A) + Cardinality(B)
  <2>1. Cardinality((Q \ A) \cap B) = 0
    <3>1. (Q \ A) \cap B = {}
      BY <1>0
    <3> QED  BY <3>1, FS_EmptySet
  <2>2. Cardinality((Q \ A) \cup B)
          = Cardinality(Q \ A) + Cardinality(B) - Cardinality((Q \ A) \cap B)
    BY <1>1, FS_Union
  <2>3. Cardinality(Q \ A) \in Nat /\ Cardinality(B) \in Nat
    BY <1>1, FS_CardinalityType
  <2> QED  BY <2>1, <2>2, <2>3
<1>4. Cardinality(Q) \in Nat /\ Cardinality(A) \in Nat /\ Cardinality(B) \in Nat
  BY <1>1, FS_CardinalityType
<1> QED  BY <1>0, <1>2, <1>3, <1>4

\* Steps that leave the groups alone.
LEMMA JobsAside ==
  ASSUME JobsOK, UNCHANGED <<treeVars, groupVars>>,
         \A p \in Pids : /\ p_state'[p] = "none" <=> p_state[p] = "none"
                         /\ Left(p)' <=> Left(p)
  PROVE  JobsOK'
<1>1. UNCHANGED <<p_parent, p_pgrp, pg_session, pg_jobc, miscounted>>
  BY DEF treeVars, groupVars
<1>2. Procs' = Procs /\ Procs \subseteq Pids
  BY DEF Procs
<1>3. ASSUME NEW g \in Pids PROVE Qualifying(g)' = Qualifying(g)
  <2>1. \A q : q \in Qualifying(g) <=> Counts(q, g)
    BY QualifyingCounts
  <2>2. \A q : q \in Qualifying(g)' <=> Counts(q, g)'
    BY QualifyingLater
  <2>3. ASSUME NEW q PROVE Counts(q, g)' <=> Counts(q, g)
    BY <1>1, <1>2 DEF Counts
  <2> QED  BY <2>1, <2>2, <2>3
<1> QED  BY <1>1, <1>2, <1>3 DEF JobsOK

\* A process that has left for good leaves its group.
LEMMA JobsLeave ==
  ASSUME GroupsOK, JobsOK, NEW c \in Procs \ {InitPid}, Left(c), pgrp_leave(c),
         p_state' = [p_state EXCEPT ![c] = "none"], p_parent' = [p_parent EXCEPT ![c] = 0],
         \A q \in Pids : q # c => (Left(q)' <=> Left(q))
  PROVE  JobsOK'
<1>1. PICK old : old = p_pgrp[c]
  OBVIOUS
<1>2. PICK removed : removed = Removed(old, Members(old) \ {c})
  OBVIOUS
<1>3. /\ c \in Pids /\ old \in Pids /\ InitPid \in Pids /\ Procs \subseteq Pids
      /\ Pids \subseteq 0 .. PidMax /\ 0 \in 0 .. PidMax /\ 0 \notin Pids
  BY <1>1, PgrpAssumption DEF GroupsOK, Procs, Pids, InitPid
<1>4. /\ p_pgrp' = [p_pgrp EXCEPT ![c] = 0]
      /\ pg_session' = [g \in 0 .. PidMax |-> IF g \in removed THEN 0 ELSE pg_session[g]]
      /\ pg_jobc' = [g \in Pids |-> IF g \in removed THEN 0 ELSE pg_jobc[g]]
      /\ miscounted' = miscounted \ removed
  BY <1>1, <1>2 DEF pgrp_leave, pgrp_remove
<1>5. /\ removed \subseteq {old}
      /\ old \in removed <=> \A q \in Procs : q # c => p_pgrp[q] # old
  BY <1>2 DEF Removed, Members
<1>6. /\ p_state \in [Pids -> PState] /\ p_parent \in [Pids -> 0 .. PidMax]
      /\ p_pgrp \in [0 .. PidMax -> 0 .. PidMax]
  BY DEF GroupsOK, PgrpTypeOK
<1>7. /\ \A q \in Pids : p_state'[q] = IF q = c THEN "none" ELSE p_state[q]
      /\ \A q \in Pids : p_parent'[q] = IF q = c THEN 0 ELSE p_parent[q]
      /\ \A q \in 0 .. PidMax : p_pgrp'[q] = IF q = c THEN 0 ELSE p_pgrp[q]
  BY <1>3, <1>4, <1>6
<1>8. Procs' = Procs \ {c}
  BY <1>3, <1>7 DEF Procs
<1>9. p_pgrp'[0] = 0
  BY <1>3, <1>7 DEF JobsOK
<1>10. \A q \in Procs' : p_parent'[q] # q
  BY <1>3, <1>7, <1>8 DEF JobsOK
<1>11. ASSUME NEW q \in Procs, q # c
       PROVE  /\ p_pgrp'[q] = p_pgrp[q] /\ p_parent'[q] = p_parent[q]
              /\ p_pgrp'[p_parent[q]] = p_pgrp[p_parent[q]]
              /\ pg_session'[p_pgrp[p_parent[q]]] = pg_session[p_pgrp[p_parent[q]]]
              /\ pg_session'[p_pgrp[q]] = pg_session[p_pgrp[q]]
  <2>1. PICK x : x = p_parent[q]
    OBVIOUS
  <2>2. (q = InitPid /\ x = 0) \/ (x \in Procs /\ ~ Left(x))
    BY <1>11, <2>1 DEF GroupsOK, TreeOK
  <2>3. x # c /\ x \in 0 .. PidMax
    BY <1>3, <2>2
  <2>4. p_pgrp'[x] = p_pgrp[x]
    BY <1>7, <2>3
  <2>5. p_pgrp[q] \in 0 .. PidMax /\ p_pgrp[q] \notin removed
    BY <1>3, <1>5, <1>6, <1>11
  <2>6. p_pgrp[x] \in 0 .. PidMax /\ p_pgrp[x] \notin removed
    <3>1. CASE x = 0
      BY <1>3, <1>5, <3>1 DEF JobsOK
    <3>2. CASE x \in Procs
      BY <1>3, <1>5, <1>6, <2>3, <3>2
    <3> QED  BY <2>2, <3>1, <3>2
  <2>7. pg_session'[p_pgrp[x]] = pg_session[p_pgrp[x]] /\ pg_session'[p_pgrp[q]] = pg_session[p_pgrp[q]]
    BY <1>4, <2>5, <2>6
  <2> QED  BY <1>3, <1>7, <1>11, <2>1, <2>4, <2>7
<1>12. ASSUME NEW g \in Pids PROVE Qualifying(g)' = Qualifying(g)
  <2>1. \A q : q \in Qualifying(g) <=> Counts(q, g)
    BY QualifyingCounts
  <2>2. \A q : q \in Qualifying(g)' <=> Counts(q, g)'
    BY QualifyingLater
  <2>3. ASSUME NEW q PROVE Counts(q, g)' <=> Counts(q, g)
    <3>1. CASE q \notin Procs \/ q = c
      BY <1>8, <3>1 DEF Counts
    <3>2. CASE q \in Procs /\ q # c
      <4>1. Left(q)' <=> Left(q)
        BY <1>3, <3>2
      <4> QED  BY <1>8, <1>11, <3>2, <4>1 DEF Counts
    <3> QED  BY <3>1, <3>2
  <2> QED  BY <2>1, <2>2, <2>3
<1>13. ASSUME NEW g \in Pids \ miscounted' PROVE pg_jobc'[g] = Cardinality(Qualifying(g)')
  <2>1. CASE g \in removed
    <3>1. g = old /\ pg_jobc'[g] = 0
      BY <1>4, <1>5, <2>1
    <3>2. Qualifying(g) = {}
      <4>1. \A q : q \in Qualifying(g) <=> Counts(q, g)
        BY QualifyingCounts
      <4> QED  BY <1>5, <2>1, <3>1, <4>1 DEF Counts
    <3> QED  BY <1>12, <3>1, <3>2, FS_EmptySet
  <2>2. CASE g \notin removed
    BY <1>4, <1>12, <2>2 DEF JobsOK
  <2> QED  BY <2>1, <2>2
<1> QED  BY <1>9, <1>10, <1>13 DEF JobsOK

\* Facts on a process and its parent that the counters depend on.
LEMMA Parents ==
  ASSUME GroupsOK, NEW q \in Procs
  PROVE  /\ q \in Pids /\ p_pgrp[q] \in Pids /\ pg_session[p_pgrp[q]] # 0
         /\ (q = InitPid /\ p_parent[q] = 0)
              \/ (p_parent[q] \in Procs /\ p_parent[q] \in Pids /\ ~ Left(p_parent[q]))
BY DEF GroupsOK, TreeOK, GroupsLive, Procs

LEMMA ForkJobs ==
  ASSUME IInv, JobsOK, NEW p \in Pids, NEW c \in Pids, Fork(p, c)
  PROVE  JobsOK'
<1>1. /\ Syscall(p) /\ c \notin Procs
      /\ p_state' = [p_state EXCEPT ![c] = "normal"]
      /\ p_parent' = [p_parent EXCEPT ![c] = p]
      /\ p_pgrp' = [p_pgrp EXCEPT ![c] = p_pgrp[p]]
      /\ Goto(c, "user")
      /\ UNCHANGED <<pg_session, pg_jobc, miscounted>>
  BY DEF Fork, pid_is_taken
<1>2. p \in Procs /\ p # c
  <2>1. pc[p] = "user"
    BY <1>1, NextCall DEF IInv
  <2> QED  BY <1>1, <2>1 DEF IInv, LifeOK, StatesAt, Procs
<1>3. /\ Procs \subseteq Pids /\ Pids \subseteq 0 .. PidMax /\ 0 \notin Pids /\ InitPid \in Pids
      /\ 0 \in 0 .. PidMax
  BY PgrpAssumption DEF Procs, Pids, InitPid
<1>4. /\ \A q \in Pids : p_state'[q] = IF q = c THEN "normal" ELSE p_state[q]
      /\ \A q \in Pids : p_parent'[q] = IF q = c THEN p ELSE p_parent[q]
      /\ \A q \in 0 .. PidMax : p_pgrp'[q] = IF q = c THEN p_pgrp[p] ELSE p_pgrp[q]
      /\ \A q \in Pids : pc'[q] = IF q = c THEN "user" ELSE pc[q]
  BY <1>1, <1>3 DEF IInv, TypeOK, PgrpTypeOK, Goto
<1>5. Procs' = Procs \cup {c}
  BY <1>4 DEF Procs
<1>6. ASSUME NEW g \in Pids PROVE Qualifying(g)' = Qualifying(g)
  <2>1. \A q : q \in Qualifying(g) <=> Counts(q, g)
    BY QualifyingCounts
  <2>2. \A q : q \in Qualifying(g)' <=> Counts(q, g)'
    BY QualifyingLater
  <2>3. ASSUME NEW q PROVE Counts(q, g)' <=> Counts(q, g)
    <3>1. CASE q \notin Procs'
      BY <1>5, <3>1 DEF Counts
    <3>2. CASE q = c
      <4>1. p_parent'[q] = p /\ p_pgrp'[q] = p_pgrp'[p]
        BY <1>2, <1>3, <1>4, <3>2
      <4> QED  BY <1>1, <3>2, <4>1 DEF Counts
    <3>3. CASE q \in Procs
      <4>1. q # c /\ q \in Pids /\ q \in Procs'
        BY <1>1, <1>3, <1>5, <3>3
      <4>2. Left(q)' <=> Left(q)
        BY <1>4, <4>1 DEF Left
      <4>3. p_parent[q] # c /\ p_parent[q] \in 0 .. PidMax
        BY <1>1, <1>3, <3>3, Parents DEF IInv
      <4>4. p_parent'[q] = p_parent[q] /\ p_pgrp'[q] = p_pgrp[q] /\ p_pgrp'[p_parent[q]] = p_pgrp[p_parent[q]]
        BY <1>3, <1>4, <4>1, <4>3
      <4> QED  BY <1>1, <3>3, <4>1, <4>2, <4>4 DEF Counts
    <3> QED  BY <1>5, <3>1, <3>2, <3>3
  <2> QED  BY <2>1, <2>2, <2>3
<1>7. p_pgrp'[0] = 0
  BY <1>3, <1>4 DEF JobsOK
<1>8. \A q \in Procs' : p_parent'[q] # q
  BY <1>2, <1>3, <1>4, <1>5 DEF JobsOK
<1> QED  BY <1>1, <1>6, <1>7, <1>8 DEF JobsOK

\* With all_proc_mtx free only zombies have left.
LEMMA LeftAreZombies ==
  ASSUME LifeOK, all_proc = 0
  PROVE  \A q \in Pids : Left(q) <=> p_state[q] = "zombie"
<1>1. \A q \in Pids : pc[q] \notin Holding
  BY DEF LifeOK, Pids
<1> QED  BY <1>1 DEF Left, Holding

LEMMA ExitLeaveJobs ==
  ASSUME IInv, JobsOK, NEW p \in Pids, ExitLeave(p)
  PROVE  JobsOK'
<1>1. PICK D : D = StoppedIn(ExitOrphans(p))
  OBVIOUS
<1>2. /\ pc[p] = "dying" /\ all_proc = 0
      /\ p_parent' = [c \in Pids |-> IF c \in Children(p) THEN InitPid ELSE p_parent[c]]
      /\ pg_jobc' = pgrp_jobc_leave(p, p_pgrp[p], pg_session, pg_jobc)
      /\ miscounted' =
           miscounted \cup {p_pgrp[c] : c \in Adopted(p)}
             \cup {g \in Pids : ZombiesCounted(p, p_pgrp[p], pg_session, g) # {}}
      /\ UNCHANGED <<p_pgrp, pg_session>>
      /\ ContinueAndWake(D, {InitPid}, p, "notify")
  BY <1>1 DEF ExitLeave, NewParent, GroupsOnExit, proc_reparent
<1>3. p_state[p] = "dying" /\ p # InitPid /\ p \in Procs
  BY <1>2 DEF IInv, LifeOK, StatesAt, Procs
<1>4. D \in SUBSET Pids /\ \A q \in D : p_state[q] = "stopped"
  BY <1>1 DEF StoppedIn, Stopped, Procs
<1>5. /\ Procs \subseteq Pids /\ Pids \subseteq 0 .. PidMax /\ 0 \notin Pids
      /\ InitPid \in Pids /\ InitPid \in 0 .. PidMax
  BY PgrpAssumption DEF Procs, Pids, InitPid
<1>6. {InitPid} \in SUBSET (0 .. PidMax) /\ "notify" \in Pc
  BY <1>5 DEF Pc
<1>7. Continued(D, {InitPid}, p, "notify")
  BY <1>2, <1>4, <1>6, ContinueFacts DEF IInv
<1>8. /\ Procs' = Procs /\ Left(p)' /\ ~ Left(p)
      /\ \A q \in Pids : q # p => (Left(q)' <=> Left(q))
  <2>1. /\ Procs' = Procs
        /\ \A q \in Pids : q # p => (Left(q)' <=> Left(q))
    BY <1>4, <1>7, ContinueStays DEF IInv
  <2>2. pc'[p] = "notify"
    BY <1>7 DEF Continued
  <2> QED  BY <1>2, <1>3, <2>1, <2>2 DEF Left
<1>9. \A q \in Procs : Left(q) <=> p_state[q] = "zombie"
  BY <1>2, <1>5, LeftAreZombies DEF IInv
<1>10. \A q \in Procs : p_parent'[q] = IF p_parent[q] = p THEN InitPid ELSE p_parent[q]
  BY <1>2, <1>5 DEF Children
<1>11. \A q \in Procs' : p_parent'[q] # q
  <2> SUFFICES ASSUME NEW q \in Procs PROVE p_parent'[q] # q
    BY <1>8
  <2>1. p_parent[q] # q
    BY DEF JobsOK
  <2>2. q = InitPid => p_parent[q] = 0
    BY DEF IInv, GroupsOK, TreeOK
  <2> QED  BY <1>5, <1>10, <2>1, <2>2
<1>12. ASSUME NEW g \in Pids \ miscounted' PROVE pg_jobc'[g] = Cardinality(Qualifying(g)')
  <2>1. PICK A : A = Affected(p, p_pgrp[p], pg_session, g)
    OBVIOUS
  <2>2. /\ g \notin miscounted
        /\ \A c \in A : p_state[c] # "zombie"
        /\ \A c \in Procs : p_parent[c] = p /\ p_state[c] # "zombie" /\ p_pgrp[c] = g =>
             ~ same_session_p(p_pgrp[InitPid], g, pg_session)
    BY <1>2, <1>12, <2>1 DEF ZombiesCounted, Adopted, Children
  <2>3. \A q : q \in Qualifying(g) <=> Counts(q, g)
    BY QualifyingCounts
  <2>4. \A q : q \in Qualifying(g)' <=> Counts(q, g)'
    BY QualifyingLater
  <2>5. ASSUME NEW q
        PROVE  q \in A <=> Counts(q, g) /\ (q = p \/ p_parent[q] = p)
    <3>1. q \in A <=>
            \/ q = p /\ g = p_pgrp[p] /\ same_session_p(p_pgrp[p_parent[p]], p_pgrp[p], pg_session)
            \/ /\ q \in Procs /\ p_parent[q] = p /\ p_pgrp[q] = g
               /\ same_session_p(g, p_pgrp[p], pg_session)
      BY <2>1 DEF Affected, Children
    <3>2. q \in A => q \in Procs /\ ~ Left(q)
      BY <1>3, <1>9, <2>2, <3>1
    <3>3. p_parent[p] # p
      BY <1>3 DEF JobsOK
    <3> QED  BY <3>1, <3>2, <3>3 DEF Counts, same_session_p
  <2>6. ASSUME NEW q
        PROVE  Counts(q, g)' <=> Counts(q, g) /\ q # p /\ p_parent[q] # p
    <3>1. CASE q \notin Procs \/ q = p
      BY <1>8, <3>1 DEF Counts
    <3>2. CASE q \in Procs /\ q # p /\ p_parent[q] # p
      <4>1. Left(q)' <=> Left(q)
        BY <1>5, <1>8, <3>2
      <4>2. p_parent'[q] = p_parent[q]
        BY <1>10, <3>2
      <4> QED  BY <1>2, <1>8, <3>2, <4>1, <4>2 DEF Counts
    <3>3. CASE q \in Procs /\ q # p /\ p_parent[q] = p
      <4>1. Left(q)' <=> p_state[q] = "zombie"
        BY <1>5, <1>8, <1>9, <3>3
      <4>2. p_parent'[q] = InitPid
        BY <1>10, <3>3
      <4> QED  BY <1>2, <2>2, <3>3, <4>1, <4>2 DEF Counts, same_session_p
    <3> QED  BY <3>1, <3>2, <3>3
  <2>7. A \subseteq Qualifying(g) /\ Qualifying(g)' = Qualifying(g) \ A
    BY <2>3, <2>4, <2>5, <2>6
  <2>8. IsFiniteSet(Qualifying(g)) /\ IsFiniteSet({}) /\ Cardinality({}) = 0
    BY QualifyingCounts, FS_EmptySet
  <2>9. /\ Cardinality(Qualifying(g)) \in Nat /\ Cardinality(A) \in Nat
        /\ Cardinality(Qualifying(g)') = Cardinality(Qualifying(g)) - Cardinality(A)
    <3>1. PICK Q, R, B : Q = Qualifying(g) /\ R = Qualifying(g)' /\ B = {}
      OBVIOUS
    <3>2. Exchanged(Q, A, B, R)
      BY <2>7, <3>1 DEF Exchanged
    <3>3. IsFiniteSet(Q) /\ IsFiniteSet(B) /\ Cardinality(B) = 0
      BY <2>8, <3>1
    <3>4. /\ Cardinality(Q) \in Nat /\ Cardinality(A) \in Nat
          /\ Cardinality(R) = Cardinality(Q) - Cardinality(A) + Cardinality(B)
      BY <3>2, <3>3, CountChange
    <3> QED  BY <3>1, <3>3, <3>4
  <2>10. pg_jobc'[g] = pg_jobc[g] - Cardinality(A)
    BY <1>2, <1>12, <2>1 DEF pgrp_jobc_leave
  <2>11. pg_jobc[g] = Cardinality(Qualifying(g))
    BY <1>12, <2>2 DEF JobsOK
  <2> QED  BY <2>9, <2>10, <2>11
<1>13. p_pgrp'[0] = 0
  BY <1>2 DEF JobsOK
<1> QED  BY <1>11, <1>12, <1>13 DEF JobsOK

\* Those of a set of processes that have left are taken out of it.
LEMMA LiveOnes ==
  ASSUME NEW A, NEW Z, IsFiniteSet(A), Z \subseteq A
  PROVE  /\ IsFiniteSet(A \ Z) /\ Cardinality(Z) \in Nat /\ Cardinality(A \ Z) \in Nat
         /\ Cardinality(A) = Cardinality(A \ Z) + Cardinality(Z)
<1>1. IsFiniteSet(Z) /\ IsFiniteSet(A \ Z) /\ A \cap Z = Z
  BY FS_Subset, FS_Difference
<1>2. Cardinality(A \ Z) = Cardinality(A) - Cardinality(Z)
  BY <1>1, FS_Difference
<1>3. Cardinality(Z) \in Nat /\ Cardinality(A \ Z) \in Nat /\ Cardinality(A) \in Nat
  BY <1>1, FS_CardinalityType
<1> QED  BY <1>1, <1>2, <1>3

\* What _pgrp_enter does to the counter of group g when process m moves from
\* old to target, while R is the new set of those who qualify it.
LEMMA CounterMoves ==
  ASSUME GroupsOK, NEW m \in Pids, NEW old, NEW target, NEW sess, NEW g \in Pids,
         NEW Q, NEW L, NEW K, NEW R, Q = Qualifying(g),
         L = Affected(m, old, sess, g) \ ZombiesCounted(m, old, sess, g),
         K = Affected(m, target, sess, g) \ ZombiesCounted(m, target, sess, g),
         Exchanged(Q, L, K, R), pg_jobc[g] = Cardinality(Q),
         Cardinality(ZombiesCounted(m, target, sess, g))
           = Cardinality(ZombiesCounted(m, old, sess, g))
  PROVE  pgrp_jobc_leave(m, old, sess, pgrp_jobc_enter(m, target, sess, pg_jobc))[g]
           = Cardinality(R)
<1>1. PICK A, B, Y, Z : /\ A = Affected(m, old, sess, g) /\ Y = ZombiesCounted(m, old, sess, g)
                        /\ B = Affected(m, target, sess, g)
                        /\ Z = ZombiesCounted(m, target, sess, g)
  OBVIOUS
<1>2. IsFiniteSet(A) /\ IsFiniteSet(B) /\ Y \subseteq A /\ Z \subseteq B
  <2>1. IsFiniteSet(Pids)
    BY FS_Interval, PgrpAssumption DEF Pids
  <2>2. A \subseteq Pids /\ B \subseteq Pids
    BY <1>1 DEF Affected, Children, Procs
  <2> QED  BY <1>1, <2>1, <2>2, FS_Subset DEF ZombiesCounted
<1>3. /\ IsFiniteSet(A \ Y) /\ Cardinality(Y) \in Nat /\ Cardinality(A \ Y) \in Nat
      /\ Cardinality(A) = Cardinality(A \ Y) + Cardinality(Y)
  BY <1>2, LiveOnes
<1>4. /\ IsFiniteSet(B \ Z) /\ Cardinality(Z) \in Nat /\ Cardinality(B \ Z) \in Nat
      /\ Cardinality(B) = Cardinality(B \ Z) + Cardinality(Z)
  BY <1>2, LiveOnes
<1>5. L = A \ Y /\ K = B \ Z
  BY <1>1
<1>6. IsFiniteSet(Q) /\ IsFiniteSet(K)
  BY <1>4, <1>5, QualifyingCounts
<1>7. /\ Cardinality(Q) \in Nat
      /\ Cardinality(R) = Cardinality(Q) - Cardinality(L) + Cardinality(K)
  BY <1>6, CountChange
<1>8. pgrp_jobc_leave(m, old, sess, pgrp_jobc_enter(m, target, sess, pg_jobc))[g]
        = (Cardinality(Q) + Cardinality(B)) - Cardinality(A)
  BY <1>1 DEF pgrp_jobc_leave, pgrp_jobc_enter
<1>9. Cardinality(Y) = Cardinality(Z)
  BY <1>1
<1> QED  BY <1>3, <1>4, <1>5, <1>7, <1>8, <1>9

LEMMA EnterJobs ==
  ASSUME GroupsOK, JobsOK, NEW m \in Procs, NEW target \in Pids, NEW S \in Pids, NEW sess,
         NEW count, NEW leader, Entering(m, target, S, sess, count, leader),
         _pgrp_enter(m, target, sess, count, leader),
         Procs' = Procs, UNCHANGED p_parent,
         \A q \in Pids : /\ Left(q)' <=> Left(q)
                         /\ Left(q) <=> p_state[q] = "zombie"
  PROVE  JobsOK'
<1>1. PICK old, removed : old = p_pgrp[m] /\ removed = Removed(old, Members(old) \ {m})
  OBVIOUS
<1>2. PICK jobc, off :
        /\ jobc = pgrp_jobc_leave(m, old, sess, pgrp_jobc_enter(m, target, sess, pg_jobc))
        /\ off = {g \in Pids : Cardinality(ZombiesCounted(m, target, sess, g))
                                 # Cardinality(ZombiesCounted(m, old, sess, g))}
  OBVIOUS
<1>3. /\ p_pgrp' = [p_pgrp EXCEPT ![m] = target]
      /\ pg_session' = [g \in 0 .. PidMax |-> IF g \in removed THEN 0 ELSE sess[g]]
      /\ pg_jobc' = [g \in Pids |-> IF g \in removed THEN 0 ELSE jobc[g]]
      /\ miscounted' = (miscounted \cup off) \ removed
  BY <1>1, <1>2 DEF _pgrp_enter, pgrp_remove
<1>4. /\ m \in Pids /\ old \in Pids /\ Procs \subseteq Pids /\ Pids \subseteq 0 .. PidMax
      /\ 0 \in 0 .. PidMax /\ 0 \notin Pids /\ InitPid \in Pids
  BY <1>1, PgrpAssumption DEF GroupsOK, Procs, Pids, InitPid
<1>5. /\ removed \subseteq {old}
      /\ old \in removed <=> \A q \in Procs : q # m => p_pgrp[q] # old
  BY <1>1 DEF Removed, Members
<1>6. /\ p_pgrp \in [0 .. PidMax -> 0 .. PidMax] /\ pg_session \in [0 .. PidMax -> 0 .. PidMax]
  BY DEF GroupsOK, PgrpTypeOK
<1>7. \A q \in 0 .. PidMax : p_pgrp'[q] = IF q = m THEN target ELSE p_pgrp[q]
  BY <1>3, <1>4, <1>6
<1>8. /\ old # target
      /\ \A g \in 0 .. PidMax : g # target \/ pg_session[g] # 0 => sess[g] = pg_session[g]
  <2>1. /\ p_pgrp[m] # target /\ sess = [pg_session EXCEPT ![target] = S]
        /\ pg_session[target] = 0 \/ pg_session[target] = S
    BY DEF Entering
  <2> QED  BY <1>1, <1>6, <2>1
\* The groups of processes, and of their parents, stay.
<1>9. ASSUME NEW q \in Procs
      PROVE  /\ p_pgrp[q] \in Pids /\ sess[p_pgrp[q]] = pg_session[p_pgrp[q]]
             /\ p_pgrp'[q] \in Pids /\ pg_session'[p_pgrp'[q]] = sess[p_pgrp'[q]]
  <2>1. p_pgrp[q] \in Pids /\ pg_session[p_pgrp[q]] # 0
    BY Parents
  <2>2. p_pgrp'[q] = IF q = m THEN target ELSE p_pgrp[q]
    BY <1>4, <1>7
  <2>3. p_pgrp'[q] \in Pids /\ p_pgrp'[q] \notin removed
    BY <1>5, <1>8, <2>1, <2>2
  <2> QED  BY <1>3, <1>4, <1>8, <2>1, <2>3
<1>10. pg_session'[0] = sess[0] /\ sess[0] = pg_session[0] /\ p_pgrp[0] = 0 /\ p_pgrp'[0] = 0
  <2>1. 0 \notin removed
    BY <1>4, <1>5
  <2> QED  BY <1>3, <1>4, <1>7, <1>8, <2>1 DEF JobsOK
<1>11. ASSUME NEW q \in Procs
       PROVE  /\ p_parent[q] # q
              /\ sess[p_pgrp[p_parent[q]]] = pg_session[p_pgrp[p_parent[q]]]
              /\ pg_session'[p_pgrp'[p_parent[q]]] = sess[p_pgrp'[p_parent[q]]]
              /\ p_pgrp'[p_parent[q]] = IF p_parent[q] = m THEN target ELSE p_pgrp[p_parent[q]]
  <2>1. p_parent[q] # q
    BY DEF JobsOK
  <2>2. CASE p_parent[q] = 0
    BY <1>4, <1>10, <2>1, <2>2
  <2>3. CASE p_parent[q] \in Procs
    BY <1>4, <1>7, <1>9, <2>1, <2>3
  <2> QED  BY <2>2, <2>3, Parents
<1>12. ASSUME NEW g \in Pids \ miscounted', g \notin removed
       PROVE  pg_jobc'[g] = Cardinality(Qualifying(g)')
  <2>1. PICK A, B : /\ A = Affected(m, old, sess, g) \ ZombiesCounted(m, old, sess, g)
                    /\ B = Affected(m, target, sess, g) \ ZombiesCounted(m, target, sess, g)
    OBVIOUS
  <2>2. /\ g \notin miscounted
        /\ Cardinality(ZombiesCounted(m, target, sess, g))
             = Cardinality(ZombiesCounted(m, old, sess, g))
    BY <1>2, <1>3, <1>12
  <2>3. PICK Q, R : Q = Qualifying(g) /\ R = Qualifying(g)'
    OBVIOUS
  <2>4. \A q : q \in Q <=> Counts(q, g)
    BY <2>3, QualifyingCounts
  <2>5. \A q : q \in R <=> Counts(q, g)'
    BY <2>3, QualifyingLater
  <2>6. g \in 0 .. PidMax /\ pg_session'[g] = sess[g]
    BY <1>3, <1>4, <1>12
  <2>7. ASSUME NEW q, NEW pg
        PROVE  q \in Affected(m, pg, sess, g) \ ZombiesCounted(m, pg, sess, g) <=>
                 /\ q \in Procs /\ ~ Left(q)
                 /\ \/ /\ q = m /\ g = pg /\ p_pgrp[p_parent[m]] # g
                       /\ sess[p_pgrp[p_parent[m]]] = sess[g]
                    \/ p_parent[q] = m /\ p_pgrp[q] = g /\ g # pg /\ sess[g] = sess[pg]
    <3>1. q \in Affected(m, pg, sess, g) <=>
            \/ q = m /\ g = pg /\ same_session_p(p_pgrp[p_parent[m]], pg, sess)
            \/ q \in Procs /\ p_parent[q] = m /\ p_pgrp[q] = g /\ same_session_p(g, pg, sess)
      BY DEF Affected, Children
    <3>2. q \in ZombiesCounted(m, pg, sess, g) <=>
            q \in Affected(m, pg, sess, g) /\ p_state[q] = "zombie"
      BY DEF ZombiesCounted
    <3>3. q \in Procs => (Left(q) <=> p_state[q] = "zombie")
      BY <1>4
    <3> QED  BY <3>1, <3>2, <3>3 DEF same_session_p
  <2>8. ASSUME NEW q \in Procs
        PROVE  /\ q \in A => q \in Q
               /\ q \in B => q \notin Q \/ q \in A
               /\ q \in R <=> (q \in Q /\ q \notin A) \/ q \in B
    <3>1. p_pgrp'[q] = (IF q = m THEN target ELSE p_pgrp[q]) /\ (Left(q)' <=> Left(q))
      BY <1>4, <1>7
    <3>2. /\ sess[old] = pg_session[old] /\ p_pgrp[m] = old
          /\ p_pgrp[q] = g => sess[g] = pg_session[g]
      BY <1>1, <1>9
    <3>3. q \in R <=> /\ p_pgrp'[q] = g /\ ~ Left(q)
                      /\ p_pgrp'[p_parent[q]] # g /\ sess[p_pgrp'[p_parent[q]]] = sess[g]
      BY <1>11, <2>5, <2>6, <3>1 DEF Counts
    <3>4. q \in Q <=> /\ p_pgrp[q] = g /\ ~ Left(q)
                      /\ p_pgrp[p_parent[q]] # g /\ sess[p_pgrp[p_parent[q]]] = sess[g]
      BY <1>11, <2>4, <3>2 DEF Counts
    <3>5. CASE q = m
      BY <1>8, <1>11, <2>1, <2>7, <3>1, <3>2, <3>3, <3>4, <3>5
    <3>6. CASE q # m /\ p_parent[q] = m
      BY <1>8, <1>11, <2>1, <2>7, <3>1, <3>2, <3>3, <3>4, <3>6
    <3>7. CASE q # m /\ p_parent[q] # m
      BY <1>11, <2>1, <2>7, <3>1, <3>3, <3>4, <3>7
    <3> QED  BY <3>5, <3>6, <3>7
  <2>9. Exchanged(Q, A, B, R)
    <3>1. \A q : q \in A \/ q \in B \/ q \in Q \/ q \in R => q \in Procs
      BY <2>1, <2>4, <2>5, <2>7 DEF Counts
    <3> QED  BY <2>8, <3>1 DEF Exchanged
  <2>10. pg_jobc[g] = Cardinality(Q)
    BY <1>12, <2>2, <2>3 DEF JobsOK
  <2>11. pgrp_jobc_leave(m, old, sess, pgrp_jobc_enter(m, target, sess, pg_jobc))[g]
           = Cardinality(R)
    BY <1>4, <2>1, <2>2, <2>3, <2>9, <2>10, CounterMoves
  <2> QED  BY <1>2, <1>3, <1>12, <2>3, <2>11
<1>13. ASSUME NEW g \in Pids, g \in removed
       PROVE  pg_jobc'[g] = Cardinality(Qualifying(g)')
  <2>1. g = old /\ pg_jobc'[g] = 0
    BY <1>3, <1>5, <1>13
  <2>2. Qualifying(g)' = {}
    <3>1. \A q : q \in Qualifying(g)' <=> Counts(q, g)'
      BY QualifyingLater
    <3>2. \A q \in Procs : p_pgrp'[q] # g
      BY <1>4, <1>5, <1>7, <1>8, <1>13, <2>1
    <3> QED  BY <3>1, <3>2 DEF Counts
  <2> QED  BY <2>1, <2>2, FS_EmptySet
<1>14. \A q \in Procs' : p_parent'[q] # q
  BY DEF JobsOK
<1> QED  BY <1>10, <1>12, <1>13, <1>14 DEF JobsOK

LEMMA MoveJobs ==
  ASSUME IInv, JobsOK, NEW p \in Pids, NEW m, NEW target \in Pids, NEW S,
         NEW sess, NEW count, NEW leader, NEW orphans,
         Moves(p, m, target, S, sess, count, leader, orphans)
  PROVE  JobsOK'
<1>1. /\ m \in Procs /\ S \in Pids
      /\ Entering(m, target, S, sess, count, leader)
      /\ _pgrp_enter(m, target, sess, count, leader)
      /\ Syscall(p) /\ all_proc = 0
      /\ ContinueAndWake(StoppedIn(orphans), {}, p, "user")
      /\ UNCHANGED p_parent
  BY DEF Moves, treeVars
<1>2. Procs' = Procs /\ \A q \in Pids : Left(q)' <=> Left(q)
  <2>1. PICK D : D = StoppedIn(orphans)
    OBVIOUS
  <2>2. D \in SUBSET Pids /\ \A q \in D : p_state[q] = "stopped"
    BY <2>1 DEF StoppedIn, Stopped, Procs
  <2> QED  BY <1>1, <2>1, <2>2, CallStays
<1>3. \A q \in Pids : Left(q) <=> p_state[q] = "zombie"
  BY <1>1, LeftAreZombies DEF IInv
<1> QED  BY <1>1, <1>2, <1>3, EnterJobs DEF IInv

LEMMA WaitReapJobs ==
  ASSUME IInv, JobsOK, NEW p \in Pids, NEW c \in Pids, WaitReap(p, c)
  PROVE  JobsOK'
<1>1. /\ p_state[c] = "zombie" /\ pgrp_leave(c) /\ pc[p] = "look"
      /\ p_state' = [p_state EXCEPT ![c] = "none"]
      /\ p_parent' = [p_parent EXCEPT ![c] = 0]
      /\ pc' = [pc EXCEPT ![p] = "user", ![c] = "none"]
  BY DEF WaitReap, Forget
<1>2. p_state[p] = "normal" /\ c # InitPid
  BY <1>1 DEF IInv, LifeOK, StatesAt
<1>3. /\ \A q \in Pids : pc'[q] = IF q = c THEN "none" ELSE IF q = p THEN "user" ELSE pc[q]
      /\ \A q \in Pids : p_state'[q] = IF q = c THEN "none" ELSE p_state[q]
  BY <1>1 DEF IInv, TypeOK, PgrpTypeOK
<1>4. c \in Procs \ {InitPid} /\ Left(c)
  BY <1>1, <1>2 DEF Procs, Left
<1>5. ASSUME NEW q \in Pids, q # c PROVE Left(q)' <=> Left(q)
  <2>1. p_state'[q] = p_state[q] /\ pc'[q] = IF q = p THEN "user" ELSE pc[q]
    BY <1>3, <1>5
  <2> QED  BY <1>1, <2>1 DEF Left
<1> QED  BY <1>1, <1>4, <1>5, JobsLeave DEF IInv

LEMMA ExitReapJobs ==
  ASSUME IInv, JobsOK, NEW p \in Pids, ExitReap(p)
  PROVE  JobsOK'
<1>1. /\ pc[p] = "reap" /\ pgrp_leave(p) /\ Goto(p, "none")
      /\ p_state' = [p_state EXCEPT ![p] = "none"]
      /\ p_parent' = [p_parent EXCEPT ![p] = 0]
  BY DEF ExitReap, Forget
<1>2. p_state[p] = "dying" /\ p # InitPid
  BY <1>1 DEF IInv, LifeOK, StatesAt
<1>3. /\ \A q \in Pids : pc'[q] = IF q = p THEN "none" ELSE pc[q]
      /\ \A q \in Pids : p_state'[q] = IF q = p THEN "none" ELSE p_state[q]
  BY <1>1 DEF IInv, TypeOK, PgrpTypeOK, Goto
<1>4. p \in Procs \ {InitPid} /\ Left(p)
  BY <1>1, <1>2 DEF Procs, Left
<1>5. \A q \in Pids : q # p => (Left(q)' <=> Left(q))
  BY <1>3 DEF Left
<1> QED  BY <1>1, <1>4, <1>5, JobsLeave DEF IInv

\* A step of process p alone, which neither leaves nor ends.
Apart(p) ==
  /\ UNCHANGED <<treeVars, groupVars>>
  /\ pc[p] \notin {"none", "notify", "zombie", "reap"}
  /\ \E to \in Pc \ {"none", "notify", "zombie", "reap"} : Goto(p, to)
  /\ \A q \in Pids : p_state'[q] = p_state[q] \/ (q = p /\ p_state'[q] \in {"stopped", "dying"})

LEMMA ApartJobs ==
  ASSUME IInv, JobsOK, NEW p \in Pids, Apart(p)
  PROVE  JobsOK'
<1>1. PICK to \in Pc \ {"none", "notify", "zombie", "reap"} : Goto(p, to)
  BY DEF Apart
<1>2. \A q \in Pids : pc'[q] = IF q = p THEN to ELSE pc[q]
  BY <1>1 DEF IInv, TypeOK, Goto
<1>3. p_state[p] \notin {"none", "zombie"}
  BY DEF Apart, IInv, LifeOK, StatesAt
<1>4. ASSUME NEW q \in Pids
      PROVE  (p_state'[q] = "none" <=> p_state[q] = "none") /\ (Left(q)' <=> Left(q))
  <2>1. CASE q = p
    BY <1>1, <1>2, <1>3, <2>1 DEF Apart, Left
  <2>2. CASE q # p
    BY <1>2, <2>2 DEF Apart, Left
  <2> QED  BY <2>1, <2>2
<1> QED  BY <1>4, JobsAside DEF Apart

LEMMA WaitApart ==
  ASSUME IInv, NEW p \in Pids,
         WaitStart(p) \/ WaitScan(p) \/ WaitNone(p) \/ WaitSleep(p) \/ WaitWoken(p)
  PROVE  Apart(p)
<1>1. CASE WaitStart(p)
  <2>1. Goto(p, "scan") /\ pc[p] = "user" /\ UNCHANGED <<p_state, treeVars, groupVars>>
    BY <1>1 DEF WaitStart, Syscall
  <2> QED  BY <2>1 DEF Apart, Pc
<1>2. CASE WaitScan(p)
  <2>1. /\ Goto(p, "user") \/ Goto(p, "look")
        /\ pc[p] = "scan" /\ UNCHANGED <<p_state, treeVars, groupVars>>
    BY <1>2 DEF WaitScan, Return
  <2> QED  BY <2>1 DEF Apart, Pc
<1>3. CASE WaitNone(p)
  <2>1. /\ Goto(p, "user") \/ Goto(p, "unsleep")
        /\ pc[p] = "look" /\ UNCHANGED <<p_state, treeVars, groupVars>>
    BY <1>3 DEF WaitNone, Return
  <2> QED  BY <2>1 DEF Apart, Pc
<1>4. CASE WaitSleep(p)
  <2>1. /\ Goto(p, "scan") \/ Goto(p, "asleep")
        /\ pc[p] = "unsleep" /\ UNCHANGED <<p_state, treeVars, groupVars>>
    BY <1>4 DEF WaitSleep
  <2> QED  BY <2>1 DEF Apart, Pc
<1>5. CASE WaitWoken(p)
  <2>1. Goto(p, "scan") /\ pc[p] = "woken" /\ UNCHANGED <<p_state, treeVars, groupVars>>
    BY <1>5 DEF WaitWoken
  <2> QED  BY <2>1 DEF Apart, Pc
<1> QED  BY <1>1, <1>2, <1>3, <1>4, <1>5

LEMMA WaitLookApart ==
  ASSUME IInv, NEW p \in Pids, NEW c \in Pids, WaitLook(p, c)
  PROVE  Apart(p)
<1>1. /\ Return(p) \/ UNCHANGED pc
      /\ pc[p] = "look" /\ UNCHANGED <<p_state, treeVars, groupVars>>
  BY DEF WaitLook
<1>2. Goto(p, "user") \/ Goto(p, "look")
  BY <1>1 DEF Return, Goto, IInv, TypeOK
<1> QED  BY <1>1, <1>2 DEF Apart, Pc

LEMMA KillJobs ==
  ASSUME IInv, JobsOK, NEW p \in Pids, NEW targets \in SUBSET Procs, NEW sig, Kill(p, targets, sig)
  PROVE  JobsOK'
<1>1. PICK D \in SUBSET targets :
        /\ \A q \in D : p_state[q] = "stopped"
        /\ Syscall(p) /\ ContinueAndWake(D, {}, p, "user")
        /\ UNCHANGED <<treeVars, groupVars>>
  <2>1. PICK accepting : /\ accepting \subseteq targets
                         /\ ContinueAndWake(IF sigprop_cont(sig) THEN Stopped(accepting) ELSE {},
                                            {}, p, "user")
    BY DEF Kill
  <2>2. PICK D : D = IF sigprop_cont(sig) THEN Stopped(accepting) ELSE {}
    OBVIOUS
  <2>3. D \in SUBSET targets /\ (\A q \in D : p_state[q] = "stopped")
        /\ ContinueAndWake(D, {}, p, "user")
    BY <2>1, <2>2 DEF Stopped
  <2>4. Syscall(p) /\ UNCHANGED <<treeVars, groupVars>>
    BY DEF Kill
  <2> QED  BY <2>3, <2>4
<1>2. D \in SUBSET Pids
  BY DEF Procs
<1>3. Procs' = Procs /\ \A q \in Pids : Left(q)' <=> Left(q)
  BY <1>1, <1>2, CallStays
<1>4. \A q \in Pids : p_state'[q] = "none" <=> p_state[q] = "none"
  BY <1>3 DEF Procs
<1> QED  BY <1>1, <1>3, <1>4, JobsAside

LEMMA SignalJobs ==
  ASSUME IInv, JobsOK, NEW p \in Pids,
         SigactionChld(p) \/ Exit(p) \/ SigDone(p) \/ StopThread(p) \/ SigCheck(p)
  PROVE  JobsOK'
<1>1. CASE SigactionChld(p)
  <2>1. UNCHANGED <<p_state, treeVars, groupVars, pc>>
    BY <1>1 DEF SigactionChld
  <2>2. \A q \in Pids : /\ p_state'[q] = "none" <=> p_state[q] = "none"
                        /\ Left(q)' <=> Left(q)
    BY <2>1 DEF Left
  <2> QED  BY <2>1, <2>2, JobsAside
<1>2. ASSUME Die(p), pc[p] \in {"user", "check"}, UNCHANGED <<treeVars, groupVars>>
      PROVE  JobsOK'
  <2>1. Goto(p, "dying") /\ p_state' = [p_state EXCEPT ![p] = "dying"]
    BY <1>2 DEF Die
  <2>2. \A q \in Pids : p_state'[q] = p_state[q] \/ (q = p /\ p_state'[q] = "dying")
    BY <2>1 DEF IInv, TypeOK, PgrpTypeOK
  <2>3. Apart(p)
    BY <1>2, <2>1, <2>2 DEF Apart, Pc
  <2> QED  BY <2>3, ApartJobs
<1>3. CASE Exit(p)
  BY <1>2, <1>3 DEF Exit, Syscall
<1>4. CASE SigDone(p)
  <2>1. Apart(p)
    BY <1>4 DEF SigDone, Apart, Pc
  <2> QED  BY <2>1, ApartJobs
<1>5. CASE StopThread(p)
  <2>1. /\ Goto(p, "stopped") \/ Goto(p, "check")
        /\ pc[p] = "stop" /\ UNCHANGED <<p_state, treeVars, groupVars>>
    BY <1>5 DEF StopThread
  <2>2. Apart(p)
    BY <2>1 DEF Apart, Pc
  <2> QED  BY <2>2, ApartJobs
<1>6. ASSUME proc_stop(p), pc[p] \in {"user", "check"}, UNCHANGED <<treeVars, groupVars>>
      PROVE  JobsOK'
  <2>1. \A q \in Pids :
          /\ p_state'[q] = IF q = p THEN "stopped" ELSE p_state[q]
          /\ pc'[q] = pc[q] \/ (q = p /\ pc'[q] = "stop") \/ (pc[q] = "asleep" /\ pc'[q] = "woken")
    BY <1>6 DEF proc_stop, IInv, TypeOK, PgrpTypeOK
  <2>2. p_state[p] = "normal" 
    BY <1>6 DEF IInv, LifeOK, StatesAt
  <2>3. \A q \in Pids : /\ p_state'[q] = "none" <=> p_state[q] = "none"
                        /\ Left(q)' <=> Left(q)
    BY <1>6, <2>1, <2>2 DEF Left
  <2> QED  BY <1>6, <2>3, JobsAside
<1>7. CASE SigCheck(p)
  <2>1. pc[p] \in {"user", "check"} /\ UNCHANGED <<treeVars, groupVars>>
    BY <1>7 DEF SigCheck
  <2>2. CASE Die(p)
    BY <1>2, <2>1, <2>2
  <2>3. CASE proc_stop(p)
    BY <1>6, <2>1, <2>3
  <2>4. CASE Goto(p, "check") /\ UNCHANGED p_state
    <3>1. Apart(p)
      BY <2>1, <2>4 DEF Apart, Pc
    <3> QED  BY <3>1, ApartJobs
  <2> QED  BY <1>7, <2>2, <2>3, <2>4 DEF SigCheck
<1> QED  BY <1>1, <1>3, <1>4, <1>5, <1>7

LEMMA ExitEndJobs ==
  ASSUME IInv, JobsOK, NEW p \in Pids, ExitNotify(p) \/ ExitZombie(p)
  PROVE  JobsOK'
<1>1. CASE ExitNotify(p)
  <2>1. PICK to \in {"reap", "zombie"} : ContinueAndWake({}, ToldOnExit(p), p, to)
    BY <1>1 DEF ExitNotify
  <2>2. pc[p] = "notify" /\ UNCHANGED <<treeVars, groupVars>>
    BY <1>1 DEF ExitNotify
  <2>3. {} \in SUBSET Pids /\ ToldOnExit(p) \in SUBSET (0 .. PidMax) /\ to \in Pc
    BY DEF ToldOnExit, IInv, TypeOK, PgrpTypeOK, Pc
  <2>4. Continued({}, ToldOnExit(p), p, to)
    BY <2>1, <2>3, ContinueFacts DEF IInv
  <2>5. /\ Procs' = Procs
        /\ \A q \in Pids : q # p => (Left(q)' <=> Left(q))
    BY <2>3, <2>4, ContinueStays DEF IInv
  <2>6. pc'[p] = to
    BY <2>4 DEF Continued
  <2>7. Left(p)' <=> Left(p)
    BY <2>2, <2>6 DEF Left
  <2>8. \A q \in Pids : p_state'[q] = "none" <=> p_state[q] = "none"
    BY <2>5 DEF Procs
  <2> QED  BY <2>2, <2>5, <2>7, <2>8, JobsAside
<1>2. CASE ExitZombie(p)
  <2>1. /\ pc[p] = "zombie" /\ Goto(p, "none") /\ p_state' = [p_state EXCEPT ![p] = "zombie"]
        /\ UNCHANGED <<treeVars, groupVars>>
    BY <1>2 DEF ExitZombie
  <2>2. /\ \A q \in Pids : pc'[q] = IF q = p THEN "none" ELSE pc[q]
        /\ \A q \in Pids : p_state'[q] = IF q = p THEN "zombie" ELSE p_state[q]
    BY <2>1 DEF IInv, TypeOK, PgrpTypeOK, Goto
  <2>3. p_state[p] = "dying"
    BY <2>1 DEF IInv, LifeOK, StatesAt
  <2>4. \A q \in Pids : /\ p_state'[q] = "none" <=> p_state[q] = "none"
                        /\ Left(q)' <=> Left(q)
    BY <2>1, <2>2, <2>3 DEF Left
  <2> QED  BY <2>1, <2>4, JobsAside
<1> QED  BY <1>1, <1>2

LEMMA JobsInit ==
  ASSUME Init
  PROVE  JobsOK
<1>1. /\ p_state = [p \in Pids |-> IF p = InitPid THEN "normal" ELSE "none"]
      /\ p_parent = [p \in Pids |-> 0]
      /\ p_pgrp = [p \in 0 .. PidMax |-> IF p = InitPid THEN InitPid ELSE 0]
      /\ pg_session = [g \in 0 .. PidMax |-> IF g = InitPid THEN InitPid ELSE 0]
      /\ pg_jobc = [g \in Pids |-> 0]
  BY DEF Init, PgrpInit
<1>2. /\ InitPid \in Pids /\ InitPid \in 0 .. PidMax /\ InitPid # 0 /\ 0 \in 0 .. PidMax
  BY PgrpAssumption DEF InitPid, Pids
<1>3. Procs = {InitPid} /\ p_parent[InitPid] = 0
  BY <1>1, <1>2 DEF Procs
<1>4. p_pgrp[0] = 0 /\ pg_session[0] = 0 /\ p_pgrp[InitPid] = InitPid /\ pg_session[InitPid] = InitPid
  BY <1>1, <1>2
<1>5. ASSUME NEW g \in Pids PROVE pg_jobc[g] = Cardinality(Qualifying(g))
  <2>1. \A q : q \in Qualifying(g) <=> Counts(q, g)
    BY QualifyingCounts
  <2>2. Qualifying(g) = {}
    BY <1>2, <1>3, <1>4, <2>1 DEF Counts
  <2> QED  BY <1>1, <2>2, FS_EmptySet
<1> QED  BY <1>2, <1>3, <1>4, <1>5 DEF JobsOK

LEMMA JobsNext ==
  ASSUME IInv, JobsOK, [Next]_vars
  PROVE  JobsOK'
<1>1. ASSUME NEW p \in Pids, Call(p) PROVE JobsOK'
  <2>1. CASE \E c \in Pids : Fork(p, c)
    BY <2>1, ForkJobs
  <2>2. CASE \E target, pgid \in Pids : Setpgid(p, target, pgid)
    BY <2>2, SetpgidMoves, MoveJobs
  <2>3. CASE Setsid(p)
    BY <2>3, SetsidMoves, MoveJobs
  <2>4. CASE \E target \in Procs, sig \in Kills : Kill(p, {target}, sig)
    <3>1. PICK target \in Procs, sig \in Kills : Kill(p, {target}, sig)
      BY <2>4
    <3>2. {target} \in SUBSET Procs
      OBVIOUS
    <3> QED  BY <3>1, <3>2, KillJobs
  <2>5. CASE \E g \in Pids, sig \in Kills : pg_session[g] # 0 /\ Kill(p, Members(g), sig)
    <3>1. PICK g \in Pids, sig \in Kills : Kill(p, Members(g), sig)
      BY <2>5
    <3>2. Members(g) \in SUBSET Procs
      BY DEF Members
    <3> QED  BY <3>1, <3>2, KillJobs
  <2>6. CASE SigactionChld(p) \/ Exit(p)
    BY <2>6, SignalJobs
  <2>7. CASE WaitStart(p)
    BY <2>7, WaitApart, ApartJobs
  <2> QED  BY <1>1, <2>1, <2>2, <2>3, <2>4, <2>5, <2>6, <2>7 DEF Call
<1>2. ASSUME NEW p \in Pids, Go(p) PROVE JobsOK'
  <2>1. CASE \E c \in Pids : WaitReap(p, c) \/ WaitLook(p, c)
    BY <2>1, WaitReapJobs, WaitLookApart, ApartJobs
  <2>2. CASE WaitScan(p) \/ WaitNone(p) \/ WaitSleep(p) \/ WaitWoken(p)
    BY <2>2, WaitApart, ApartJobs
  <2>3. CASE SigCheck(p) \/ SigDone(p) \/ StopThread(p)
    BY <2>3, SignalJobs
  <2>4. CASE ExitLeave(p) \/ ExitReap(p)
    BY <2>4, ExitLeaveJobs, ExitReapJobs
  <2>5. CASE ExitNotify(p) \/ ExitZombie(p)
    BY <2>5, ExitEndJobs
  <2> QED  BY <1>2, <2>1, <2>2, <2>3, <2>4, <2>5 DEF Go
<1>3. CASE UNCHANGED vars
  <2>1. UNCHANGED <<p_state, treeVars, groupVars, pc>>
    BY <1>3 DEF vars
  <2>2. \A q \in Pids : /\ p_state'[q] = "none" <=> p_state[q] = "none"
                        /\ Left(q)' <=> Left(q)
    BY <2>1 DEF Left
  <2> QED  BY <2>1, <2>2, JobsAside
<1>4. CASE Next
  <2>1. PICK p \in Pids : Call(p) \/ Go(p)
    BY <1>4 DEF Next
  <2> QED  BY <1>1, <1>2, <2>1
<1> QED  BY <1>3, <1>4

(***************************************************************************)
(* JobcSafe: pg_jobc is the number of members that qualify the group for   *)
(* job control, after any calls of fork, exit, setpgid and setsid, unless  *)
(* pgrp_jobc_enter or pgrp_jobc_leave has counted a zombie, or init has    *)
(* adopted a member from within its own session.                           *)
(***************************************************************************)
THEOREM JobcSafe == Spec => []JobcExact
<1>1. Init => JobsOK
  BY JobsInit
<1>2. IInv /\ JobsOK /\ [Next]_vars => JobsOK'
  BY JobsNext
<1>3. JobsOK => JobcExact
  BY DEF JobsOK, JobcExact
<1> QED  BY <1>1, <1>2, <1>3, Invariance, PTL DEF Spec
=============================================================================
