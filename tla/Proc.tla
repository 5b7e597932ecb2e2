-------------------------------- MODULE Proc --------------------------------
(***************************************************************************)
(* Life of processes: fork, exit, wait4, stopping and continuing by        *)
(* signals (sys/kern/proc.c, fork.c, signal.c, thread.c).                  *)
(*                                                                         *)
(* A process has one thread.  A step is a section under all_proc_mtx, or   *)
(* under process locks only; a section that holds all_proc_mtx while       *)
(* others may act under process locks takes several steps (all_proc is the *)
(* owner).  Signals are SIGHUP, SIGKILL, SIGSTOP, SIGTSTP and SIGCONT with *)
(* their default actions, and SIGCHLD, ignored by default or with SIG_IGN. *)
(* init does not die: it ignores SIGHUP and is not sent other signals.     *)
(***************************************************************************)
EXTENDS Pgrp

CONSTANTS
  WaitPids,    \* first arguments of wait4
  WaitOptions, \* third arguments: sets of options
  Kills,       \* signals that processes send
  MaxOps       \* bound: system calls of all processes

Options == {"WNOHANG", "WUNTRACED", "WCONTINUED"}

ASSUME ProcAssumption ==
  /\ WaitPids \subseteq -PidMax .. PidMax
  /\ WaitOptions \subseteq SUBSET Options
  /\ Kills \subseteq {"KILL", "STOP", "TSTP", "CONT"}
  /\ MaxOps \in Nat

VARIABLES
  state_changed, \* processes with PF_STATE_CHANGED
  child_changed, \* processes with PF_CHILD_STATE_CHANGED
  td_sigpend,    \* [Pids -> SUBSET Pending]
  chld_ignored,  \* processes that have set SIGCHLD to SIG_IGN
  td_stopping,   \* threads with TDF_STOPPING
  all_proc,      \* owner of all_proc_mtx, or 0
  pc,
  w_pid,         \* arguments of the current wait4
  w_options,
  w_left,        \* children that the current scan has yet to look at
  ops            \* system calls so far

waitVars == <<w_pid, w_options, w_left>>
sigVars == <<td_sigpend, chld_ignored>>
vars == <<p_state, treeVars, groupVars, state_changed, child_changed, sigVars,
          td_stopping, all_proc, pc, waitVars, ops>>

StopSignals == {"STOP", "TSTP"}
Pending == {"HUP", "KILL"} \cup StopSignals

(***************************************************************************)
(*  "user"    in user mode, or anywhere else between the sections below    *)
(*  "check"   in sig_check        "stop"     in proc_stop, unlocked        *)
(*  "stopped" TDS_STOPPED         "scan"     do_waitpid, before the scan   *)
(*  "look"    in the scan         "unsleep"  before the decision to sleep  *)
(*  "asleep"  in cv_wait          "woken"    woken up in cv_wait           *)
(*  "dying"   proc_exit, before it takes all_proc_mtx                      *)
(*  "notify"  before it tells the parent                                   *)
(*  "zombie", "reap"  before it turns into a zombie, reaping itself or not *)
(***************************************************************************)
Pc == {"none", "user", "check", "stop", "stopped", "scan", "look", "unsleep",
       "asleep", "woken", "dying", "notify", "zombie", "reap"}

Goto(p, to) == pc' = [pc EXCEPT ![p] = to]

Syscall(p) == pc[p] = "user" /\ ops < MaxOps /\ ops' = ops + 1

Init ==
  /\ PgrpInit
  /\ state_changed = {} /\ child_changed = {}
  /\ td_sigpend = [p \in Pids |-> {}]
  /\ chld_ignored = {}
  /\ td_stopping = {}
  /\ all_proc = 0
  /\ pc = [p \in Pids |-> IF p = InitPid THEN "user" ELSE "none"]
  /\ w_pid = [p \in Pids |-> -1]
  /\ w_options = [p \in Pids |-> {}]
  /\ w_left = [p \in Pids |-> {}]
  /\ ops = 0

(***************************************************************************)
(* Waking up parents and continuing processes.                             *)
(***************************************************************************)
\* proc_wakeup_parent: those that get PF_CHILD_STATE_CHANGED.
Notified(parents) == parents

\* Variant: a thread that has not stopped yet stops all the same.
NotStopping_Late(continued) == td_stopping

\* thread_continue for a thread that has not got as far as to stop.
NotStopping(continued) == td_stopping \ continued

\* proc_continue of the processes in continued and proc_wakeup_parent of
\* their parents and of those in others; the actor p goes to pc to.
ContinueAndWake(continued, others, p, to) ==
  LET parents == ({p_parent[c] : c \in continued} \cup others) \ {0}
  IN /\ p_state' = [q \in Pids |->
           IF q \in continued THEN "normal" ELSE p_state[q]]
     /\ state_changed' = state_changed \cup continued
     /\ child_changed' = child_changed \cup Notified(parents)
     /\ td_stopping' = NotStopping(continued)
     /\ pc' = [q \in Pids |->
           CASE q = p -> to
             [] q # p /\ q \in continued \ td_stopping -> "check"
             [] q # p /\ q \in parents /\ pc[q] = "asleep" -> "woken"
             [] OTHER -> pc[q]]

\* The effect of sig_kill on pending signals; SIGCONT is ignored by default.
sigprop_cont(sig) == sig \in {"CONT", "KILL"}

SigPut(pending, sig) ==
  (IF sigprop_cont(sig) THEN pending \ StopSignals ELSE pending)
    \cup ({sig} \cap Pending)

sig_ignore_ttystop(p, sig) == sig = "TSTP" /\ pg_jobc[p_pgrp[p]] = 0

Stopped(targets) == {q \in targets : p_state[q] = "stopped"}

\* pgrp_maybe_orphan: the members of groups are sent SIGHUP and SIGCONT.
Hangup(groups) ==
  LET targets == {q \in Procs : p_pgrp[q] \in groups /\ proc_is_alive(q)}
  IN td_sigpend' = [q \in Pids |->
       IF q \notin targets THEN td_sigpend[q]
       ELSE SigPut(IF q = InitPid THEN td_sigpend[q] ELSE SigPut(td_sigpend[q], "HUP"),
                   "CONT")]

StoppedIn(groups) == Stopped({q \in Procs : p_pgrp[q] \in groups})

(***************************************************************************)
(* System calls.                                                           *)
(***************************************************************************)
Fork(p, c) ==
  /\ Syscall(p)
  /\ all_proc = 0
  /\ ~ pid_is_taken(c)
  /\ p_state' = [p_state EXCEPT ![c] = "normal"]
  /\ p_parent' = [p_parent EXCEPT ![c] = p]
  /\ p_pgrp' = [p_pgrp EXCEPT ![c] = p_pgrp[p]]
  /\ chld_ignored' = IF p \in chld_ignored THEN chld_ignored \cup {c}
                     ELSE chld_ignored
  /\ Goto(c, "user")
  /\ UNCHANGED <<pg_session, pg_jobc, s_count, s_leader, miscounted, state_changed,
                 child_changed, td_sigpend, td_stopping, all_proc, waitVars>>

Setpgid(p, target, pgid) ==
  /\ Syscall(p)
  /\ all_proc = 0
  /\ pgrp_enter(p, target, pgid)
  /\ LET orphans == EnterOrphans(target, pgid, SetpgidSessions(p, pgid))
     IN Hangup(orphans) /\ ContinueAndWake(StoppedIn(orphans), {}, p, "user")
  /\ UNCHANGED <<treeVars, chld_ignored, all_proc, waitVars>>

Setsid(p) ==
  /\ Syscall(p)
  /\ all_proc = 0
  /\ session_enter(p)
  /\ LET orphans == EnterOrphans(p, p, SetsidSessions(p))
     IN Hangup(orphans) /\ ContinueAndWake(StoppedIn(orphans), {}, p, "user")
  /\ UNCHANGED <<treeVars, chld_ignored, all_proc, waitVars>>

\* proc_sendsig: targets are a process or the members of a group.
Kill(p, targets, sig) ==
  /\ Syscall(p)
  /\ all_proc = 0
  /\ LET accepting == {q \in targets \ {InitPid} :
                         proc_is_alive(q) /\ ~ sig_ignore_ttystop(q, sig)}
     IN /\ td_sigpend' = [q \in Pids |->
             IF q \in accepting THEN SigPut(td_sigpend[q], sig) ELSE td_sigpend[q]]
        /\ ContinueAndWake(
             IF sigprop_cont(sig) THEN Stopped(accepting) ELSE {}, {}, p, "user")
  /\ UNCHANGED <<treeVars, groupVars, chld_ignored, all_proc, waitVars>>

\* do_sigaction for SIGCHLD.
SigactionChld(p) ==
  /\ Syscall(p)
  /\ chld_ignored' = IF p \in chld_ignored THEN chld_ignored \ {p}
                     ELSE chld_ignored \cup {p}
  /\ UNCHANGED <<p_state, treeVars, groupVars, state_changed, child_changed,
                 td_sigpend, td_stopping, all_proc, pc, waitVars>>

(***************************************************************************)
(* do_waitpid.                                                             *)
(***************************************************************************)
WaitStart(p) ==
  /\ Syscall(p)
  /\ child_changed' = child_changed \ {p}
  /\ \E pid \in WaitPids, options \in WaitOptions :
       /\ w_pid' = [w_pid EXCEPT ![p] = pid]
       /\ w_options' = [w_options EXCEPT ![p] = options]
  /\ Goto(p, "scan")
  /\ UNCHANGED <<p_state, treeVars, groupVars, state_changed, sigVars, td_stopping,
                 all_proc, w_left>>

child_matches(p, c) ==
  \/ w_pid[p] \in {c, -1}
  \/ w_pid[p] = 0 /\ p_pgrp[c] = p_pgrp[p]
  \/ w_pid[p] < -1 /\ p_pgrp[c] = - w_pid[p]

\* What the scan reports: a zombie, or a change of state that was asked for.
Reportable(p, c) ==
  \/ p_state[c] = "zombie"
  \/ /\ c \in state_changed
     /\ \/ "WUNTRACED" \in w_options[p] /\ p_state[c] = "stopped"
        \/ "WCONTINUED" \in w_options[p] /\ p_state[c] = "normal"

Return(p) ==
  /\ Goto(p, "user")
  /\ w_pid' = [w_pid EXCEPT ![p] = -1]
  /\ w_options' = [w_options EXCEPT ![p] = {}]
  /\ w_left' = [w_left EXCEPT ![p] = {}]

\* Without a matching child the call returns ECHILD.
WaitScan(p) ==
  /\ pc[p] = "scan"
  /\ all_proc = 0
  /\ LET matching == {c \in Children(p) : child_matches(p, c)}
     IN IF matching = {}
        THEN Return(p) /\ UNCHANGED all_proc
        ELSE /\ all_proc' = p
             /\ Goto(p, "look")
             /\ w_left' = [w_left EXCEPT ![p] = matching]
             /\ UNCHANGED <<w_pid, w_options>>
  /\ UNCHANGED <<p_state, treeVars, groupVars, state_changed, child_changed, sigVars,
                 td_stopping, ops>>

\* Forgets process c in the state that is not the groups'.
Forget(c) ==
  /\ p_state' = [p_state EXCEPT ![c] = "none"]
  /\ p_parent' = [p_parent EXCEPT ![c] = 0]
  /\ state_changed' = state_changed \ {c}
  /\ td_sigpend' = [td_sigpend EXCEPT ![c] = {}]
  /\ chld_ignored' = chld_ignored \ {c}

\* A zombie is reaped; c is any of the children left, their order is open.
WaitReap(p, c) ==
  /\ pc[p] = "look" /\ c \in w_left[p]
  /\ p_state[c] = "zombie"
  /\ pgrp_leave(c)
  /\ Forget(c)
  /\ child_changed' = child_changed \ {c}
  /\ pc' = [pc EXCEPT ![p] = "user", ![c] = "none"]
  /\ all_proc' = 0
  /\ w_pid' = [w_pid EXCEPT ![p] = -1]
  /\ w_options' = [w_options EXCEPT ![p] = {}]
  /\ w_left' = [w_left EXCEPT ![p] = {}]
  /\ UNCHANGED <<td_stopping, ops>>

WaitLook(p, c) ==
  /\ pc[p] = "look" /\ c \in w_left[p]
  /\ p_state[c] # "zombie"
  /\ IF Reportable(p, c)
     THEN /\ state_changed' = state_changed \ {c}
          /\ Return(p)
          /\ all_proc' = 0
     ELSE /\ w_left' = [w_left EXCEPT ![p] = @ \ {c}]
          /\ UNCHANGED <<state_changed, all_proc, pc, w_pid, w_options>>
  /\ UNCHANGED <<p_state, treeVars, groupVars, child_changed, sigVars, td_stopping,
                 ops>>

WaitNone(p) ==
  /\ pc[p] = "look" /\ w_left[p] = {}
  /\ all_proc' = 0
  /\ IF "WNOHANG" \in w_options[p]
     THEN Return(p)
     ELSE Goto(p, "unsleep") /\ UNCHANGED waitVars
  /\ UNCHANGED <<p_state, treeVars, groupVars, state_changed, child_changed, sigVars,
                 td_stopping, ops>>

\* Variant: the parent goes to sleep without a look at the flag.
MustRescan_Never(p) == FALSE

MustRescan(p) == p \in child_changed

WaitSleep(p) ==
  /\ pc[p] = "unsleep"
  /\ IF MustRescan(p)
     THEN child_changed' = child_changed \ {p} /\ Goto(p, "scan")
     ELSE Goto(p, "asleep") /\ UNCHANGED child_changed
  /\ UNCHANGED <<p_state, treeVars, groupVars, state_changed, sigVars, td_stopping,
                 all_proc, waitVars, ops>>

WaitWoken(p) ==
  /\ pc[p] = "woken"
  /\ child_changed' = child_changed \ {p}
  /\ Goto(p, "scan")
  /\ UNCHANGED <<p_state, treeVars, groupVars, state_changed, sigVars, td_stopping,
                 all_proc, waitVars, ops>>

(***************************************************************************)
(* sig_check and proc_stop.                                                *)
(***************************************************************************)
\* __sigfindset: the pending signal with the lowest number.
FirstPending(set) ==
  CASE "HUP" \in set -> "HUP"
    [] "HUP" \notin set /\ "KILL" \in set -> "KILL"
    [] set \subseteq StopSignals /\ "STOP" \in set -> "STOP"
    [] OTHER -> "TSTP"

\* proc_exit up to the point where it lets go of the process lock.
Die(p) ==
  /\ p_state' = [p_state EXCEPT ![p] = "dying"]
  /\ Goto(p, "dying")
  /\ UNCHANGED <<state_changed, child_changed, td_stopping>>

\* proc_stop up to the point where it lets go of the process lock.
proc_stop(p) ==
  /\ p_state' = [p_state EXCEPT ![p] = "stopped"]
  /\ state_changed' = state_changed \cup {p}
  /\ child_changed' = child_changed \cup Notified({p_parent[p]})
  /\ td_stopping' = td_stopping \cup {p}
  /\ pc' = [q \in Pids |->
       CASE q = p -> "stop"
         [] q # p /\ q = p_parent[p] /\ pc[q] = "asleep" -> "woken"
         [] OTHER -> pc[q]]

\* An interrupt or the end of a system call makes p look at its signals.
SigCheck(p) ==
  /\ pc[p] \in {"user", "check"}
  /\ td_sigpend[p] # {}
  /\ LET sig == FirstPending(td_sigpend[p])
     IN /\ td_sigpend' = [td_sigpend EXCEPT ![p] = @ \ {sig}]
        /\ \/ sig \in {"HUP", "KILL"} /\ Die(p)
           \/ /\ sig \in StopSignals /\ ~ sig_ignore_ttystop(p, sig)
              /\ proc_stop(p)
           \/ /\ sig_ignore_ttystop(p, sig)
              /\ Goto(p, "check")
              /\ UNCHANGED <<p_state, state_changed, child_changed, td_stopping>>
  /\ UNCHANGED <<treeVars, groupVars, chld_ignored, all_proc, waitVars, ops>>

SigDone(p) ==
  /\ pc[p] = "check"
  /\ td_sigpend[p] = {}
  /\ Goto(p, "user")
  /\ UNCHANGED <<p_state, treeVars, groupVars, state_changed, child_changed, sigVars,
                 td_stopping, all_proc, waitVars, ops>>

\* proc_stop without the process lock: the thread stops unless its process
\* has been continued since.
StopThread(p) ==
  /\ pc[p] = "stop"
  /\ td_stopping' = td_stopping \ {p}
  /\ Goto(p, IF p \in td_stopping THEN "stopped" ELSE "check")
  /\ UNCHANGED <<p_state, treeVars, groupVars, state_changed, child_changed, sigVars,
                 all_proc, waitVars, ops>>

(***************************************************************************)
(* proc_exit.                                                              *)
(***************************************************************************)
Exit(p) ==
  /\ Syscall(p)
  /\ p # InitPid
  /\ Die(p)
  /\ UNCHANGED <<treeVars, groupVars, sigVars, all_proc, waitVars>>

\* Variant: init is not told that it has new children.
NewParent_Untold == {}

\* proc_reparent wakes up the new parent.
NewParent == {InitPid}

ExitLeave(p) ==
  /\ pc[p] = "dying"
  /\ all_proc = 0
  /\ all_proc' = p
  /\ GroupsOnExit(p)
  /\ proc_reparent(p)
  /\ Hangup(ExitOrphans(p))
  /\ ContinueAndWake(StoppedIn(ExitOrphans(p)), NewParent, p, "notify")
  /\ UNCHANGED <<chld_ignored, waitVars, ops>>

\* The parent that is waiting is told in any case.
ToldOnExit(p) == {p_parent[p]}

ExitNotify(p) ==
  /\ pc[p] = "notify"
  /\ ContinueAndWake({}, ToldOnExit(p), p,
                     IF p_parent[p] \in chld_ignored THEN "reap" ELSE "zombie")
  /\ UNCHANGED <<treeVars, groupVars, sigVars, all_proc, waitVars, ops>>

ExitZombie(p) ==
  /\ pc[p] = "zombie"
  /\ p_state' = [p_state EXCEPT ![p] = "zombie"]
  /\ Goto(p, "none")
  /\ all_proc' = 0
  /\ UNCHANGED <<treeVars, groupVars, state_changed, child_changed, sigVars,
                 td_stopping, waitVars, ops>>

ExitReap(p) ==
  /\ pc[p] = "reap"
  /\ pgrp_leave(p)
  /\ Forget(p)
  /\ child_changed' = child_changed \ {p}
  /\ Goto(p, "none")
  /\ all_proc' = 0
  /\ UNCHANGED <<td_stopping, waitVars, ops>>

-----------------------------------------------------------------------------
Call(p) ==
  \/ \E c \in Pids : Fork(p, c)
  \/ \E target, pgid \in Pids : Setpgid(p, target, pgid)
  \/ Setsid(p)
  \/ \E target \in Procs, sig \in Kills : Kill(p, {target}, sig)
  \/ \E g \in Pids, sig \in Kills :
       pg_session[g] # 0 /\ Kill(p, Members(g), sig)
  \/ SigactionChld(p)
  \/ WaitStart(p)
  \/ Exit(p)

\* What a process does once it has called wait4, got a signal or exited.
Go(p) ==
  \/ WaitScan(p)
  \/ \E c \in Pids : WaitReap(p, c) \/ WaitLook(p, c)
  \/ WaitNone(p) \/ WaitSleep(p) \/ WaitWoken(p)
  \/ SigCheck(p) \/ SigDone(p) \/ StopThread(p)
  \/ ExitLeave(p) \/ ExitNotify(p) \/ ExitZombie(p) \/ ExitReap(p)

Next == \E p \in Pids : Call(p) \/ Go(p)

\* The processor runs some process as long as one can go on; none is assumed
\* to make a call.
Spec == Init /\ [][Next]_vars /\ WF_vars(\E p \in Pids : Go(p))

(***************************************************************************)
(* Properties.                                                             *)
(***************************************************************************)
TypeOK ==
  /\ PgrpTypeOK
  /\ state_changed \in SUBSET Pids
  /\ child_changed \in SUBSET Pids
  /\ td_sigpend \in [Pids -> SUBSET Pending]
  /\ chld_ignored \in SUBSET Pids
  /\ td_stopping \in SUBSET Pids
  /\ all_proc \in 0 .. PidMax
  /\ pc \in [Pids -> Pc]
  /\ w_pid \in [Pids -> -PidMax .. PidMax]
  /\ w_options \in [Pids -> SUBSET Options]
  /\ w_left \in [Pids -> SUBSET Pids]
  /\ ops \in 0 .. MaxOps

\* wait4 for any child or for a given one, not for the members of a group:
\* processes move to another group without a notice to those who wait for it.
WaitsByPid(p) == w_pid[p] \in {-1} \cup Pids

(***************************************************************************)
(* NoMissedChild: a parent that sleeps in wait4 (proc.c:799) still has a   *)
(* child to wait for and none that it should report, whatever happened     *)
(* between its scan and its sleep, be it an exit, a stop, a continuation,  *)
(* the adoption of a zombie or a child that reaps itself.                  *)
(***************************************************************************)
NoMissedChild ==
  \A p \in Pids : pc[p] = "asleep" /\ WaitsByPid(p) =>
    LET matching == {c \in Children(p) : child_matches(p, c)}
    IN  matching # {} /\ \A c \in matching : ~ Reportable(p, c)

(***************************************************************************)
(* StopsAgree: the state of a process agrees with that of its thread: it   *)
(* is PS_STOPPED exactly if its thread is stopped or about to stop, so     *)
(* that the assertion of thread_continue (thread.c:220) holds and no       *)
(* continued process has a thread that stays stopped.  A process that has  *)
(* been sent SIGKILL is not stopped.                                       *)
(***************************************************************************)
StopsAgree ==
  \A p \in Pids :
    /\ p_state[p] = "stopped" <=> p \in td_stopping \/ pc[p] = "stopped"
    /\ "KILL" \in td_sigpend[p] => p_state[p] # "stopped"

\* Processes that qualify group g for job control, as the comment on
\* pgrp_jobc_enter defines it; one that has left in proc_exit does not count.
Qualifying(g) ==
  {p \in Members(g) :
     /\ p_state[p] # "zombie" /\ pc[p] \notin {"notify", "zombie", "reap"}
     /\ same_session_p(p_pgrp[p_parent[p]], g, pg_session)}

(***************************************************************************)
(* JobcExact: pg_jobc (proc.c:251) is the number of processes that qualify *)
(* the group for job control, through all of fork, exit, reparenting,      *)
(* setpgid and setsid, unless the counter has been adjusted for a zombie   *)
(* or init has adopted a member from within the session.                   *)
(***************************************************************************)
JobcExact ==
  \A g \in Pids \ miscounted :
    pg_session[g] # 0 => pg_jobc[g] = Cardinality(Qualifying(g))

(***************************************************************************)
(* WaitReturns: a process in wait4 with a child that it should report - a  *)
(* zombie, or one stopped or continued as the options ask for - eventually *)
(* returns from the call, unless the child is continued or stopped before. *)
(***************************************************************************)
Waiting(p) == pc[p] \in {"scan", "look", "unsleep", "asleep", "woken"}
HasNews(p) == \E c \in Children(p) : child_matches(p, c) /\ Reportable(p, c)

WaitReturns ==
  \A p \in Pids :
    (Waiting(p) /\ WaitsByPid(p) /\ HasNews(p)) ~> (~ Waiting(p) \/ ~ HasNews(p))
=============================================================================
