-------------------------------- MODULE Pipe --------------------------------
(***************************************************************************)
(* A pipe (sys/kern/pipe.c) shared by processes that read, write, fork,    *)
(* duplicate and close descriptors, and exit.  What pipe_read, pipe_write  *)
(* and pipe_close do under the pipe's mutex is one step; cv_wait_intr lets *)
(* the mutex go, so a sleep separates two steps.  Calls move one vector of *)
(* bytes (read and write, not readv and writev).                           *)
(***************************************************************************)
EXTENDS Ringbuf, Filedesc

CONSTANTS
  Messages,  \* what a process may write
  Requests,  \* how many bytes a read may ask for
  Reader, Writer, \* the files of the two ends
  First,     \* the process that calls do_pipe2
  MaxOps     \* bound on forks, duplications and calls

ASSUME PipeAssumption ==
  /\ Files = {Reader, Writer} /\ Reader # Writer
  /\ Procs \subseteq Nat /\ First \in Procs /\ {0, 1} \subseteq Fds
  /\ \A msg \in Messages : msg \in Seq(Nat) /\ Len(msg) > 0
  /\ Requests \subseteq Nat \ {0}
  /\ MaxOps \in Nat

VARIABLES
  buf,
  reader_closed, writer_closed,
  freed,   \* pipe_free is done
  pc,      \* [Procs -> where the process is]
  out,     \* [Procs -> bytes of the current write that are still to go]
  sent,    \* [Procs -> old_resid - uio_resid of a write]
  want,    \* [Procs -> uio_resid of a read]
  said,    \* history: how the last call to return did, with the bytes that a
           \* write took and a read gave
  silent,  \* history: a transfer moved bytes, met a fault and told nobody
  ops

pipeVars == <<buf, reader_closed, writer_closed, freed, silent>>
callVars == <<pc, out, sent, want, said>>
vars == <<pipeVars, callVars, fdVars, ops>>

Bytes == UNION {{msg[i] : i \in 1 .. Len(msg)} : msg \in Messages}
InRead == {"reading", "rsleep"}
InWrite == {"writing", "wsleep"}

\* The types of the variables; a process has bytes to write exactly while it
\* is in pipe_write.
TypeOK ==
  /\ buf \in RingbufType(Bytes \cup {0})
  /\ reader_closed \in BOOLEAN /\ writer_closed \in BOOLEAN
  /\ freed \in BOOLEAN /\ silent \in BOOLEAN
  /\ pc \in [Procs -> InRead \cup InWrite \cup
                      {"unborn", "idle", "freeing", "exiting", "efreeing", "dead"}]
  /\ fdt_entries \in [Procs -> [Fds -> Files \cup {NULL}]]
  /\ f_count \in [Files -> Nat] /\ leaked \in [Files -> Nat]
  /\ out \in [Procs -> Seq(Bytes)]
  /\ \A p \in Procs : pc[p] \in InWrite <=> out[p] # <<>>
  /\ sent \in [Procs -> Nat] /\ want \in [Procs -> Nat]
  /\ ops \in 0 .. MaxOps

\* do_pipe2 has returned in one process, which has both ends.
Init ==
  /\ buf = EmptyRingbuf(0)
  /\ reader_closed = FALSE /\ writer_closed = FALSE /\ freed = FALSE
  /\ fdt_entries = [p \in Procs |-> IF p = First
                      THEN [EmptyTable EXCEPT ![0] = Reader, ![1] = Writer]
                      ELSE EmptyTable]
  /\ f_count = [f \in Files |-> 1]
  /\ leaked = [f \in Files |-> 0]
  /\ pc = [p \in Procs |-> IF p = First THEN "idle" ELSE "unborn"]
  /\ out = [p \in Procs |-> <<>>] /\ said = <<>>
  /\ sent = [p \in Procs |-> 0] /\ want = [p \in Procs |-> 0]
  /\ silent = FALSE /\ ops = 0

Op == ops < MaxOps /\ ops' = ops + 1

\* Variant: only one of the sleepers is woken, as by cv_signal.
Broadcast_One(pcs, from, to) ==
  IF \E p \in Procs : pcs[p] = from
  THEN [pcs EXCEPT ![CHOOSE p \in Procs : pcs[p] = from] = to] ELSE pcs

\* cv_broadcast: whoever sleeps goes on.
Broadcast(pcs, from, to) == [p \in Procs |-> IF pcs[p] = from THEN to ELSE pcs[p]]

WakeReaders(pcs) == Broadcast(pcs, "rsleep", "reading")
WakeWriters(pcs) == Broadcast(pcs, "wsleep", "writing")

\* A read returns, having moved some bytes.
ReadReturn(p, why, bytes) ==
  /\ want' = [want EXCEPT ![p] = 0]
  /\ said' = <<p, why, 0, bytes>>

-----------------------------------------------------------------------------
(* pipe_read *)

ReadStart(p) ==
  /\ pc[p] = "idle" /\ Has(p, Reader) /\ Op
  /\ \E n \in Requests : want' = [want EXCEPT ![p] = n]
  /\ pc' = [pc EXCEPT ![p] = "reading"]
  /\ UNCHANGED <<pipeVars, fdVars, out, sent, said>>

\* The loop's test and, when there are bytes, the transfer.
ReadLoop(p) ==
  /\ pc[p] = "reading"
  /\ UNCHANGED <<reader_closed, writer_closed, freed, silent, fdVars, ops, out, sent>>
  /\ \/ /\ ringbuf_empty(buf) /\ writer_closed
        /\ pc' = [pc EXCEPT ![p] = "idle"]
        /\ ReadReturn(p, "eof", <<>>)
        /\ UNCHANGED buf
     \/ /\ ringbuf_empty(buf) /\ ~ writer_closed
        /\ pc' = [pc EXCEPT ![p] = "rsleep"]
        /\ UNCHANGED <<buf, want, said>>
     \/ /\ ~ ringbuf_empty(buf)
        /\ LET tr == ringbuf_read(buf, want[p])
           IN buf' = tr.rb /\ ReadReturn(p, "ok", tr.bytes)
        /\ pc' = WakeWriters([pc EXCEPT ![p] = "idle"])

\* uiomove fails: the bytes of the first segment, if any, are consumed, and
\* writers are not told.
ReadFault(p) ==
  /\ pc[p] = "reading" /\ ~ ringbuf_empty(buf)
  /\ \E tr \in FaultyRead(buf, want[p]) :
       /\ buf' = tr.rb
       /\ silent' = (silent \/ tr.bytes # <<>>)
  /\ pc' = [pc EXCEPT ![p] = "idle"]
  /\ ReadReturn(p, "EFAULT", <<>>)
  /\ UNCHANGED <<reader_closed, writer_closed, freed, fdVars, ops, out, sent>>

\* A signal interrupts cv_wait_intr.
ReadInterrupted(p) ==
  /\ pc[p] = "rsleep"
  /\ pc' = [pc EXCEPT ![p] = "idle"]
  /\ ReadReturn(p, "ERESTARTSYS", <<>>)
  /\ UNCHANGED <<pipeVars, fdVars, ops, out, sent>>

-----------------------------------------------------------------------------
(* pipe_write; the SIGPIPE that do_write sends after EPIPE is left out: any
   process that is not in a call may exit at any time. *)

WriteStart(p) ==
  /\ pc[p] = "idle" /\ Has(p, Writer) /\ Op
  /\ \E msg \in Messages : out' = [out EXCEPT ![p] = msg]
  /\ pc' = [pc EXCEPT ![p] = "writing"]
  /\ UNCHANGED <<pipeVars, fdVars, want, sent, said>>

\* No errors on partial writes.
WriteError(n, error) == IF n > 0 THEN "ok" ELSE error

\* A write returns, with n bytes in the buffer.
WriteReturn(p, why, n) ==
  /\ out' = [out EXCEPT ![p] = <<>>]
  /\ sent' = [sent EXCEPT ![p] = 0]
  /\ said' = <<p, why, n, <<>>>>

WriteBreak(p, error, n) ==
  /\ pc' = [pc EXCEPT ![p] = "idle"]
  /\ WriteReturn(p, WriteError(n, error), n)

\* One turn of the loop, up to the return or the sleep.
WriteLoop(p) ==
  /\ pc[p] = "writing"
  /\ UNCHANGED <<reader_closed, writer_closed, freed, silent, fdVars, ops, want>>
  /\ \/ /\ reader_closed
        /\ WriteBreak(p, "EPIPE", sent[p])
        /\ UNCHANGED buf
     \/ /\ ~ reader_closed
        /\ LET tr == ringbuf_write(buf, out[p])
               n == sent[p] + tr.n
           IN /\ buf' = tr.rb
              /\ \/ /\ tr.n = Len(out[p])
                    /\ pc' = WakeReaders([pc EXCEPT ![p] = "idle"])
                    /\ WriteReturn(p, "ok", n)
                 \/ /\ tr.n < Len(out[p])
                    /\ pc' = WakeReaders([pc EXCEPT ![p] = "wsleep"])
                    /\ out' = [out EXCEPT ![p] = SubSeq(@, tr.n + 1, Len(@))]
                    /\ sent' = [sent EXCEPT ![p] = n]
                    /\ UNCHANGED said

\* uiomove fails: the bytes of the first segment, if any, are in the buffer,
\* and readers are not told.
WriteFault(p) ==
  /\ pc[p] = "writing" /\ ~ reader_closed /\ ~ ringbuf_full(buf)
  /\ \E tr \in FaultyWrite(buf, out[p]) :
       /\ buf' = tr.rb
       /\ silent' = (silent \/ tr.n > 0)
       /\ WriteBreak(p, "EFAULT", sent[p] + tr.n)
  /\ UNCHANGED <<reader_closed, writer_closed, freed, fdVars, ops, want>>

WriteInterrupted(p) ==
  /\ pc[p] = "wsleep"
  /\ WriteBreak(p, "ERESTARTSYS", sent[p])
  /\ UNCHANGED <<pipeVars, fdVars, ops, want>>

-----------------------------------------------------------------------------
(* pipe_close, called by file_destroy for the file of one end *)

\* Whether the close of f leaves neither end open.
BothClosed(f) == IF f = Reader THEN writer_closed ELSE reader_closed

\* The section under the mutex; the process goes on to pipe_free at "free"
\* or, when the other end is open, at "on".
pipe_close(p, f, free, on) ==
  LET next == [pc EXCEPT ![p] = IF BothClosed(f) THEN free ELSE on]
  IN IF f = Reader
     THEN reader_closed' = TRUE /\ pc' = WakeWriters(next) /\ UNCHANGED writer_closed
     ELSE writer_closed' = TRUE /\ pc' = WakeReaders(next) /\ UNCHANGED reader_closed

\* fd_free of a descriptor: file_drop and, for the last reference, the file's
\* end of the pipe is closed.
DropEntry(p, fd, free, on) ==
  /\ fd_free(p, fd)
  /\ IF LastDrop(p, fd)
     THEN pipe_close(p, fdt_entries[p][fd], free, on)
     ELSE pc' = [pc EXCEPT ![p] = on] /\ UNCHANGED <<reader_closed, writer_closed>>

pipe_free(p) ==
  /\ pc[p] \in {"freeing", "efreeing"}
  /\ pc' = [pc EXCEPT ![p] = IF @ = "freeing" THEN "idle" ELSE "exiting"]
  /\ freed' = TRUE
  /\ UNCHANGED <<buf, reader_closed, writer_closed, silent, out, sent, want, said, fdVars, ops>>

-----------------------------------------------------------------------------
(* Descriptors and processes *)

Close(p) ==
  /\ pc[p] = "idle"
  /\ \E fd \in Fds : DropEntry(p, fd, "freeing", "idle")
  /\ UNCHANGED <<buf, freed, silent, out, sent, want, said, ops>>

Dup(p) ==
  /\ pc[p] = "idle" /\ Op
  /\ \E old, new \in Fds : do_dup(p, old, new)
  /\ UNCHANGED <<pipeVars, callVars>>

Dup2(p) ==
  /\ pc[p] = "idle" /\ Op
  /\ \E old, new \in Fds : do_dup2(p, old, new)
  /\ UNCHANGED <<pipeVars, callVars>>

\* dup2 onto a descriptor with another file, which is dropped first.
Dup2Over(p) ==
  /\ pc[p] = "idle" /\ Op
  /\ \E old, new \in Fds :
       LET f == fdt_entries[p][old]
           g == fdt_entries[p][new]
       IN /\ NULL \notin {f, g} /\ f # g
          /\ fdt_entries' = [fdt_entries EXCEPT ![p][new] = f]
          /\ f_count' = [f_count EXCEPT ![g] = @ - 1, ![f] = @ + 1]
          /\ IF LastDrop(p, new)
             THEN pipe_close(p, g, "freeing", "idle")
             ELSE UNCHANGED <<pc, reader_closed, writer_closed>>
  /\ UNCHANGED <<leaked, buf, freed, silent, out, sent, want, said>>

\* do_fork: the child, the next unborn process, gets a copy of the table.
Fork(p) ==
  /\ pc[p] = "idle" /\ Op
  /\ \E c \in Procs :
       /\ pc[c] = "unborn" /\ \A q \in Procs : pc[q] = "unborn" => c <= q
       /\ fdtab_copy(p, c)
       /\ pc' = [pc EXCEPT ![c] = "idle"]
  /\ UNCHANGED <<pipeVars, out, sent, want, said>>

\* proc_exit: fdtab_drop closes what is open, in order.
Exit(p) ==
  /\ pc[p] = "idle"
  /\ pc' = [pc EXCEPT ![p] = "exiting"]
  /\ UNCHANGED <<pipeVars, fdVars, out, sent, want, said, ops>>

fdtab_drop(p) ==
  /\ pc[p] = "exiting"
  /\ \/ \E fd \in Fds :
          /\ \A e \in Fds : e < fd => ~ fd_is_used(p, e)
          /\ DropEntry(p, fd, "efreeing", "exiting")
     \/ /\ \A fd \in Fds : ~ fd_is_used(p, fd)
        /\ pc' = [pc EXCEPT ![p] = "dead"]
        /\ UNCHANGED <<reader_closed, writer_closed, fdVars>>
  /\ UNCHANGED <<buf, freed, silent, out, sent, want, said, ops>>

-----------------------------------------------------------------------------
Next ==
  \E p \in Procs :
    \/ ReadStart(p) \/ ReadLoop(p) \/ ReadFault(p) \/ ReadInterrupted(p)
    \/ WriteStart(p) \/ WriteLoop(p) \/ WriteFault(p) \/ WriteInterrupted(p)
    \/ Close(p) \/ Dup(p) \/ Dup2(p) \/ Dup2Over(p) \/ pipe_free(p)
    \/ Fork(p) \/ Exit(p) \/ fdtab_drop(p)

Spec == Init /\ [][Next]_vars

-----------------------------------------------------------------------------
(* Properties *)

Channel == INSTANCE AbstractPipe WITH
             chan <- Contents(buf), ropen <- ~ reader_closed, wopen <- ~ writer_closed

\* Whatever segments a transfer takes and wherever it is cut by sleeps, faults
\* and signals, pipe_read and pipe_write together are a bounded first-in
\* first-out channel: no byte is repeated or reordered, and none is lost but by
\* a read that reports EFAULT (the bytes that uiomove copied before the fault
\* are gone); end of file is reported only when nobody can write and all is
\* read, and a failed write put nothing in.
ImplementsChannel == Channel!Spec

\* Nobody sleeps in a pipe that could go on: a reader only while the pipe is
\* empty and has writers, a writer only while it is full and has readers.
\* (After a fault in the middle of a transfer, when pipe_read and pipe_write
\* leave without cv_broadcast, closing an end still wakes everybody.)
NoForgottenSleeper ==
  \A p \in Procs :
    /\ pc[p] = "rsleep" => ~ writer_closed /\ (silent \/ ringbuf_empty(buf))
    /\ pc[p] = "wsleep" => ~ reader_closed /\ (silent \/ ringbuf_full(buf))

\* pipe_free runs at most once, when both ends are closed, and nobody uses the
\* pipe from the moment it can run: the files' reference counts say how many
\* descriptors there are, over forks, dups, dup2s, closes and exits.  The holds
\* that dup2 leaks count as references here: such a pipe is never freed, which
\* is within this property.
PipeLife ==
  /\ \A f \in Files : f_count[f] = Cardinality(Entries(f)) + leaked[f]
  /\ LET closing == {p \in Procs : pc[p] \in {"freeing", "efreeing"}}
     IN /\ Cardinality(closing) + (IF freed THEN 1 ELSE 0)
             = (IF reader_closed /\ writer_closed THEN 1 ELSE 0)
        /\ \A p \in Procs :
             /\ Has(p, Reader) \/ pc[p] \in InRead => ~ reader_closed
             /\ Has(p, Writer) \/ pc[p] \in InWrite => ~ writer_closed
=============================================================================
