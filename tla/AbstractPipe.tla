---------------------------- MODULE AbstractPipe ----------------------------
(***************************************************************************)
(* What a pipe promises: a bounded first-in first-out channel of bytes     *)
(* with an end for readers and one for writers.  A reader gets the oldest  *)
(* bytes or, once nobody can write and all is read, the end of the file.   *)
(* A writer hands over its bytes in order, some at a time, until all are   *)
(* written, nobody can read any more, or it is interrupted; an error tells *)
(* it that none went in.                                                   *)
(***************************************************************************)
EXTENDS Naturals, Sequences

CONSTANTS Procs, Size, Messages

VARIABLES
  chan,   \* bytes written and not yet read
  ropen,  \* whether somebody can read
  wopen,  \* whether somebody can write
  out,    \* [Procs -> bytes of the current write that are still to go]
  sent,   \* [Procs -> how many bytes of the current write went in]
  said    \* how the last call to end did: whose, its result, how many bytes
          \* a write took and which ones a read gave

vars == <<chan, ropen, wopen, out, sent, said>>

Init ==
  /\ chan = <<>> /\ ropen = TRUE /\ wopen = TRUE
  /\ out = [p \in Procs |-> <<>>]
  /\ sent = [p \in Procs |-> 0]
  /\ said = <<>>

Drop(s, n) == SubSeq(s, n + 1, Len(s))

\* A write of some bytes starts, while the end is open.
Start(p, bytes) ==
  /\ wopen /\ out[p] = <<>>
  /\ out' = [out EXCEPT ![p] = bytes]
  /\ UNCHANGED <<chan, ropen, wopen, sent, said>>

\* A write is over, with n bytes in the channel: an error means none.
Finish(p, n, why) ==
  /\ n > 0 <=> why = "ok"
  /\ out' = [out EXCEPT ![p] = <<>>]
  /\ sent' = [sent EXCEPT ![p] = 0]
  /\ said' = <<p, why, n, <<>>>>

\* Some bytes go in; the call is over when all have, or on a fault.
Put(p, n) ==
  /\ ropen
  /\ n \in 1 .. Len(out[p]) /\ Len(chan) + n <= Size
  /\ chan' = chan \o SubSeq(out[p], 1, n)
  /\ \/ /\ n < Len(out[p])
        /\ out' = [out EXCEPT ![p] = Drop(@, n)]
        /\ sent' = [sent EXCEPT ![p] = @ + n]
        /\ UNCHANGED said
     \/ Finish(p, sent[p] + n, "ok")
  /\ UNCHANGED <<ropen, wopen>>

\* A write ends early: because nobody can read, by a signal or a fault.
Stop(p, why) ==
  /\ out[p] # <<>>
  /\ why = "EPIPE" => ~ ropen
  /\ Finish(p, sent[p], why)
  /\ UNCHANGED <<chan, ropen, wopen>>

\* The oldest bytes are read.
Take(p, n) ==
  /\ n \in 1 .. Len(chan)
  /\ chan' = Drop(chan, n)
  /\ said' = <<p, "ok", 0, SubSeq(chan, 1, n)>>
  /\ UNCHANGED <<ropen, wopen, out, sent>>

EndOfFile(p) ==
  /\ chan = <<>> /\ ~ wopen
  /\ said' = <<p, "eof", 0, <<>>>>
  /\ UNCHANGED <<chan, ropen, wopen, out, sent>>

\* A read ends by a signal or a fault; with a fault the n oldest bytes are lost.
Fail(p, why, n) ==
  /\ n \in 0 .. Len(chan) /\ (why # "EFAULT" => n = 0)
  /\ chan' = Drop(chan, n)
  /\ said' = <<p, why, 0, <<>>>>
  /\ UNCHANGED <<ropen, wopen, out, sent>>

\* An end is closed for good.
Close ==
  /\ \/ ropen /\ ropen' = FALSE /\ UNCHANGED wopen
     \/ wopen /\ wopen' = FALSE /\ UNCHANGED ropen
  /\ UNCHANGED <<chan, out, sent, said>>

Next ==
  \/ \E p \in Procs :
       \/ \E bytes \in Messages : Start(p, bytes)
       \/ \E n \in 1 .. Size : Put(p, n) \/ Take(p, n)
       \/ \E why \in {"ok", "EPIPE", "ERESTARTSYS", "EFAULT"} : Stop(p, why)
       \/ \E why \in {"ERESTARTSYS", "EFAULT"}, n \in 0 .. Size : Fail(p, why, n)
       \/ EndOfFile(p)
  \/ Close

Spec == Init /\ [][Next]_vars
=============================================================================
