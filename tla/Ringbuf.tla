------------------------------ MODULE Ringbuf ------------------------------
(***************************************************************************)
(* Ring buffers (sys/kern/ringbuf.c) as records and the transfers of a     *)
(* user's data to and from them.  A transfer moves at most two segments,   *)
(* up to the end of the array and from its start; a fault in user memory   *)
(* (an error of uiomove) ends it before a segment.                         *)
(***************************************************************************)
EXTENDS Naturals, Sequences

CONSTANT Size   \* bytes in a buffer, PIPE_SIZE

ASSUME RingbufAssumption == Size \in Nat \ {0}

RingbufType(Bytes) ==
  [head : 0 .. Size - 1, tail : 0 .. Size - 1, count : 0 .. Size,
   data : [0 .. Size - 1 -> Bytes]]

EmptyRingbuf(byte) ==
  [head |-> 0, tail |-> 0, count |-> 0, data |-> [i \in 0 .. Size - 1 |-> byte]]

ringbuf_empty(rb) == rb.count = 0
ringbuf_full(rb) == rb.count = Size

AtMost(m, n) == IF m <= n THEN m ELSE n

Wrapped(i) == IF i = Size THEN 0 ELSE i

produce(rb, bytes) ==
  [head |-> Wrapped(rb.head + Len(bytes)),
   tail |-> rb.tail,
   count |-> rb.count + Len(bytes),
   data |-> [i \in 0 .. Size - 1 |->
               IF i \in rb.head .. rb.head + Len(bytes) - 1
               THEN bytes[i - rb.head + 1] ELSE rb.data[i]]]

consume(rb, n) ==
  [head |-> rb.head, tail |-> Wrapped(rb.tail + n), count |-> rb.count - n, data |-> rb.data]

\* Variant: a full buffer looks empty when tail has come up with head.
UsedSegment_Full(rb) == IF rb.tail <= rb.head THEN rb.head - rb.tail ELSE Size - rb.tail

\* Used space is [tail, head) or [tail, Size), free space [head, tail) or
\* [head, Size).
UsedSegment(rb) == IF rb.tail < rb.head THEN rb.head - rb.tail ELSE Size - rb.tail
FreeSegment(rb) == IF rb.head < rb.tail THEN rb.tail - rb.head ELSE Size - rb.head

(***************************************************************************)
(* One turn of the loops of ringbuf_write and ringbuf_read: how many bytes *)
(* it moves.                                                               *)
(***************************************************************************)
WriteTurn(rb, resid) == IF ringbuf_full(rb) THEN 0 ELSE AtMost(FreeSegment(rb), resid)
ReadTurn(rb, resid) == IF ringbuf_empty(rb) THEN 0 ELSE AtMost(UsedSegment(rb), resid)

Segment(rb, n) == [i \in 1 .. n |-> rb.data[rb.tail + i - 1]]

\* The state of a transfer: the buffer and the bytes moved so far.
WriteOnce(tr, bytes) ==
  LET n == WriteTurn(tr.rb, Len(bytes) - tr.n)
  IN [rb |-> produce(tr.rb, SubSeq(bytes, tr.n + 1, tr.n + n)), n |-> tr.n + n]

ReadOnce(tr, resid) ==
  LET n == ReadTurn(tr.rb, resid - Len(tr.bytes))
  IN [rb |-> consume(tr.rb, n), bytes |-> tr.bytes \o Segment(tr.rb, n)]

\* ringbuf_write and ringbuf_read without a fault: two turns are enough.
ringbuf_write(rb, bytes) == WriteOnce(WriteOnce([rb |-> rb, n |-> 0], bytes), bytes)
ringbuf_read(rb, resid) == ReadOnce(ReadOnce([rb |-> rb, bytes |-> <<>>], resid), resid)

\* With a fault: nothing is moved, or the first segment of two.
FaultyWrite(rb, bytes) ==
  LET one == WriteOnce([rb |-> rb, n |-> 0], bytes)
  IN {[rb |-> rb, n |-> 0]} \cup
     {tr \in {one} : WriteTurn(one.rb, Len(bytes) - one.n) > 0}

FaultyRead(rb, resid) ==
  LET one == ReadOnce([rb |-> rb, bytes |-> <<>>], resid)
  IN {[rb |-> rb, bytes |-> <<>>]} \cup
     {tr \in {one} : ReadTurn(one.rb, resid - Len(one.bytes)) > 0}

\* The place of the i-th byte, and the bytes in the buffer, oldest first.
Slot(rb, i) == IF rb.tail + i - 1 < Size THEN rb.tail + i - 1 ELSE rb.tail + i - 1 - Size
Contents(rb) == [i \in 1 .. rb.count |-> rb.data[Slot(rb, i)]]
=============================================================================
