----------------------------- MODULE PipeProofs -----------------------------
(***************************************************************************)
(* What is proved of Pipe, for any finite sets of processes and            *)
(* descriptors, any size of the buffer and any messages: nobody sleeps who *)
(* could go on, the pipe is freed once and after its last user, and it     *)
(* implements the byte channel AbstractPipe.                               *)
(***************************************************************************)
EXTENDS Pipe, FiniteSetTheorems, SequenceTheorems, TLAPS

\* The bytes a buffer holds lie from tail to head.
RingOK(rb) ==
  /\ rb \in RingbufType(Bytes \cup {0})
  /\ rb.head = IF rb.tail + rb.count < Size THEN rb.tail + rb.count
               ELSE rb.tail + rb.count - Size

\* Who is between pipe_close of the second end and pipe_free.
Closing == {p \in Procs : pc[p] \in {"freeing", "efreeing"}}

\* The counts of references are those of table entries, and an end is closed
\* when its count has come down to 0.  A process in a call has the descriptor,
\* and tables of processes that are not there yet are empty.
CountsOK ==
  /\ \A f \in Files : f_count[f] = Cardinality(Entries(f)) + leaked[f]
  /\ reader_closed <=> f_count[Reader] = 0
  /\ writer_closed <=> f_count[Writer] = 0
  /\ \A p \in Procs : /\ pc[p] \in InRead => Has(p, Reader) /\ want[p] > 0
                      /\ pc[p] \in InWrite => Has(p, Writer)
                      /\ pc[p] = "unborn" => fdt_entries[p] = EmptyTable

\* The pipe is open at an end, about to be freed by one process, or freed.
LifeOK ==
  \/ ~ (reader_closed /\ writer_closed) /\ Closing = {} /\ ~ freed
  \/ reader_closed /\ writer_closed /\ (\E p \in Procs : Closing = {p}) /\ ~ freed
  \/ reader_closed /\ writer_closed /\ Closing = {} /\ freed

IInv == TypeOK /\ RingOK(buf) /\ CountsOK /\ LifeOK /\ NoForgottenSleeper

-----------------------------------------------------------------------------
(* Ring buffers: what a transfer does to the bytes in the buffer. *)

Data == Bytes \cup {0}

LEMMA FunctionIsSeq ==
  ASSUME NEW S, NEW n \in Nat, NEW f \in [1 .. n -> S]
  PROVE  f \in Seq(S) /\ Len(f) = n
OBVIOUS

\* A buffer with h, t, c and d for its head, tail, count and data.
Layout(rb, h, t, c, d) ==
  /\ rb.head = h /\ rb.tail = t /\ rb.count = c /\ rb.data = d
  /\ d \in [0 .. Size - 1 -> Data]
  /\ Size \in Nat /\ h < Size /\ t < Size /\ c <= Size
  /\ h = IF t + c < Size THEN t + c ELSE t + c - Size

LEMMA RingLayout ==
  ASSUME NEW rb, RingOK(rb)
  PROVE  \E h \in Nat, t \in Nat, c \in Nat, d \in [0 .. Size - 1 -> Data] :
           Layout(rb, h, t, c, d)
<1>1. /\ rb.head \in Nat /\ rb.tail \in Nat /\ rb.count \in Nat
      /\ rb.data \in [0 .. Size - 1 -> Data]
  BY RingbufAssumption DEF RingOK, RingbufType, Data
<1>2. Layout(rb, rb.head, rb.tail, rb.count, rb.data)
  BY RingbufAssumption DEF RingOK, RingbufType, Data, Layout
<1> QED  BY <1>1, <1>2

LEMMA LayoutRing ==
  ASSUME NEW h \in Nat, NEW t \in Nat, NEW c \in Nat, NEW d \in [0 .. Size - 1 -> Data],
         h < Size, t < Size, c <= Size,
         h = IF t + c < Size THEN t + c ELSE t + c - Size
  PROVE  RingOK([head |-> h, tail |-> t, count |-> c, data |-> d])
BY RingbufAssumption DEF RingOK, RingbufType, Data

Place(t, i) == IF t + i - 1 < Size THEN t + i - 1 ELSE t + i - 1 - Size

LEMMA ContentsType ==
  ASSUME NEW rb, NEW h \in Nat, NEW t \in Nat, NEW c \in Nat, NEW d, Layout(rb, h, t, c, d)
  PROVE  /\ Contents(rb) \in Seq(Data) /\ Len(Contents(rb)) = c
         /\ \A i \in 1 .. c : /\ Place(t, i) \in 0 .. Size - 1
                              /\ Contents(rb)[i] = d[Place(t, i)]
                              /\ Contents(rb)[i] \in Data
<1>1. \A i \in 1 .. c : Place(t, i) \in 0 .. Size - 1
  BY DEF Layout, Place
<1>2. Contents(rb) = [i \in 1 .. c |-> d[Place(t, i)]]
  BY DEF Contents, Slot, Place, Layout
<1>3. Contents(rb) \in [1 .. c -> Data]
  BY <1>1, <1>2 DEF Layout
<1>4. Contents(rb) \in Seq(Data) /\ Len(Contents(rb)) = c
  BY <1>3, FunctionIsSeq
<1> QED  BY <1>1, <1>2, <1>3, <1>4

\* produce appends.
LEMMA ProduceOK ==
  ASSUME NEW rb, RingOK(rb), NEW bytes \in Seq(Bytes),
         Len(bytes) <= FreeSegment(rb), ringbuf_full(rb) => bytes = <<>>
  PROVE  /\ RingOK(produce(rb, bytes)) /\ produce(rb, bytes).count = rb.count + Len(bytes)
         /\ Contents(produce(rb, bytes)) = Contents(rb) \o bytes
<1>1. PICK h \in Nat, t \in Nat, c \in Nat, d \in [0 .. Size - 1 -> Data] :
        Layout(rb, h, t, c, d)
  BY RingLayout
<1>2. bytes \in Seq(Data) /\ Len(bytes) \in Nat
  BY LenProperties, SeqMonotonic DEF Data
<1>3. PICK n \in Nat : n = Len(bytes)
  BY <1>2
<1>4. \A i \in 1 .. n : bytes[i] \in Data
  BY <1>2, <1>3, ElementOfSeq
<1>5. n = 0 \/ c < Size
  <2>1. bytes = <<>> => n = 0
    BY <1>3, EmptySeq
  <2> QED  BY <1>1, <2>1 DEF ringbuf_full, Layout
<1>6. n <= IF h < t THEN t - h ELSE Size - h
  BY <1>1, <1>3 DEF FreeSegment, Layout
<1>7. c + n <= Size /\ h + n <= Size /\ (h < t => h + n <= t)
  BY <1>1, <1>5, <1>6 DEF Layout
<1> DEFINE head == IF h + n = Size THEN 0 ELSE h + n
           data == [i \in 0 .. Size - 1 |->
                      IF i \in h .. h + n - 1 THEN bytes[i - h + 1] ELSE d[i]]
           new == [head |-> head, tail |-> t, count |-> c + n, data |-> data]
<1>8. produce(rb, bytes) = new
  BY <1>1, <1>3 DEF produce, Layout, Wrapped
<1>9. data \in [0 .. Size - 1 -> Data]
  <2>1. \A i \in h .. h + n - 1 : i - h + 1 \in 1 .. n
    OBVIOUS
  <2> QED  BY <1>1, <1>4, <2>1 DEF Layout
<1>10. \A i \in 0 .. Size - 1 : data[i] = IF i \in h .. h + n - 1 THEN bytes[i - h + 1] ELSE d[i]
  OBVIOUS
<1> HIDE DEF data
<1>11. /\ head \in Nat /\ head < Size /\ c + n \in Nat
       /\ head = IF t + (c + n) < Size THEN t + (c + n) ELSE t + (c + n) - Size
  BY <1>1, <1>5, <1>6, <1>7 DEF Layout
<1> HIDE DEF head
<1>12. RingOK(new) /\ Layout(new, head, t, c + n, data)
  BY <1>1, <1>7, <1>9, <1>11, LayoutRing DEF Layout
<1>13. new.count = c + n
  OBVIOUS
<1> HIDE DEF new
<1>14. Contents(new) = Contents(rb) \o bytes
  <2>1. /\ Contents(rb) \in Seq(Data) /\ Len(Contents(rb)) = c
        /\ \A i \in 1 .. c : /\ Place(t, i) \in 0 .. Size - 1
                             /\ Contents(rb)[i] = d[Place(t, i)]
                             /\ Contents(rb)[i] \in Data
    BY <1>1, ContentsType
  <2>2. /\ Contents(rb) \o bytes \in Seq(Data)
        /\ Len(Contents(rb) \o bytes) = c + n
        /\ \A i \in 1 .. c + n : (Contents(rb) \o bytes)[i] =
             IF i <= c THEN Contents(rb)[i] ELSE bytes[i - c]
    <3>1. PICK s \in Seq(Data) : s = Contents(rb) /\ Len(s) = c
      BY <2>1
    <3>2. /\ s \o bytes \in Seq(Data)
          /\ Len(s \o bytes) = Len(s) + Len(bytes)
          /\ \A i \in 1 .. Len(s) + Len(bytes) : (s \o bytes)[i] =
               IF i <= Len(s) THEN s[i] ELSE bytes[i - Len(s)]
      BY <1>2, ConcatProperties
    <3> QED  BY <1>3, <3>1, <3>2
  <2>3. /\ Contents(new) \in Seq(Data) /\ Len(Contents(new)) = c + n
        /\ \A i \in 1 .. c + n : /\ Place(t, i) \in 0 .. Size - 1
                                 /\ Contents(new)[i] = data[Place(t, i)]
    BY <1>11, <1>12, ContentsType
  <2>4. ASSUME NEW i \in 1 .. c + n
        PROVE  Contents(new)[i] = (Contents(rb) \o bytes)[i]
    <3>1. CASE i <= c
      <4>1. i \in 1 .. c /\ Place(t, i) \notin h .. h + n - 1
        BY <1>1, <1>5, <1>6, <1>7, <3>1 DEF Place, Layout
      <4> QED  BY <1>10, <2>1, <2>2, <2>3, <3>1, <4>1
    <3>2. CASE ~ (i <= c)
      <4>1. Place(t, i) = h + (i - c) - 1
        BY <1>1, <1>7, <3>2 DEF Place, Layout
      <4>2. Place(t, i) \in h .. h + n - 1 /\ Place(t, i) - h + 1 = i - c
        BY <3>2, <4>1
      <4> QED  BY <1>10, <2>2, <2>3, <3>2, <4>2
    <3> QED  BY <3>1, <3>2
  <2> QED  BY <2>2, <2>3, <2>4, SeqEqual
<1>15. rb.count = c
  BY <1>1 DEF Layout
<1> QED  BY <1>3, <1>8, <1>12, <1>13, <1>14, <1>15

\* consume takes the oldest bytes, and Segment gives them.
LEMMA ConsumeOK ==
  ASSUME NEW rb, RingOK(rb), NEW n \in Nat, n <= UsedSegment(rb), n <= rb.count
  PROVE  /\ RingOK(consume(rb, n)) /\ consume(rb, n).count = rb.count - n
         /\ Contents(consume(rb, n)) = SubSeq(Contents(rb), n + 1, rb.count)
         /\ Segment(rb, n) = SubSeq(Contents(rb), 1, n)
<1>1. PICK h \in Nat, t \in Nat, c \in Nat, d \in [0 .. Size - 1 -> Data] :
        Layout(rb, h, t, c, d)
  BY RingLayout
<1>2. rb.count = c /\ n <= c /\ t + n <= Size
  BY <1>1 DEF UsedSegment, Layout
<1> DEFINE tail == IF t + n = Size THEN 0 ELSE t + n
           new == [head |-> h, tail |-> tail, count |-> c - n, data |-> d]
<1>3. consume(rb, n) = new
  BY <1>1 DEF consume, Layout, Wrapped
<1>4. /\ tail \in Nat /\ tail < Size /\ c - n \in Nat
      /\ h = IF tail + (c - n) < Size THEN tail + (c - n) ELSE tail + (c - n) - Size
      /\ \A i \in 1 .. c - n : Place(tail, i) = Place(t, n + i) /\ n + i \in 1 .. c
  BY <1>1, <1>2 DEF Layout, Place
<1> HIDE DEF tail
<1>5. RingOK(new) /\ Layout(new, h, tail, c - n, d)
  BY <1>1, <1>2, <1>4, LayoutRing DEF Layout
<1>6. new.count = c - n
  OBVIOUS
<1> HIDE DEF new
<1>7. /\ Contents(rb) \in Seq(Data) /\ Len(Contents(rb)) = c
      /\ \A i \in 1 .. c : /\ Place(t, i) \in 0 .. Size - 1
                           /\ Contents(rb)[i] = d[Place(t, i)]
                           /\ Contents(rb)[i] \in Data
  BY <1>1, ContentsType
<1>8. Contents(new) = SubSeq(Contents(rb), n + 1, c)
  <2>1. /\ SubSeq(Contents(rb), n + 1, c) \in Seq(Data)
        /\ Len(SubSeq(Contents(rb), n + 1, c)) = c - n
        /\ \A i \in 1 .. c - n : SubSeq(Contents(rb), n + 1, c)[i] = Contents(rb)[n + i]
    <3>1. \A i \in n + 1 .. c : Contents(rb)[i] \in Data
      BY <1>7
    <3>2. /\ SubSeq(Contents(rb), n + 1, c) \in Seq(Data)
          /\ Len(SubSeq(Contents(rb), n + 1, c)) = IF n + 1 <= c THEN c - (n + 1) + 1 ELSE 0
          /\ \A i \in 1 .. c - (n + 1) + 1 :
               SubSeq(Contents(rb), n + 1, c)[i] = Contents(rb)[(n + 1) + i - 1]
      BY <3>1, SubSeqProperties
    <3> QED  BY <1>2, <3>2
  <2>2. /\ Contents(new) \in Seq(Data) /\ Len(Contents(new)) = c - n
        /\ \A i \in 1 .. c - n : /\ Place(tail, i) \in 0 .. Size - 1
                                 /\ Contents(new)[i] = d[Place(tail, i)]
                                 /\ Contents(new)[i] \in Data
    BY <1>4, <1>5, ContentsType
  <2>3. ASSUME NEW i \in 1 .. c - n
        PROVE  Contents(new)[i] = SubSeq(Contents(rb), n + 1, c)[i]
    BY <1>4, <1>7, <2>1, <2>2
  <2> QED  BY <1>4, <2>1, <2>2, <2>3, SeqEqual
<1>9. Segment(rb, n) = SubSeq(Contents(rb), 1, n)
  <2>1. /\ SubSeq(Contents(rb), 1, n) \in Seq(Data)
        /\ Len(SubSeq(Contents(rb), 1, n)) = n
        /\ \A i \in 1 .. n : SubSeq(Contents(rb), 1, n)[i] = Contents(rb)[i]
    <3>1. /\ SubSeq(Contents(rb), 1, n) \in Seq(Data)
          /\ Len(SubSeq(Contents(rb), 1, n)) = IF 1 <= n THEN n - 1 + 1 ELSE 0
          /\ \A i \in 1 .. n - 1 + 1 : SubSeq(Contents(rb), 1, n)[i] = Contents(rb)[1 + i - 1]
      <4>1. \A i \in 1 .. n : Contents(rb)[i] \in Data
        BY <1>2, <1>7
      <4> QED  BY <4>1, SubSeqProperties
    <3> QED  BY <3>1
  <2>2. Segment(rb, n) = [i \in 1 .. n |-> d[t + i - 1]]
    BY <1>1 DEF Segment, Layout
  <2>3. ASSUME NEW i \in 1 .. n
        PROVE  d[t + i - 1] = Contents(rb)[i] /\ Contents(rb)[i] \in Data
    <3>1. i \in 1 .. c /\ Place(t, i) = t + i - 1
      BY <1>1, <1>2 DEF Place, Layout
    <3> QED  BY <1>7, <3>1
  <2>4. Segment(rb, n) \in [1 .. n -> Data]
    BY <2>2, <2>3
  <2>5. Segment(rb, n) \in Seq(Data) /\ Len(Segment(rb, n)) = n
    BY <2>4, FunctionIsSeq
  <2>6. \A i \in 1 .. n : Segment(rb, n)[i] = SubSeq(Contents(rb), 1, n)[i]
    BY <2>1, <2>2, <2>3
  <2> QED  BY <2>1, <2>5, <2>6, SeqEqual
<1> QED  BY <1>2, <1>3, <1>5, <1>6, <1>8, <1>9

\* One turn of ringbuf_write appends what fits up to the end of the array or
\* of the free space.
LEMMA WriteOnceOK ==
  ASSUME NEW rb, RingOK(rb), NEW bytes \in Seq(Bytes), NEW k \in Nat, k <= Len(bytes)
  PROVE  \E m, new :
           /\ m \in Nat
           /\ m = WriteTurn(rb, Len(bytes) - k)
           /\ k + m <= Len(bytes) /\ RingOK(new) /\ new.count = rb.count + m
           /\ WriteOnce([rb |-> rb, n |-> k], bytes) = [rb |-> new, n |-> k + m]
           /\ Contents(new) = Contents(rb) \o SubSeq(bytes, k + 1, k + m)
           /\ k + m = Len(bytes) \/ ringbuf_full(new) \/ (new.head = 0 /\ rb.head # 0)
<1>1. PICK h \in Nat, t \in Nat, c \in Nat, d \in [0 .. Size - 1 -> Data] :
        Layout(rb, h, t, c, d)
  BY RingLayout
<1>2. PICK len \in Nat : len = Len(bytes)
  BY LenProperties
<1> DEFINE free == IF h < t THEN t - h ELSE Size - h
<1>3. WriteTurn(rb, Len(bytes) - k) = IF c = Size THEN 0 ELSE IF free <= len - k THEN free ELSE len - k
  BY <1>1, <1>2 DEF WriteTurn, ringbuf_full, FreeSegment, AtMost, Layout
<1>4. WriteTurn(rb, Len(bytes) - k) \in Nat
  BY <1>1, <1>2, <1>3 DEF Layout
<1>5. PICK m \in Nat : m = WriteTurn(rb, Len(bytes) - k)
  BY <1>4
<1>6. m = IF c = Size THEN 0 ELSE IF free <= len - k THEN free ELSE len - k
  BY <1>3, <1>5
<1>7. k + m <= len /\ m <= free
  BY <1>1, <1>2, <1>6 DEF Layout
<1> DEFINE part == SubSeq(bytes, k + 1, k + m)
<1>8. part \in Seq(Bytes) /\ Len(part) = m
  <2>1. \A i \in k + 1 .. k + m : bytes[i] \in Bytes
    BY <1>2, <1>7, ElementOfSeq
  <2>2. Len(part) = IF k + 1 <= k + m THEN k + m - (k + 1) + 1 ELSE 0
    BY <2>1, SubSeqProperties
  <2>3. part \in Seq(Bytes)
    BY <2>1, SubSeqProperties
  <2> QED  BY <2>2, <2>3
<1>9. m <= FreeSegment(rb) /\ (ringbuf_full(rb) => m = 0)
  BY <1>1, <1>6, <1>7 DEF FreeSegment, ringbuf_full, Layout
<1>10. ringbuf_full(rb) => part = <<>>
  BY <1>8, <1>9, EmptySeq
<1> DEFINE new == produce(rb, part)
<1> HIDE DEF part
<1>11. RingOK(new) /\ new.count = rb.count + m /\ Contents(new) = Contents(rb) \o part
  BY <1>8, <1>9, <1>10, ProduceOK
<1>12. WriteOnce([rb |-> rb, n |-> k], bytes) = [rb |-> new, n |-> k + m]
  BY <1>5 DEF WriteOnce, part
<1>13. k + m = len \/ ringbuf_full(new) \/ (new.head = 0 /\ rb.head # 0)
  <2>1. new.head = IF h + m = Size THEN 0 ELSE h + m
    BY <1>1, <1>8 DEF produce, Layout, Wrapped
  <2>2. rb.head = h /\ new.count = c + m
    BY <1>1, <1>11 DEF Layout
  <2>3. k + m = len \/ c + m = Size \/ (h + m = Size /\ h # 0)
    BY <1>1, <1>6 DEF Layout
  <2> QED  BY <2>1, <2>2, <2>3 DEF ringbuf_full
<1> QED  BY <1>2, <1>5, <1>7, <1>11, <1>12, <1>13 DEF part

\* A full buffer and the end of the bytes leave nothing to do.
LEMMA WriteOnceNothing ==
  ASSUME NEW rb, RingOK(rb), NEW len \in Nat
  PROVE  WriteTurn(rb, 0) = 0 /\ (ringbuf_full(rb) => WriteTurn(rb, len) = 0)
<1>1. PICK h \in Nat, t \in Nat, c \in Nat, d \in [0 .. Size - 1 -> Data] :
        Layout(rb, h, t, c, d)
  BY RingLayout
<1>2. FreeSegment(rb) \in Nat
  <2>1. h < Size /\ t < Size /\ Size \in Nat /\ rb.head = h /\ rb.tail = t
    BY <1>1 DEF Layout
  <2>2. FreeSegment(rb) = IF h < t THEN t - h ELSE Size - h
    BY <2>1 DEF FreeSegment
  <2> QED  BY <2>1, <2>2
<1> QED  BY <1>2 DEF WriteTurn, AtMost

\* ringbuf_write appends the first bytes, all of them or as many as fill the
\* buffer: a third turn would move none.
LEMMA RingbufWriteOK ==
  ASSUME NEW rb, RingOK(rb), NEW bytes \in Seq(Bytes)
  PROVE  \E n, new :
           /\ n \in Nat
           /\ ringbuf_write(rb, bytes) = [rb |-> new, n |-> n]
           /\ n <= Len(bytes) /\ RingOK(new) /\ new.count = rb.count + n
           /\ Contents(new) = Contents(rb) \o SubSeq(bytes, 1, n)
           /\ n = Len(bytes) \/ ringbuf_full(new)
<1>1. PICK len \in Nat : len = Len(bytes)
  BY LenProperties
<1>2. PICK m, one :
           /\ m \in Nat
           /\ m = WriteTurn(rb, Len(bytes) - 0)
           /\ 0 + m <= Len(bytes) /\ RingOK(one) /\ one.count = rb.count + m
           /\ WriteOnce([rb |-> rb, n |-> 0], bytes) = [rb |-> one, n |-> 0 + m]
           /\ Contents(one) = Contents(rb) \o SubSeq(bytes, 0 + 1, 0 + m)
           /\ 0 + m = Len(bytes) \/ ringbuf_full(one) \/ (one.head = 0 /\ rb.head # 0)
  <2>1. 0 \in Nat /\ 0 <= Len(bytes)
    BY <1>1
  <2> QED  BY <2>1, WriteOnceOK
<1>3. PICK k, two :
           /\ k \in Nat
           /\ k = WriteTurn(one, Len(bytes) - m)
           /\ m + k <= Len(bytes) /\ RingOK(two) /\ two.count = one.count + k
           /\ WriteOnce([rb |-> one, n |-> m], bytes) = [rb |-> two, n |-> m + k]
           /\ Contents(two) = Contents(one) \o SubSeq(bytes, m + 1, m + k)
           /\ m + k = Len(bytes) \/ ringbuf_full(two) \/ (two.head = 0 /\ one.head # 0)
  <2>1. m \in Nat /\ m <= Len(bytes) /\ RingOK(one)
    BY <1>1, <1>2
  <2> QED  BY <2>1, WriteOnceOK
<1>4. ringbuf_write(rb, bytes) = [rb |-> two, n |-> m + k]
  <2>1. 0 + m = m
    BY <1>2, <1>3
  <2> QED  BY <1>2, <1>3, <2>1 DEF ringbuf_write
<1>5. two.count = rb.count + (m + k)
  <2>1. rb.count \in Nat
    BY RingbufAssumption DEF RingOK, RingbufType
  <2> QED  BY <1>2, <1>3, <2>1
<1>6. Contents(two) = Contents(rb) \o SubSeq(bytes, 1, m + k)
  <2>1. Contents(rb) \in Seq(Data)
    BY RingLayout, ContentsType
  <2>2. bytes \in Seq(Data)
    BY SeqMonotonic DEF Data
  <2>3. SubSeq(bytes, 1, m) \in Seq(Data) /\ SubSeq(bytes, m + 1, m + k) \in Seq(Data)
    <3>1. \A i \in 1 .. len : bytes[i] \in Data
      BY <1>1, <2>2, ElementOfSeq
    <3>2. (\A i \in 1 .. m : bytes[i] \in Data) /\ \A i \in m + 1 .. m + k : bytes[i] \in Data
      BY <1>1, <1>2, <1>3, <3>1
    <3> QED  BY <1>2, <1>3, <3>2, SubSeqProperties
  <2>4. SubSeq(bytes, 1, m) \o SubSeq(bytes, m + 1, m + k) = SubSeq(bytes, 1, m + k)
    <3>1. 1 \in 1 .. Len(bytes) + 1 /\ m \in 1 - 1 .. Len(bytes) /\ m + k \in m .. Len(bytes)
      BY <1>1, <1>2, <1>3
    <3> QED  BY <2>2, <3>1, ConcatAdjacentSubSeq
  <2>5. Contents(one) = Contents(rb) \o SubSeq(bytes, 1, m)
    BY <1>2
  <2>6. (Contents(rb) \o SubSeq(bytes, 1, m)) \o SubSeq(bytes, m + 1, m + k)
          = Contents(rb) \o (SubSeq(bytes, 1, m) \o SubSeq(bytes, m + 1, m + k))
    <3> DEFINE a == SubSeq(bytes, 1, m)  b == SubSeq(bytes, m + 1, m + k)
    <3>1. a \in Seq(Data) /\ b \in Seq(Data)
      BY <2>3
    <3> HIDE DEF a, b
    <3>2. (Contents(rb) \o a) \o b = Contents(rb) \o (a \o b)
      BY <2>1, <3>1, ConcatAssociative
    <3> QED  BY <3>2 DEF a, b
  <2> QED  BY <1>3, <2>4, <2>5, <2>6
<1>7. m + k = Len(bytes) \/ ringbuf_full(two)
  <2>1. CASE m = Len(bytes)
    BY <1>1, <1>2, <1>3, <2>1
  <2>2. CASE ringbuf_full(one)
    <3>1. k = 0
      <4>1. Len(bytes) - m \in Nat
        BY <1>1, <1>2
      <4> QED  BY <1>2, <1>3, <2>2, <4>1, WriteOnceNothing
    <3> QED  BY <1>2, <1>3, <2>2, <3>1, RingbufAssumption DEF ringbuf_full
  <2>3. CASE one.head = 0
    BY <1>3, <2>3
  <2> QED  BY <1>2, <2>1, <2>2, <2>3
<1>8. m + k \in Nat
  BY <1>2, <1>3
<1> QED  BY <1>3, <1>4, <1>5, <1>6, <1>7, <1>8

\* One turn of ringbuf_read takes what lies up to the end of the array or of
\* the used space.
LEMMA ReadOnceOK ==
  ASSUME NEW rb, RingOK(rb), NEW bytes \in Seq(Data), NEW resid \in Nat, Len(bytes) <= resid
  PROVE  \E m, new :
           /\ m \in Nat
           /\ m = ReadTurn(rb, resid - Len(bytes))
           /\ m <= rb.count /\ Len(bytes) + m <= resid
           /\ rb.count > 0 /\ Len(bytes) < resid => m > 0
           /\ RingOK(new) /\ new.count = rb.count - m
           /\ ReadOnce([rb |-> rb, bytes |-> bytes], resid) =
                [rb |-> new, bytes |-> bytes \o SubSeq(Contents(rb), 1, m)]
           /\ Contents(new) = SubSeq(Contents(rb), m + 1, rb.count)
<1>1. PICK h \in Nat, t \in Nat, c \in Nat, d \in [0 .. Size - 1 -> Data] :
        Layout(rb, h, t, c, d)
  BY RingLayout
<1>2. PICK len \in Nat : len = Len(bytes)
  BY LenProperties
<1> DEFINE used == IF t < h THEN h - t ELSE Size - t
<1>3. ReadTurn(rb, resid - Len(bytes)) =
        IF c = 0 THEN 0 ELSE IF used <= resid - len THEN used ELSE resid - len
  BY <1>1, <1>2 DEF ReadTurn, ringbuf_empty, UsedSegment, AtMost, Layout
<1>4. ReadTurn(rb, resid - Len(bytes)) \in Nat
  BY <1>1, <1>2, <1>3 DEF Layout
<1>5. PICK m \in Nat : m = ReadTurn(rb, resid - Len(bytes))
  BY <1>4
<1>6. m = IF c = 0 THEN 0 ELSE IF used <= resid - len THEN used ELSE resid - len
  BY <1>3, <1>5
<1>7. m <= c /\ m <= used /\ len + m <= resid /\ (c > 0 /\ len < resid => m > 0)
  BY <1>1, <1>2, <1>6 DEF Layout
<1>8. rb.count = c /\ UsedSegment(rb) = used
  BY <1>1 DEF UsedSegment, Layout
<1> DEFINE new == consume(rb, m)
<1>9. /\ RingOK(new) /\ new.count = rb.count - m
      /\ Contents(new) = SubSeq(Contents(rb), m + 1, rb.count)
      /\ Segment(rb, m) = SubSeq(Contents(rb), 1, m)
  BY <1>7, <1>8, ConsumeOK
<1>10. ReadOnce([rb |-> rb, bytes |-> bytes], resid) =
         [rb |-> new, bytes |-> bytes \o SubSeq(Contents(rb), 1, m)]
  BY <1>5, <1>9 DEF ReadOnce
<1> QED  BY <1>2, <1>5, <1>7, <1>8, <1>9, <1>10

\* Taking some bytes and then some more is taking them together.
LEMMA TakeTwice ==
  ASSUME NEW s \in Seq(Data), NEW m \in Nat, NEW k \in Nat, m + k <= Len(s)
  PROVE  /\ SubSeq(s, 1, m) \o SubSeq(SubSeq(s, m + 1, Len(s)), 1, k) = SubSeq(s, 1, m + k)
         /\ SubSeq(SubSeq(s, m + 1, Len(s)), k + 1, Len(s) - m)
              = SubSeq(s, m + k + 1, Len(s))
<1>1. PICK len \in Nat : len = Len(s)
  BY LenProperties
<1>2. \A i \in 1 .. len : s[i] \in Data
  BY <1>1, ElementOfSeq
<1> DEFINE rest == SubSeq(s, m + 1, len)
<1>3. /\ rest \in Seq(Data) /\ Len(rest) = len - m
      /\ \A i \in 1 .. len - m : rest[i] = s[m + i] /\ rest[i] \in Data
  <2>1. \A i \in m + 1 .. len : s[i] \in Data
    BY <1>2
  <2>2. /\ rest \in Seq(Data)
        /\ Len(rest) = IF m + 1 <= len THEN len - (m + 1) + 1 ELSE 0
        /\ \A i \in 1 .. len - (m + 1) + 1 : rest[i] = s[(m + 1) + i - 1]
    BY <2>1, SubSeqProperties
  <2>3. \A i \in 1 .. len - m : rest[i] = s[m + i] /\ s[m + i] \in Data
    BY <1>1, <1>2, <2>2
  <2>4. Len(rest) = len - m
    BY <1>1, <2>2
  <2> QED  BY <2>2, <2>3, <2>4
<1> HIDE DEF rest
<1>4. SubSeq(rest, 1, k) = SubSeq(s, m + 1, m + k)
  <2>1. /\ SubSeq(rest, 1, k) \in Seq(Data)
        /\ Len(SubSeq(rest, 1, k)) = IF 1 <= k THEN k - 1 + 1 ELSE 0
        /\ \A i \in 1 .. k - 1 + 1 : SubSeq(rest, 1, k)[i] = rest[1 + i - 1]
    <3>1. \A i \in 1 .. k : rest[i] \in Data
      BY <1>1, <1>3
    <3> QED  BY <3>1, SubSeqProperties
  <2>2. /\ SubSeq(s, m + 1, m + k) \in Seq(Data)
        /\ Len(SubSeq(s, m + 1, m + k)) = IF m + 1 <= m + k THEN m + k - (m + 1) + 1 ELSE 0
        /\ \A i \in 1 .. m + k - (m + 1) + 1 : SubSeq(s, m + 1, m + k)[i] = s[(m + 1) + i - 1]
    <3>1. \A i \in m + 1 .. m + k : s[i] \in Data
      BY <1>1, <1>2
    <3> QED  BY <3>1, SubSeqProperties
  <2>3. Len(SubSeq(rest, 1, k)) = k /\ Len(SubSeq(s, m + 1, m + k)) = k
    BY <2>1, <2>2
  <2>4. ASSUME NEW i \in 1 .. k PROVE SubSeq(rest, 1, k)[i] = SubSeq(s, m + 1, m + k)[i]
    BY <1>1, <1>3, <2>1, <2>2
  <2> QED  BY <2>1, <2>2, <2>3, <2>4, SeqEqual
<1>5. SubSeq(rest, k + 1, len - m) = SubSeq(s, m + k + 1, len)
  <2>1. /\ SubSeq(rest, k + 1, len - m) \in Seq(Data)
        /\ Len(SubSeq(rest, k + 1, len - m)) =
             IF k + 1 <= len - m THEN (len - m) - (k + 1) + 1 ELSE 0
        /\ \A i \in 1 .. (len - m) - (k + 1) + 1 :
             SubSeq(rest, k + 1, len - m)[i] = rest[(k + 1) + i - 1]
    <3>1. \A i \in k + 1 .. len - m : rest[i] \in Data
      BY <1>1, <1>3
    <3> QED  BY <3>1, SubSeqProperties
  <2>2. /\ SubSeq(s, m + k + 1, len) \in Seq(Data)
        /\ Len(SubSeq(s, m + k + 1, len)) =
             IF m + k + 1 <= len THEN len - (m + k + 1) + 1 ELSE 0
        /\ \A i \in 1 .. len - (m + k + 1) + 1 :
             SubSeq(s, m + k + 1, len)[i] = s[(m + k + 1) + i - 1]
    <3>1. \A i \in m + k + 1 .. len : s[i] \in Data
      BY <1>1, <1>2
    <3> QED  BY <3>1, SubSeqProperties
  <2>3. /\ Len(SubSeq(rest, k + 1, len - m)) = len - m - k
        /\ Len(SubSeq(s, m + k + 1, len)) = len - m - k
    BY <1>1, <2>1, <2>2
  <2>4. ASSUME NEW i \in 1 .. len - m - k
        PROVE  SubSeq(rest, k + 1, len - m)[i] = SubSeq(s, m + k + 1, len)[i]
    BY <1>1, <1>3, <2>1, <2>2
  <2> QED  BY <2>1, <2>2, <2>3, <2>4, SeqEqual
<1>6. SubSeq(s, 1, m) \o SubSeq(s, m + 1, m + k) = SubSeq(s, 1, m + k)
  <2>1. 1 \in 1 .. Len(s) + 1 /\ m \in 1 - 1 .. Len(s) /\ m + k \in m .. Len(s)
    BY <1>1
  <2> QED  BY <2>1, ConcatAdjacentSubSeq
<1> QED  BY <1>1, <1>4, <1>5, <1>6 DEF rest

\* A turn that moves no byte.
LEMMA NothingMoved ==
  ASSUME NEW rb, RingOK(rb), NEW bytes
  PROVE  /\ Contents(rb) = Contents(rb) \o SubSeq(bytes, 1, 0)
         /\ SubSeq(Contents(rb), 1, 0) = <<>>
         /\ Contents(rb) = SubSeq(Contents(rb), 0 + 1, rb.count)
         /\ rb.count \in Nat /\ Contents(rb) \in Seq(Data) /\ Len(Contents(rb)) = rb.count
<1>1. PICK h \in Nat, t \in Nat, c \in Nat, d \in [0 .. Size - 1 -> Data] :
        Layout(rb, h, t, c, d)
  BY RingLayout
<1>2. Contents(rb) \in Seq(Data) /\ Len(Contents(rb)) = c
  BY <1>1, ContentsType
<1>3. rb.count = c
  BY <1>1 DEF Layout
<1>4. SubSeq(bytes, 1, 0) = <<>> /\ SubSeq(Contents(rb), 1, 0) = <<>>
  BY SubSeqEmpty
<1>5. SubSeq(Contents(rb), 1, Len(Contents(rb))) = Contents(rb)
  BY <1>2, SubSeqFull
<1>6. Contents(rb) \o <<>> = Contents(rb)
  BY <1>2, ConcatEmptySeq
<1> QED  BY <1>2, <1>3, <1>4, <1>5, <1>6

\* ringbuf_read takes the oldest bytes, and at least one if there is one.
LEMMA RingbufReadOK ==
  ASSUME NEW rb, RingOK(rb), NEW resid \in Nat
  PROVE  \E n, new :
           /\ n \in Nat
           /\ ringbuf_read(rb, resid) = [rb |-> new, bytes |-> SubSeq(Contents(rb), 1, n)]
           /\ n <= rb.count /\ (rb.count > 0 /\ resid > 0 => n > 0)
           /\ RingOK(new) /\ new.count = rb.count - n
           /\ Contents(new) = SubSeq(Contents(rb), n + 1, rb.count)
<1>1. PICK c \in Nat : c = rb.count /\ c = Len(Contents(rb)) /\ Contents(rb) \in Seq(Data)
  BY NothingMoved
<1>2. <<>> \in Seq(Data) /\ Len(<<>>) = 0 /\ Len(<<>>) <= resid
  BY EmptySeq
<1>3. PICK m, one :
           /\ m \in Nat
           /\ m = ReadTurn(rb, resid - Len(<<>>))
           /\ m <= rb.count /\ Len(<<>>) + m <= resid
           /\ rb.count > 0 /\ Len(<<>>) < resid => m > 0
           /\ RingOK(one) /\ one.count = rb.count - m
           /\ ReadOnce([rb |-> rb, bytes |-> <<>>], resid) =
                [rb |-> one, bytes |-> <<>> \o SubSeq(Contents(rb), 1, m)]
           /\ Contents(one) = SubSeq(Contents(rb), m + 1, rb.count)
  BY <1>2, ReadOnceOK
<1>4. m <= c /\ m <= resid /\ (c > 0 /\ resid > 0 => m > 0)
  BY <1>1, <1>2, <1>3
<1> DEFINE got == SubSeq(Contents(rb), 1, m)
<1>5. got \in Seq(Data) /\ Len(got) = m
  <2>1. \A i \in 1 .. m : Contents(rb)[i] \in Data
    BY <1>3, <1>1, <1>4, ElementOfSeq
  <2>2. got \in Seq(Data) /\ Len(got) = IF 1 <= m THEN m - 1 + 1 ELSE 0
    BY <1>3, <2>1, SubSeqProperties
  <2> QED  BY <1>3, <2>2
<1> HIDE DEF got
<1>6. ReadOnce([rb |-> rb, bytes |-> <<>>], resid) = [rb |-> one, bytes |-> got]
  <2>1. <<>> \o got = got
    BY <1>5, ConcatEmptySeq
  <2> QED  BY <1>3, <2>1 DEF got
<1>7. PICK k, two :
           /\ k \in Nat
           /\ k = ReadTurn(one, resid - Len(got))
           /\ k <= one.count /\ Len(got) + k <= resid
           /\ one.count > 0 /\ Len(got) < resid => k > 0
           /\ RingOK(two) /\ two.count = one.count - k
           /\ ReadOnce([rb |-> one, bytes |-> got], resid) =
                [rb |-> two, bytes |-> got \o SubSeq(Contents(one), 1, k)]
           /\ Contents(two) = SubSeq(Contents(one), k + 1, one.count)
  <2>1. RingOK(one) /\ Len(got) <= resid
    BY <1>3, <1>4, <1>5
  <2> QED  BY <1>5, <2>1, ReadOnceOK
<1>8. m + k <= c /\ one.count = c - m /\ two.count = c - (m + k) /\ m + k \in Nat
  <2>1. one.count = c - m
    BY <1>1, <1>3
  <2>2. k <= c - m /\ two.count = c - m - k
    BY <1>7, <2>1
  <2>3. m \in Nat /\ k \in Nat
    BY <1>3, <1>7
  <2>4. m + k <= c /\ c - m - k = c - (m + k) /\ m + k \in Nat
    BY <2>2, <2>3
  <2> QED  BY <2>1, <2>2, <2>4
<1>9. /\ got \o SubSeq(Contents(one), 1, k) = SubSeq(Contents(rb), 1, m + k)
      /\ Contents(two) = SubSeq(Contents(rb), m + k + 1, rb.count)
  <2>1. Contents(one) = SubSeq(Contents(rb), m + 1, Len(Contents(rb)))
    BY <1>1, <1>3
  <2>2. /\ SubSeq(Contents(rb), 1, m) \o SubSeq(Contents(one), 1, k) = SubSeq(Contents(rb), 1, m + k)
        /\ SubSeq(Contents(one), k + 1, Len(Contents(rb)) - m)
             = SubSeq(Contents(rb), m + k + 1, Len(Contents(rb)))
    <3>1. m \in Nat /\ k \in Nat
      BY <1>3, <1>7
    <3>2. m + k <= Len(Contents(rb)) /\ Contents(rb) \in Seq(Data)
      BY <1>1, <1>8
    <3> DEFINE s == Contents(rb)
    <3>3. s \in Seq(Data) /\ m + k <= Len(s)
      BY <3>2
    <3> HIDE DEF s
    <3>4. /\ SubSeq(s, 1, m) \o SubSeq(SubSeq(s, m + 1, Len(s)), 1, k) = SubSeq(s, 1, m + k)
          /\ SubSeq(SubSeq(s, m + 1, Len(s)), k + 1, Len(s) - m) = SubSeq(s, m + k + 1, Len(s))
      BY <3>1, <3>3, TakeTwice
    <3> QED  BY <2>1, <3>4 DEF s
  <2> QED  BY <1>1, <1>7, <1>8, <2>2 DEF got
<1>10. ringbuf_read(rb, resid) = [rb |-> two, bytes |-> SubSeq(Contents(rb), 1, m + k)]
  BY <1>6, <1>7, <1>9 DEF ringbuf_read
<1>11. rb.count > 0 /\ resid > 0 => m + k > 0
  BY <1>3, <1>7, <1>1, <1>4
<1> QED  BY <1>1, <1>7, <1>8, <1>9, <1>10, <1>11

\* A transfer cut by a fault moves the first bytes, or none.
LEMMA FaultyWriteOK ==
  ASSUME NEW rb, RingOK(rb), NEW bytes \in Seq(Bytes), NEW tr \in FaultyWrite(rb, bytes)
  PROVE  /\ tr.n \in Nat /\ tr.n <= Len(bytes)
         /\ RingOK(tr.rb) /\ tr.rb.count = rb.count + tr.n
         /\ Contents(tr.rb) = Contents(rb) \o SubSeq(bytes, 1, tr.n)
<1>1. PICK len \in Nat : len = Len(bytes)
  BY LenProperties
<1>2. PICK m, one :
           /\ m \in Nat
           /\ m = WriteTurn(rb, Len(bytes) - 0)
           /\ 0 + m <= Len(bytes) /\ RingOK(one) /\ one.count = rb.count + m
           /\ WriteOnce([rb |-> rb, n |-> 0], bytes) = [rb |-> one, n |-> 0 + m]
           /\ Contents(one) = Contents(rb) \o SubSeq(bytes, 0 + 1, 0 + m)
           /\ 0 + m = Len(bytes) \/ ringbuf_full(one) \/ (one.head = 0 /\ rb.head # 0)
  <2>1. 0 \in Nat /\ 0 <= Len(bytes)
    BY <1>1
  <2> QED  BY <2>1, WriteOnceOK
<1>3. 0 + m = m
  BY <1>2
<1>4. tr = [rb |-> rb, n |-> 0] \/ tr = [rb |-> one, n |-> m]
  BY <1>2, <1>3 DEF FaultyWrite
<1>5. CASE tr = [rb |-> rb, n |-> 0]
  BY <1>1, <1>5, NothingMoved
<1>6. CASE tr = [rb |-> one, n |-> m]
  BY <1>2, <1>3, <1>6
<1> QED  BY <1>4, <1>5, <1>6

LEMMA FaultyReadOK ==
  ASSUME NEW rb, RingOK(rb), NEW resid \in Nat, NEW tr \in FaultyRead(rb, resid)
  PROVE  \E n \in Nat :
           /\ tr.bytes = SubSeq(Contents(rb), 1, n)
           /\ n <= rb.count /\ RingOK(tr.rb) /\ tr.rb.count = rb.count - n
           /\ Contents(tr.rb) = SubSeq(Contents(rb), n + 1, rb.count)
<1>2. <<>> \in Seq(Data) /\ Len(<<>>) = 0 /\ Len(<<>>) <= resid
  BY EmptySeq
<1>3. PICK m, one :
           /\ m \in Nat
           /\ m = ReadTurn(rb, resid - Len(<<>>))
           /\ m <= rb.count /\ Len(<<>>) + m <= resid
           /\ rb.count > 0 /\ Len(<<>>) < resid => m > 0
           /\ RingOK(one) /\ one.count = rb.count - m
           /\ ReadOnce([rb |-> rb, bytes |-> <<>>], resid) =
                [rb |-> one, bytes |-> <<>> \o SubSeq(Contents(rb), 1, m)]
           /\ Contents(one) = SubSeq(Contents(rb), m + 1, rb.count)
  BY <1>2, ReadOnceOK
<1>4. rb.count \in Nat /\ Contents(rb) \in Seq(Data) /\ Len(Contents(rb)) = rb.count
  BY NothingMoved
<1>5. <<>> \o SubSeq(Contents(rb), 1, m) = SubSeq(Contents(rb), 1, m)
  <2>1. \A i \in 1 .. m : Contents(rb)[i] \in Data
    BY <1>3, <1>4, ElementOfSeq
  <2>2. SubSeq(Contents(rb), 1, m) \in Seq(Data)
    BY <1>3, <2>1, SubSeqProperties
  <2> QED  BY <2>2, ConcatEmptySeq
<1>6. tr = [rb |-> rb, bytes |-> <<>>]
        \/ tr = [rb |-> one, bytes |-> SubSeq(Contents(rb), 1, m)]
  BY <1>3, <1>5 DEF FaultyRead
<1>7. CASE tr = [rb |-> rb, bytes |-> <<>>]
  <2>1. /\ tr.bytes = SubSeq(Contents(rb), 1, 0)
        /\ 0 <= rb.count /\ RingOK(tr.rb) /\ tr.rb.count = rb.count - 0
        /\ Contents(tr.rb) = SubSeq(Contents(rb), 0 + 1, rb.count)
    BY <1>4, <1>7, NothingMoved
  <2> QED  BY <2>1
<1>8. CASE tr = [rb |-> one, bytes |-> SubSeq(Contents(rb), 1, m)]
  <2>1. /\ tr.bytes = SubSeq(Contents(rb), 1, m)
        /\ m <= rb.count /\ RingOK(tr.rb) /\ tr.rb.count = rb.count - m
        /\ Contents(tr.rb) = SubSeq(Contents(rb), m + 1, rb.count)
    BY <1>3, <1>8
  <2> QED  BY <1>3, <2>1
<1> QED  BY <1>6, <1>7, <1>8

-----------------------------------------------------------------------------
(* Descriptor tables: how many entries refer to a file. *)

Tables == [Procs -> [Fds -> Files \cup {NULL}]]
EntriesIn(tables, f) == {e \in Procs \X Fds : tables[e[1]][e[2]] = f}

LEMMA EntriesFinite ==
  ASSUME NEW tables, NEW f
  PROVE  IsFiniteSet(EntriesIn(tables, f)) /\ Cardinality(EntriesIn(tables, f)) \in Nat
<1>1. IsFiniteSet(Procs \X Fds)
  BY FiledescAssumption, FS_Product
<1>2. EntriesIn(tables, f) \in SUBSET (Procs \X Fds)
  BY DEF EntriesIn
<1> QED  BY <1>1, <1>2, FS_Subset, FS_CardinalityType

\* new has g at descriptor fd of p and is otherwise as old.
EntrySet(new, old, p, fd, g) ==
  \A q \in Procs, h \in Fds : new[q][h] = IF q = p /\ h = fd THEN g ELSE old[q][h]

LEMMA SetEntry ==
  ASSUME NEW tables \in Tables, NEW p \in Procs, NEW fd \in Fds,
         NEW g \in Files \cup {NULL}, NEW f \in Files,
         NEW new, EntrySet(new, tables, p, fd, g)
  PROVE  Cardinality(EntriesIn(new, f)) =
           Cardinality(EntriesIn(tables, f)) + (IF g = f THEN 1 ELSE 0)
             - (IF tables[p][fd] = f THEN 1 ELSE 0)
<1> DEFINE old == EntriesIn(tables, f)
           e == <<p, fd>>
<1>1. \A q \in Procs, h \in Fds : new[q][h] = IF q = p /\ h = fd THEN g ELSE tables[q][h]
  BY DEF EntrySet
<1>2. IsFiniteSet(old) /\ Cardinality(old) \in Nat
  BY EntriesFinite
<1>3. e \in old <=> tables[p][fd] = f
  BY DEF EntriesIn
<1>4. EntriesIn(new, f) = IF g = f THEN old \cup {e} ELSE old \ {e}
  <2>1. \A q \in Procs, h \in Fds : <<q, h>> = e <=> q = p /\ h = fd
    OBVIOUS
  <2>2. \A q \in Procs, h \in Fds : <<q, h>> \in EntriesIn(new, f) <=> new[q][h] = f
    BY DEF EntriesIn
  <2>3. \A q \in Procs, h \in Fds : <<q, h>> \in old <=> tables[q][h] = f
    BY DEF EntriesIn
  <2>4. ASSUME NEW x \in Procs \X Fds
        PROVE  x \in EntriesIn(new, f) <=> IF g = f THEN x \in old \/ x = e ELSE x \in old /\ x # e
    <3>1. PICK q \in Procs, h \in Fds : x = <<q, h>>
      OBVIOUS
    <3> QED  BY <1>1, <2>1, <2>2, <2>3, <3>1
  <2>5. EntriesIn(new, f) \subseteq Procs \X Fds /\ old \subseteq Procs \X Fds /\ e \in Procs \X Fds
    BY DEF EntriesIn
  <2> HIDE DEF old, e
  <2> QED  BY <2>4, <2>5
<1> HIDE DEF old, e
<1>5. Cardinality(old \cup {e}) = IF e \in old THEN Cardinality(old) ELSE Cardinality(old) + 1
  BY <1>2, FS_AddElement
<1>6. Cardinality(old \ {e}) = IF e \in old THEN Cardinality(old) - 1 ELSE Cardinality(old)
  BY <1>2, FS_RemoveElement
<1>7. Cardinality(EntriesIn(new, f)) =
           Cardinality(old) + (IF g = f THEN 1 ELSE 0) - (IF tables[p][fd] = f THEN 1 ELSE 0)
  <2>1. CASE g = f
    BY <1>2, <1>3, <1>4, <1>5, <2>1
  <2>2. CASE g # f
    BY <1>2, <1>3, <1>4, <1>6, <2>2
  <2> QED  BY <2>1, <2>2
<1> QED  BY <1>7 DEF old

LEMMA CopyTable ==
  ASSUME NEW tables \in Tables, NEW p \in Procs, NEW c \in Procs, NEW f \in Files,
         tables[c] = EmptyTable, p # c
  PROVE  Cardinality(EntriesIn([tables EXCEPT ![c] = tables[p]], f)) =
           Cardinality(EntriesIn(tables, f)) + Cardinality(EntriesOf(tables[p], f))
<1> DEFINE new == [tables EXCEPT ![c] = tables[p]]
           old == EntriesIn(tables, f)
           copied == EntriesOf(tables[p], f)
           added == {c} \X copied
<1>1. \A q \in Procs : new[q] = IF q = c THEN tables[p] ELSE tables[q]
  BY DEF Tables
<1>2. IsFiniteSet(old) /\ Cardinality(old) \in Nat
  BY EntriesFinite
<1>3. IsFiniteSet(copied) /\ Cardinality(copied) \in Nat
  <2>1. copied \in SUBSET Fds
    BY DEF EntriesOf
  <2> QED  BY <2>1, FiledescAssumption, FS_Subset, FS_CardinalityType
<1>4. IsFiniteSet(added) /\ Cardinality(added) = Cardinality(copied)
  <2>1. IsFiniteSet({c}) /\ Cardinality({c}) = 1
    BY FS_Singleton
  <2>2. IsFiniteSet(added) /\ Cardinality(added) = Cardinality({c}) * Cardinality(copied)
    BY <1>3, <2>1, FS_Product
  <2> QED  BY <1>3, <2>1, <2>2
<1>5. EntriesIn(new, f) = old \cup added
  <2>1. \A q \in Procs, h \in Fds : <<q, h>> \in EntriesIn(new, f) <=> new[q][h] = f
    BY DEF EntriesIn
  <2>2. \A q \in Procs, h \in Fds : <<q, h>> \in old <=> tables[q][h] = f
    BY DEF EntriesIn
  <2>3. \A q \in Procs, h \in Fds : <<q, h>> \in added <=> q = c /\ tables[p][h] = f
    BY DEF EntriesOf
  <2>4. \A h \in Fds : tables[c][h] # f
    BY FiledescAssumption DEF EmptyTable
  <2>5. ASSUME NEW x \in Procs \X Fds
        PROVE  x \in EntriesIn(new, f) <=> x \in old \/ x \in added
    <3>1. PICK q \in Procs, h \in Fds : x = <<q, h>>
      OBVIOUS
    <3> HIDE DEF new, old, added
    <3>2. new[q] = IF q = c THEN tables[p] ELSE tables[q]
      BY <1>1
    <3> QED  BY <2>1, <2>2, <2>3, <2>4, <3>1, <3>2
  <2>6. EntriesIn(new, f) \subseteq Procs \X Fds /\ old \subseteq Procs \X Fds
        /\ added \subseteq Procs \X Fds
    BY DEF EntriesIn, EntriesOf
  <2> HIDE DEF new, old, added
  <2> QED  BY <2>5, <2>6
<1>6. old \cap added = {}
  <2>1. \A h \in Fds : <<c, h>> \notin old
    BY FiledescAssumption DEF EmptyTable, EntriesIn
  <2>2. \A x \in added : \E h \in Fds : x = <<c, h>>
    BY DEF EntriesOf
  <2> HIDE DEF old, added
  <2> QED  BY <2>1, <2>2
<1> HIDE DEF new, old, copied, added
<1>7. Cardinality(old \cup added) =
        Cardinality(old) + Cardinality(added) - Cardinality(old \cap added)
  BY <1>2, <1>4, FS_Union
<1>8. Cardinality(old \cap added) = 0
  BY <1>6, FS_EmptySet
<1>9. Cardinality(EntriesIn(new, f)) = Cardinality(old) + Cardinality(copied)
  BY <1>2, <1>3, <1>4, <1>5, <1>7, <1>8
<1> QED  BY <1>9 DEF new, old, copied

LEMMA SomeEntry ==
  ASSUME NEW tables, NEW p \in Procs, NEW fd \in Fds
  PROVE  Cardinality(EntriesIn(tables, tables[p][fd])) > 0
<1>1. <<p, fd>> \in EntriesIn(tables, tables[p][fd])
  BY DEF EntriesIn
<1> DEFINE E == EntriesIn(tables, tables[p][fd])
<1>2. IsFiniteSet(E) /\ Cardinality(E) \in Nat
  BY EntriesFinite
<1> HIDE DEF E
<1>3. Cardinality(E) # 0
  BY <1>1, <1>2, FS_EmptySet DEF E
<1> QED  BY <1>2, <1>3 DEF E

-----------------------------------------------------------------------------
(* The calls that move bytes keep the invariant. *)

Points == InRead \cup InWrite \cup
          {"unborn", "idle", "freeing", "exiting", "efreeing", "dead"}

LEMMA UnchangedKeeps == ASSUME IInv, UNCHANGED vars PROVE IInv'
<1>1. CountsOK'
  BY DEF IInv, CountsOK, Entries, Has, vars, pipeVars, callVars, fdVars
<1>2. LifeOK'
  BY DEF IInv, LifeOK, Closing, vars, pipeVars, callVars, fdVars
<1>3. TypeOK' /\ RingOK(buf)' /\ NoForgottenSleeper'
  BY DEF IInv, TypeOK, RingOK, NoForgottenSleeper, vars, pipeVars, callVars, fdVars
<1> QED  BY <1>1, <1>2, <1>3 DEF IInv

\* A call touches no descriptor, closes no end and frees nothing.
LEMMA CallKeeps ==
  ASSUME IInv, UNCHANGED <<fdVars, reader_closed, writer_closed, freed>>,
         \A q \in Procs :
           /\ pc'[q] = pc[q] \/ {pc[q], pc'[q]} \subseteq InRead \cup InWrite \cup {"idle"}
           /\ pc'[q] \in InRead => Has(q, Reader) /\ want'[q] > 0
           /\ pc'[q] \in InWrite => Has(q, Writer)
  PROVE  CountsOK' /\ LifeOK'
<1>1. \A q \in Procs : pc'[q] = "unborn" => pc[q] = "unborn"
  BY DEF InRead, InWrite
<1>2. Closing' = Closing
  <2>1. \A q \in Procs : pc'[q] \in {"freeing", "efreeing"} <=> pc[q] \in {"freeing", "efreeing"}
    BY DEF InRead, InWrite
  <2> QED  BY <2>1 DEF Closing
<1>3. LifeOK'
  BY <1>2 DEF IInv, LifeOK
<1>4. \A f : Entries(f)' = Entries(f)
  BY DEF Entries, fdVars
<1>5. \A f \in Files : f_count'[f] = Cardinality(Entries(f)') + leaked'[f]
  BY <1>4 DEF IInv, CountsOK, fdVars
<1>6. \A q \in Procs : \A f : Has(q, f)' <=> Has(q, f)
  BY DEF Has, fdVars
<1>7. CountsOK'
  BY <1>1, <1>5, <1>6 DEF IInv, CountsOK, fdVars
<1> QED  BY <1>3, <1>7

LEMMA ReadStartKeeps == ASSUME IInv, NEW p \in Procs, ReadStart(p) PROVE IInv'
<1>1. PICK n \in Requests : want' = [want EXCEPT ![p] = n]
  BY DEF ReadStart
<1>2. n \in Nat /\ n > 0
  BY PipeAssumption
<1>3. TypeOK' /\ RingOK(buf)'
  <2>1. want' \in [Procs -> Nat]
    BY <1>1, <1>2 DEF IInv, TypeOK
  <2>2. ops' \in 0 .. MaxOps
    BY PipeAssumption DEF IInv, TypeOK, ReadStart, Op
  <2>3. \A q \in Procs : pc'[q] \in InWrite <=> out'[q] # <<>>
    BY DEF IInv, TypeOK, ReadStart, InWrite
  <2>4. pc' \in [Procs -> Points]
    BY DEF IInv, TypeOK, ReadStart, Points, InRead
  <2> QED  BY <2>1, <2>2, <2>3, <2>4 DEF IInv, TypeOK, ReadStart, pipeVars, fdVars, Points
<1>4. CountsOK' /\ LifeOK'
  <2>1. \A q \in Procs : pc'[q] = IF q = p THEN "reading" ELSE pc[q]
    BY DEF ReadStart, IInv, TypeOK
  <2>2. \A q \in Procs : want'[q] = IF q = p THEN n ELSE want[q]
    BY <1>1 DEF IInv, TypeOK
  <2>3. \A q \in Procs :
           /\ pc'[q] = pc[q] \/ {pc[q], pc'[q]} \subseteq InRead \cup InWrite \cup {"idle"}
           /\ pc'[q] \in InRead => Has(q, Reader) /\ want'[q] > 0
           /\ pc'[q] \in InWrite => Has(q, Writer)
    BY <1>2, <2>1, <2>2 DEF ReadStart, IInv, CountsOK, InRead, InWrite
  <2> QED  BY <2>3, CallKeeps DEF ReadStart, pipeVars
<1>5. NoForgottenSleeper'
  BY DEF IInv, TypeOK, NoForgottenSleeper, ReadStart, pipeVars, ringbuf_empty, ringbuf_full
<1> QED  BY <1>3, <1>4, <1>5 DEF IInv

\* A read that returns or falls asleep.
LEMMA ReadEnds ==
  ASSUME IInv, NEW p \in Procs, pc[p] \in InRead,
         NEW to \in {"idle", "rsleep"}, NEW wake \in BOOLEAN,
         pc' = IF wake THEN WakeWriters([pc EXCEPT ![p] = to]) ELSE [pc EXCEPT ![p] = to],
         want' = IF to = "idle" THEN [want EXCEPT ![p] = 0] ELSE want,
         silent' \in BOOLEAN,
         UNCHANGED <<reader_closed, writer_closed, freed, fdVars, ops, out, sent>>, RingOK(buf'),
         to = "rsleep" => ~ writer_closed /\ ringbuf_empty(buf')
  PROVE  TypeOK' /\ CountsOK' /\ LifeOK'
<1>1. \A q \in Procs :
        pc'[q] = IF q = p THEN to ELSE IF wake /\ pc[q] = "wsleep" THEN "writing" ELSE pc[q]
  BY DEF IInv, TypeOK, WakeWriters, Broadcast
<1>2. pc' \in [Procs -> Points]
  BY DEF IInv, TypeOK, WakeWriters, Broadcast, InRead, InWrite, Points
<1>3. TypeOK'
  <2>1. \A q \in Procs : pc'[q] \in InWrite <=> out'[q] # <<>>
    BY <1>1 DEF IInv, TypeOK, InRead, InWrite
  <2>2. want' \in [Procs -> Nat]
    BY DEF IInv, TypeOK
  <2>3. buf' \in RingbufType(Bytes \cup {0})
    BY DEF RingOK
  <2> QED  BY <1>2, <2>1, <2>2, <2>3 DEF IInv, TypeOK, fdVars, Points
<1>4. \A q \in Procs : want'[q] = IF q = p /\ to = "idle" THEN 0 ELSE want[q]
  BY DEF IInv, TypeOK
<1>5. \A q \in Procs :
         /\ pc'[q] = pc[q] \/ {pc[q], pc'[q]} \subseteq InRead \cup InWrite \cup {"idle"}
         /\ pc'[q] \in InRead => Has(q, Reader) /\ want'[q] > 0
         /\ pc'[q] \in InWrite => Has(q, Writer)
  BY <1>1, <1>4 DEF IInv, CountsOK, InRead, InWrite
<1> QED  BY <1>3, <1>5, CallKeeps

LEMMA ReadLoopKeeps == ASSUME IInv, NEW p \in Procs, ReadLoop(p) PROVE IInv'
<1>1. CASE /\ ringbuf_empty(buf) /\ writer_closed
           /\ pc' = [pc EXCEPT ![p] = "idle"]
           /\ ReadReturn(p, "eof", <<>>)
           /\ UNCHANGED buf
  <2>1. RingOK(buf')
    BY <1>1 DEF IInv
  <2>2. TypeOK' /\ CountsOK' /\ LifeOK'
    BY <1>1, <2>1, ReadEnds DEF ReadLoop, ReadReturn, InRead, IInv, TypeOK
  <2>3. NoForgottenSleeper'
    BY <1>1 DEF ReadLoop, IInv, TypeOK, NoForgottenSleeper
  <2> QED  BY <2>1, <2>2, <2>3 DEF IInv
<1>2. CASE /\ ringbuf_empty(buf) /\ ~ writer_closed
           /\ pc' = [pc EXCEPT ![p] = "rsleep"]
           /\ UNCHANGED <<buf, want, said>>
  <2>1. RingOK(buf')
    BY <1>2 DEF IInv
  <2>2. TypeOK' /\ CountsOK' /\ LifeOK'
    BY <1>2, <2>1, ReadEnds DEF ReadLoop, InRead, IInv, TypeOK
  <2>3. NoForgottenSleeper'
    BY <1>2 DEF ReadLoop, IInv, TypeOK, NoForgottenSleeper
  <2> QED  BY <2>1, <2>2, <2>3 DEF IInv
<1>3. CASE /\ ~ ringbuf_empty(buf)
           /\ buf' = ringbuf_read(buf, want[p]).rb
           /\ ReadReturn(p, "ok", ringbuf_read(buf, want[p]).bytes)
           /\ pc' = WakeWriters([pc EXCEPT ![p] = "idle"])
  <2>1. RingOK(buf')
    <3>1. RingOK(buf) /\ want[p] \in Nat
      BY DEF IInv, TypeOK
    <3>2. PICK n, new :
            /\ n \in Nat
            /\ ringbuf_read(buf, want[p]) = [rb |-> new, bytes |-> SubSeq(Contents(buf), 1, n)]
            /\ RingOK(new)
      BY <3>1, RingbufReadOK
    <3> QED  BY <1>3, <3>2
  <2>2. TypeOK' /\ CountsOK' /\ LifeOK'
    BY <1>3, <2>1, ReadEnds DEF ReadLoop, ReadReturn, InRead, IInv, TypeOK
  <2>3. \A q \in Procs : pc'[q] = "rsleep" => pc[q] = "rsleep"
    BY <1>3 DEF IInv, TypeOK, WakeWriters, Broadcast
  <2>4. \A q \in Procs : pc'[q] # "wsleep"
    BY <1>3 DEF WakeWriters, Broadcast
  <2>5. ASSUME NEW q \in Procs, pc'[q] = "rsleep"
        PROVE  ~ writer_closed' /\ (silent' \/ ringbuf_empty(buf'))
    BY <1>3, <2>3, <2>5 DEF ReadLoop, IInv, NoForgottenSleeper
  <2> QED  BY <2>1, <2>2, <2>4, <2>5 DEF IInv, NoForgottenSleeper
<1> QED  BY <1>1, <1>2, <1>3 DEF ReadLoop

LEMMA ReadFaultKeeps == ASSUME IInv, NEW p \in Procs, ReadFault(p) PROVE IInv'
<1>1. PICK tr \in FaultyRead(buf, want[p]) : buf' = tr.rb /\ silent' = (silent \/ tr.bytes # <<>>)
  BY DEF ReadFault
<1>2. RingOK(buf) /\ want[p] \in Nat
  BY DEF IInv, TypeOK
<1>3. PICK n \in Nat :
           /\ tr.bytes = SubSeq(Contents(buf), 1, n)
           /\ n <= buf.count /\ RingOK(tr.rb) /\ tr.rb.count = buf.count - n
           /\ Contents(tr.rb) = SubSeq(Contents(buf), n + 1, buf.count)
  BY <1>2, FaultyReadOK
<1>4. RingOK(buf')
  BY <1>1, <1>3
<1>5. silent' \in BOOLEAN
  BY <1>1 DEF IInv, TypeOK
<1>6. TypeOK' /\ CountsOK' /\ LifeOK'
  BY <1>4, <1>5, ReadEnds DEF ReadFault, ReadReturn, InRead
<1>7. silent' \/ buf'.count = buf.count
  <2>1. n = 0 \/ tr.bytes # <<>>
    <3>1. Contents(buf) \in Seq(Data) /\ Len(Contents(buf)) = buf.count /\ buf.count \in Nat
      BY <1>2, NothingMoved
    <3>2. \A i \in 1 .. n : Contents(buf)[i] \in Data
      BY <1>3, <3>1, ElementOfSeq
    <3>3. Len(tr.bytes) = IF 1 <= n THEN n - 1 + 1 ELSE 0
      BY <1>3, <3>2, SubSeqProperties
    <3> QED  BY <3>3, EmptySeq
  <2>2. buf.count \in Nat
    BY <1>2, NothingMoved
  <2>3. n = 0 => buf'.count = buf.count
    BY <1>1, <1>3, <2>2
  <2>4. tr.bytes # <<>> => silent'
    BY <1>1
  <2> QED  BY <2>1, <2>3, <2>4
<1>8. NoForgottenSleeper'
  BY <1>1, <1>7 DEF ReadFault, IInv, TypeOK, NoForgottenSleeper, ringbuf_empty, ringbuf_full
<1> QED  BY <1>4, <1>6, <1>8 DEF IInv

LEMMA ReadInterruptedKeeps == ASSUME IInv, NEW p \in Procs, ReadInterrupted(p) PROVE IInv'
<1>1. RingOK(buf')
  BY DEF ReadInterrupted, pipeVars, IInv
<1>2. TypeOK' /\ CountsOK' /\ LifeOK'
  BY <1>1, ReadEnds DEF ReadInterrupted, ReadReturn, InRead, pipeVars, IInv, TypeOK
<1>3. NoForgottenSleeper'
  BY DEF ReadInterrupted, pipeVars, IInv, TypeOK, NoForgottenSleeper, ringbuf_empty, ringbuf_full
<1> QED  BY <1>1, <1>2, <1>3 DEF IInv

LEMMA MessageBytes == ASSUME NEW msg \in Messages PROVE msg \in Seq(Bytes) /\ msg # <<>>
<1>1. msg \in Seq(Nat) /\ Len(msg) > 0
  BY PipeAssumption
<1>2. msg \in [1 .. Len(msg) -> Nat] /\ Len(msg) \in Nat
  BY <1>1, LenProperties
<1>3. \A i \in 1 .. Len(msg) : msg[i] \in Bytes
  BY DEF Bytes
<1>4. msg \in [1 .. Len(msg) -> Bytes]
  BY <1>2, <1>3
<1> QED  BY <1>1, <1>2, <1>4, FunctionIsSeq, EmptySeq

LEMMA WriteStartKeeps == ASSUME IInv, NEW p \in Procs, WriteStart(p) PROVE IInv'
<1>1. PICK msg \in Messages : out' = [out EXCEPT ![p] = msg]
  BY DEF WriteStart
<1>2. msg \in Seq(Bytes) /\ msg # <<>>
  BY MessageBytes
<1>3. \A q \in Procs : pc'[q] = IF q = p THEN "writing" ELSE pc[q]
  BY DEF WriteStart, IInv, TypeOK
<1>4. TypeOK' /\ RingOK(buf)'
  <2>1. out' \in [Procs -> Seq(Bytes)]
    BY <1>1, <1>2 DEF IInv, TypeOK
  <2>2. ops' \in 0 .. MaxOps
    BY PipeAssumption DEF IInv, TypeOK, WriteStart, Op
  <2>3. \A q \in Procs : pc'[q] \in InWrite <=> out'[q] # <<>>
    BY <1>1, <1>2, <1>3 DEF IInv, TypeOK, InWrite
  <2>4. pc' \in [Procs -> Points]
    BY DEF IInv, TypeOK, WriteStart, Points, InWrite
  <2> QED  BY <2>1, <2>2, <2>3, <2>4 DEF IInv, TypeOK, WriteStart, pipeVars, fdVars, Points
<1>5. CountsOK' /\ LifeOK'
  <2>1. \A q \in Procs :
           /\ pc'[q] = pc[q] \/ {pc[q], pc'[q]} \subseteq InRead \cup InWrite \cup {"idle"}
           /\ pc'[q] \in InRead => Has(q, Reader) /\ want'[q] > 0
           /\ pc'[q] \in InWrite => Has(q, Writer)
    BY <1>3 DEF WriteStart, IInv, CountsOK, InRead, InWrite
  <2> QED  BY <2>1, CallKeeps DEF WriteStart, pipeVars
<1>6. NoForgottenSleeper'
  BY <1>3 DEF IInv, NoForgottenSleeper, WriteStart, pipeVars, ringbuf_empty, ringbuf_full
<1> QED  BY <1>4, <1>5, <1>6 DEF IInv

\* A write that returns or falls asleep.
LEMMA WriteEnds ==
  ASSUME IInv, NEW p \in Procs, pc[p] \in InWrite,
         NEW to \in {"idle", "wsleep"}, NEW wake \in BOOLEAN,
         pc' = IF wake THEN WakeReaders([pc EXCEPT ![p] = to]) ELSE [pc EXCEPT ![p] = to],
         NEW rest \in Seq(Bytes), to = "wsleep" <=> rest # <<>>,
         out' = [out EXCEPT ![p] = rest],
         NEW n \in Nat, sent' = [sent EXCEPT ![p] = n], silent' \in BOOLEAN,
         UNCHANGED <<reader_closed, writer_closed, freed, fdVars, ops, want>>, RingOK(buf')
  PROVE  TypeOK' /\ CountsOK' /\ LifeOK'
<1>1. \A q \in Procs :
        pc'[q] = IF q = p THEN to ELSE IF wake /\ pc[q] = "rsleep" THEN "reading" ELSE pc[q]
  BY DEF IInv, TypeOK, WakeReaders, Broadcast
<1>2. pc' \in [Procs -> Points]
  BY DEF IInv, TypeOK, WakeReaders, Broadcast, InRead, InWrite, Points
<1>3. \A q \in Procs : out'[q] = IF q = p THEN rest ELSE out[q]
  BY DEF IInv, TypeOK
<1>4. TypeOK'
  <2>1. \A q \in Procs : pc'[q] \in InWrite <=> out'[q] # <<>>
    BY <1>1, <1>3 DEF IInv, TypeOK, InRead, InWrite
  <2>2. sent' \in [Procs -> Nat] /\ out' \in [Procs -> Seq(Bytes)]
    BY DEF IInv, TypeOK
  <2>3. buf' \in RingbufType(Bytes \cup {0})
    BY DEF RingOK
  <2> QED  BY <1>2, <2>1, <2>2, <2>3 DEF IInv, TypeOK, fdVars, Points
<1>5. \A q \in Procs :
         /\ pc'[q] = pc[q] \/ {pc[q], pc'[q]} \subseteq InRead \cup InWrite \cup {"idle"}
         /\ pc'[q] \in InRead => Has(q, Reader) /\ want'[q] > 0
         /\ pc'[q] \in InWrite => Has(q, Writer)
  BY <1>1 DEF IInv, CountsOK, InRead, InWrite
<1> QED  BY <1>4, <1>5, CallKeeps

LEMMA WriteBreakKeeps ==
  ASSUME IInv, NEW p \in Procs, pc[p] \in InWrite, NEW error, NEW n, WriteBreak(p, error, n),
         silent' \in BOOLEAN,
         UNCHANGED <<reader_closed, writer_closed, freed, fdVars, ops, want>>, RingOK(buf')
  PROVE  TypeOK' /\ CountsOK' /\ LifeOK'
<1>1. pc' = [pc EXCEPT ![p] = "idle"] /\ out' = [out EXCEPT ![p] = <<>>]
      /\ sent' = [sent EXCEPT ![p] = 0]
  BY DEF WriteBreak, WriteReturn
<1>2. <<>> \in Seq(Bytes)
  BY EmptySeq
<1> QED  BY <1>1, <1>2, WriteEnds

LEMMA WriteLoopKeeps == ASSUME IInv, NEW p \in Procs, WriteLoop(p) PROVE IInv'
<1> DEFINE tr == ringbuf_write(buf, out[p])
<1>1. RingOK(buf) /\ out[p] \in Seq(Bytes) /\ sent[p] \in Nat /\ silent' \in BOOLEAN
      /\ pc[p] = "writing" /\ pc[p] \in InWrite
  BY DEF IInv, TypeOK, WriteLoop, InWrite
<1>2. UNCHANGED <<reader_closed, writer_closed, freed, silent, fdVars, ops, want>>
  BY DEF WriteLoop
<1>3. CASE reader_closed /\ WriteBreak(p, "EPIPE", sent[p]) /\ UNCHANGED buf
  <2>1. TypeOK' /\ CountsOK' /\ LifeOK' /\ RingOK(buf)'
    BY <1>1, <1>2, <1>3, WriteBreakKeeps
  <2>2. NoForgottenSleeper'
    BY <1>2, <1>3 DEF WriteBreak, IInv, TypeOK, NoForgottenSleeper
  <2> QED  BY <2>1, <2>2 DEF IInv
<1>4. PICK n, new :
           /\ n \in Nat
           /\ ringbuf_write(buf, out[p]) = [rb |-> new, n |-> n]
           /\ n <= Len(out[p]) /\ RingOK(new) /\ new.count = buf.count + n
           /\ Contents(new) = Contents(buf) \o SubSeq(out[p], 1, n)
           /\ n = Len(out[p]) \/ ringbuf_full(new)
  BY <1>1, RingbufWriteOK
<1>5. tr.rb = new /\ tr.n = n
  BY <1>4
<1>7. CASE /\ ~ reader_closed /\ buf' = new /\ n = Len(out[p])
           /\ pc' = WakeReaders([pc EXCEPT ![p] = "idle"])
           /\ WriteReturn(p, "ok", sent[p] + n)
  <2>1. RingOK(buf')
    BY <1>4, <1>7
  <2>2. <<>> \in Seq(Bytes)
    BY EmptySeq
  <2>3. TypeOK' /\ CountsOK' /\ LifeOK'
    BY <1>1, <1>2, <1>7, <2>1, <2>2, WriteEnds DEF WriteReturn
  <2>4. \A q \in Procs : pc'[q] # "rsleep" /\ (pc'[q] = "wsleep" => pc[q] = "wsleep")
    BY <1>7 DEF WakeReaders, Broadcast, IInv, TypeOK
  <2>5. ASSUME NEW q \in Procs, pc[q] = "wsleep"
        PROVE  ~ reader_closed' /\ (silent' \/ ringbuf_full(buf'))
    <3>1. CASE silent
      BY <1>2, <1>7, <3>1
    <3>2. CASE ringbuf_full(buf)
      <4>1. buf.count = Size /\ Size \in Nat /\ new.count <= Size
        BY <1>4, <3>2, RingbufAssumption DEF ringbuf_full, RingOK, RingbufType
      <4>2. new.count = Size
        BY <1>4, <4>1
      <4> QED  BY <1>2, <1>7, <4>2 DEF ringbuf_full
    <3> QED  BY <2>5, <3>1, <3>2 DEF IInv, NoForgottenSleeper
  <2> QED  BY <2>1, <2>3, <2>4, <2>5 DEF IInv, NoForgottenSleeper
<1>8. CASE /\ ~ reader_closed /\ buf' = new /\ n < Len(out[p])
           /\ pc' = WakeReaders([pc EXCEPT ![p] = "wsleep"])
           /\ out' = [out EXCEPT ![p] = SubSeq(@, n + 1, Len(@))]
           /\ sent' = [sent EXCEPT ![p] = sent[p] + n]
  <2>1. RingOK(buf')
    BY <1>4, <1>8
  <2> DEFINE rest == SubSeq(out[p], n + 1, Len(out[p]))
  <2>2. rest \in Seq(Bytes) /\ rest # <<>>
    <3>1. PICK len \in Nat : len = Len(out[p])
      BY <1>1, LenProperties
    <3>2. \A i \in n + 1 .. len : out[p][i] \in Bytes
      BY <1>4, <1>1, <3>1, ElementOfSeq
    <3>3. /\ SubSeq(out[p], n + 1, len) \in Seq(Bytes)
          /\ Len(SubSeq(out[p], n + 1, len)) = IF n + 1 <= len THEN len - (n + 1) + 1 ELSE 0
      BY <1>4, <3>2, SubSeqProperties
    <3>4. Len(SubSeq(out[p], n + 1, len)) # 0
      BY <1>4, <1>8, <3>1, <3>3
    <3> QED  BY <3>1, <3>3, <3>4, EmptySeq
  <2>3. out' = [out EXCEPT ![p] = rest]
    BY <1>8 DEF IInv, TypeOK
  <2> HIDE DEF rest
  <2>4. TypeOK' /\ CountsOK' /\ LifeOK'
    <3>1. sent[p] + n \in Nat
      BY <1>4, <1>1
    <3> QED  BY <1>1, <1>2, <1>8, <2>1, <2>2, <2>3, <3>1, WriteEnds
  <2>5. \A q \in Procs : pc'[q] # "rsleep"
    BY <1>8 DEF WakeReaders, Broadcast, IInv, TypeOK
  <2>6. ringbuf_full(buf')
    BY <1>1, <1>4, <1>8, LenProperties
  <2> QED  BY <1>2, <1>8, <2>1, <2>4, <2>5, <2>6 DEF IInv, NoForgottenSleeper
<1> QED  BY <1>3, <1>5, <1>7, <1>8 DEF WriteLoop

LEMMA WriteFaultKeeps == ASSUME IInv, NEW p \in Procs, WriteFault(p) PROVE IInv'
<1>1. PICK tr \in FaultyWrite(buf, out[p]) :
        /\ buf' = tr.rb /\ silent' = (silent \/ tr.n > 0)
        /\ WriteBreak(p, "EFAULT", sent[p] + tr.n)
  BY DEF WriteFault
<1>2. RingOK(buf) /\ out[p] \in Seq(Bytes) /\ pc[p] \in InWrite
  BY DEF IInv, TypeOK, WriteFault, InWrite
<1>3. tr.n \in Nat /\ RingOK(tr.rb) /\ tr.rb.count = buf.count + tr.n
  BY <1>2, FaultyWriteOK
<1>4. silent' \in BOOLEAN
  BY <1>1 DEF IInv, TypeOK
<1>5. TypeOK' /\ CountsOK' /\ LifeOK' /\ RingOK(buf)'
  BY <1>1, <1>2, <1>3, <1>4, WriteBreakKeeps DEF WriteFault
<1>6. silent' \/ buf'.count = buf.count
  <2>1. buf.count \in Nat
    BY <1>2, NothingMoved
  <2>2. tr.n > 0 \/ buf'.count = buf.count
    BY <1>1, <1>3, <2>1
  <2>3. tr.n > 0 => silent'
    BY <1>1
  <2> QED  BY <2>2, <2>3
<1>7. silent => silent'
  BY <1>1
<1>8. \A q \in Procs : pc'[q] \in {"rsleep", "wsleep"} => pc'[q] = pc[q]
  BY <1>1 DEF WriteBreak, IInv, TypeOK
<1> QED
  BY <1>5, <1>6, <1>7, <1>8
  DEF WriteFault, IInv, NoForgottenSleeper, ringbuf_empty, ringbuf_full

LEMMA WriteInterruptedKeeps == ASSUME IInv, NEW p \in Procs, WriteInterrupted(p) PROVE IInv'
<1>1. RingOK(buf') /\ silent' \in BOOLEAN /\ pc[p] \in InWrite
  BY DEF WriteInterrupted, pipeVars, IInv, TypeOK, InWrite
<1>2. TypeOK' /\ CountsOK' /\ LifeOK'
  BY <1>1, WriteBreakKeeps DEF WriteInterrupted, pipeVars
<1>3. NoForgottenSleeper'
  BY DEF WriteInterrupted, WriteBreak, pipeVars, IInv, TypeOK, NoForgottenSleeper,
         ringbuf_empty, ringbuf_full
<1> QED  BY <1>1, <1>2, <1>3 DEF IInv

-----------------------------------------------------------------------------
(* Descriptors and processes keep the invariant. *)

\* A file with a descriptor is not closed.
LEMMA CountOfEntry ==
  ASSUME IInv, NEW p \in Procs, NEW fd \in Fds, fdt_entries[p][fd] \in Files
  PROVE  f_count[fdt_entries[p][fd]] \in Nat /\ f_count[fdt_entries[p][fd]] > 0
<1> DEFINE f == fdt_entries[p][fd]
<1>1. f_count[f] = Cardinality(Entries(f)) + leaked[f] /\ leaked[f] \in Nat /\ f_count[f] \in Nat
  BY DEF IInv, CountsOK, TypeOK
<1>2. Entries(f) = EntriesIn(fdt_entries, f)
  BY DEF Entries, EntriesIn
<1>3. Cardinality(EntriesIn(fdt_entries, f)) > 0 /\ Cardinality(EntriesIn(fdt_entries, f)) \in Nat
  BY SomeEntry, EntriesFinite
<1> QED  BY <1>1, <1>2, <1>3

\* What the section of pipe_close under the mutex keeps, when the last
\* reference to an end is dropped.
LEMMA CloseKeeps ==
  ASSUME IInv, NEW p \in Procs, NEW f \in Files, f_count[f] = 1,
         pc[p] \in {"idle", "exiting"},
         NEW free \in {"freeing", "efreeing"}, NEW on \in {"idle", "exiting"},
         pipe_close(p, f, free, on), UNCHANGED <<buf, freed, silent>>
  PROVE  /\ reader_closed' = (reader_closed \/ f = Reader)
         /\ writer_closed' = (writer_closed \/ f = Writer)
         /\ pc' \in [Procs -> Points] /\ pc'[p] \in {free, on}
         /\ \A q \in Procs \ {p} : \/ pc'[q] = pc[q] 
                                   \/ pc[q] \in InRead /\ pc'[q] \in InRead
                                   \/ pc[q] \in InWrite /\ pc'[q] \in InWrite
         /\ LifeOK' /\ NoForgottenSleeper'
<1> DEFINE to == IF BothClosed(f) THEN free ELSE on
<1>1. f = Reader \/ f = Writer
  BY PipeAssumption
<1>2. /\ f = Reader => ~ reader_closed
      /\ f = Writer => ~ writer_closed
  BY DEF IInv, CountsOK
<1>3. /\ reader_closed' = (reader_closed \/ f = Reader)
      /\ writer_closed' = (writer_closed \/ f = Writer)
  BY <1>1, <1>2, PipeAssumption DEF pipe_close, IInv, TypeOK
<1>4. to \in {"freeing", "efreeing", "idle", "exiting"}
  OBVIOUS
<1>5. pc' = IF f = Reader THEN WakeWriters([pc EXCEPT ![p] = to])
            ELSE WakeReaders([pc EXCEPT ![p] = to])
  BY DEF pipe_close
<1>6. \A q \in Procs :
        pc'[q] = IF q = p THEN to
                 ELSE IF f = Reader /\ pc[q] = "wsleep" THEN "writing"
                 ELSE IF f # Reader /\ pc[q] = "rsleep" THEN "reading" ELSE pc[q]
  <2> HIDE DEF to
  <2> QED  BY <1>4, <1>5 DEF WakeWriters, WakeReaders, Broadcast, IInv, TypeOK
<1>7. pc' \in [Procs -> Points]
  <2>1. \A q \in Procs : pc'[q] \in Points
    <3> HIDE DEF to
    <3> QED  BY <1>4, <1>6 DEF IInv, TypeOK, Points, InRead, InWrite
  <2>2. pc' = [q \in Procs |-> pc'[q]]
    <3> HIDE DEF to
    <3> QED  BY <1>5 DEF WakeWriters, WakeReaders, Broadcast
  <2> QED  BY <2>1, <2>2
<1>8. LifeOK'
  <2>1. Closing = {} /\ ~ freed
    BY <1>1, <1>2 DEF IInv, LifeOK
  <2>2. Closing' = {q \in Procs : pc'[q] \in {"freeing", "efreeing"}}
    BY DEF Closing
  <2>3. \A q \in Procs \ {p} : pc'[q] \notin {"freeing", "efreeing"}
    BY <1>6, <2>1 DEF Closing
  <2>4. pc'[p] = to
    BY <1>6
  <2>5. CASE BothClosed(f)
    <3>1. Closing' = {p}
      BY <2>2, <2>3, <2>4, <2>5
    <3>2. reader_closed' /\ writer_closed'
      BY <1>1, <1>3, <2>5 DEF BothClosed
    <3> QED  BY <2>1, <3>1, <3>2 DEF LifeOK
  <2>6. CASE ~ BothClosed(f)
    <3>1. Closing' = {}
      BY <2>2, <2>3, <2>4, <2>6
    <3>2. ~ (reader_closed' /\ writer_closed')
      BY <1>1, <1>3, <2>6, PipeAssumption DEF BothClosed
    <3> QED  BY <2>1, <3>1, <3>2 DEF LifeOK
  <2> QED  BY <2>5, <2>6
<1>9. NoForgottenSleeper'
  <2> HIDE DEF to
  <2>1. ASSUME NEW q \in Procs, pc'[q] = "rsleep"
        PROVE  pc[q] = "rsleep" /\ f = Reader
    BY <1>4, <1>6, <2>1
  <2>2. ASSUME NEW q \in Procs, pc'[q] = "wsleep"
        PROVE  pc[q] = "wsleep" /\ f # Reader
    BY <1>4, <1>6, <2>2
  <2>3. ASSUME NEW q \in Procs, pc'[q] = "rsleep"
        PROVE  ~ writer_closed' /\ (silent' \/ ringbuf_empty(buf'))
    BY <1>3, <2>1, <2>3, PipeAssumption DEF IInv, NoForgottenSleeper
  <2>4. ASSUME NEW q \in Procs, pc'[q] = "wsleep"
        PROVE  ~ reader_closed' /\ (silent' \/ ringbuf_full(buf'))
    BY <1>3, <2>2, <2>4 DEF IInv, NoForgottenSleeper
  <2> QED  BY <2>3, <2>4 DEF NoForgottenSleeper
<1>10. \A q \in Procs \ {p} : \/ pc'[q] = pc[q] 
                              \/ pc[q] \in InRead /\ pc'[q] \in InRead
                              \/ pc[q] \in InWrite /\ pc'[q] \in InWrite
  BY <1>6 DEF InRead, InWrite
<1> QED  BY <1>3, <1>6, <1>7, <1>8, <1>9, <1>10

\* The counts change as the entry does that is set to g.
CountsFollow(p, fd, g) ==
  \A f \in Files : f_count'[f] - leaked'[f] =
     f_count[f] - leaked[f] + (IF g = f THEN 1 ELSE 0) - (IF fdt_entries[p][fd] = f THEN 1 ELSE 0)

LEMMA TablesKeep ==
  ASSUME IInv, NEW p \in Procs, NEW fd \in Fds, NEW g \in Files \cup {NULL},
         EntrySet(fdt_entries', fdt_entries, p, fd, g),
         f_count' \in [Files -> Nat], leaked' \in [Files -> Nat],
         CountsFollow(p, fd, g)
  PROVE  \A f \in Files : f_count'[f] = Cardinality(Entries(f)') + leaked'[f]
<1>1. fdt_entries \in Tables
  BY DEF IInv, TypeOK, Tables
<1>3. ASSUME NEW f \in Files
      PROVE  f_count'[f] = Cardinality(Entries(f)') + leaked'[f]
  <2>1. Entries(f) = EntriesIn(fdt_entries, f) /\ Entries(f)' = EntriesIn(fdt_entries', f)
    BY DEF Entries, EntriesIn
  <2>2. Cardinality(EntriesIn(fdt_entries', f)) =
           Cardinality(EntriesIn(fdt_entries, f)) + (IF g = f THEN 1 ELSE 0)
             - (IF fdt_entries[p][fd] = f THEN 1 ELSE 0)
    BY <1>1, SetEntry
  <2>3. f_count[f] = Cardinality(EntriesIn(fdt_entries, f)) + leaked[f]
    BY <2>1 DEF IInv, CountsOK
  <2>4. /\ Cardinality(EntriesIn(fdt_entries, f)) \in Nat
        /\ f_count[f] \in Nat /\ leaked[f] \in Nat /\ f_count'[f] \in Nat /\ leaked'[f] \in Nat
    BY EntriesFinite DEF IInv, TypeOK
  <2> QED  BY <2>1, <2>2, <2>3, <2>4 DEF CountsFollow
<1> QED  BY <1>3

\* A process that is not in a call changes its own table.
LEMMA OthersKeepDescriptors ==
  ASSUME IInv, NEW p \in Procs, NEW fd \in Fds, NEW g,
         fdt_entries' = [fdt_entries EXCEPT ![p][fd] = g],
         pc'[p] \notin InRead \cup InWrite \cup {"unborn"}, UNCHANGED want,
         \A q \in Procs \ {p} : \/ pc'[q] = pc[q] 
                                \/ pc[q] \in InRead /\ pc'[q] \in InRead
                                \/ pc[q] \in InWrite /\ pc'[q] \in InWrite
  PROVE  \A q \in Procs : /\ pc'[q] \in InRead => Has(q, Reader)' /\ want'[q] > 0
                          /\ pc'[q] \in InWrite => Has(q, Writer)'
                          /\ pc'[q] = "unborn" => fdt_entries'[q] = EmptyTable
<1> SUFFICES ASSUME NEW q \in Procs, q # p
             PROVE  /\ pc'[q] \in InRead => Has(q, Reader)' /\ want'[q] > 0
                    /\ pc'[q] \in InWrite => Has(q, Writer)'
                    /\ pc'[q] = "unborn" => fdt_entries'[q] = EmptyTable
  OBVIOUS
<1>1. fdt_entries'[q] = fdt_entries[q]
  BY DEF IInv, TypeOK
<1>2. \A f : Has(q, f)' <=> Has(q, f)
  BY <1>1 DEF Has
<1>3. /\ pc'[q] \in InRead => pc[q] \in InRead
      /\ pc'[q] \in InWrite => pc[q] \in InWrite
      /\ pc'[q] = "unborn" => pc[q] = "unborn"
  BY DEF InRead, InWrite
<1> QED  BY <1>1, <1>2, <1>3 DEF IInv, CountsOK

LEMMA DropKeeps ==
  ASSUME IInv, NEW p \in Procs, NEW fd \in Fds, pc[p] \in {"idle", "exiting"},
         NEW free \in {"freeing", "efreeing"}, NEW on \in {"idle", "exiting"},
         DropEntry(p, fd, free, on), UNCHANGED <<buf, freed, silent, out, sent, want, ops>>
  PROVE  IInv'
<1> DEFINE f == fdt_entries[p][fd]
<1>1. f \in Files /\ fdt_entries' = [fdt_entries EXCEPT ![p][fd] = NULL]
      /\ f_count' = [f_count EXCEPT ![f] = @ - 1] /\ leaked' = leaked
  BY DEF DropEntry, fd_free, fd_is_used, IInv, TypeOK
<1>2. f_count[f] \in Nat /\ f_count[f] > 0
  BY <1>1, CountOfEntry
<1>3. \A g \in Files : f_count'[g] = IF g = f THEN f_count[g] - 1 ELSE f_count[g]
  BY <1>1 DEF IInv, TypeOK
<1>4. f_count' \in [Files -> Nat] /\ leaked' \in [Files -> Nat]
  BY <1>1, <1>2 DEF IInv, TypeOK
<1>5. CountsFollow(p, fd, NULL)
  <2> SUFFICES ASSUME NEW g \in Files
               PROVE  f_count'[g] - leaked'[g] =
                        f_count[g] - leaked[g] + (IF NULL = g THEN 1 ELSE 0)
                          - (IF fdt_entries[p][fd] = g THEN 1 ELSE 0)
    BY DEF CountsFollow
  <2>1. NULL # g /\ f_count[g] \in Nat /\ leaked[g] \in Nat /\ leaked'[g] = leaked[g]
    BY <1>1, FiledescAssumption DEF IInv, TypeOK
  <2> QED  BY <1>3, <2>1
<1>6. /\ fdt_entries' \in Tables
      /\ \A g \in Files : f_count'[g] = Cardinality(Entries(g)') + leaked'[g]
  <2>1. NULL \in Files \cup {NULL}
    OBVIOUS
  <2>2. fdt_entries' \in Tables
    BY <1>1 DEF IInv, TypeOK, Tables
  <2>3. EntrySet(fdt_entries', fdt_entries, p, fd, NULL)
    BY <1>1 DEF IInv, TypeOK, EntrySet
  <2> HIDE DEF f
  <2> QED  BY <1>4, <1>5, <2>1, <2>2, <2>3, TablesKeep
<1>7. f = Reader \/ f = Writer
  BY <1>1, PipeAssumption
<1>8. Reader \in Files /\ Writer \in Files /\ Reader # Writer
  BY PipeAssumption
<1>9. /\ reader_closed' <=> f_count'[Reader] = 0
      /\ writer_closed' <=> f_count'[Writer] = 0
      /\ reader_closed' \in BOOLEAN /\ writer_closed' \in BOOLEAN
      /\ pc' \in [Procs -> Points] /\ pc'[p] \in {free, on}
      /\ \A q \in Procs \ {p} : \/ pc'[q] = pc[q] 
                                \/ pc[q] \in InRead /\ pc'[q] \in InRead
                                \/ pc[q] \in InWrite /\ pc'[q] \in InWrite
      /\ LifeOK' /\ NoForgottenSleeper'
  <2>1. CASE LastDrop(p, fd)
    <3>1. f_count[f] = 1 /\ pipe_close(p, f, free, on)
      BY <2>1 DEF LastDrop, DropEntry
    <3>2. /\ reader_closed' = (reader_closed \/ f = Reader)
          /\ writer_closed' = (writer_closed \/ f = Writer)
          /\ pc' \in [Procs -> Points] /\ pc'[p] \in {free, on}
          /\ \A q \in Procs \ {p} : \/ pc'[q] = pc[q] 
                                    \/ pc[q] \in InRead /\ pc'[q] \in InRead
                                    \/ pc[q] \in InWrite /\ pc'[q] \in InWrite
          /\ LifeOK' /\ NoForgottenSleeper'
      BY <1>1, <3>1, CloseKeeps
    <3>3. f_count'[f] = 0 /\ \A g \in Files \ {f} : f_count'[g] = f_count[g]
      BY <1>1, <1>3, <3>1
    <3>4. /\ reader_closed' <=> f_count'[Reader] = 0
          /\ writer_closed' <=> f_count'[Writer] = 0
      BY <1>7, <1>8, <3>2, <3>3 DEF IInv, CountsOK
    <3>5. reader_closed' \in BOOLEAN /\ writer_closed' \in BOOLEAN
      BY <3>2
    <3> QED  BY <3>2, <3>4, <3>5
  <2>2. CASE ~ LastDrop(p, fd)
    <3>1. f_count[f] # 1 /\ pc' = [pc EXCEPT ![p] = on] /\ UNCHANGED <<reader_closed, writer_closed>>
      BY <2>2 DEF LastDrop, DropEntry
    <3>2. f_count[f] # 0 /\ f_count'[f] # 0 /\ \A g \in Files \ {f} : f_count'[g] = f_count[g]
      BY <1>1, <1>2, <1>3, <3>1
    <3>3. /\ reader_closed' <=> f_count'[Reader] = 0
          /\ writer_closed' <=> f_count'[Writer] = 0
      BY <1>7, <1>8, <3>1, <3>2 DEF IInv, CountsOK
    <3>4. \A q \in Procs : pc'[q] = IF q = p THEN on ELSE pc[q]
      BY <3>1 DEF IInv, TypeOK
    <3>5. pc' \in [Procs -> Points]
      BY <3>1 DEF IInv, TypeOK, Points
    <3>6. Closing' = Closing
      BY <3>4 DEF Closing
    <3>7. LifeOK'
      BY <3>1, <3>6 DEF IInv, LifeOK
    <3>8. NoForgottenSleeper'
      BY <3>1, <3>4 DEF IInv, NoForgottenSleeper
    <3> QED  BY <3>1, <3>3, <3>4, <3>5, <3>7, <3>8 DEF IInv, TypeOK
  <2> QED  BY <2>1, <2>2
<1>10. \A q \in Procs : /\ pc'[q] \in InRead => Has(q, Reader)' /\ want'[q] > 0
                        /\ pc'[q] \in InWrite => Has(q, Writer)'
                        /\ pc'[q] = "unborn" => fdt_entries'[q] = EmptyTable
  <2>1. pc'[p] \notin InRead \cup InWrite \cup {"unborn"}
    BY <1>9 DEF InRead, InWrite
  <2> QED  BY <1>1, <1>9, <2>1, OthersKeepDescriptors
<1>11. CountsOK'
  BY <1>6, <1>9, <1>10 DEF CountsOK
<1>12. TypeOK'
  <2>1. \A q \in Procs : pc'[q] \in InWrite <=> pc[q] \in InWrite
    BY <1>9 DEF InRead, InWrite
  <2>2. \A q \in Procs : pc'[q] \in InWrite <=> out'[q] # <<>>
    BY <2>1 DEF IInv, TypeOK
  <2> QED  BY <1>4, <1>6, <1>9, <2>2 DEF IInv, TypeOK, Tables, Points
<1> QED  BY <1>9, <1>11, <1>12 DEF IInv

LEMMA CloseStepKeeps == ASSUME IInv, NEW p \in Procs, Close(p) PROVE IInv'
  BY DropKeeps DEF Close

LEMMA FdtabDropKeeps == ASSUME IInv, NEW p \in Procs, fdtab_drop(p) PROVE IInv'
<1>1. CASE \E fd \in Fds : DropEntry(p, fd, "efreeing", "exiting")
  BY <1>1, DropKeeps DEF fdtab_drop
<1>2. CASE /\ pc' = [pc EXCEPT ![p] = "dead"]
           /\ UNCHANGED <<reader_closed, writer_closed, fdVars>>
  <2>1. \A q \in Procs : pc'[q] = IF q = p THEN "dead" ELSE pc[q]
    BY <1>2 DEF IInv, TypeOK
  <2>2. Closing' = Closing
    BY <2>1 DEF Closing, fdtab_drop
  <2>3. LifeOK' /\ NoForgottenSleeper' /\ RingOK(buf)'
    BY <1>2, <2>1, <2>2 DEF IInv, LifeOK, NoForgottenSleeper, fdtab_drop
  <2>4. CountsOK'
    BY <1>2, <2>1 DEF IInv, CountsOK, Entries, Has, fdVars, fdtab_drop, InRead, InWrite
  <2>5. pc' \in [Procs -> Points] /\ \A q \in Procs : pc'[q] \in InWrite <=> pc[q] \in InWrite
    BY <1>2, <2>1 DEF IInv, TypeOK, Points, fdtab_drop, InWrite
  <2>6. TypeOK'
    BY <1>2, <2>5 DEF IInv, TypeOK, Points, fdtab_drop, fdVars
  <2> QED  BY <2>3, <2>4, <2>6 DEF IInv
<1> QED  BY <1>1, <1>2 DEF fdtab_drop

LEMMA ExitKeeps == ASSUME IInv, NEW p \in Procs, Exit(p) PROVE IInv'
<1>1. \A q \in Procs : pc'[q] = IF q = p THEN "exiting" ELSE pc[q]
  BY DEF IInv, TypeOK, Exit
<1>2. Closing' = Closing
  BY <1>1 DEF Closing, Exit
<1>3. LifeOK' /\ NoForgottenSleeper' /\ RingOK(buf)'
  BY <1>1, <1>2 DEF IInv, LifeOK, NoForgottenSleeper, Exit, pipeVars
<1>4. CountsOK'
  BY <1>1 DEF IInv, CountsOK, Entries, Has, fdVars, Exit, InRead, InWrite, pipeVars
<1>5. pc' \in [Procs -> Points] /\ \A q \in Procs : pc'[q] \in InWrite <=> pc[q] \in InWrite
  BY <1>1 DEF IInv, TypeOK, Points, Exit, InWrite
<1>6. TypeOK'
  BY <1>5 DEF IInv, TypeOK, Points, Exit, fdVars, pipeVars
<1> QED  BY <1>3, <1>4, <1>6 DEF IInv

LEMMA PipeFreeKeeps == ASSUME IInv, NEW p \in Procs, pipe_free(p) PROVE IInv'
<1>1. \A q \in Procs :
        pc'[q] = IF q # p THEN pc[q] ELSE IF pc[p] = "freeing" THEN "idle" ELSE "exiting"
  BY DEF IInv, TypeOK, pipe_free
<1>2. Closing' = {} /\ reader_closed /\ writer_closed
  <2>1. p \in Closing
    BY DEF Closing, pipe_free
  <2>2. Closing = {p} /\ reader_closed /\ writer_closed
    BY <2>1 DEF IInv, LifeOK
  <2>3. \A q \in Procs : pc'[q] \notin {"freeing", "efreeing"}
    BY <1>1, <2>2 DEF Closing
  <2> QED  BY <2>2, <2>3 DEF Closing
<1>3. LifeOK' /\ NoForgottenSleeper' /\ RingOK(buf)'
  BY <1>1, <1>2 DEF IInv, LifeOK, NoForgottenSleeper, pipe_free
<1>4. CountsOK'
  BY <1>1 DEF IInv, CountsOK, Entries, Has, fdVars, pipe_free, InRead, InWrite
<1>5. pc' \in [Procs -> Points] /\ \A q \in Procs : pc'[q] \in InWrite <=> pc[q] \in InWrite
  BY <1>1 DEF IInv, TypeOK, Points, pipe_free, InWrite
<1>6. TypeOK'
  BY <1>5 DEF IInv, TypeOK, Points, pipe_free, fdVars
<1> QED  BY <1>3, <1>4, <1>6 DEF IInv

\* A descriptor more, or a hold for a descriptor that was there.
LEMMA HoldKeeps ==
  ASSUME IInv, NEW p \in Procs, NEW fd \in Fds, NEW f \in Files, f_count[f] > 0,
         pc[p] = "idle", fdt_entries[p][fd] \in {NULL, f},
         fdt_entries' = [fdt_entries EXCEPT ![p][fd] = f],
         f_count' = [f_count EXCEPT ![f] = @ + 1],
         leaked' = IF fdt_entries[p][fd] = f THEN [leaked EXCEPT ![f] = @ + 1] ELSE leaked,
         ops' \in 0 .. MaxOps, UNCHANGED <<pipeVars, callVars>>
  PROVE  IInv'
<1>1. \A g \in Files : f_count[g] \in Nat /\ leaked[g] \in Nat
  BY DEF IInv, TypeOK
<1>2. f_count' \in [Files -> Nat] /\ leaked' \in [Files -> Nat]
  BY <1>1 DEF IInv, TypeOK
<1>3. \A g \in Files : f_count'[g] = IF g = f THEN f_count[g] + 1 ELSE f_count[g]
  BY DEF IInv, TypeOK
<1>4. \A g \in Files : leaked'[g] = IF g = f /\ fdt_entries[p][fd] = f THEN leaked[g] + 1 ELSE leaked[g]
  BY DEF IInv, TypeOK
<1>5. fdt_entries' \in Tables /\ EntrySet(fdt_entries', fdt_entries, p, fd, f)
  BY DEF IInv, TypeOK, Tables, EntrySet
<1>6. CountsFollow(p, fd, f)
  <2> SUFFICES ASSUME NEW g \in Files
               PROVE  f_count'[g] - leaked'[g] =
                        f_count[g] - leaked[g] + (IF f = g THEN 1 ELSE 0)
                          - (IF fdt_entries[p][fd] = g THEN 1 ELSE 0)
    BY DEF CountsFollow
  <2>1. fdt_entries[p][fd] = g => g = f
    BY FiledescAssumption
  <2> QED  BY <1>1, <1>3, <1>4, <2>1
<1>7. \A g \in Files : f_count'[g] = Cardinality(Entries(g)') + leaked'[g]
  <2>1. f \in Files \cup {NULL}
    OBVIOUS
  <2> QED  BY <1>2, <1>5, <1>6, <2>1, TablesKeep
<1>8. \A g \in Files : f_count'[g] = 0 <=> f_count[g] = 0
  BY <1>1, <1>3
<1>9. \A q \in Procs : /\ pc'[q] \in InRead => Has(q, Reader)' /\ want'[q] > 0
                       /\ pc'[q] \in InWrite => Has(q, Writer)'
                       /\ pc'[q] = "unborn" => fdt_entries'[q] = EmptyTable
  <2>1. /\ UNCHANGED <<pc, want>>
        /\ pc'[p] \notin InRead \cup InWrite \cup {"unborn"}
    BY DEF callVars, InRead, InWrite
  <2>2. \A q \in Procs \ {p} : \/ pc'[q] = pc[q] 
                               \/ pc[q] \in InRead /\ pc'[q] \in InRead
                               \/ pc[q] \in InWrite /\ pc'[q] \in InWrite
    BY <2>1
  <2> QED  BY <2>1, <2>2, OthersKeepDescriptors
<1>10. CountsOK'
  BY <1>7, <1>8, <1>9, PipeAssumption DEF CountsOK, IInv, pipeVars
<1>11. LifeOK' /\ NoForgottenSleeper' /\ RingOK(buf)'
  BY DEF IInv, LifeOK, Closing, NoForgottenSleeper, pipeVars, callVars, ringbuf_empty, ringbuf_full
<1>12. TypeOK'
  BY <1>2, <1>5 DEF IInv, TypeOK, Tables, pipeVars, callVars
<1> QED  BY <1>10, <1>11, <1>12 DEF IInv

LEMMA OpBound == ASSUME IInv, Op PROVE ops' \in 0 .. MaxOps
  BY PipeAssumption DEF IInv, TypeOK, Op

LEMMA DupKeeps == ASSUME IInv, NEW p \in Procs, Dup(p) PROVE IInv'
<1>1. PICK old \in Fds, new \in Fds : do_dup(p, old, new)
  BY DEF Dup
<1>2. PICK f \in Files : f = fdt_entries[p][old]
  BY <1>1 DEF do_dup, fd_is_used, IInv, TypeOK
<1>3. f_count[f] > 0
  BY <1>2, CountOfEntry
<1>4. fdt_entries[p][new] = NULL /\ fdt_entries[p][new] # f
  BY <1>1, FiledescAssumption DEF do_dup, FirstFree, fd_is_used
<1> QED  BY <1>1, <1>2, <1>3, <1>4, OpBound, HoldKeeps DEF Dup, do_dup

LEMMA Dup2Keeps == ASSUME IInv, NEW p \in Procs, Dup2(p) PROVE IInv'
<1>1. PICK old \in Fds, new \in Fds : do_dup2(p, old, new)
  BY DEF Dup2
<1>2. PICK f \in Files : f = fdt_entries[p][old]
  BY <1>1 DEF do_dup2, fd_is_used, IInv, TypeOK
<1>3. f_count[f] > 0
  BY <1>2, CountOfEntry
<1>4. fdt_entries[p][new] \in {NULL, f} /\ (fd_is_used(p, new) <=> fdt_entries[p][new] = f)
  BY <1>1, <1>2, FiledescAssumption DEF do_dup2, fd_is_used
<1>5. leaked' = IF fdt_entries[p][new] = f THEN [leaked EXCEPT ![f] = @ + 1] ELSE leaked
  BY <1>1, <1>2, <1>4 DEF do_dup2
<1> QED  BY <1>1, <1>2, <1>3, <1>4, <1>5, OpBound, HoldKeeps DEF Dup2, do_dup2

LEMMA Dup2OverKeeps == ASSUME IInv, NEW p \in Procs, Dup2Over(p) PROVE IInv'
<1>1. PICK old \in Fds, new \in Fds :
        LET f == fdt_entries[p][old]
            g == fdt_entries[p][new]
        IN /\ NULL \notin {f, g} /\ f # g
           /\ fdt_entries' = [fdt_entries EXCEPT ![p][new] = f]
           /\ f_count' = [f_count EXCEPT ![g] = @ - 1, ![f] = @ + 1]
           /\ IF LastDrop(p, new)
              THEN pipe_close(p, g, "freeing", "idle")
              ELSE UNCHANGED <<pc, reader_closed, writer_closed>>
  BY DEF Dup2Over
<1>2. PICK f \in Files : f = fdt_entries[p][old]
  BY <1>1 DEF IInv, TypeOK
<1>3. PICK g \in Files : g = fdt_entries[p][new]
  BY <1>1 DEF IInv, TypeOK
<1>4. /\ f # g /\ fdt_entries' = [fdt_entries EXCEPT ![p][new] = f]
      /\ f_count' = [f_count EXCEPT ![g] = @ - 1, ![f] = @ + 1]
      /\ IF f_count[g] = 1 THEN pipe_close(p, g, "freeing", "idle")
         ELSE UNCHANGED <<pc, reader_closed, writer_closed>>
  BY <1>1, <1>2, <1>3 DEF LastDrop
<1>5. f_count[f] > 0 /\ f_count[g] > 0
  BY <1>2, <1>3, CountOfEntry
<1>6. /\ pc[p] = "idle" /\ Op
      /\ UNCHANGED <<leaked, buf, freed, silent, out, sent, want, said>>
  BY DEF Dup2Over
<1>7. \A h \in Files : f_count[h] \in Nat /\ leaked[h] \in Nat
  BY DEF IInv, TypeOK
<1>8. f_count' \in [Files -> Nat] /\ leaked' \in [Files -> Nat]
  BY <1>4, <1>5, <1>6, <1>7 DEF IInv, TypeOK
<1>9. \A h \in Files : f_count'[h] = IF h = f THEN f_count[h] + 1
                                     ELSE IF h = g THEN f_count[h] - 1 ELSE f_count[h]
  BY <1>4, <1>7 DEF IInv, TypeOK
<1>10. fdt_entries' \in Tables /\ EntrySet(fdt_entries', fdt_entries, p, new, f)
  BY <1>4 DEF IInv, TypeOK, Tables, EntrySet
<1>11. CountsFollow(p, new, f)
  <2> SUFFICES ASSUME NEW h \in Files
               PROVE  f_count'[h] - leaked'[h] =
                        f_count[h] - leaked[h] + (IF f = h THEN 1 ELSE 0)
                          - (IF fdt_entries[p][new] = h THEN 1 ELSE 0)
    BY DEF CountsFollow
  <2>1. f_count'[h] = IF h = f THEN f_count[h] + 1
                      ELSE IF h = g THEN f_count[h] - 1 ELSE f_count[h]
    BY <1>9
  <2>2. f_count[h] \in Nat /\ leaked[h] \in Nat /\ leaked'[h] = leaked[h]
    BY <1>6, <1>7
  <2> QED  BY <1>3, <1>4, <2>1, <2>2
<1>12. \A h \in Files : f_count'[h] = Cardinality(Entries(h)') + leaked'[h]
  <2>1. f \in Files \cup {NULL}
    OBVIOUS
  <2> QED  BY <1>8, <1>10, <1>11, <2>1, TablesKeep
<1>13. Reader \in Files /\ Writer \in Files /\ Reader # Writer /\ g \in {Reader, Writer}
  BY PipeAssumption
<1>14. /\ reader_closed' <=> f_count'[Reader] = 0
       /\ writer_closed' <=> f_count'[Writer] = 0
       /\ reader_closed' \in BOOLEAN /\ writer_closed' \in BOOLEAN
       /\ pc' \in [Procs -> Points] /\ pc'[p] \in {"freeing", "idle"}
       /\ \A q \in Procs \ {p} : \/ pc'[q] = pc[q] 
                                 \/ pc[q] \in InRead /\ pc'[q] \in InRead
                                 \/ pc[q] \in InWrite /\ pc'[q] \in InWrite
       /\ LifeOK' /\ NoForgottenSleeper'
  <2>1. CASE f_count[g] = 1
    <3>1. pipe_close(p, g, "freeing", "idle")
      BY <1>4, <2>1
    <3>2. /\ reader_closed' = (reader_closed \/ g = Reader)
          /\ writer_closed' = (writer_closed \/ g = Writer)
          /\ pc' \in [Procs -> Points] /\ pc'[p] \in {"freeing", "idle"}
          /\ \A q \in Procs \ {p} : \/ pc'[q] = pc[q] 
                                    \/ pc[q] \in InRead /\ pc'[q] \in InRead
                                    \/ pc[q] \in InWrite /\ pc'[q] \in InWrite
          /\ LifeOK' /\ NoForgottenSleeper'
      BY <1>6, <2>1, <3>1, CloseKeeps
    <3>3. f_count'[g] = 0 /\ \A h \in Files \ {g} : f_count'[h] = 0 <=> f_count[h] = 0
      <4>1. f_count'[g] = f_count[g] - 1
        BY <1>4, <1>9
      <4>2. ASSUME NEW h \in Files \ {g} PROVE f_count'[h] = 0 <=> f_count[h] = 0
        <5>1. f_count'[h] = IF h = f THEN f_count[h] + 1 ELSE f_count[h]
          BY <1>9
        <5>2. f_count[h] \in Nat /\ f_count[f] > 0
          BY <1>5, <1>7
        <5> QED  BY <5>1, <5>2
      <4> QED  BY <2>1, <4>1, <4>2
    <3>4. /\ reader_closed' <=> f_count'[Reader] = 0
          /\ writer_closed' <=> f_count'[Writer] = 0
      BY <1>13, <3>2, <3>3 DEF IInv, CountsOK
    <3>5. reader_closed' \in BOOLEAN /\ writer_closed' \in BOOLEAN
      BY <3>2
    <3> QED  BY <3>2, <3>4, <3>5
  <2>2. CASE f_count[g] # 1
    <3>1. UNCHANGED <<pc, reader_closed, writer_closed>>
      BY <1>4, <2>2
    <3>2. \A h \in Files : f_count'[h] = 0 <=> f_count[h] = 0
      <4> SUFFICES ASSUME NEW h \in Files PROVE f_count'[h] = 0 <=> f_count[h] = 0
        OBVIOUS
      <4>1. f_count'[h] = IF h = f THEN f_count[h] + 1
                          ELSE IF h = g THEN f_count[h] - 1 ELSE f_count[h]
        BY <1>9
      <4>2. f_count[h] \in Nat /\ f_count[f] > 0 /\ f_count[g] > 0
        BY <1>5, <1>7
      <4> QED  BY <2>2, <4>1, <4>2
    <3>3. /\ reader_closed' <=> f_count'[Reader] = 0
          /\ writer_closed' <=> f_count'[Writer] = 0
      BY <1>13, <3>1, <3>2 DEF IInv, CountsOK
    <3>4. LifeOK' /\ NoForgottenSleeper'
      BY <1>6, <3>1 DEF IInv, LifeOK, Closing, NoForgottenSleeper
    <3> QED  BY <1>6, <3>1, <3>3, <3>4 DEF IInv, TypeOK, Points
  <2> QED  BY <2>1, <2>2
<1>15. \A q \in Procs : /\ pc'[q] \in InRead => Has(q, Reader)' /\ want'[q] > 0
                        /\ pc'[q] \in InWrite => Has(q, Writer)'
                        /\ pc'[q] = "unborn" => fdt_entries'[q] = EmptyTable
  <2>1. pc'[p] \notin InRead \cup InWrite \cup {"unborn"}
    BY <1>14 DEF InRead, InWrite
  <2> QED  BY <1>4, <1>6, <1>14, <2>1, OthersKeepDescriptors
<1>16. CountsOK'
  BY <1>12, <1>14, <1>15 DEF CountsOK
<1>17. TypeOK'
  <2>1. \A q \in Procs : pc'[q] \in InWrite <=> pc[q] \in InWrite
    BY <1>6, <1>14 DEF InRead, InWrite
  <2>2. \A q \in Procs : pc'[q] \in InWrite <=> out'[q] # <<>>
    BY <1>6, <2>1 DEF IInv, TypeOK
  <2>3. ops' \in 0 .. MaxOps
    BY <1>6, OpBound
  <2> QED  BY <1>6, <1>8, <1>10, <1>14, <2>2, <2>3 DEF IInv, TypeOK, Tables, Points
<1> QED  BY <1>6, <1>14, <1>16, <1>17 DEF IInv

LEMMA ForkKeeps == ASSUME IInv, NEW p \in Procs, Fork(p) PROVE IInv'
<1>1. PICK c \in Procs : /\ pc[c] = "unborn" /\ fdtab_copy(p, c)
                         /\ pc' = [pc EXCEPT ![c] = "idle"]
  BY DEF Fork
<1>2. pc[p] = "idle" /\ p # c /\ UNCHANGED <<pipeVars, leaked, out, sent, want, said>>
  BY <1>1 DEF Fork, fdtab_copy
<1>3. fdt_entries \in Tables /\ fdt_entries[c] = EmptyTable
  BY <1>1 DEF IInv, CountsOK, TypeOK, Tables
<1>4. fdt_entries' = [fdt_entries EXCEPT ![c] = fdt_entries[p]] /\ fdt_entries' \in Tables
  BY <1>1, <1>3 DEF fdtab_copy, Tables
<1> DEFINE more(f) == Cardinality(EntriesOf(fdt_entries[p], f))
<1>5. ASSUME NEW f \in Files
      PROVE  /\ Cardinality(Entries(f)') = Cardinality(Entries(f)) + more(f)
             /\ more(f) \in Nat /\ Cardinality(Entries(f)) \in Nat
             /\ f_count[f] = 0 => more(f) = 0
  <2>1. Entries(f) = EntriesIn(fdt_entries, f) /\ Entries(f)' = EntriesIn(fdt_entries', f)
    BY DEF Entries, EntriesIn
  <2>2. Cardinality(EntriesIn([fdt_entries EXCEPT ![c] = fdt_entries[p]], f)) =
          Cardinality(EntriesIn(fdt_entries, f)) + Cardinality(EntriesOf(fdt_entries[p], f))
    BY <1>2, <1>3, CopyTable
  <2>3. EntriesOf(fdt_entries[p], f) \in SUBSET Fds
    BY DEF EntriesOf
  <2>4. IsFiniteSet(EntriesOf(fdt_entries[p], f)) /\ more(f) \in Nat
    BY <2>3, FiledescAssumption, FS_Subset, FS_CardinalityType
  <2>5. Cardinality(Entries(f)) \in Nat
    BY <2>1, EntriesFinite
  <2>6. f_count[f] = 0 => more(f) = 0
    <3> SUFFICES ASSUME f_count[f] = 0 PROVE EntriesOf(fdt_entries[p], f) = {}
      BY FS_EmptySet
    <3>1. \A fd \in Fds : fdt_entries[p][fd] # f
      BY CountOfEntry
    <3> QED  BY <3>1 DEF EntriesOf
  <2> QED  BY <1>4, <2>1, <2>2, <2>4, <2>5, <2>6
<1>6. \A f \in Files : f_count'[f] = f_count[f] + more(f)
  BY <1>1 DEF fdtab_copy
<1> HIDE DEF more
<1>7. \A f \in Files : f_count[f] \in Nat /\ leaked[f] \in Nat /\ leaked'[f] = leaked[f]
                       /\ f_count[f] = Cardinality(Entries(f)) + leaked[f]
  BY <1>2 DEF IInv, TypeOK, CountsOK
<1>8. f_count' \in [Files -> Nat]
  <2>1. f_count' = [f \in Files |-> f_count'[f]]
    BY <1>1 DEF fdtab_copy
  <2>2. \A f \in Files : f_count'[f] \in Nat
    BY <1>5, <1>6, <1>7
  <2> QED  BY <2>1, <2>2
<1>9. \A f \in Files : f_count'[f] = Cardinality(Entries(f)') + leaked'[f]
  <2> SUFFICES ASSUME NEW f \in Files PROVE f_count'[f] = Cardinality(Entries(f)') + leaked'[f]
    OBVIOUS
  <2> QED  BY <1>5, <1>6, <1>7
<1>10. \A f \in Files : f_count'[f] = 0 <=> f_count[f] = 0
  BY <1>5, <1>6, <1>7
<1>11. \A q \in Procs : pc'[q] = IF q = c THEN "idle" ELSE pc[q]
  BY <1>1 DEF IInv, TypeOK
<1>12. \A q \in Procs : q # c => fdt_entries'[q] = fdt_entries[q]
  BY <1>3, <1>4 DEF Tables
<1>13. CountsOK'
  <2>1. ASSUME NEW q \in Procs, q # c
        PROVE  /\ pc'[q] \in InRead => Has(q, Reader)' /\ want'[q] > 0
               /\ pc'[q] \in InWrite => Has(q, Writer)'
               /\ pc'[q] = "unborn" => fdt_entries'[q] = EmptyTable
    <3>1. \A f : Has(q, f)' <=> Has(q, f)
      BY <1>12, <2>1 DEF Has
    <3> QED  BY <1>2, <1>11, <1>12, <2>1, <3>1 DEF IInv, CountsOK
  <2>2. \A q \in Procs :
             /\ pc'[q] \in InRead => Has(q, Reader)' /\ want'[q] > 0
             /\ pc'[q] \in InWrite => Has(q, Writer)'
             /\ pc'[q] = "unborn" => fdt_entries'[q] = EmptyTable
    BY <1>11, <2>1 DEF InRead, InWrite
  <2>3. /\ reader_closed' <=> f_count'[Reader] = 0
        /\ writer_closed' <=> f_count'[Writer] = 0
    BY <1>2, <1>10, PipeAssumption DEF IInv, CountsOK, pipeVars
  <2> QED  BY <1>9, <2>2, <2>3 DEF CountsOK
<1>14. Closing' = Closing
  BY <1>1, <1>11 DEF Closing
<1>15. LifeOK' /\ NoForgottenSleeper' /\ RingOK(buf)'
  BY <1>2, <1>11, <1>14 DEF IInv, LifeOK, NoForgottenSleeper, pipeVars
<1>16. TypeOK'
  <2>1. pc' \in [Procs -> Points]
    BY <1>1 DEF IInv, TypeOK, Points
  <2>2. \A q \in Procs : pc'[q] \in InWrite <=> out'[q] # <<>>
    BY <1>1, <1>2, <1>11 DEF IInv, TypeOK, InWrite
  <2>3. ops' \in 0 .. MaxOps
    BY OpBound DEF Fork
  <2> QED  BY <1>2, <1>4, <1>8, <2>1, <2>2, <2>3 DEF IInv, TypeOK, Tables, Points, pipeVars
<1> QED  BY <1>13, <1>15, <1>16 DEF IInv

-----------------------------------------------------------------------------
LEMMA InitHolds == ASSUME Init PROVE IInv
<1>1. buf = [head |-> 0, tail |-> 0, count |-> 0, data |-> [i \in 0 .. Size - 1 |-> 0]]
  BY DEF Init, EmptyRingbuf
<1>2. RingOK(buf)
  <2>1. [i \in 0 .. Size - 1 |-> 0] \in [0 .. Size - 1 -> Data]
    BY DEF Data
  <2>2. 0 < Size /\ 0 <= Size /\ 0 + 0 < Size /\ 0 + 0 = 0
    BY RingbufAssumption
  <2> QED  BY <1>1, <2>1, <2>2, LayoutRing
<1>3. /\ Reader \in Files /\ Writer \in Files /\ Reader # Writer /\ Files = {Reader, Writer}
      /\ NULL # Reader /\ NULL # Writer /\ 0 \in Fds /\ 1 \in Fds /\ First \in Procs
  BY PipeAssumption, FiledescAssumption
<1>4. EmptyTable \in [Fds -> Files \cup {NULL}]
  BY DEF EmptyTable
<1>5. fdt_entries \in Tables
  BY <1>3, <1>4 DEF Init, Tables
<1>6. \A q \in Procs, h \in Fds : fdt_entries[q][h] =
        IF q = First /\ h = 0 THEN Reader ELSE IF q = First /\ h = 1 THEN Writer ELSE NULL
  BY <1>3 DEF Init, EmptyTable
<1>7. Entries(Reader) = {<<First, 0>>} /\ Entries(Writer) = {<<First, 1>>}
  <2>1. ASSUME NEW x \in Procs \X Fds
        PROVE  /\ fdt_entries[x[1]][x[2]] = Reader <=> x = <<First, 0>>
               /\ fdt_entries[x[1]][x[2]] = Writer <=> x = <<First, 1>>
    <3>1. PICK q \in Procs, h \in Fds : x = <<q, h>>
      OBVIOUS
    <3> QED  BY <1>3, <1>6, <3>1
  <2>2. <<First, 0>> \in Procs \X Fds /\ <<First, 1>> \in Procs \X Fds
    BY <1>3
  <2>3. Entries(Reader) = {x \in Procs \X Fds : x = <<First, 0>>}
    BY <2>1 DEF Entries
  <2>4. Entries(Writer) = {x \in Procs \X Fds : x = <<First, 1>>}
    BY <2>1 DEF Entries
  <2> QED  BY <2>2, <2>3, <2>4
<1>8. \A f \in Files : Cardinality(Entries(f)) = 1
  BY <1>3, <1>7, FS_Singleton
<1>9. CountsOK
  <2>1. \A f \in Files : f_count[f] = Cardinality(Entries(f)) + leaked[f]
    BY <1>8 DEF Init
  <2>2. \A p \in Procs : pc[p] \notin InRead \cup InWrite
                         /\ (pc[p] = "unborn" => fdt_entries[p] = EmptyTable)
    BY DEF Init, InRead, InWrite
  <2>3. f_count[Reader] # 0 /\ f_count[Writer] # 0 /\ ~ reader_closed /\ ~ writer_closed
    BY <1>3 DEF Init
  <2> QED  BY <2>1, <2>2, <2>3 DEF CountsOK
<1>10. LifeOK /\ NoForgottenSleeper
  <2>1. \A p \in Procs : pc[p] \in {"idle", "unborn"}
    BY DEF Init
  <2> QED  BY <2>1 DEF Init, LifeOK, Closing, NoForgottenSleeper
<1>11. TypeOK
  <2>1. pc \in [Procs -> Points] /\ \A p \in Procs : pc[p] \notin InWrite
    BY DEF Init, Points, InWrite
  <2>2. out \in [Procs -> Seq(Bytes)] /\ \A p \in Procs : out[p] = <<>>
    BY EmptySeq DEF Init
  <2>3. buf \in RingbufType(Bytes \cup {0})
    BY <1>2 DEF RingOK
  <2>4. f_count \in [Files -> Nat] /\ leaked \in [Files -> Nat]
        /\ sent \in [Procs -> Nat] /\ want \in [Procs -> Nat] /\ ops \in 0 .. MaxOps
    BY PipeAssumption DEF Init
  <2> QED  BY <1>5, <2>1, <2>2, <2>3, <2>4 DEF Init, TypeOK, Tables, Points
<1> QED  BY <1>2, <1>9, <1>10, <1>11 DEF IInv

LEMMA NextKeeps == ASSUME IInv, [Next]_vars PROVE IInv'
<1>1. CASE UNCHANGED vars
  BY <1>1, UnchangedKeeps
<1>2. ASSUME NEW p \in Procs,
             \/ ReadStart(p) \/ ReadLoop(p) \/ ReadFault(p) \/ ReadInterrupted(p)
             \/ WriteStart(p) \/ WriteLoop(p) \/ WriteFault(p) \/ WriteInterrupted(p)
      PROVE  IInv'
  BY <1>2, ReadStartKeeps, ReadLoopKeeps, ReadFaultKeeps, ReadInterruptedKeeps,
     WriteStartKeeps, WriteLoopKeeps, WriteFaultKeeps, WriteInterruptedKeeps
<1>3. ASSUME NEW p \in Procs,
             \/ Close(p) \/ Dup(p) \/ Dup2(p) \/ Dup2Over(p) \/ pipe_free(p)
             \/ Fork(p) \/ Exit(p) \/ fdtab_drop(p)
      PROVE  IInv'
  BY <1>3, CloseStepKeeps, DupKeeps, Dup2Keeps, Dup2OverKeeps, PipeFreeKeeps,
     ForkKeeps, ExitKeeps, FdtabDropKeeps
<1> QED  BY <1>1, <1>2, <1>3 DEF Next

\* The invariant holds whatever the processes do.
THEOREM Invariance == Spec => []IInv
  BY InitHolds, NextKeeps, PTL DEF Spec

\* The variables keep their types: among others the indices of the ring buffer
\* stay in the array, and a process has bytes to write exactly while it is in
\* pipe_write.
THEOREM TypeCorrect == Spec => []TypeOK
<1>1. IInv => TypeOK
  BY DEF IInv
<1> QED  BY <1>1, Invariance, PTL

\* cv_wait_intr of pipe_read and pipe_write: nobody sleeps who could go on.
THEOREM SleepersHaveReason == Spec => []NoForgottenSleeper
<1>1. IInv => NoForgottenSleeper
  BY DEF IInv
<1> QED  BY <1>1, Invariance, PTL

\* pipe_close and pipe_free: the pipe is freed once, after its last user has
\* gone.
THEOREM FreedOnce == Spec => []PipeLife
<1>1. ASSUME IInv PROVE PipeLife
  <2>1. \A f \in Files : f_count[f] = Cardinality(Entries(f)) + leaked[f]
    BY <1>1 DEF IInv, CountsOK
  <2>2. Cardinality(Closing) + (IF freed THEN 1 ELSE 0)
          = (IF reader_closed /\ writer_closed THEN 1 ELSE 0)
    <3>1. Cardinality({}) = 0 /\ \A p : Cardinality({p}) = 1
      BY FS_EmptySet, FS_Singleton
    <3>2. CASE ~ (reader_closed /\ writer_closed) /\ Closing = {} /\ ~ freed
      BY <3>1, <3>2
    <3>3. CASE reader_closed /\ writer_closed /\ (\E p \in Procs : Closing = {p}) /\ ~ freed
      BY <3>1, <3>3
    <3>4. CASE reader_closed /\ writer_closed /\ Closing = {} /\ freed
      BY <3>1, <3>4
    <3> QED  BY <1>1, <3>2, <3>3, <3>4 DEF IInv, LifeOK
  <2>3. \A p \in Procs, f \in Files : Has(p, f) => f_count[f] # 0
    <3> SUFFICES ASSUME NEW p \in Procs, NEW fd \in Fds, fdt_entries[p][fd] \in Files
                 PROVE  f_count[fdt_entries[p][fd]] # 0
      BY DEF Has
    <3> QED  BY <1>1, CountOfEntry
  <2>4. \A p \in Procs : /\ Has(p, Reader) \/ pc[p] \in InRead => ~ reader_closed
                         /\ Has(p, Writer) \/ pc[p] \in InWrite => ~ writer_closed
    BY <1>1, <2>3, PipeAssumption DEF IInv, CountsOK
  <2> QED  BY <2>1, <2>2, <2>4 DEF PipeLife, Closing
<1> QED  BY <1>1, Invariance, PTL

-----------------------------------------------------------------------------
(* The pipe implements the channel: every step of Pipe is a step of        *)
(* AbstractPipe or changes nothing there.                                  *)

\* Steps that the channel does not see.
LEMMA Unseen ==
  ASSUME UNCHANGED <<buf, reader_closed, writer_closed, out, sent, said>>
  PROVE  UNCHANGED Channel!vars
BY DEF Channel!vars, Contents

LEMMA OpenEnds ==
  ASSUME IInv, NEW p \in Procs
  PROVE  /\ Has(p, Writer) => ~ writer_closed
         /\ pc[p] \in InWrite <=> out[p] # <<>>
         /\ RingOK(buf) /\ out[p] \in Seq(Bytes) /\ sent[p] \in Nat /\ want[p] \in Nat
         /\ pc[p] \in InRead => want[p] > 0
<1>1. Has(p, Writer) => f_count[Writer] # 0
  BY CountOfEntry, PipeAssumption DEF Has
<1> QED  BY <1>1 DEF IInv, CountsOK, TypeOK

LEMMA ReadLoopRefines ==
  ASSUME IInv, NEW p \in Procs, ReadLoop(p)
  PROVE  Channel!Next \/ UNCHANGED Channel!vars
<1>1. UNCHANGED <<reader_closed, writer_closed, out, sent>> /\ pc[p] \in InRead
  BY DEF ReadLoop, InRead
<1>2. PICK c \in Nat : /\ c = buf.count /\ c = Len(Contents(buf)) /\ c <= Size
                       /\ Contents(buf) \in Seq(Data)
  BY NothingMoved, RingbufAssumption DEF IInv, RingOK, RingbufType
<1>3. CASE /\ ringbuf_empty(buf) /\ writer_closed
           /\ ReadReturn(p, "eof", <<>>)
           /\ UNCHANGED buf
  <2>1. Contents(buf) = <<>>
    BY <1>2, <1>3, EmptySeq DEF ringbuf_empty
  <2>2. Channel!EndOfFile(p)
    BY <1>1, <1>3, <2>1 DEF Channel!EndOfFile, ReadReturn, Contents
  <2> QED  BY <2>2 DEF Channel!Next
<1>4. CASE UNCHANGED <<buf, want, said>>
  BY <1>1, <1>4, Unseen
<1>5. CASE /\ ~ ringbuf_empty(buf)
           /\ buf' = ringbuf_read(buf, want[p]).rb
           /\ ReadReturn(p, "ok", ringbuf_read(buf, want[p]).bytes)
  <2>1. PICK n, new :
           /\ n \in Nat
           /\ ringbuf_read(buf, want[p]) = [rb |-> new, bytes |-> SubSeq(Contents(buf), 1, n)]
           /\ n <= buf.count /\ (buf.count > 0 /\ want[p] > 0 => n > 0)
           /\ RingOK(new) /\ new.count = buf.count - n
           /\ Contents(new) = SubSeq(Contents(buf), n + 1, buf.count)
    BY OpenEnds, RingbufReadOK
  <2>2. n \in 1 .. Len(Contents(buf)) /\ n \in 1 .. Size
    <3>1. want[p] > 0
      BY <1>1, OpenEnds
    <3>2. c > 0
      BY <1>2, <1>5 DEF ringbuf_empty
    <3> QED  BY <1>2, <2>1, <3>1, <3>2, RingbufAssumption
  <2>3. Contents(buf)' = SubSeq(Contents(buf), n + 1, Len(Contents(buf)))
    <3>1. buf' = new
      BY <1>5, <2>1
    <3>2. Contents(buf)' = Contents(new)
      BY <3>1 DEF Contents, Slot
    <3> QED  BY <1>2, <2>1, <3>2
  <2>4. said' = <<p, "ok", 0, SubSeq(Contents(buf), 1, n)>>
    BY <1>5, <2>1 DEF ReadReturn
  <2>5. Channel!Take(p, n)
    BY <1>1, <2>2, <2>3, <2>4 DEF Channel!Take, Channel!Drop
  <2> QED  BY <2>2, <2>5 DEF Channel!Next
<1> QED  BY <1>3, <1>4, <1>5 DEF ReadLoop

LEMMA ReadFaultRefines == ASSUME IInv, NEW p \in Procs, ReadFault(p) PROVE Channel!Next
<1>1. PICK tr \in FaultyRead(buf, want[p]) : buf' = tr.rb
  BY DEF ReadFault
<1>2. PICK c \in Nat : c = buf.count /\ c = Len(Contents(buf)) /\ c <= Size
  BY NothingMoved, RingbufAssumption DEF IInv, RingOK, RingbufType
<1>3. PICK n \in Nat :
           /\ tr.bytes = SubSeq(Contents(buf), 1, n)
           /\ n <= buf.count /\ RingOK(tr.rb) /\ tr.rb.count = buf.count - n
           /\ Contents(tr.rb) = SubSeq(Contents(buf), n + 1, buf.count)
  BY OpenEnds, FaultyReadOK
<1>4. Contents(buf)' = SubSeq(Contents(buf), n + 1, Len(Contents(buf)))
  <2>1. Contents(buf)' = Contents(tr.rb)
    BY <1>1 DEF Contents, Slot
  <2> QED  BY <1>2, <1>3, <2>1
<1>5. n \in 0 .. Len(Contents(buf)) /\ n \in 0 .. Size
  BY <1>2, <1>3, RingbufAssumption
<1>6. Channel!Fail(p, "EFAULT", n)
  BY <1>4, <1>5 DEF Channel!Fail, Channel!Drop, ReadFault, ReadReturn
<1> QED  BY <1>5, <1>6 DEF Channel!Next

LEMMA ReadInterruptedRefines ==
  ASSUME IInv, NEW p \in Procs, ReadInterrupted(p) PROVE Channel!Next
<1>1. Contents(buf)' = Contents(buf)
  BY DEF ReadInterrupted, pipeVars, Contents
<1>2. Contents(buf) = SubSeq(Contents(buf), 0 + 1, Len(Contents(buf)))
      /\ Len(Contents(buf)) \in Nat
  BY OpenEnds, NothingMoved
<1>3. 0 \in 0 .. Len(Contents(buf)) /\ 0 \in 0 .. Size
  BY <1>2, RingbufAssumption
<1>4. Channel!Fail(p, "ERESTARTSYS", 0)
  BY <1>1, <1>2, <1>3 DEF Channel!Fail, Channel!Drop, ReadInterrupted, ReadReturn, pipeVars
<1> QED  BY <1>3, <1>4 DEF Channel!Next

LEMMA WriteStartRefines == ASSUME IInv, NEW p \in Procs, WriteStart(p) PROVE Channel!Next
<1>1. PICK msg \in Messages : out' = [out EXCEPT ![p] = msg]
  BY DEF WriteStart
<1>2. ~ writer_closed /\ out[p] = <<>>
  BY OpenEnds DEF WriteStart, InWrite
<1>3. Channel!Start(p, msg)
  BY <1>1, <1>2 DEF Channel!Start, WriteStart, pipeVars, Contents
<1> QED  BY <1>3 DEF Channel!Next

\* A write that ends with no byte moved by this turn.
LEMMA StopRefines ==
  ASSUME IInv, NEW p \in Procs, pc[p] \in InWrite,
         NEW error \in {"EPIPE", "ERESTARTSYS", "EFAULT"}, error = "EPIPE" => reader_closed,
         WriteBreak(p, error, sent[p]), Contents(buf)' = Contents(buf),
         UNCHANGED <<reader_closed, writer_closed>>
  PROVE  Channel!Next
<1> DEFINE why == WriteError(sent[p], error)
<1>1. why \in {"ok", "EPIPE", "ERESTARTSYS", "EFAULT"} /\ (why = "EPIPE" => reader_closed)
  BY DEF WriteError
<1>2. sent[p] > 0 <=> why = "ok"
  BY OpenEnds DEF WriteError
<1>3. out[p] # <<>>
  BY OpenEnds
<1>4. Channel!Finish(p, sent[p], why)
  BY <1>2 DEF Channel!Finish, WriteBreak, WriteReturn
<1> HIDE DEF why
<1>5. Channel!Stop(p, why)
  BY <1>1, <1>3, <1>4 DEF Channel!Stop
<1> QED  BY <1>1, <1>5 DEF Channel!Next

\* Bytes that are appended fit.
LEMMA PutFits ==
  ASSUME IInv, NEW p \in Procs, NEW n \in Nat, NEW new, RingOK(new),
         new.count = buf.count + n, n <= Len(out[p]), n > 0, buf' = new,
         Contents(new) = Contents(buf) \o SubSeq(out[p], 1, n)
  PROVE  /\ n \in 1 .. Len(out[p]) /\ n \in 1 .. Size /\ Len(Contents(buf)) + n <= Size
         /\ Contents(buf)' = Contents(buf) \o SubSeq(out[p], 1, n)
<1>1. PICK c \in Nat : c = buf.count /\ c = Len(Contents(buf))
  BY NothingMoved DEF IInv
<1>2. c + n <= Size /\ Size \in Nat
  BY <1>1, RingbufAssumption DEF RingOK, RingbufType
<1>3. Len(out[p]) \in Nat
  BY OpenEnds, LenProperties
<1>4. Contents(buf)' = Contents(new)
  BY DEF Contents, Slot
<1> QED  BY <1>1, <1>2, <1>3, <1>4

LEMMA WriteLoopRefines ==
  ASSUME IInv, NEW p \in Procs, WriteLoop(p)
  PROVE  Channel!Next \/ UNCHANGED Channel!vars
<1>1. UNCHANGED <<reader_closed, writer_closed>> /\ pc[p] \in InWrite
  BY DEF WriteLoop, InWrite
<1>2. CASE reader_closed /\ WriteBreak(p, "EPIPE", sent[p]) /\ UNCHANGED buf
  <2>1. Contents(buf)' = Contents(buf)
    BY <1>2 DEF Contents
  <2> QED  BY <1>1, <1>2, <2>1, StopRefines
<1>3. PICK n, new :
           /\ n \in Nat
           /\ ringbuf_write(buf, out[p]) = [rb |-> new, n |-> n]
           /\ n <= Len(out[p]) /\ RingOK(new) /\ new.count = buf.count + n
           /\ Contents(new) = Contents(buf) \o SubSeq(out[p], 1, n)
           /\ n = Len(out[p]) \/ ringbuf_full(new)
  BY OpenEnds, RingbufWriteOK
<1>4. PICK len \in Nat : len = Len(out[p]) /\ len > 0
  BY <1>1, OpenEnds, LenProperties, EmptySeq
<1>5. CASE /\ ~ reader_closed /\ buf' = new /\ n = Len(out[p])
           /\ WriteReturn(p, "ok", sent[p] + n)
  <2>1. n > 0 /\ sent[p] + n > 0
    BY <1>4, <1>5, OpenEnds
  <2>2. /\ n \in 1 .. Len(out[p]) /\ n \in 1 .. Size /\ Len(Contents(buf)) + n <= Size
        /\ Contents(buf)' = Contents(buf) \o SubSeq(out[p], 1, n)
    BY <1>3, <1>5, <2>1, PutFits
  <2>3. Channel!Finish(p, sent[p] + n, "ok")
    BY <1>5, <2>1 DEF Channel!Finish, WriteReturn
  <2>4. Channel!Put(p, n)
    BY <1>1, <1>5, <2>2, <2>3 DEF Channel!Put
  <2> QED  BY <2>2, <2>4 DEF Channel!Next
<1>6. CASE /\ ~ reader_closed /\ buf' = new /\ n < Len(out[p])
           /\ out' = [out EXCEPT ![p] = SubSeq(@, n + 1, Len(@))]
           /\ sent' = [sent EXCEPT ![p] = sent[p] + n]
           /\ UNCHANGED said
  <2>1. CASE n > 0
    <3>1. /\ n \in 1 .. Len(out[p]) /\ n \in 1 .. Size /\ Len(Contents(buf)) + n <= Size
          /\ Contents(buf)' = Contents(buf) \o SubSeq(out[p], 1, n)
      BY <1>3, <1>6, <2>1, PutFits
    <3>2. Channel!Put(p, n)
      BY <1>1, <1>6, <3>1 DEF Channel!Put, Channel!Drop
    <3> QED  BY <3>1, <3>2 DEF Channel!Next
  <2>2. CASE n = 0
    <3>1. Contents(buf)' = Contents(buf)
      <4>1. Contents(buf)' = Contents(new)
        BY <1>6 DEF Contents, Slot
      <4>2. Contents(buf) = Contents(buf) \o SubSeq(out[p], 1, 0)
        BY OpenEnds, NothingMoved
      <4> QED  BY <1>3, <2>2, <4>1, <4>2
    <3>2. SubSeq(out[p], 1, Len(out[p])) = out[p]
      BY OpenEnds, SubSeqFull
    <3>3. n + 1 = 1 /\ sent[p] + n = sent[p]
      BY <2>2, OpenEnds
    <3>4. out' = out /\ sent' = sent
      BY <1>6, <3>2, <3>3 DEF IInv, TypeOK
    <3> QED  BY <1>1, <1>6, <3>1, <3>4 DEF Channel!vars
  <2> QED  BY <1>3, <2>1, <2>2
<1> QED  BY <1>2, <1>3, <1>5, <1>6 DEF WriteLoop

LEMMA WriteFaultRefines == ASSUME IInv, NEW p \in Procs, WriteFault(p) PROVE Channel!Next
<1>1. PICK tr \in FaultyWrite(buf, out[p]) :
        buf' = tr.rb /\ WriteBreak(p, "EFAULT", sent[p] + tr.n)
  BY DEF WriteFault
<1>2. /\ tr.n \in Nat /\ tr.n <= Len(out[p])
      /\ RingOK(tr.rb) /\ tr.rb.count = buf.count + tr.n
      /\ Contents(tr.rb) = Contents(buf) \o SubSeq(out[p], 1, tr.n)
  BY OpenEnds, FaultyWriteOK
<1>3. PICK n \in Nat : n = tr.n
  BY <1>2
<1>4. UNCHANGED <<reader_closed, writer_closed>> /\ ~ reader_closed /\ pc[p] \in InWrite
  BY DEF WriteFault, InWrite
<1>5. CASE n = 0
  <2>1. Contents(buf)' = Contents(buf)
    <3>1. Contents(buf)' = Contents(tr.rb)
      BY <1>1 DEF Contents, Slot
    <3>2. Contents(buf) = Contents(buf) \o SubSeq(out[p], 1, 0)
      BY OpenEnds, NothingMoved
    <3> QED  BY <1>2, <1>3, <1>5, <3>1, <3>2
  <2>2. sent[p] + tr.n = sent[p]
    BY <1>3, <1>5, OpenEnds
  <2>3. WriteBreak(p, "EFAULT", sent[p])
    BY <1>1, <2>2
  <2> QED  BY <1>4, <2>1, <2>3, StopRefines
<1>6. CASE n > 0
  <2>1. /\ n \in 1 .. Len(out[p]) /\ n \in 1 .. Size /\ Len(Contents(buf)) + n <= Size
        /\ Contents(buf)' = Contents(buf) \o SubSeq(out[p], 1, n)
    BY <1>1, <1>2, <1>3, <1>6, PutFits
  <2>2. sent[p] + n > 0 /\ sent[p] + n = sent[p] + tr.n
    BY <1>3, <1>6, OpenEnds
  <2>3. Channel!Finish(p, sent[p] + n, "ok")
    BY <1>1, <2>2 DEF Channel!Finish, WriteBreak, WriteReturn, WriteError
  <2>4. Channel!Put(p, n)
    BY <1>4, <2>1, <2>3 DEF Channel!Put
  <2> QED  BY <2>1, <2>4 DEF Channel!Next
<1> QED  BY <1>5, <1>6

LEMMA WriteInterruptedRefines ==
  ASSUME IInv, NEW p \in Procs, WriteInterrupted(p) PROVE Channel!Next
<1>1. Contents(buf)' = Contents(buf) /\ pc[p] \in InWrite
  BY DEF WriteInterrupted, pipeVars, Contents, InWrite
<1> QED  BY <1>1, StopRefines DEF WriteInterrupted, pipeVars

\* pipe_close of the last reference to an end that was open.
LEMMA PipeCloseRefines ==
  ASSUME IInv, NEW p \in Procs, NEW f \in Files, f_count[f] = 1, NEW free, NEW on,
         pipe_close(p, f, free, on), UNCHANGED <<buf, out, sent, said>>
  PROVE  Channel!Next
<1>1. f = Reader \/ f = Writer
  BY PipeAssumption
<1>2. /\ f = Reader => ~ reader_closed
      /\ f = Writer => ~ writer_closed
  BY DEF IInv, CountsOK
<1>3. Contents(buf)' = Contents(buf)
  BY DEF Contents
<1>4. CASE f = Reader
  <2>1. ~ reader_closed /\ reader_closed' /\ writer_closed' = writer_closed
    BY <1>2, <1>4 DEF pipe_close
  <2>2. Channel!Close
    BY <1>3, <2>1 DEF Channel!Close
  <2> QED  BY <2>2 DEF Channel!Next
<1>5. CASE f = Writer
  <2>1. ~ writer_closed /\ writer_closed' /\ reader_closed' = reader_closed
    BY <1>2, <1>5, PipeAssumption DEF pipe_close
  <2>2. Channel!Close
    BY <1>3, <2>1 DEF Channel!Close
  <2> QED  BY <2>2 DEF Channel!Next
<1> QED  BY <1>1, <1>4, <1>5

LEMMA DropRefines ==
  ASSUME IInv, NEW p \in Procs, NEW fd \in Fds, NEW free, NEW on,
         DropEntry(p, fd, free, on), UNCHANGED <<buf, out, sent, said>>
  PROVE  Channel!Next \/ UNCHANGED Channel!vars
<1>1. fdt_entries[p][fd] \in Files
  BY DEF DropEntry, fd_free, fd_is_used, IInv, TypeOK
<1>2. CASE LastDrop(p, fd)
  BY <1>1, <1>2, PipeCloseRefines DEF DropEntry, LastDrop
<1>3. CASE ~ LastDrop(p, fd)
  BY <1>3, Unseen DEF DropEntry
<1> QED  BY <1>2, <1>3

LEMMA DescriptorsRefine ==
  ASSUME IInv, NEW p \in Procs,
         \/ Close(p) \/ Dup(p) \/ Dup2(p) \/ Dup2Over(p) \/ pipe_free(p)
         \/ Fork(p) \/ Exit(p) \/ fdtab_drop(p)
  PROVE  Channel!Next \/ UNCHANGED Channel!vars
<1>1. CASE Close(p)
  BY <1>1, DropRefines DEF Close
<1>2. CASE Dup(p) \/ Dup2(p) \/ pipe_free(p) \/ Fork(p) \/ Exit(p)
  <2>1. UNCHANGED <<buf, reader_closed, writer_closed, out, sent, said>>
    BY <1>2 DEF Dup, Dup2, pipe_free, Fork, Exit, pipeVars, callVars
  <2> QED  BY <2>1, Unseen
<1>3. CASE Dup2Over(p)
  <2>1. PICK old \in Fds, new \in Fds :
          /\ fdt_entries[p][new] # NULL
          /\ IF LastDrop(p, new)
             THEN pipe_close(p, fdt_entries[p][new], "freeing", "idle")
             ELSE UNCHANGED <<pc, reader_closed, writer_closed>>
    BY <1>3 DEF Dup2Over
  <2>2. fdt_entries[p][new] \in Files /\ UNCHANGED <<buf, out, sent, said>>
    BY <1>3, <2>1 DEF Dup2Over, IInv, TypeOK
  <2>3. CASE LastDrop(p, new)
    BY <2>1, <2>2, <2>3, PipeCloseRefines DEF LastDrop
  <2>4. CASE ~ LastDrop(p, new)
    BY <2>1, <2>2, <2>4, Unseen
  <2> QED  BY <2>3, <2>4
<1>4. CASE fdtab_drop(p)
  <2>1. CASE \E fd \in Fds : DropEntry(p, fd, "efreeing", "exiting")
    BY <1>4, <2>1, DropRefines DEF fdtab_drop
  <2>2. CASE UNCHANGED <<reader_closed, writer_closed, fdVars>>
    BY <1>4, <2>2, Unseen DEF fdtab_drop
  <2> QED  BY <1>4, <2>1, <2>2 DEF fdtab_drop
<1> QED  BY <1>1, <1>2, <1>3, <1>4

LEMMA InitRefines == ASSUME Init PROVE Channel!Init
<1>1. Contents(buf) \in Seq(Data) /\ Len(Contents(buf)) = buf.count
  BY InitHolds, NothingMoved DEF IInv
<1>2. buf.count = 0
  BY DEF Init, EmptyRingbuf
<1>3. Contents(buf) = <<>>
  BY <1>1, <1>2, EmptySeq
<1> QED  BY <1>3 DEF Channel!Init, Init

LEMMA NextRefines ==
  ASSUME IInv, [Next]_vars
  PROVE  [Channel!Next]_(Channel!vars)
<1>1. CASE UNCHANGED vars
  BY <1>1, Unseen DEF vars, pipeVars, callVars
<1>2. ASSUME NEW p \in Procs,
             \/ ReadStart(p) \/ ReadLoop(p) \/ ReadFault(p) \/ ReadInterrupted(p)
      PROVE  Channel!Next \/ UNCHANGED Channel!vars
  <2>1. CASE ReadStart(p)
    BY <2>1, Unseen DEF ReadStart, pipeVars
  <2> QED  BY <1>2, <2>1, ReadLoopRefines, ReadFaultRefines, ReadInterruptedRefines
<1>3. ASSUME NEW p \in Procs,
             \/ WriteStart(p) \/ WriteLoop(p) \/ WriteFault(p) \/ WriteInterrupted(p)
      PROVE  Channel!Next \/ UNCHANGED Channel!vars
  BY <1>3, WriteStartRefines, WriteLoopRefines, WriteFaultRefines, WriteInterruptedRefines
<1> QED  BY <1>1, <1>2, <1>3, DescriptorsRefine DEF Next

\* pipe_read, pipe_write and pipe_close together are the first-in first-out
\* channel of bytes: no byte is lost, repeated or reordered, whatever segments,
\* sleeps, faults and signals cut the transfers.
THEOREM Refinement == Spec => ImplementsChannel
<1>1. Init => Channel!Init
  BY InitRefines
<1>2. IInv /\ [Next]_vars => [Channel!Next]_(Channel!vars)
  BY NextRefines
<1> QED  BY <1>1, <1>2, Invariance, PTL DEF Spec, ImplementsChannel, Channel!Spec
=============================================================================
