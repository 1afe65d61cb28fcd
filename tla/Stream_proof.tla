---------------------------- MODULE Stream_proof ----------------------------
EXTENDS Stream, SequenceTheorems, TLAPS

(***************************************************************************)
(* The inductive invariant of the writer: what the checked invariant says, *)
(* that do_write is on the stack of an open socket with a handler, and     *)
(* that libutp has taken nothing while the connection was not established  *)
(* and owes nothing to a write that came too early.                        *)
(***************************************************************************)

WriterInv ==
    /\ WritesAccounted
    /\ writing => sending /\ wOpen
    /\ ~ready => taken = 0 /\ ~full
    /\ early => ~writing /\ ~full /\ (wOpen => sending)

(***************************************************************************)
(* The inductive invariant of the reader.  QueueContiguous is about the    *)
(* moments outside do_read only; inside it, the queue begins where it      *)
(* began before, and the position up to which bytes were copied is rest    *)
(* bytes further on.                                                       *)
(***************************************************************************)

\* The first byte that is still in the queue, or will be the next to arrive.
Base == IF rxq = <<>> THEN arrived ELSE rxq[1].lo + rxq[1].consumed

\* The chunks follow one another up to the last byte that has arrived.
Chained ==
    /\ \A i \in 1..Len(rxq) : /\ rxq[i].lo + rxq[i].consumed < rxq[i].hi
                              /\ rxq[i].hi <= arrived
    /\ \A i, j \in 1..Len(rxq) : j = i + 1 => rxq[i].hi = rxq[j].lo /\ rxq[j].consumed = 0
    /\ rxq # <<>> => rxq[Len(rxq)].hi = arrived

\* How far do_read has got.
Copying ==
    /\ Base + (IF step = "none" THEN 0 ELSE rest) = Len(got)
    /\ Len(got) <= arrived
    /\ step = "copy" =>
          /\ rxq # <<>>
          /\ ci \in 1..(Len(rxq) + 1)
          /\ ci = 1 => room = rxbuf.total
          /\ ci > 1 => room < rxbuf.total
          /\ room > 0 /\ ci <= Len(rxq) => Len(got) = rxq[ci].lo + rxq[ci].consumed
    /\ step = "drain" => room < rxbuf.total

\* What is known of a read that waits, and of the end of the stream.
Ending ==
    /\ arrived <= taken
    /\ step # "none" => reading
    /\ reading => rxbuf \in ReadShapes /\ rxbuf.total > 0
    /\ reading /\ step = "none" => rxq = <<>> /\ ~eof
    /\ eof => ~wOpen /\ arrived = taken
    /\ ended => eof /\ rxq = <<>> /\ step = "none"

ReaderInv == Chained /\ Copying /\ Ending

IInv == TypeOK /\ WriterInv /\ ReaderInv

-----------------------------------------------------------------------------
(***************************************************************************)
(* Sequences.                                                              *)
(***************************************************************************)

LEMMA BytesSeq ==
  ASSUME NEW k \in Nat, NEW n \in Nat
  PROVE  Bytes(k, n) \in Seq(Nat) /\ Len(Bytes(k, n)) = n
BY DEF Bytes

\* The reader is given n bytes more.
LEMMA Given ==
  ASSUME NEW s \in Seq(Nat), NEW k \in Nat, NEW n \in Nat
  PROVE  /\ s \o Bytes(k, n) \in Seq(Nat)
         /\ Len(s \o Bytes(k, n)) = Len(s) + n
BY BytesSeq, ConcatProperties

LEMMA NoneGiven ==
  ASSUME NEW s \in Seq(Nat), NEW k \in Nat
  PROVE  s \o Bytes(k, 0) = s
<1>1. Bytes(k, 0) = <<>>
  BY DEF Bytes
<1> QED
  BY <1>1, ConcatEmptySeq

LEMMA LesserProperties ==
  ASSUME NEW m \in Nat, NEW n \in Nat
  PROVE  /\ Lesser(m, n) \in Nat
         /\ Lesser(m, n) <= m /\ Lesser(m, n) <= n
         /\ Lesser(m, n) \in {m, n}
BY DEF Lesser

\* A buffer sequence of the reader.
LEMMA ShapeProperties ==
  ASSUME NEW b \in ReadShapes \cup {NoBuffers}
  PROVE  b.first \in Nat /\ b.total \in Nat /\ b.first <= b.total
BY ReadsAssumption DEF NoBuffers

LEMMA InitIInv == Init => IInv
<1> SUFFICES ASSUME Init PROVE IInv
  OBVIOUS
<1>1. TypeOK
  BY EmptySeq DEF Init, TypeOK
<1>2. WriterInv
  BY DEF Init, WriterInv, WritesAccounted
<1>3. ReaderInv
  BY DEF Init, ReaderInv, Chained, Copying, Ending, Base
<1> QED
  BY <1>1, <1>2, <1>3 DEF IInv

-----------------------------------------------------------------------------
(***************************************************************************)
(* The writer's steps.                                                     *)
(***************************************************************************)

USE DEF txVars, copyVars, rxVars

\* They leave the reader alone, except that libutp may have taken more.
LEMMA ReaderUntouched ==
  ASSUME TypeOK, ReaderInv, UNCHANGED <<arrived, rxVars>>,
         taken' \in Nat, taken' >= taken,
         eof => taken' = taken /\ wOpen' = wOpen
  PROVE  ReaderInv'
BY DEF TypeOK, ReaderInv, Chained, Copying, Ending, Base

LEMMA WriteStep ==
  ASSUME IInv, NEW bufs \in WriteShapes, Write(bufs)
  PROVE  IInv'
<1> USE DEF IInv, Write
<1>1. TypeOK'
  BY WritesAssumption DEF TypeOK
<1>2. WriterInv'
  BY DEF WriterInv, WritesAccounted
<1>3. ReaderInv'
  BY ReaderUntouched DEF TypeOK
<1> QED
  BY <1>1, <1>2, <1>3

LEMMA UtpWriteStep ==
  ASSUME IInv, NEW i \in DOMAIN tx, NEW w \in 0..MaxBytes, UtpWrite(i, w)
  PROVE  IInv'
<1> USE BytesAssumption DEF IInv
<1>1. tx \in Seq(Nat) /\ i \in 1..Len(tx) /\ tx[i] \in Nat /\ w \in Nat /\ w <= tx[i]
  BY DEF TypeOK, UtpWrite
<1>2. tx' = [tx EXCEPT ![i] = tx[i] - w] /\ tx[i] - w \in Nat
  BY <1>1 DEF UtpWrite, Advance
<1>3. tx' \in Seq(Nat)
  BY <1>1, <1>2, ExceptSeq
<1>4. TypeOK'
  BY <1>1, <1>3 DEF TypeOK, UtpWrite, StillWritable
<1>5. WriterInv'
  <2>1. sending' /\ wOpen'
    BY DEF WriterInv, UtpWrite
  <2>2. reported' + bytesSent' = taken'
    BY <1>1 DEF WriterInv, WritesAccounted, UtpWrite, TypeOK
  <2>3. (w < tx[i] - w) => (w < tx[i])
    BY <1>1
  <2>4. ~(w >= tx[i] - w) => (w < tx[i] - w)
    BY <1>1
  <2>5. ~early
    BY DEF UtpWrite, WriterInv
  <2>6. CASE ready
    <3>1. ~writing' => full'
      BY <2>3, <2>4, <2>6 DEF UtpWrite, StillWritable
    <3>2. ready' /\ ~early'
      BY <2>5, <2>6 DEF UtpWrite
    <3> QED
      BY <2>1, <2>2, <3>1, <3>2 DEF WriterInv, WritesAccounted
  <2>7. CASE ~ready
    <3>1. w = 0 /\ tx[i] > 0 /\ taken = 0
      BY <2>7 DEF UtpWrite, Current, WriterInv
    <3>2. ~(w >= tx[i] - w)
      BY <1>1, <3>1
    <3>3. taken' = 0
      BY <3>1 DEF UtpWrite
    <3>4. ~writing'
      BY <3>2 DEF UtpWrite, StillWritable
    <3>5. ~full' /\ early' /\ ~ready'
      BY <2>7 DEF UtpWrite
    <3> QED
      BY <2>1, <2>2, <3>3, <3>4, <3>5 DEF WriterInv, WritesAccounted
  <2> QED
    BY <2>6, <2>7
<1>6. ReaderInv'
  <2>1. ~eof
    BY DEF WriterInv, UtpWrite, ReaderInv, Ending
  <2> QED
    BY <1>1, <2>1, ReaderUntouched DEF UtpWrite, TypeOK
<1> QED
  BY <1>4, <1>5, <1>6

LEMMA WriterStep ==
  ASSUME IInv, WriteDone \/ OnWritable \/ PeerData \/ CloseWriter
  PROVE  IInv'
<1> USE DEF IInv
<1>1. ReaderInv'
  <2>1. taken' = taken /\ UNCHANGED <<arrived, rxVars>>
    BY DEF WriteDone, OnWritable, PeerData, CloseWriter
  <2>2. CASE wOpen' = wOpen
    BY <2>1, <2>2, ReaderUntouched DEF TypeOK
  <2>3. CASE wOpen' # wOpen
    BY <2>1, <2>3, ReaderUntouched
       DEF ReaderInv, Ending, TypeOK, WriteDone, OnWritable, PeerData, CloseWriter
  <2> QED
    BY <2>2, <2>3
<1>2. ASSUME WriteDone PROVE TypeOK' /\ WriterInv'
  <2>1. TypeOK'
    <3>1. reported' \in Nat /\ bytesSent' \in Nat
      BY <1>2 DEF WriteDone, TypeOK
    <3>2. sending' \in BOOLEAN /\ writing' \in BOOLEAN
      BY <1>2 DEF WriteDone
    <3>3. UNCHANGED <<tx, full, wOpen, ready, early, taken, arrived, rxVars>>
      BY <1>2 DEF WriteDone
    <3> QED
      BY <3>1, <3>2, <3>3 DEF TypeOK
  <2>2. reported' + bytesSent' = taken'
    <3>1. /\ reported' = reported + bytesSent /\ bytesSent' = 0 /\ taken' = taken
          /\ reported \in Nat /\ bytesSent \in Nat
      BY <1>2 DEF WriteDone, TypeOK
    <3>2. reported + bytesSent = taken
      BY DEF WriterInv, WritesAccounted
    <3> QED
      BY <3>1, <3>2
  <2>3. ~sending' /\ ~writing' /\ bytesSent' = 0 /\ \A i \in DOMAIN tx' : tx'[i] = 0
    BY <1>2 DEF WriteDone
  <2>4. UNCHANGED <<full, ready, early, taken>> /\ ~early
    BY <1>2 DEF WriteDone, WriterInv
  <2> QED
    BY <2>1, <2>2, <2>3, <2>4 DEF WriterInv, WritesAccounted
<1>3. ASSUME OnWritable PROVE TypeOK' /\ WriterInv'
  <2>1. full' \in BOOLEAN /\ writing' \in BOOLEAN
    BY <1>3 DEF OnWritable, TypeOK
  <2>2. UNCHANGED <<tx, sending, bytesSent, wOpen, ready, early, reported, taken, arrived, rxVars>>
    BY <1>3 DEF OnWritable
  <2>3. TypeOK'
    BY <2>1, <2>2 DEF TypeOK
  <2>4. WriterInv'
    BY <1>3, <2>2 DEF OnWritable, WriterInv, WritesAccounted
  <2> QED
    BY <2>3, <2>4
<1>4. ASSUME CloseWriter PROVE TypeOK' /\ WriterInv'
  <2>1. wOpen' \in BOOLEAN /\ sending' \in BOOLEAN
    BY <1>4 DEF CloseWriter, TypeOK
  <2>2. UNCHANGED <<tx, bytesSent, writing, full, ready, early, reported, taken, arrived, rxVars>>
    BY <1>4 DEF CloseWriter
  <2>3. TypeOK'
    BY <2>1, <2>2 DEF TypeOK
  <2>4. WriterInv'
    BY <1>4, <2>2 DEF CloseWriter, WriterInv, WritesAccounted
  <2> QED
    BY <2>3, <2>4
<1>5. ASSUME PeerData PROVE TypeOK' /\ WriterInv'
  <2>1. ready' \in BOOLEAN
    BY <1>5 DEF PeerData, TypeOK
  <2>2. UNCHANGED <<tx, sending, bytesSent, writing, full, wOpen, early, reported, taken, arrived, rxVars>>
    BY <1>5 DEF PeerData
  <2>3. TypeOK'
    BY <2>1, <2>2 DEF TypeOK
  <2>4. WriterInv'
    BY <1>5, <2>2 DEF PeerData, WriterInv, WritesAccounted
  <2> QED
    BY <2>3, <2>4
<1> QED
  BY <1>1, <1>2, <1>3, <1>4, <1>5

-----------------------------------------------------------------------------
(***************************************************************************)
(* The reader's steps.                                                     *)
(***************************************************************************)

\* They leave the writer alone.
LEMMA WriterUntouched ==
  ASSUME WriterInv, UNCHANGED <<txVars, taken>>
  PROVE  WriterInv'
BY DEF WriterInv, WritesAccounted

\* What is known of a chunk in the queue.
LEMMA ChunkProperties ==
  ASSUME TypeOK, Chained, NEW i \in 1..Len(rxq)
  PROVE  /\ rxq[i] \in Chunks
         /\ rxq[i].lo \in Nat /\ rxq[i].hi \in Nat /\ rxq[i].consumed \in Nat
         /\ Size(rxq[i]) \in Nat /\ Size(rxq[i]) > 0
         /\ rxq[i].lo + rxq[i].consumed + Size(rxq[i]) = rxq[i].hi
         /\ rxq[i].hi <= arrived
<1>1. rxq[i] \in Chunks
  BY ElementOfSeq DEF TypeOK
<1>2. rxq[i].lo \in Nat /\ rxq[i].hi \in Nat /\ rxq[i].consumed \in Nat
  BY <1>1 DEF Chunks
<1>3. rxq[i].lo + rxq[i].consumed < rxq[i].hi /\ rxq[i].hi <= arrived
  BY DEF Chained
<1> QED
  BY <1>1, <1>2, <1>3 DEF Size

LEMMA BaseType ==
  ASSUME TypeOK, Chained
  PROVE  Base \in Nat
<1>1. CASE rxq = <<>>
  BY <1>1 DEF Base, TypeOK
<1>2. CASE rxq # <<>>
  <2>1. 1 \in 1..Len(rxq)
    BY <1>2, EmptySeq DEF TypeOK
  <2>2. rxq[1].lo \in Nat /\ rxq[1].consumed \in Nat
    BY <2>1, ChunkProperties
  <2> QED
    BY <1>2, <2>2 DEF Base
<1> QED
  BY <1>1, <1>2

\* on_receive: the rest of what has arrived becomes the last chunk.
LEMMA StoreChained ==
  ASSUME TypeOK, Chained, NEW k \in Nat, NEW n \in Nat, k <= n,
         rxq # <<>> => k = 0,
         arrived' = arrived + n, rxq' = Store(k, n), n > 0
  PROVE  /\ rxq' \in Seq(Chunks)
         /\ Chained'
         /\ Base' = IF rxq = <<>> THEN arrived + k ELSE Base
<1> DEFINE c == Chunk(arrived + k, arrived + n)
<1>1. /\ rxq \in Seq(Chunks) /\ arrived \in Nat
      /\ c \in Chunks
      /\ c.lo = arrived + k /\ c.hi = arrived + n /\ c.consumed = 0
  BY DEF TypeOK, Chunk, Chunks
<1> HIDE DEF c
<1>2. CASE k < n
  <2>1. rxq' = Append(rxq, c)
    BY <1>2 DEF Store, c
  <2>2. /\ rxq' \in Seq(Chunks)
        /\ rxq' # <<>>
        /\ Len(rxq') = Len(rxq) + 1
        /\ \A i \in 1..Len(rxq) : rxq'[i] = rxq[i]
        /\ rxq'[Len(rxq) + 1] = c
    BY <1>1, <2>1, AppendProperties
  <2>3. Len(rxq) \in Nat /\ (rxq = <<>> <=> Len(rxq) = 0)
    BY <1>1, EmptySeq
  <2>4. \A i \in 1..Len(rxq') : /\ rxq'[i].lo + rxq'[i].consumed < rxq'[i].hi
                                /\ rxq'[i].hi <= arrived'
    <3> TAKE i \in 1..Len(rxq')
    <3>1. CASE i \in 1..Len(rxq)
      <4>1. /\ rxq[i].lo + rxq[i].consumed < rxq[i].hi
            /\ rxq[i].hi <= arrived /\ rxq[i].hi \in Nat
        BY <3>1, ChunkProperties DEF Chained
      <4>2. rxq[i].hi <= arrived + n
        BY <1>1, <4>1
      <4> QED
        BY <2>2, <3>1, <4>1, <4>2
    <3>2. CASE i = Len(rxq) + 1
      BY <1>1, <1>2, <2>2, <3>2
    <3> QED
      BY <2>2, <2>3, <3>1, <3>2
  <2>5. \A i, j \in 1..Len(rxq') :
           j = i + 1 => rxq'[i].hi = rxq'[j].lo /\ rxq'[j].consumed = 0
    <3> TAKE i, j \in 1..Len(rxq')
    <3> HAVE j = i + 1
    <3>1. i \in 1..Len(rxq)
      BY <2>2, <2>3
    <3>2. CASE j \in 1..Len(rxq)
      BY <2>2, <3>1, <3>2 DEF Chained
    <3>3. CASE j = Len(rxq) + 1
      BY <1>1, <2>2, <2>3, <3>1, <3>3 DEF Chained
    <3> QED
      BY <2>2, <2>3, <3>2, <3>3
  <2>6. rxq'[Len(rxq')].hi = arrived'
    BY <1>1, <2>2
  <2>7. Base' = IF rxq = <<>> THEN arrived + k ELSE Base
    BY <1>1, <2>2, <2>3 DEF Base
  <2> QED
    BY <2>2, <2>4, <2>5, <2>6, <2>7 DEF Chained
<1>3. CASE k = n
  <2>1. rxq' = rxq /\ rxq = <<>>
    BY <1>3 DEF Store
  <2> QED
    BY <1>1, <1>3, <2>1 DEF Chained, Base
<1> QED
  BY <1>2, <1>3

LEMMA OnReceiveStep ==
  ASSUME IInv, NEW n \in 1..MaxBytes, OnReceive(n)
  PROVE  IInv'
<1> USE DEF IInv, ReaderInv
<1> DEFINE c == IF reading THEN Lesser(rxbuf.first, n) ELSE 0
<1>1. rxbuf.first \in Nat /\ rxbuf.total \in Nat
  BY ShapeProperties DEF TypeOK
<1>2. c \in Nat /\ c <= n /\ n \in Nat /\ n > 0
  <2>1. n \in Nat /\ n > 0
    BY BytesAssumption
  <2>2. Lesser(rxbuf.first, n) \in Nat /\ Lesser(rxbuf.first, n) <= n
    BY <1>1, <2>1, LesserProperties
  <2> QED
    BY <2>1, <2>2
<1>3. /\ ~eof /\ step = "none" /\ arrived + n <= taken
      /\ arrived' = arrived + n
      /\ rxq' = Store(c, n)
      /\ got' = got \o Bytes(arrived, c)
      /\ reading' = FALSE
      /\ answer' \in {answer, [code |-> "ok", size |-> c, wanted |-> rxbuf.total]}
      /\ UNCHANGED <<txVars, taken, rxbuf, eof, rOpen, copyVars, ended>>
  BY DEF OnReceive, Answer
<1>4. rxq # <<>> => c = 0
  BY <1>3 DEF Ending
<1>5. got \in Seq(Nat) /\ arrived \in Nat /\ taken \in Nat
  BY DEF TypeOK
<1> HIDE DEF c
<1>6. /\ rxq' \in Seq(Chunks) /\ Chained'
      /\ Base' = IF rxq = <<>> THEN arrived + c ELSE Base
  BY <1>2, <1>3, <1>4, StoreChained
<1>7. got' \in Seq(Nat) /\ Len(got') = Len(got) + c /\ Len(got) \in Nat
  BY <1>2, <1>3, <1>5, Given, LenProperties
<1>8. TypeOK'
  <2>1. arrived' \in Nat
    BY <1>2, <1>3, <1>5
  <2>2. answer' \in [code : {"none", "ok", "reset", "aborted"}, size : Nat, wanted : Nat]
    BY <1>1, <1>2, <1>3 DEF TypeOK
  <2> QED
    BY <1>3, <1>6, <1>7, <2>1, <2>2 DEF TypeOK
<1>9. Copying'
  BY <1>2, <1>3, <1>4, <1>5, <1>6, <1>7 DEF Copying, Base
<1>10. Ending'
  BY <1>2, <1>3, <1>5 DEF Ending
<1>11. WriterInv'
  BY <1>3, WriterUntouched
<1> QED
  BY <1>6, <1>8, <1>9, <1>10, <1>11

\* The steps that neither move bytes nor the queue.
LEMMA StillChained ==
  ASSUME Chained, UNCHANGED <<rxq, arrived>>
  PROVE  Chained' /\ Base' = Base
BY DEF Chained, Base

LEMMA AnswerType ==
  ASSUME NEW ec \in {"ok", "reset", "aborted"}, NEW n \in Nat, NEW m \in Nat, Answer(ec, n, m)
  PROVE  answer' \in [code : {"none", "ok", "reset", "aborted"}, size : Nat, wanted : Nat]
BY DEF Answer

LEMMA OnEofStep ==
  ASSUME IInv, OnEof
  PROVE  IInv'
<1> USE DEF IInv, ReaderInv
<1>1. rxbuf.total \in Nat
  BY ShapeProperties DEF TypeOK
<1>2. answer' \in [code : {"none", "ok", "reset", "aborted"}, size : Nat, wanted : Nat]
  BY <1>1, AnswerType DEF OnEof, TypeOK
<1>3. TypeOK'
  BY <1>2 DEF OnEof, TypeOK
<1>4. Chained' /\ Copying'
  BY StillChained DEF OnEof, Copying
<1>5. Ending'
  BY DEF OnEof, Ending, TypeOK
<1>6. WriterInv'
  BY WriterUntouched DEF OnEof
<1> QED
  BY <1>3, <1>4, <1>5, <1>6

LEMMA ReadStep ==
  ASSUME IInv, NEW b \in ReadShapes, ReadNothing(b) \/ ReadWaits(b) \/ ReadEof(b) \/ ReadStored(b)
  PROVE  IInv'
<1> USE DEF IInv, ReaderInv
<1>1. b.total \in Nat
  BY ShapeProperties
<1>2. WriterInv'
  BY WriterUntouched DEF ReadNothing, ReadWaits, ReadEof, ReadStored
<1>3. Chained' /\ Base' = Base
  BY StillChained DEF ReadNothing, ReadWaits, ReadEof, ReadStored
<1>4. ASSUME ReadNothing(b) PROVE TypeOK' /\ Copying' /\ Ending'
  <2>1. TypeOK'
    BY <1>4, AnswerType DEF ReadNothing, TypeOK
  <2> QED
    BY <1>3, <1>4, <2>1 DEF ReadNothing, MayRead, Copying, Ending
<1>5. ASSUME ReadWaits(b) PROVE TypeOK' /\ Copying' /\ Ending'
  <2>1. TypeOK'
    BY <1>5 DEF ReadWaits, TypeOK
  <2> QED
    BY <1>3, <1>5, <2>1 DEF ReadWaits, MayRead, Copying, Ending
<1>6. ASSUME ReadEof(b) PROVE TypeOK' /\ Copying' /\ Ending'
  <2>1. TypeOK'
    BY <1>1, <1>6, AnswerType DEF ReadEof, TypeOK
  <2> QED
    BY <1>3, <1>6, <2>1 DEF ReadEof, AtEnd, MayRead, Copying, Ending
<1>7. ASSUME ReadStored(b) PROVE TypeOK' /\ Copying' /\ Ending'
  <2>1. TypeOK'
    BY <1>1, <1>7 DEF ReadStored, TypeOK
  <2>2. rxq \in Seq(Chunks) /\ Len(rxq) \in Nat /\ Len(rxq) > 0
    BY <1>7, EmptySeq DEF ReadStored, TypeOK
  <2>3. Base \in Nat /\ Base = Len(got) /\ Base = rxq[1].lo + rxq[1].consumed
    <3>1. Base = rxq[1].lo + rxq[1].consumed
      BY <1>7 DEF ReadStored, Base
    <3>2. Base \in Nat
      BY BaseType
    <3>3. Base + 0 = Len(got)
      BY <1>7 DEF ReadStored, MayRead, Copying
    <3> QED
      BY <3>1, <3>2, <3>3
  <2>4. Copying'
    BY <1>3, <1>7, <2>2, <2>3 DEF ReadStored, Copying
  <2>5. Ending'
    BY <1>7 DEF ReadStored, MayRead, Ending
  <2> QED
    BY <2>1, <2>4, <2>5
<1> QED
  BY <1>2, <1>3, <1>4, <1>5, <1>6, <1>7

LEMMA CopyChunkStep ==
  ASSUME IInv, CopyChunk
  PROVE  IInv'
<1> USE DEF IInv, ReaderInv
<1> DEFINE c == rxq[ci]
           n == Lesser(room, Size(c))
<1>1. /\ step = "copy" /\ ci <= Len(rxq) /\ room > 0
      /\ got' = got \o Bytes(c.lo + c.consumed, n)
      /\ room' = room - n
      /\ rest' = rest + n
      /\ ci' = ci + 1
      /\ UNCHANGED <<txVars, taken, arrived, rxq, reading, rxbuf, eof, rOpen, step,
                     answer, ended>>
  BY DEF CopyChunk, CopyMore
<1>2. /\ rxq \in Seq(Chunks) /\ Len(rxq) \in Nat /\ ci \in 1..Len(rxq) /\ ci \in Nat
      /\ got \in Seq(Nat) /\ room \in Nat /\ rest \in Nat /\ arrived \in Nat
      /\ rxbuf.total \in Nat
  BY <1>1, LenProperties, ShapeProperties DEF Copying, TypeOK
<1>3. /\ c.lo \in Nat /\ c.hi \in Nat /\ c.consumed \in Nat
      /\ Size(c) \in Nat /\ Size(c) > 0
      /\ c.lo + c.consumed + Size(c) = c.hi /\ c.hi <= arrived
  BY <1>2, ChunkProperties
<1>4. n \in Nat /\ n > 0 /\ n <= room /\ n <= Size(c) /\ n \in {room, Size(c)}
  BY <1>1, <1>2, <1>3, LesserProperties
<1>5. Len(got) = c.lo + c.consumed
  BY <1>1, <1>2 DEF Copying
<1>6. \A j \in 1..Len(rxq) : j = ci + 1 => c.hi = rxq[j].lo /\ rxq[j].consumed = 0
  BY <1>2 DEF Chained
<1> HIDE DEF n
<1>7. got' \in Seq(Nat) /\ Len(got') = Len(got) + n /\ Len(got) \in Nat
  <2>1. Len(got) \in Nat
    BY <1>2, LenProperties
  <2>2. got' = got \o Bytes(Len(got), n)
    BY <1>1, <1>5
  <2> QED
    BY <1>2, <1>4, <2>1, <2>2, Given
<1>8. TypeOK'
  <2>1. room' \in Nat /\ rest' \in Nat /\ ci' \in Nat
    BY <1>1, <1>2, <1>4
  <2> QED
    BY <1>1, <1>7, <2>1 DEF TypeOK
<1>9. Chained' /\ Base' = Base
  BY <1>1, StillChained
<1>10. Copying'
  <2>1. Base' + rest' = Len(got')
    <3>1. Base + rest = Len(got)
      BY <1>1 DEF Copying
    <3>2. Base \in Nat
      BY BaseType
    <3>3. rest' = rest + n /\ rest \in Nat /\ n \in Nat
      BY <1>1, <1>2, <1>4
    <3>4. Base + (rest + n) = Len(got) + n
      BY <3>1, <3>2, <3>3
    <3> QED
      BY <1>7, <1>9, <3>3, <3>4
  <2>2. Len(got') <= arrived'
    <3>1. Len(got) + Size(c) = c.hi
      BY <1>3, <1>5
    <3>2. Len(got) + n <= c.hi
      BY <1>3, <1>4, <1>7, <3>1
    <3> QED
      BY <1>1, <1>2, <1>3, <1>4, <1>7, <3>2
  <2>3. /\ rxq' # <<>> /\ ci' \in 1..(Len(rxq') + 1) /\ ci' > 1
    BY <1>1, <1>2 DEF Copying
  <2>4. room' < rxbuf'.total
    BY <1>1, <1>2, <1>4 DEF Copying
  <2>5. room' > 0 /\ ci' <= Len(rxq') => Len(got') = rxq'[ci'].lo + rxq'[ci'].consumed
    <3> SUFFICES ASSUME room' > 0, ci' <= Len(rxq')
                 PROVE  Len(got') = rxq'[ci'].lo + rxq'[ci'].consumed
      OBVIOUS
    <3>1. n = Size(c)
      BY <1>1, <1>2, <1>3, <1>4
    <3>2. ci' \in 1..Len(rxq)
      BY <1>1, <1>2
    <3>3. rxq'[ci'].lo = c.hi /\ rxq'[ci'].consumed = 0
      BY <1>1, <1>6, <3>2
    <3> QED
      BY <1>3, <1>5, <1>7, <3>1, <3>3
  <2> QED
    BY <1>1, <2>1, <2>2, <2>3, <2>4, <2>5 DEF Copying
<1>11. Ending'
  BY <1>1 DEF Ending
<1>12. WriterInv'
  BY <1>1, WriterUntouched
<1> QED
  BY <1>8, <1>9, <1>10, <1>11, <1>12

LEMMA EndCopyStep ==
  ASSUME IInv, EndCopy
  PROVE  IInv'
<1> USE DEF IInv, ReaderInv
<1>1. /\ step = "copy" /\ ~(ci <= Len(rxq) /\ room > 0) /\ step' = "drain"
      /\ UNCHANGED <<txVars, taken, arrived, rxq, reading, rxbuf, eof, rOpen, ci, room,
                     rest, answer, got, ended>>
  BY DEF EndCopy, CopyMore
<1>2. room < rxbuf.total
  <2>1. Len(rxq) \in Nat /\ Len(rxq) > 0
    BY <1>1, EmptySeq DEF Copying, TypeOK
  <2>2. CASE ci = 1
    BY <1>1, <2>1, <2>2 DEF Copying, Ending
  <2>3. CASE ci > 1
    BY <1>1, <2>3 DEF Copying
  <2> QED
    BY <1>1, <2>1, <2>2, <2>3 DEF Copying
<1>3. Chained' /\ Base' = Base
  BY <1>1, StillChained
<1>4. Copying'
  BY <1>1, <1>2, <1>3 DEF Copying
<1>5. TypeOK' /\ Ending'
  BY <1>1 DEF TypeOK, Ending
<1>6. WriterInv'
  BY <1>1, WriterUntouched
<1> QED
  BY <1>3, <1>4, <1>5, <1>6

\* The front of the queue is removed.
LEMMA TailChained ==
  ASSUME TypeOK, Chained, rxq # <<>>, rxq' = Tail(rxq), arrived' = arrived
  PROVE  /\ rxq' \in Seq(Chunks)
         /\ Chained'
         /\ Base' = rxq[1].hi
<1>1. /\ rxq \in Seq(Chunks)
      /\ Len(rxq) \in Nat /\ Len(rxq) > 0
  BY EmptySeq DEF TypeOK
<1>2. /\ rxq' \in Seq(Chunks)
      /\ Len(rxq') = Len(rxq) - 1
      /\ \A i \in 1..Len(rxq') : rxq'[i] = rxq[i + 1]
      /\ rxq' = <<>> <=> Len(rxq') = 0
  BY <1>1, HeadTailProperties, EmptySeq
<1>3. \A i \in 1..Len(rxq') : i + 1 \in 1..Len(rxq)
  BY <1>1, <1>2
<1>4. Chained'
  <2>1. \A i \in 1..Len(rxq') : /\ rxq'[i].lo + rxq'[i].consumed < rxq'[i].hi
                                /\ rxq'[i].hi <= arrived'
    BY <1>2, <1>3 DEF Chained
  <2>2. \A i, j \in 1..Len(rxq') :
           j = i + 1 => rxq'[i].hi = rxq'[j].lo /\ rxq'[j].consumed = 0
    <3> TAKE i, j \in 1..Len(rxq')
    <3> HAVE j = i + 1
    <3>1. i + 1 \in 1..Len(rxq) /\ j + 1 \in 1..Len(rxq) /\ j + 1 = (i + 1) + 1
      BY <1>3
    <3>2. rxq[i + 1].hi = rxq[j + 1].lo /\ rxq[j + 1].consumed = 0
      BY <3>1 DEF Chained
    <3> QED
      BY <1>2, <3>2
  <2>3. rxq' # <<>> => rxq'[Len(rxq')].hi = arrived'
    <3> HAVE rxq' # <<>>
    <3>1. Len(rxq') \in 1..Len(rxq') /\ Len(rxq') + 1 = Len(rxq)
      BY <1>1, <1>2
    <3>2. rxq'[Len(rxq')] = rxq[Len(rxq)]
      BY <1>2, <3>1
    <3> QED
      BY <3>2 DEF Chained
  <2> QED
    BY <2>1, <2>2, <2>3 DEF Chained
<1>5. Base' = rxq[1].hi
  <2>1. CASE rxq' = <<>>
    <3>1. Len(rxq) = 1
      BY <1>1, <1>2, <2>1
    <3> QED
      BY <2>1, <3>1 DEF Base, Chained
  <2>2. CASE rxq' # <<>>
    <3>1. 1 \in 1..Len(rxq') /\ 1 \in 1..Len(rxq) /\ 2 \in 1..Len(rxq) /\ 1 + 1 = 2
      BY <1>1, <1>2, <2>2
    <3>2. rxq'[1] = rxq[2]
      BY <1>2, <3>1
    <3>3. rxq[1].hi = rxq[2].lo /\ rxq[2].consumed = 0
      BY <3>1 DEF Chained
    <3>4. rxq[2].lo \in Nat
      BY <3>1, ChunkProperties
    <3> QED
      BY <2>2, <3>2, <3>3, <3>4 DEF Base
  <2> QED
    BY <2>1, <2>2
<1> QED
  BY <1>2, <1>4, <1>5

\* A part of the front of the queue is removed.
LEMMA ConsumeChained ==
  ASSUME TypeOK, Chained, rxq # <<>>, rest < Size(rxq[1]),
         rxq' = [rxq EXCEPT ![1].consumed = @ + rest], arrived' = arrived
  PROVE  /\ rxq' \in Seq(Chunks)
         /\ Chained'
         /\ Base' = Base + rest
<1>1. /\ rxq \in Seq(Chunks) /\ rest \in Nat
      /\ Len(rxq) \in Nat /\ 1 \in 1..Len(rxq)
  BY EmptySeq DEF TypeOK
<1> DEFINE c == [rxq[1] EXCEPT !.consumed = @ + rest]
<1>2. /\ rxq[1] \in Chunks
      /\ rxq[1].lo \in Nat /\ rxq[1].hi \in Nat /\ rxq[1].consumed \in Nat
      /\ rxq[1].lo + rxq[1].consumed + Size(rxq[1]) = rxq[1].hi
      /\ rxq[1].hi <= arrived /\ Size(rxq[1]) \in Nat
  BY <1>1, ChunkProperties
<1>3. /\ c \in Chunks
      /\ c.lo = rxq[1].lo /\ c.hi = rxq[1].hi /\ c.consumed = rxq[1].consumed + rest
  BY <1>1, <1>2 DEF Chunks
<1>4. rxq' = [rxq EXCEPT ![1] = c]
  OBVIOUS
<1> HIDE DEF c
<1>5. /\ rxq' \in Seq(Chunks) /\ Len(rxq') = Len(rxq) /\ rxq' # <<>>
      /\ rxq'[1] = c
      /\ \A i \in 1..Len(rxq) : i # 1 => rxq'[i] = rxq[i]
  BY <1>1, <1>3, <1>4, ExceptSeq, EmptySeq
<1>6. Base' = Base + rest
  BY <1>1, <1>2, <1>3, <1>5 DEF Base
<1>7. c.lo + c.consumed < c.hi
  BY <1>1, <1>2, <1>3
<1>8. Chained'
  <2>1. \A i \in 1..Len(rxq') : /\ rxq'[i].lo + rxq'[i].consumed < rxq'[i].hi
                                /\ rxq'[i].hi <= arrived'
    BY <1>2, <1>3, <1>5, <1>7 DEF Chained
  <2>2. \A i \in 1..Len(rxq) : rxq'[i].hi = rxq[i].hi
    BY <1>3, <1>5
  <2>3. \A i, j \in 1..Len(rxq') :
           j = i + 1 => rxq'[i].hi = rxq'[j].lo /\ rxq'[j].consumed = 0
    <3> TAKE i, j \in 1..Len(rxq')
    <3> HAVE j = i + 1
    <3>1. j # 1
      BY <1>1, <1>5
    <3> QED
      BY <1>5, <2>2, <3>1 DEF Chained
  <2>4. rxq'[Len(rxq')].hi = arrived'
    BY <1>1, <1>5, <2>2 DEF Chained
  <2> QED
    BY <2>1, <2>3, <2>4 DEF Chained
<1> QED
  BY <1>5, <1>6, <1>8

LEMMA DrainChunkStep ==
  ASSUME IInv, DrainChunk
  PROVE  IInv'
<1> USE DEF IInv, ReaderInv
<1>1. /\ step = "drain" /\ rest > 0
      /\ UNCHANGED <<txVars, taken, arrived, reading, rxbuf, eof, rOpen, step, ci, room,
                     answer, got, ended>>
  BY DEF DrainChunk
<1>2. Base \in Nat /\ rest \in Nat /\ arrived \in Nat /\ Base + rest <= arrived
      /\ Base + rest = Len(got)
  BY <1>1, BaseType DEF Copying, TypeOK
<1>3. rxq # <<>>
  BY <1>1, <1>2 DEF Base
<1>4. 1 \in 1..Len(rxq) /\ Head(rxq) = rxq[1]
  BY <1>3, EmptySeq DEF TypeOK
<1>5. /\ Size(rxq[1]) \in Nat /\ rxq[1].hi \in Nat
      /\ Base + Size(rxq[1]) = rxq[1].hi
  BY <1>3, <1>4, ChunkProperties DEF Base
<1>6. WriterInv'
  BY <1>1, WriterUntouched
<1>7. CASE rest >= Size(rxq[1])
  <2>1. rest' = rest - Size(rxq[1]) /\ rxq' = Tail(rxq)
    BY <1>4, <1>7 DEF DrainChunk, Drained
  <2>2. rxq' \in Seq(Chunks) /\ Chained' /\ Base' = rxq[1].hi
    BY <1>1, <1>3, <2>1, TailChained
  <2>3. rest' \in Nat /\ Base' + rest' = Len(got')
    BY <1>1, <1>2, <1>5, <1>7, <2>1, <2>2
  <2>4. TypeOK'
    BY <1>1, <2>2, <2>3 DEF TypeOK
  <2>5. Copying'
    BY <1>1, <2>3 DEF Copying
  <2>6. Ending'
    BY <1>1 DEF Ending
  <2> QED
    BY <1>6, <2>2, <2>4, <2>5, <2>6
<1>8. CASE rest < Size(rxq[1])
  <2>1. rest' = 0 /\ rxq' = [rxq EXCEPT ![1].consumed = @ + rest]
    BY <1>2, <1>4, <1>5, <1>8 DEF DrainChunk, Drained
  <2>2. rxq' \in Seq(Chunks) /\ Chained' /\ Base' = Base + rest
    BY <1>1, <1>3, <1>8, <2>1, ConsumeChained
  <2>3. rest' \in Nat /\ Base' + rest' = Len(got')
    BY <1>1, <1>2, <2>1, <2>2
  <2>4. TypeOK'
    BY <1>1, <2>2, <2>3 DEF TypeOK
  <2>5. Copying'
    BY <1>1, <2>3 DEF Copying
  <2>6. Ending'
    BY <1>1 DEF Ending
  <2> QED
    BY <1>6, <2>2, <2>4, <2>5, <2>6
<1> QED
  BY <1>2, <1>5, <1>7, <1>8

LEMMA ReadDoneStep ==
  ASSUME IInv, ReadDone
  PROVE  IInv'
<1> USE DEF IInv, ReaderInv
<1>1. /\ step = "drain" /\ rest = 0 /\ step' = "none" /\ reading' = FALSE
      /\ Answer("ok", rxbuf.total - room, rxbuf.total)
      /\ UNCHANGED <<txVars, taken, arrived, rxq, rxbuf, eof, rOpen, ci, room, rest,
                     got, ended>>
  BY DEF ReadDone
<1>2. rxbuf.total \in Nat /\ room \in Nat /\ room < rxbuf.total
  BY <1>1, ShapeProperties DEF Copying, TypeOK
<1>3. rxbuf.total - room \in Nat
  BY <1>2
<1>4. TypeOK'
  BY <1>1, <1>2, <1>3, AnswerType DEF TypeOK
<1>5. Chained' /\ Base' = Base
  BY <1>1, StillChained
<1>6. Copying' /\ Ending'
  BY <1>1, <1>5 DEF Copying, Ending
<1>7. WriterInv'
  BY <1>1, WriterUntouched
<1> QED
  BY <1>4, <1>5, <1>6, <1>7

LEMMA CloseReaderStep ==
  ASSUME IInv, CloseReader
  PROVE  IInv'
<1> USE DEF IInv, ReaderInv
<1>1. rxbuf.total \in Nat
  BY ShapeProperties DEF TypeOK
<1>2. answer' \in [code : {"none", "ok", "reset", "aborted"}, size : Nat, wanted : Nat]
  BY <1>1, AnswerType DEF CloseReader, TypeOK
<1>3. TypeOK'
  BY <1>2 DEF CloseReader, TypeOK
<1>4. Chained' /\ Base' = Base
  BY StillChained DEF CloseReader
<1>5. Copying' /\ Ending'
  BY <1>4 DEF CloseReader, Copying, Ending
<1>6. WriterInv'
  BY WriterUntouched DEF CloseReader
<1> QED
  BY <1>3, <1>4, <1>5, <1>6

-----------------------------------------------------------------------------
(***************************************************************************)
(* The theorems.                                                           *)
(***************************************************************************)

\* For every number of bytes and every choice of buffers, do_write keeps its
\* account and do_read its place in the queue.
THEOREM Invariance == Spec => []IInv
<1>1. IInv /\ [Next]_vars => IInv'
  <2> SUFFICES ASSUME IInv, [Next]_vars PROVE IInv'
    OBVIOUS
  <2>1. CASE UNCHANGED vars
    BY <2>1 DEF vars, IInv, TypeOK, WriterInv, WritesAccounted, ReaderInv,
                Chained, Copying, Ending, Base
  <2>2. CASE WriterNext
    BY <2>2, WriteStep, UtpWriteStep, WriterStep DEF WriterNext
  <2>3. CASE ReaderNext
    BY <2>3, OnReceiveStep, OnEofStep, ReadStep, CopyChunkStep, EndCopyStep,
       DrainChunkStep, ReadDoneStep, CloseReaderStep DEF ReaderNext
  <2> QED
    BY <2>1, <2>2, <2>3 DEF Next
<1> QED
  BY <1>1, InitIInv, PTL DEF Spec

\* Every variable keeps its type; in particular neither the size of a chunk
\* nor the r of do_read's loop is ever computed below zero.
THEOREM TypeCorrect == Spec => []TypeOK
<1>1. IInv => TypeOK
  BY DEF IInv
<1> QED
  BY <1>1, Invariance, PTL

\* do_write reports what libutp took, and gives up only when on_writable is
\* owed to it.
THEOREM WriteAccount == Spec => []WritesAccounted
<1>1. IInv => WritesAccounted
  BY DEF IInv, WriterInv
<1> QED
  BY <1>1, Invariance, PTL

\* Outside do_read, _rx_buffer_queue holds what has arrived and has not been
\* read, without a gap and without an empty buffer.
THEOREM NothingLostInQueue == Spec => []QueueContiguous
<1>1. IInv => QueueContiguous
  <2> SUFFICES ASSUME IInv, step = "none" PROVE QueueContiguous
    BY DEF QueueContiguous
  <2> USE DEF IInv, ReaderInv
  <2>1. rxq \in Seq(Chunks) /\ Len(rxq) \in Nat /\ DOMAIN rxq = 1..Len(rxq)
    BY LenProperties DEF TypeOK
  <2>2. Base \in Nat /\ Base = Len(got)
    BY BaseType DEF Copying
  <2>3. rxq = <<>> => arrived = Len(got)
    BY <2>2 DEF Base
  <2>4. rxq # <<>> => /\ Head(rxq).lo + Head(rxq).consumed = Len(got)
                      /\ rxq[Len(rxq)].hi = arrived
    BY <2>1, <2>2 DEF Base, Chained
  <2>5. ASSUME NEW i \in 1..(Len(rxq) - 1)
        PROVE  rxq[i].hi = rxq[i + 1].lo /\ rxq[i + 1].consumed = 0
    <3>1. i \in 1..Len(rxq) /\ i + 1 \in 1..Len(rxq)
      BY <2>1
    <3> QED
      BY <3>1 DEF Chained
  <2>6. \A i \in DOMAIN rxq : Size(rxq[i]) > 0
    BY <2>1, ChunkProperties
  <2> QED
    BY <2>3, <2>4, <2>5, <2>6 DEF QueueContiguous
<1> QED
  BY <1>1, Invariance, PTL

\* A read into a buffer sequence that has room and does not begin with an
\* empty buffer succeeds with at least one byte, whether it finds data in the
\* queue or on_receive answers it.
THEOREM ReadsMakeProgress ==
  ASSUME \A b \in ReadShapes : b.total > 0 => b.first > 0
  PROVE  Spec => []ReadMakesProgress
<1>1. Init => ReadMakesProgress
  BY DEF Init, ReadMakesProgress
<1>2. IInv /\ ReadMakesProgress /\ [Next]_vars => ReadMakesProgress'
  <2> SUFFICES ASSUME IInv, ReadMakesProgress, [Next]_vars PROVE ReadMakesProgress'
    OBVIOUS
  <2> USE DEF IInv, ReaderInv
  <2>1. CASE UNCHANGED answer
    BY <2>1 DEF ReadMakesProgress
  <2>2. ASSUME NEW n \in 1..MaxBytes, OnReceive(n), reading PROVE ReadMakesProgress'
    <3>1. rxbuf.first \in Nat /\ rxbuf.first > 0 /\ n \in Nat /\ n > 0
      BY <2>2, ShapeProperties, BytesAssumption DEF Ending, TypeOK
    <3>2. Lesser(rxbuf.first, n) > 0
      BY <3>1, LesserProperties
    <3> QED
      BY <2>2, <3>2 DEF OnReceive, Answer, ReadMakesProgress
  <2>3. ASSUME ReadDone PROVE ReadMakesProgress'
    <3>1. rxbuf.total \in Nat /\ room \in Nat /\ room < rxbuf.total
      BY <2>3, ShapeProperties DEF ReadDone, Copying, TypeOK
    <3>2. rxbuf.total - room > 0
      BY <3>1
    <3> QED
      BY <2>3, <3>2 DEF ReadDone, Answer, ReadMakesProgress
  <2>4. ASSUME NEW b \in ReadShapes, ReadNothing(b) \/ ReadEof(b) PROVE ReadMakesProgress'
    BY <2>4 DEF ReadNothing, ReadEof, Answer, ReadMakesProgress
  <2>5. ASSUME OnEof \/ CloseReader, reading PROVE ReadMakesProgress'
    BY <2>5 DEF OnEof, CloseReader, Answer, ReadMakesProgress
  <2>6. CASE UNCHANGED vars
    BY <2>1, <2>6 DEF vars
  <2>7. CASE WriterNext
    BY <2>1, <2>7 DEF WriterNext, WriteDone, OnWritable, PeerData, CloseWriter, Write, UtpWrite
  <2>8. CASE ReaderNext
    BY <2>1, <2>2, <2>3, <2>4, <2>5, <2>8
       DEF ReaderNext, OnReceive, OnEof, CloseReader, CopyChunk, EndCopy, DrainChunk,
           ReadWaits, ReadStored
  <2> QED
    BY <2>6, <2>7, <2>8 DEF Next
<1> QED
  BY <1>1, <1>2, Invariance, PTL DEF Spec

\* The pair of sockets implements a stream of bytes: every step of do_write,
\* of libutp and of do_read is a step of ByteStream or leaves it unchanged.
THEOREM Refinement == Spec => IsByteStream
<1>1. Init => Stream!Init
  BY DEF Init, Stream!Init
<1>2. IInv /\ [Next]_vars => [Stream!Next]_Stream!vars
  <2> SUFFICES ASSUME IInv, [Next]_vars PROVE [Stream!Next]_Stream!vars
    OBVIOUS
  <2> USE DEF IInv, ReaderInv
  <2>1. CASE UNCHANGED <<taken, got, ended>>
    BY <2>1 DEF Stream!vars
  <2>2. ASSUME NEW i \in DOMAIN tx, NEW w \in 0..MaxBytes, UtpWrite(i, w)
        PROVE  [Stream!Next]_Stream!vars
    <3>1. ~ended
      BY <2>2 DEF UtpWrite, WriterInv, Ending
    <3>2. taken \in Nat /\ w \in Nat /\ taken' = taken + w /\ UNCHANGED <<got, ended>>
      BY <2>2, BytesAssumption DEF UtpWrite, TypeOK
    <3>3. CASE w = 0
      BY <2>1, <3>2, <3>3
    <3>4. CASE w > 0
      <4>1. taken' \in Nat /\ taken' > taken
        BY <3>2, <3>4
      <4> QED
        BY <3>1, <3>2, <4>1 DEF Stream!Next, Stream!Put
    <3> QED
      BY <3>2, <3>3, <3>4
  \* The reader is given n bytes from where it is.
  <2>3. ASSUME NEW n \in Nat, n > 0, ~ended, got' = got \o Bytes(Len(got), n),
               Len(got) + n <= taken, UNCHANGED <<taken, ended>>
        PROVE  [Stream!Next]_Stream!vars
    <3>1. n \in 1..(taken - Len(got))
      BY <2>3, LenProperties DEF TypeOK
    <3>2. got' = got \o Stream!Bytes(Len(got), n)
      BY <2>3 DEF Bytes, Stream!Bytes
    <3> QED
      BY <2>3, <3>1, <3>2 DEF Stream!Next, Stream!Get
  <2>4. ASSUME NEW n \in 1..MaxBytes, OnReceive(n) PROVE [Stream!Next]_Stream!vars
    <3> DEFINE c == IF reading THEN Lesser(rxbuf.first, n) ELSE 0
    <3>1. got' = got \o Bytes(arrived, c) /\ UNCHANGED <<taken, ended>> /\ ~eof
          /\ arrived + n <= taken /\ step = "none"
      BY <2>4 DEF OnReceive
    <3>2. n \in Nat /\ n > 0 /\ arrived \in Nat /\ taken \in Nat /\ got \in Seq(Nat)
      BY BytesAssumption DEF TypeOK
    <3>3. c \in Nat /\ c <= n
      <4>1. rxbuf.first \in Nat
        BY ShapeProperties DEF TypeOK
      <4>2. Lesser(rxbuf.first, n) \in Nat /\ Lesser(rxbuf.first, n) <= n
        BY <3>2, <4>1, LesserProperties
      <4> QED
        BY <3>2, <4>2
    <3>4. c > 0 => Len(got) = arrived
      <4>1. c > 0 => rxq = <<>>
        BY <3>1 DEF Ending
      <4> QED
        BY <3>1, <3>2, <4>1 DEF Copying, Base
    <3> HIDE DEF c
    <3>5. CASE c = 0
      BY <2>1, <3>1, <3>2, <3>5, NoneGiven
    <3>6. CASE c > 0
      <4>1. Len(got) + c <= taken
        BY <3>1, <3>2, <3>3, <3>4, <3>6
      <4> QED
        BY <2>3, <3>1, <3>3, <3>4, <3>6, <4>1 DEF Ending
    <3> QED
      BY <3>3, <3>5, <3>6
  <2>5. ASSUME CopyChunk PROVE [Stream!Next]_Stream!vars
    <3> DEFINE c == rxq[ci]
               n == Lesser(room, Size(c))
    <3>1. /\ step = "copy" /\ ci <= Len(rxq) /\ room > 0
          /\ got' = got \o Bytes(c.lo + c.consumed, n) /\ UNCHANGED <<taken, ended>>
      BY <2>5 DEF CopyChunk, CopyMore
    <3>2. ci \in 1..Len(rxq) /\ room \in Nat /\ arrived \in Nat /\ taken \in Nat
      BY <3>1 DEF Copying, TypeOK
    <3>3. /\ c.lo \in Nat /\ c.hi \in Nat /\ c.consumed \in Nat
          /\ Size(c) \in Nat /\ Size(c) > 0
          /\ c.lo + c.consumed + Size(c) = c.hi /\ c.hi <= arrived
      BY <3>2, ChunkProperties
    <3>4. n \in Nat /\ n > 0 /\ n <= Size(c)
      BY <3>1, <3>2, <3>3, LesserProperties
    <3>5. Len(got) = c.lo + c.consumed
      BY <3>1, <3>2 DEF Copying
    <3>6. ~ended /\ arrived <= taken
      BY <3>1 DEF Ending
    <3> HIDE DEF n
    <3>7. got' = got \o Bytes(Len(got), n)
      BY <3>1, <3>5
    <3>8. Len(got) + n <= taken
      <4>1. Len(got) + Size(c) = c.hi /\ Len(got) \in Nat
        BY <3>3, <3>5
      <4>2. Len(got) + n <= c.hi
        BY <3>3, <3>4, <4>1
      <4> QED
        BY <3>2, <3>3, <3>4, <3>6, <4>1, <4>2
    <3> QED
      BY <2>3, <3>1, <3>4, <3>6, <3>7, <3>8
  <2>6. ASSUME OnEof PROVE [Stream!Next]_Stream!vars
    <3>1. CASE reading
      <4>1. rxq = <<>> /\ step = "none"
        BY <2>6, <3>1 DEF OnEof, Ending
      <4>2. Len(got) = taken
        BY <2>6, <4>1, BaseType DEF OnEof, Copying, Base
      <4> QED
        BY <2>6, <3>1, <4>2 DEF OnEof, Stream!Next, Stream!End
    <3>2. CASE ~reading
      <4>1. ended' = ended
        BY <2>6, <3>2 DEF OnEof, TypeOK
      <4> QED
        BY <2>1, <2>6, <4>1 DEF OnEof
    <3> QED
      BY <3>1, <3>2
  <2>7. ASSUME NEW b \in ReadShapes, ReadEof(b) PROVE [Stream!Next]_Stream!vars
    <3>1. Len(got) = taken
      BY <2>7, BaseType DEF ReadEof, AtEnd, MayRead, Copying, Base, Ending
    <3> QED
      BY <2>7, <3>1 DEF ReadEof, Stream!Next, Stream!End
  <2>8. CASE UNCHANGED vars
    BY <2>1, <2>8 DEF vars
  <2>9. CASE WriterNext
    BY <2>1, <2>2, <2>9 DEF WriterNext, WriteDone, OnWritable, PeerData, CloseWriter, Write
  <2>10. CASE ReaderNext
    BY <2>1, <2>4, <2>5, <2>6, <2>7, <2>10
       DEF ReaderNext, EndCopy, DrainChunk, ReadDone, CloseReader,
           ReadNothing, ReadWaits, ReadStored
  <2> QED
    BY <2>8, <2>9, <2>10 DEF Next
<1> QED
  BY <1>1, <1>2, Invariance, PTL DEF Spec, IsByteStream, Stream!Spec

=============================================================================
