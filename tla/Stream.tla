------------------------------- MODULE Stream -------------------------------
(***************************************************************************)
(* The way of the bytes through a pair of connected sockets, in one        *)
(* direction: socket_impl::do_write and on_writable of the writer, libutp  *)
(* as a reliable pipe between them, and on_receive, on_eof and do_read of  *)
(* the reader with its _rx_buffer_queue.                                   *)
(*                                                                         *)
(* A byte is its number in the stream, a piece of memory an interval of    *)
(* such numbers.  The loops of do_write and do_read are taken one          *)
(* iteration at a time: each iteration of the first is a call into libutp, *)
(* and the second walks the queue twice, once to copy (asio::buffer_copy)  *)
(* and once to remove what it has copied.                                  *)
(*                                                                         *)
(* How the handlers are stored, counted and posted is the subject of       *)
(* UtpSockets; here an operation is only outstanding or not.               *)
(***************************************************************************)
EXTENDS Naturals, Sequences, Functions

CONSTANTS
    MaxBytes,     \* bound on the bytes that are written in all
    WriteShapes,  \* the buffer sequences of the writer: lists of sizes
    ReadShapes    \* those of the reader, as size of the first and of all

ASSUME BytesAssumption  == MaxBytes \in Nat
ASSUME WritesAssumption == WriteShapes \subseteq Seq(Nat)
ASSUME ReadsAssumption  == ReadShapes \subseteq {b \in [first : Nat, total : Nat] : b.first <= b.total}

VARIABLES
    tx,         \* writer: what is left of each of _tx_buffers
    sending,    \* writer: is _send_handler set?
    bytesSent,  \* writer: _bytes_sent
    writing,    \* writer: is do_write on the stack?
    full,       \* writer: has libutp refused bytes since it was last writable?
    wOpen,      \* writer: not closed
    ready,      \* writer: does libutp regard the connection as established?
    early,      \* history: has a write been refused before it was?
    reported,   \* history: bytes the write handlers have been told of
    taken,      \* bytes libutp has taken from the writer
    arrived,    \* bytes libutp has given to the reader's on_receive
    rxq,        \* reader: _rx_buffer_queue
    reading,    \* reader: is _recv_handler set?
    rxbuf,      \* reader: _rx_buffers
    eof,        \* reader: _got_eof
    rOpen,      \* reader: not closed
    step,       \* reader: the part of do_read that is on the stack
    ci,         \* reader: the buffer of the queue that is copied next
    room,       \* reader: how much of _rx_buffers is free
    rest,       \* reader: r, the copied bytes not yet removed from the queue
    answer,     \* what the last read was answered with
    got,        \* history: the bytes the reader was given
    ended       \* history: has a read been answered with connection_reset?

txVars   == <<tx, sending, bytesSent, writing, full, wOpen, ready, early,
              reported>>
copyVars == <<step, ci, room, rest>>
rxVars   == <<rxq, reading, rxbuf, eof, rOpen, copyVars, answer, got, ended>>
vars     == <<txVars, taken, arrived, rxVars>>

\* buf_t: the bytes after the first lo, up to hi; consumed of them are gone.
Chunks == [lo : Nat, hi : Nat, consumed : Nat]

NoBuffers == [first |-> 0, total |-> 0]

TypeOK ==
    /\ tx \in Seq(Nat)
    /\ sending \in BOOLEAN /\ writing \in BOOLEAN /\ full \in BOOLEAN
    /\ wOpen \in BOOLEAN /\ ready \in BOOLEAN /\ early \in BOOLEAN
    /\ bytesSent \in Nat /\ reported \in Nat /\ taken \in Nat /\ arrived \in Nat
    /\ rxq \in Seq(Chunks)
    /\ reading \in BOOLEAN /\ eof \in BOOLEAN /\ rOpen \in BOOLEAN
    /\ rxbuf \in ReadShapes \cup {NoBuffers}
    /\ step \in {"none", "copy", "drain"}
    /\ ci \in Nat /\ room \in Nat /\ rest \in Nat
    /\ answer \in [code : {"none", "ok", "reset", "aborted"}, size : Nat, wanted : Nat]
    /\ got \in Seq(Nat)
    /\ ended \in BOOLEAN

\* The writer has connected, or it has accepted and not heard of its peer
\* since.
Init ==
    /\ ready \in BOOLEAN
    /\ early = FALSE
    /\ tx = <<>>
    /\ sending = FALSE
    /\ bytesSent = 0
    /\ writing = FALSE
    /\ full = FALSE
    /\ wOpen = TRUE
    /\ reported = 0
    /\ taken = 0
    /\ arrived = 0
    /\ rxq = <<>>
    /\ reading = FALSE
    /\ rxbuf = NoBuffers
    /\ eof = FALSE
    /\ rOpen = TRUE
    /\ step = "none"
    /\ ci = 0
    /\ room = 0
    /\ rest = 0
    /\ answer = [code |-> "none", size |-> 0, wanted |-> 0]
    /\ got = <<>>
    /\ ended = FALSE

Lesser(m, n) == IF m <= n THEN m ELSE n

-----------------------------------------------------------------------------
(***************************************************************************)
(* The writer.                                                             *)
(***************************************************************************)

\* async_write_some and the first lines of do_write.
Write(bufs) ==
    /\ wOpen /\ ~sending /\ ~writing
    /\ taken + SumFunction(bufs) <= MaxBytes
    /\ tx' = bufs
    /\ sending' = TRUE
    /\ writing' = TRUE
    /\ UNCHANGED <<bytesSent, full, wOpen, ready, early, reported, taken, arrived, rxVars>>

\* The buffer do_write has arrived at: b.
Current(i) == tx[i] > 0 /\ \A j \in 1..(i - 1) : tx[j] = 0

\* The test of do_write, where s is what remains of b after w was taken.
StillWritable(w, s) == w >= s

\* b = b + w
Advance(i, w) == [tx EXCEPT ![i] = @ - w]

\* One iteration of do_write.  libutp takes nothing while its send window
\* is full, and otherwise at least one packet; when it takes less than it
\* was offered the window is full.  On a connection it has accepted and not
\* received data from it takes nothing either, and will not say when it
\* would.
UtpWrite(i, w) ==
    /\ writing
    /\ Current(i)
    /\ w <= tx[i]
    /\ w = 0 <=> full \/ ~ready
    /\ full' = (ready /\ w < tx[i])
    /\ early' = (early \/ ~ready)
    /\ taken' = taken + w
    /\ bytesSent' = bytesSent + w
    /\ tx' = Advance(i, w)
    /\ writing' = StillWritable(w, tx[i] - w)
    /\ UNCHANGED <<sending, wOpen, ready, reported, arrived, rxVars>>

\* Mutant: _bytes_sent is not reset.
WriteDone_kept ==
    /\ writing
    /\ \A i \in DOMAIN tx : tx[i] = 0
    /\ reported' = reported + bytesSent
    /\ sending' = FALSE
    /\ writing' = FALSE
    /\ UNCHANGED <<tx, bytesSent, full, wOpen, ready, early, taken, arrived, rxVars>>

\* All buffers are empty: do_write posts its handler with _bytes_sent.
WriteDone ==
    /\ writing
    /\ \A i \in DOMAIN tx : tx[i] = 0
    /\ reported' = reported + bytesSent
    /\ bytesSent' = 0
    /\ sending' = FALSE
    /\ writing' = FALSE
    /\ UNCHANGED <<tx, full, wOpen, ready, early, taken, arrived, rxVars>>

\* Mutant: a write that was taken in part is not started again.
OnWritable_untouched ==
    /\ wOpen /\ full /\ ~writing
    /\ full' = FALSE
    /\ writing' = (sending /\ bytesSent = 0)
    /\ UNCHANGED <<tx, sending, bytesSent, wOpen, ready, early, reported, taken, arrived, rxVars>>

\* UTP_STATE_WRITABLE, once acknowledgements have opened the window again.
\* A write that waits is started over with what is left of its buffers.
OnWritable ==
    /\ wOpen /\ full /\ ~writing
    /\ full' = FALSE
    /\ writing' = sending
    /\ UNCHANGED <<tx, sending, bytesSent, wOpen, ready, early, reported, taken, arrived, rxVars>>

\* The first data of the other direction.
PeerData ==
    /\ ~ready /\ ~writing
    /\ ready' = TRUE
    /\ UNCHANGED <<tx, sending, bytesSent, writing, full, wOpen, early, reported, taken,
                   arrived, rxVars>>

\* close_with_error: a write that waits is answered with an error and zero,
\* and libutp is left with what it has taken and with a FIN to send.
CloseWriter ==
    /\ wOpen /\ ~writing
    /\ wOpen' = FALSE
    /\ sending' = FALSE
    /\ UNCHANGED <<tx, bytesSent, writing, full, ready, early, reported, taken, arrived, rxVars>>

-----------------------------------------------------------------------------
(***************************************************************************)
(* The reader.                                                             *)
(***************************************************************************)

Bytes(k, n) == [i \in 1..n |-> k + i]

Chunk(lo, hi) == [lo |-> lo, hi |-> hi, consumed |-> 0]

\* buf_t::operator const_buffer
Size(c) == c.hi - c.lo - c.consumed

Answer(ec, n, wanted) == answer' = [code |-> ec, size |-> n, wanted |-> wanted]

\* Mutant: the part that does not fit is dropped.
Store_not(k, n) == rxq

\* The part of what was received that does not fit, after the first k of n.
Store(k, n) == IF k < n THEN Append(rxq, Chunk(arrived + k, arrived + n)) ELSE rxq

\* on_receive: a read that waits gets what fits into its first buffer (the
\* loop over _rx_buffers ends as soon as something is left over), the queue
\* gets the rest, also that of a socket that has been closed.
OnReceive(n) ==
    LET c == IF reading THEN Lesser(rxbuf.first, n) ELSE 0
    IN  /\ ~eof /\ step = "none"
        /\ arrived + n <= taken
        /\ arrived' = arrived + n
        /\ rxq' = Store(c, n)
        /\ got' = got \o Bytes(arrived, c)
        /\ reading' = FALSE
        /\ IF reading THEN Answer("ok", c, rxbuf.total) ELSE UNCHANGED answer
        /\ UNCHANGED <<txVars, taken, rxbuf, eof, rOpen, copyVars, ended>>

\* Mutant: a read that waits is not told.
OnEof_silent ==
    /\ ~eof /\ step = "none"
    /\ ~wOpen
    /\ arrived = taken
    /\ eof' = TRUE
    /\ UNCHANGED <<txVars, taken, arrived, rxq, reading, rxbuf, rOpen, copyVars, answer, got, ended>>

\* on_eof: libutp has delivered everything before the FIN.
OnEof ==
    /\ ~eof /\ step = "none"
    /\ ~wOpen
    /\ arrived = taken
    /\ eof' = TRUE
    /\ reading' = FALSE
    /\ ended' = (ended \/ reading)
    /\ IF reading THEN Answer("reset", 0, rxbuf.total) ELSE UNCHANGED answer
    /\ UNCHANGED <<txVars, taken, arrived, rxq, rxbuf, rOpen, copyVars, got>>

\* Reads are started one at a time, on an open socket.
MayRead == rOpen /\ ~reading /\ step = "none"

\* do_read with no room in its buffers.
ReadNothing(b) ==
    /\ MayRead
    /\ b.total = 0
    /\ Answer("ok", 0, 0)
    /\ rxbuf' = b
    /\ UNCHANGED <<txVars, taken, arrived, rxq, reading, eof, rOpen, copyVars, got, ended>>

\* do_read with an empty queue, before EOF: wait.
ReadWaits(b) ==
    /\ MayRead
    /\ b.total > 0
    /\ rxq = <<>> /\ ~eof
    /\ reading' = TRUE
    /\ rxbuf' = b
    /\ UNCHANGED <<txVars, taken, arrived, rxq, eof, rOpen, copyVars, answer, got, ended>>

\* Mutant: EOF is reported although the queue is not empty.
AtEnd_early == eof

AtEnd == rxq = <<>> /\ eof

\* do_read at the end of the stream: closes the socket.
ReadEof(b) ==
    /\ MayRead
    /\ b.total > 0
    /\ AtEnd
    /\ Answer("reset", 0, b.total)
    /\ ended' = TRUE
    /\ rOpen' = FALSE
    /\ rxbuf' = b
    /\ UNCHANGED <<txVars, taken, arrived, rxq, reading, eof, copyVars, got>>

\* do_read with data in the queue: begins to copy.
ReadStored(b) ==
    /\ MayRead
    /\ b.total > 0
    /\ rxq # <<>>
    /\ rxbuf' = b
    /\ reading' = TRUE
    /\ step' = "copy"
    /\ ci' = 1
    /\ room' = b.total
    /\ rest' = 0
    /\ UNCHANGED <<txVars, taken, arrived, rxq, eof, rOpen, answer, got, ended>>

CopyMore == ci <= Len(rxq) /\ room > 0

\* asio::buffer_copy from the next buffer of the queue.
CopyChunk ==
    LET c == rxq[ci]
        n == Lesser(room, Size(c))
    IN  /\ step = "copy"
        /\ CopyMore
        /\ got' = got \o Bytes(c.lo + c.consumed, n)
        /\ room' = room - n
        /\ rest' = rest + n
        /\ ci' = ci + 1
        /\ UNCHANGED <<txVars, taken, arrived, rxq, reading, rxbuf, eof, rOpen, step,
                       answer, ended>>

EndCopy ==
    /\ step = "copy"
    /\ ~CopyMore
    /\ step' = "drain"
    /\ UNCHANGED <<txVars, taken, arrived, rxq, reading, rxbuf, eof, rOpen, ci, room,
                   rest, answer, got, ended>>

\* Mutant: a buffer that was copied to its end stays, consumed, in the queue.
Drained_not(r, c) == r > Size(c)

\* The test of do_read's loop: was the front buffer copied to its end?
Drained(r, c) == r >= Size(c)

\* One iteration of the loop that removes what was copied.
DrainChunk ==
    LET c == Head(rxq)
    IN  /\ step = "drain"
        /\ rest > 0
        /\ IF Drained(rest, c)
           THEN /\ rest' = rest - Size(c)
                /\ rxq' = Tail(rxq)
           ELSE /\ rest' = 0
                /\ rxq' = [rxq EXCEPT ![1].consumed = @ + rest]
        /\ UNCHANGED <<txVars, taken, arrived, reading, rxbuf, eof, rOpen, step, ci, room,
                       answer, got, ended>>

ReadDone ==
    /\ step = "drain"
    /\ rest = 0
    /\ step' = "none"
    /\ reading' = FALSE
    /\ Answer("ok", rxbuf.total - room, rxbuf.total)
    /\ UNCHANGED <<txVars, taken, arrived, rxq, rxbuf, eof, rOpen, ci, room, rest,
                   got, ended>>

\* close_with_error from close(): what is in the queue is never read.
CloseReader ==
    /\ rOpen /\ step = "none"
    /\ rOpen' = FALSE
    /\ reading' = FALSE
    /\ IF reading THEN Answer("aborted", 0, rxbuf.total) ELSE UNCHANGED answer
    /\ UNCHANGED <<txVars, taken, arrived, rxq, rxbuf, eof, copyVars, got, ended>>

-----------------------------------------------------------------------------

WriterNext ==
    \/ WriteDone \/ OnWritable \/ PeerData \/ CloseWriter
    \/ \E bufs \in WriteShapes : Write(bufs)
    \/ \E i \in DOMAIN tx, w \in 0..MaxBytes : UtpWrite(i, w)

ReaderNext ==
    \/ OnEof \/ CopyChunk \/ EndCopy \/ DrainChunk \/ ReadDone \/ CloseReader
    \/ \E n \in 1..MaxBytes : OnReceive(n)
    \/ \E b \in ReadShapes :
          ReadNothing(b) \/ ReadWaits(b) \/ ReadEof(b) \/ ReadStored(b)

Next == WriterNext \/ ReaderNext

Spec == Init /\ [][Next]_vars

-----------------------------------------------------------------------------
(***************************************************************************)
(* Properties.                                                             *)
(***************************************************************************)

Stream == INSTANCE ByteStream WITH put <- taken

\* Through partial writes, re-armed writes, chunks cut at any place, reads
\* that are smaller or larger than what is stored and an EOF at any time,
\* the reader gets the bytes libutp took from the writer, each once and in
\* their order, and is told of the end only after the last of them.
IsByteStream == Stream!Spec

\* Nothing of what has arrived is lost between on_receive and the reader:
\* outside do_read the buffers of the queue, without their consumed parts,
\* follow one another from the first byte the reader does not have to the
\* last one that has arrived, and none of them is empty.
QueueContiguous ==
    step = "none" =>
        /\ rxq = <<>> => arrived = Len(got)
        /\ rxq # <<>> => /\ Head(rxq).lo + Head(rxq).consumed = Len(got)
                         /\ rxq[Len(rxq)].hi = arrived
        /\ \A i \in 1..(Len(rxq) - 1) : /\ rxq[i].hi = rxq[i + 1].lo
                                        /\ rxq[i + 1].consumed = 0
        /\ \A i \in DOMAIN rxq : Size(rxq[i]) > 0

\* A write is answered with the number of bytes libutp has taken for it, and
\* only when it has taken all of them, however many calls that needed: what
\* has been reported and what is still kept in _bytes_sent add up to what
\* libutp has.  No wakeup is lost: do_write gives up only when libutp owes it
\* a call of on_writable, or when an accepted connection was written to too
\* early, and of such a write nothing has been taken.
WritesAccounted ==
    /\ reported + bytesSent = taken
    /\ wOpen /\ ~sending => bytesSent = 0
    /\ wOpen /\ ~sending => \A i \in DOMAIN tx : tx[i] = 0
    /\ sending /\ ~writing => full \/ early
    /\ early => taken = 0

\* AsyncReadStream: a read into a buffer sequence that has room succeeds
\* with at least one byte.
ReadMakesProgress ==
    answer.code = "ok" /\ answer.wanted > 0 => answer.size > 0

-----------------------------------------------------------------------------
(***************************************************************************)
(* Liveness.  Calls return, and the network delivers as long as the reader *)
(* has not closed: what libutp has taken arrives, its FIN too, and         *)
(* acknowledgements open the send window.                                  *)
(***************************************************************************)

Fairness ==
    /\ WF_vars(WriteDone) /\ WF_vars(rOpen /\ OnWritable)
    /\ WF_vars(\E i \in DOMAIN tx, w \in 0..MaxBytes : UtpWrite(i, w))
    /\ WF_vars(CopyChunk) /\ WF_vars(EndCopy) /\ WF_vars(DrainChunk) /\ WF_vars(ReadDone)
    /\ WF_vars(rOpen /\ \E n \in 1..MaxBytes : OnReceive(n)) /\ WF_vars(rOpen /\ OnEof)

FairSpec == Spec /\ Fairness

\* A write ends: its loop neither spins nor waits for ever, unless it came
\* too early or the reader has gone, whose on_error answers nobody.
WriteEnds == sending ~> (~sending \/ early \/ ~rOpen)

\* A read on a connection that has something to deliver, data or its end, is
\* answered.
ReadEnds == reading /\ (arrived < taken \/ ~wOpen \/ rxq # <<>>) ~> ~reading

=============================================================================
