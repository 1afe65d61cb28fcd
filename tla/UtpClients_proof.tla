-------------------------- MODULE UtpClients_proof --------------------------
(***************************************************************************)
(* What the two neighbours of the socket layer may rely on, proved from    *)
(* the inductive invariant of UtpSockets_proof: the client above it, about *)
(* the answers it gets and the assertions it cannot run into, and the      *)
(* receive loop below it, about the contract ContextLoop.                  *)
(***************************************************************************)
EXTENDS UtpSockets_proof

-----------------------------------------------------------------------------
(***************************************************************************)
(* Answers.  Every step leaves an answer that is queued alone or runs it,  *)
(* and posts connection_reset to a read only when EOF has been received    *)
(* and no data is left; data is taken or added only while no such answer   *)
(* is queued.                                                              *)
(***************************************************************************)

Answers ==
    /\ \A o \in Ops : queue[o] # "none" => queue'[o] \in {queue[o], "none"}
    /\ \A s \in Sockets :
          queue'[<<s, "recv">>] = "reset" =>
              \/ queue[<<s, "recv">>] = "reset" /\ (s \in eof => rxq'[s] = rxq[s])
              \/ s \in eof' /\ rxq'[s] = 0
    /\ eof \subseteq eof'

\* EofAfterData is inductive, given such steps.
LEMMA AnswersEof ==
  ASSUME EofAfterData, Answers
  PROVE  EofAfterData'
BY DEF EofAfterData, Answers

LEMMA AnswersStill ==
  ASSUME UNCHANGED <<queue, eof, rxq>>
  PROVE  Answers
BY DEF Answers

\* A step that posts one op, not queued before, or runs one.
LEMMA AnswersOne ==
  ASSUME Bookkeeping, NEW o \in Ops, NEW ec,
         queue' = [queue EXCEPT ![o] = ec], queue[o] = "none" \/ ec = "none",
         eof \subseteq eof',
         \A s \in Sockets : o # <<s, "recv">> /\ s \in eof => rxq'[s] = rxq[s],
         \A s \in Sockets : o = <<s, "recv">> /\ ec = "reset" => s \in eof' /\ rxq'[s] = 0
  PROVE  Answers
<1>1. \A p \in Ops : queue'[p] = IF p = o THEN ec ELSE queue[p]
  BY DEF Bookkeeping, TypeOK
<1>2. \A s \in Sockets : <<s, "recv">> \in Ops
  BY OpParts DEF Kinds
<1> QED
  BY <1>1, <1>2 DEF Answers

\* The same, for an answer that is not connection_reset.
LEMMA AnswersOther ==
  ASSUME Bookkeeping, NEW o \in Ops, NEW ec,
         queue' = [queue EXCEPT ![o] = ec], queue[o] = "none" \/ ec = "none",
         ec # "reset", eof' = eof, \A s \in eof : rxq'[s] = rxq[s]
  PROVE  Answers
BY AnswersOne

\* abort_handlers posts what was stored, hence not queued.
LEMMA AnswersAbort ==
  ASSUME Bookkeeping, NEW C, NEW ec, NEW sl, abort_handlers(C, ec, sl),
         \A o \in sl : queue[o] = "none",
         UNCHANGED eof, \A s \in Sockets : rxq'[s] = rxq[s],
         \A s \in Sockets : s \in C /\ ec[s] = "reset" => s \in eof /\ rxq'[s] = 0
  PROVE  Answers
<1>1. \A p \in Ops : queue'[p] = IF p \in sl /\ p[1] \in C THEN ec[p[1]] ELSE queue[p]
  BY DEF abort_handlers
<1>2. \A s \in Sockets : <<s, "recv">> \in Ops /\ <<s, "recv">>[1] = s
  BY OpParts DEF Kinds
<1> QED
  BY <1>1, <1>2 DEF Answers

\* Only reads are answered with connection_reset when a socket is closed.
LEMMA NotReset ==
  \A s \in Sockets : /\ Code("io")[s] # "reset"
                     /\ Code("conn_aborted")[s] # "reset"
                     /\ Code("reset")[s] = "reset"
                     /\ \A x : [Code("io") EXCEPT ![x] = "aborted"][s] # "reset"
BY DEF Code

\* What is stored is not queued, and neither is what the client may start.
LEMMA NotQueued ==
  ASSUME Bookkeeping
  PROVE  /\ \A o \in slot : o \in Ops /\ queue[o] = "none"
         /\ \A o \in Ops : o \notin waiting => queue[o] = "none"
BY DEF Bookkeeping, TypeOK, CompletionOnce, Queued

LEMMA AnswersWrite ==
  ASSUME Bookkeeping, NEW s \in Sockets, NEW done, NEW err, NEW r, do_write(s, done, err, r),
         queue[<<s, "send">>] = "none"
  PROVE  Answers
<1> DEFINE o == <<s, "send">>
           C == IF err THEN Registered \ closed ELSE {}
<1>1. CASE AssertFails("closed_handlers") \/ AssertFails("empty_post")
  BY <1>1, AnswersStill DEF AssertFails, handlerVars, implVars
<1>2. CASE ~(AssertFails("closed_handlers") \/ AssertFails("empty_post"))
  <2>1. /\ IF done THEN post_op(o, "ok")
                   ELSE abort_handlers(C, Code("io"), slot \cup {o})
        /\ UNCHANGED <<eof, rxq>>
    BY <1>2 DEF do_write, callback_sendto, close_with_error
  <2>2. o \in Ops /\ \A x \in Sockets : o # <<x, "recv">>
    BY OpParts DEF Kinds
  <2>3. CASE done
    BY <2>1, <2>2, <2>3, AnswersOne DEF post_op
  <2>4. CASE ~done
    <3>1. \A p \in slot \cup {o} : queue[p] = "none"
      BY NotQueued
    <3>2. \A x \in Sockets : Code("io")[x] # "reset"
      BY NotReset
    <3>3. abort_handlers(C, Code("io"), slot \cup {o}) /\ UNCHANGED <<eof, rxq>>
      BY <2>1, <2>4
    <3> HIDE DEF C, o
    <3> QED
      BY <3>1, <3>2, <3>3, AnswersAbort
  <2> QED
    BY <2>3, <2>4
<1> QED
  BY <1>1, <1>2

LEMMA AnswersConnect ==
  ASSUME Bookkeeping, NEW s \in Sockets, NEW err, Connect(s, err)
  PROVE  Answers
<1> DEFINE o == <<s, "connect">>
           C == IF err THEN Registered \ closed ELSE {}
<1>1. CASE AssertFails("closed_handlers") \/ AssertFails("connect_utp")
  BY <1>1, AnswersStill DEF AssertFails, handlerVars, implVars
<1>2. CASE ~(AssertFails("closed_handlers") \/ AssertFails("connect_utp"))
  <2>1. /\ abort_handlers(C, Code("io"), slot \cup {o})
        /\ UNCHANGED <<eof, rxq>>
        /\ o \notin waiting
    BY <1>2 DEF Connect, MayStart, callback_sendto, close_with_error
  <2>2. \A p \in slot \cup {o} : queue[p] = "none"
    <3>1. o \in Ops
      BY OpParts DEF Kinds
    <3> QED
      BY <2>1, <3>1, NotQueued
  <2>3. \A x \in Sockets : Code("io")[x] # "reset"
    BY NotReset
  <2> HIDE DEF C, o
  <2> QED
    BY <2>1, <2>2, <2>3, AnswersAbort
<1> QED
  BY <1>1, <1>2

LEMMA AnswersRead ==
  ASSUME Bookkeeping, NEW s \in Sockets, NEW left \in 0..MaxRx, Read(s, left)
  PROVE  Answers
<1> DEFINE o == <<s, "recv">>
           C == IF s \in eof THEN {s} ELSE {}
<1>1. /\ o \notin waiting /\ left <= rxq[s]
      /\ rxq' = [rxq EXCEPT ![s] = left]
      /\ IF HasData(s) THEN post_op(o, "ok")
                       ELSE abort_handlers(C, Code("reset"), slot \cup {o})
      /\ eof' = eof
  BY DEF Read, MayStart, close_with_error
<1>2. rxq \in [Sockets -> Nat] /\ left \in Nat /\ o \in Ops /\ queue[o] = "none"
  <2>1. o \in Ops
    BY OpParts DEF Kinds
  <2>2. queue[o] = "none"
    BY <1>1, <2>1, NotQueued
  <2> QED
    BY <2>1, <2>2, BoundsAssumption DEF Bookkeeping, TypeOK
<1>3. CASE HasData(s)
  <2>1. \A x \in Sockets : o # <<x, "recv">> => rxq'[x] = rxq[x]
    BY <1>1, <1>2
  <2> QED
    BY <1>1, <1>2, <1>3, <2>1, AnswersOne DEF post_op
<1>4. CASE ~HasData(s)
  <2>1. left = 0 /\ rxq[s] = 0
    BY <1>1, <1>2, <1>4 DEF HasData
  <2>2. \A x \in Sockets : rxq'[x] = rxq[x]
    BY <1>1, <1>2, <2>1
  <2>3. \A p \in slot \cup {o} : queue[p] = "none"
    BY <1>2, NotQueued
  <2>4. \A x \in Sockets : x \in C => x \in eof /\ rxq'[x] = 0
    BY <1>1, <1>2, <2>1
  <2>5. abort_handlers(C, Code("reset"), slot \cup {o}) /\ UNCHANGED eof
    BY <1>1, <1>4
  <2> HIDE DEF C, o
  <2> QED
    BY <2>2, <2>3, <2>4, <2>5, AnswersAbort
<1> QED
  BY <1>3, <1>4

LEMMA AnswersCloseSocket ==
  ASSUME Bookkeeping, NEW s \in Sockets, NEW err, CloseSocket(s, err)
  PROVE  Answers
<1> DEFINE C  == ({s} \ closed) \cup (IF err THEN Registered \ closed ELSE {})
           ec == [Code("io") EXCEPT ![s] = "aborted"]
<1>1. CASE AssertFails("closed_handlers")
  BY <1>1, AnswersStill DEF AssertFails, handlerVars, implVars
<1>2. CASE ~AssertFails("closed_handlers")
  <2>1. abort_handlers(C, ec, slot) /\ UNCHANGED <<eof, rxq>>
    BY <1>2 DEF CloseSocket, close_with_error
  <2>2. \A x \in Sockets : ec[x] # "reset"
    BY NotReset
  <2> HIDE DEF C, ec
  <2> QED
    BY <2>1, <2>2, NotQueued, AnswersAbort
<1> QED
  BY <1>1, <1>2

LEMMA AnswersLib ==
  ASSUME Bookkeeping, Lifecycle, LibNext
  PROVE  Answers
<1>1. \A s \in Sockets : \A k \in Kinds : <<s, k>> \in Ops
  BY OpParts
<1>2. ASSUME SendFails PROVE Answers
  <2>1. CASE AssertFails("closed_handlers")
    BY <2>1, AnswersStill DEF AssertFails, handlerVars, implVars
  <2>2. CASE ~AssertFails("closed_handlers")
    <3>1. abort_handlers(Registered \ closed, Code("io"), slot) /\ UNCHANGED <<eof, rxq>>
      BY <1>2, <2>2 DEF SendFails, callback_sendto, close_with_error
    <3> QED
      BY <3>1, NotReset, NotQueued, AnswersAbort
  <2> QED
    BY <2>1, <2>2
<1>3. ASSUME NEW inline \in BOOLEAN, OnAccept(inline) PROVE Answers
  <2> DEFINE s == Head(accepting)
             o == <<s, "accept">>
  <2>1. CASE AssertFails("accept_utp") \/ AssertFails("accept_handler")
    BY <2>1, AnswersStill DEF AssertFails, handlerVars, implVars
  <2>2. CASE ~(AssertFails("accept_utp") \/ AssertFails("accept_handler"))
    <3>1. o \in slot /\ UNCHANGED <<eof, rxq>> /\ (UNCHANGED queue \/ post_op(o, "ok"))
      BY <1>3, <2>2 DEF OnAccept
    <3>2. \A x : o # <<x, "recv">>
      OBVIOUS
    <3> HIDE DEF o
    <3> QED
      BY <3>1, <3>2, NotQueued, AnswersOne, AnswersStill DEF post_op
  <2> QED
    BY <2>1, <2>2
<1>4. ASSUME NEW s \in Sockets, OnConnect(s) PROVE Answers
  <2> DEFINE o == <<s, "connect">>
  <2>1. o \in slot /\ queue' = [queue EXCEPT ![o] = "ok"] /\ UNCHANGED <<eof, rxq>>
    BY <1>4 DEF OnConnect, post_op, Lifecycle, AssertedStates
  <2>2. \A x : o # <<x, "recv">>
    OBVIOUS
  <2> HIDE DEF o
  <2> QED
    BY <2>1, <2>2, NotQueued, AnswersOne
<1>5. ASSUME NEW s \in Sockets, OnEof(s) PROVE Answers
  <2> DEFINE o == <<s, "recv">>
  <2>1. UNCHANGED rxq /\ eof' = eof \cup {s}
    BY <1>5 DEF OnEof
  <2>2. CASE o \in slot
    <3>1. queue' = [queue EXCEPT ![o] = "reset"] /\ rxq[s] = 0
      BY <1>5, <2>2 DEF OnEof, post_op, Lifecycle, AssertedStates
    <3>2. o \in Ops /\ queue[o] = "none"
      BY <2>2, NotQueued
    <3>3. \A x \in Sockets : o = <<x, "recv">> => x \in eof' /\ rxq'[x] = 0
      BY <2>1, <3>1
    <3> HIDE DEF o
    <3> QED
      BY <2>1, <3>1, <3>2, <3>3, AnswersOne
  <2>3. CASE o \notin slot
    BY <1>5, <2>1, <2>3 DEF OnEof, Answers
  <2> QED
    BY <2>2, <2>3
<1>6. ASSUME NEW s \in Sockets, OnError(s) PROVE Answers
  BY <1>6, AnswersStill DEF OnError, handlerVars
<1>7. ASSUME NEW s \in Sockets, OnDestroy(s) PROVE Answers
  <2>1. CASE AssertFails("closed_handlers")
    BY <2>1, AnswersStill DEF AssertFails, handlerVars, implVars
  <2>2. CASE ~AssertFails("closed_handlers")
    <3>1. abort_handlers({s} \ closed, Code("conn_aborted"), slot) /\ UNCHANGED <<eof, rxq>>
      BY <1>7, <2>2 DEF OnDestroy
    <3> QED
      BY <3>1, NotReset, NotQueued, AnswersAbort
  <2> QED
    BY <2>1, <2>2
<1>8. ASSUME NEW s \in Sockets, NEW left \in {0, 1}, OnReceive(s, left) PROVE Answers
  <2> DEFINE o == <<s, "recv">>
  <2>1. /\ s \notin eof /\ eof' = eof
        /\ rxq' = [rxq EXCEPT ![s] = @ + left]
        /\ rxq \in [Sockets -> 0..MaxRx]
    BY <1>8 DEF OnReceive, Bookkeeping, TypeOK
  <2>2. \A x \in eof : rxq'[x] = rxq[x]
    BY <2>1 DEF Bookkeeping, TypeOK
  <2>3. CASE o \in slot
    <3>1. queue' = [queue EXCEPT ![o] = "ok"]
      BY <1>8, <2>3 DEF OnReceive, post_op
    <3>2. o \in Ops /\ queue[o] = "none"
      BY <2>3, NotQueued
    <3> HIDE DEF o
    <3> QED
      BY <2>1, <2>2, <3>1, <3>2, AnswersOther
  <2>4. CASE o \notin slot
    BY <1>8, <2>1, <2>2, <2>4 DEF OnReceive, Answers
  <2> QED
    BY <2>3, <2>4
<1>9. ASSUME NEW s \in Sockets, NEW done \in BOOLEAN, NEW err \in SendErrors,
             OnWritable(s, done, err)
      PROVE  Answers
  BY <1>9, AnswersWrite, NotQueued DEF OnWritable
<1>10. CASE OnSendTo
  BY <1>10, AnswersStill DEF OnSendTo, handlerVars, implVars
<1> QED
  BY <1>2, <1>3, <1>4, <1>5, <1>6, <1>7, <1>8, <1>9, <1>10 DEF LibNext

LEMMA AnswersQuiet ==
  ASSUME QuietAction \/ EndHandler
  PROVE  Answers
BY AnswersStill
DEF QuietAction, BindMultiplexer, CloseMultiplexer, Datagram, EndOnRead, Tick, EndTick,
    EndDestroy, Bind, DestroySocket, EndHandler, AssertFails, handlerVars, implVars

LEMMA AnswersNext ==
  ASSUME Bookkeeping, Lifecycle, [Next]_vars
  PROVE  Answers
<1>1. CASE UserNext
  <2>1. ASSUME NEW o \in Ops, Reject(o) PROVE Answers
    <3>1. queue' = [queue EXCEPT ![o] = "bad"] /\ UNCHANGED <<eof, rxq>> /\ queue[o] = "none"
      BY <2>1, NotQueued DEF Reject, MayStart, implVars
    <3> QED
      BY <3>1, AnswersOther
  <2>2. ASSUME NEW s \in Sockets, ReadNothing(s) PROVE Answers
    <3> DEFINE o == <<s, "recv">>
    <3>1. o \in Ops
      BY OpParts DEF Kinds
    <3>2. queue' = [queue EXCEPT ![o] = "ok"] /\ UNCHANGED <<eof, rxq>> /\ o \notin waiting
      BY <2>2 DEF ReadNothing, MayStart, implVars
    <3> HIDE DEF o
    <3> QED
      BY <3>1, <3>2, NotQueued, AnswersOther
  <2>3. ASSUME NEW s \in Sockets, Accept(s) PROVE Answers
    BY <2>3, AnswersStill DEF Accept, AssertFails, handlerVars, implVars
  <2>4. ASSUME NEW s \in Sockets, NEW done \in BOOLEAN, NEW err \in SendErrors,
               Write(s, done, err)
        PROVE  Answers
    <3>1. <<s, "send">> \in Ops /\ <<s, "send">> \notin waiting
      BY <2>4, OpParts DEF Write, MayStart, Kinds
    <3> QED
      BY <2>4, <3>1, NotQueued, AnswersWrite DEF Write
  <2> QED
    BY <1>1, <2>1, <2>2, <2>3, <2>4, AnswersQuiet, AnswersRead, AnswersConnect,
       AnswersCloseSocket
    DEF UserNext, QuietAction
<1>2. CASE LoopNext
  <2>1. ASSUME NEW o \in Ops, RunHandler(o) PROVE Answers
    <3>1. queue' = [queue EXCEPT ![o] = "none"] /\ UNCHANGED <<eof, rxq>>
      BY <2>1 DEF RunHandler, implVars
    <3> QED
      BY <3>1, AnswersOther
  <2> QED
    BY <1>2, <2>1, AnswersQuiet DEF LoopNext, QuietAction
<1>3. CASE LibNext
  BY <1>3, AnswersLib
<1>4. CASE UNCHANGED vars
  BY <1>4, AnswersStill DEF vars, handlerVars, implVars
<1> QED
  BY <1>1, <1>2, <1>3, <1>4 DEF Next

-----------------------------------------------------------------------------
(***************************************************************************)
(* A careful client.  ClosedKeepsNothing is inductive as it stands.        *)
(* CarefulClientSafe is not: that popping the accept queue leaves only     *)
(* sockets that wait needs its entries to be distinct; that a read of EOF  *)
(* closes none of them needs Lifecycle; and that nothing is freed in the   *)
(* tick needs an owner of the multiplexer wherever on_read is not.         *)
(***************************************************************************)

AcceptingApart ==
    \A i, j \in DOMAIN accepting : accepting[i] = accepting[j] => i = j

\* The handlers sl belong to open sockets, those of C being closed meanwhile.
LEMMA AbortKeepsNothing ==
  ASSUME NEW C, NEW ec, NEW sl, abort_handlers(C, ec, sl),
         \A o \in sl : o[1] \notin closed
  PROVE  \A o \in slot' : o[1] \notin closed'
BY DEF abort_handlers

\* Handlers are answered or kept, no socket is closed.
LEMMA FewerHandlers ==
  ASSUME ClosedKeepsNothing, slot' \subseteq slot, closed' = closed
  PROVE  ClosedKeepsNothing'
BY DEF ClosedKeepsNothing

LEMMA KeepsNothingFault ==
  ASSUME ClosedKeepsNothing, NEW label, AssertFails(label)
  PROVE  ClosedKeepsNothing'
BY FewerHandlers DEF AssertFails, handlerVars, implVars

LEMMA KeepsNothingWrite ==
  ASSUME ClosedKeepsNothing, NEW s \in Sockets, NEW done, NEW err, NEW r,
         do_write(s, done, err, r), Careful => s \notin closed
  PROVE  ClosedKeepsNothing'
<1> DEFINE o == <<s, "send">>
           C == IF err THEN Registered \ closed ELSE {}
<1>1. CASE AssertFails("closed_handlers") \/ AssertFails("empty_post")
  BY <1>1, KeepsNothingFault
<1>2. CASE ~(AssertFails("closed_handlers") \/ AssertFails("empty_post"))
  <2>1. IF done THEN post_op(o, "ok") /\ UNCHANGED closed
                ELSE abort_handlers(C, Code("io"), slot \cup {o})
    BY <1>2 DEF do_write, callback_sendto, close_with_error
  <2>2. CASE done
    BY <2>1, <2>2, FewerHandlers DEF post_op
  <2>3. CASE ~done
    <3>1. Careful => \A p \in slot \cup {o} : p[1] \notin closed
      BY DEF ClosedKeepsNothing
    <3> HIDE DEF o, C
    <3> QED
      BY <2>1, <2>3, <3>1, AbortKeepsNothing DEF ClosedKeepsNothing
  <2> QED
    BY <2>2, <2>3
<1> QED
  BY <1>1, <1>2

LEMMA KeepsNothingUser ==
  ASSUME ClosedKeepsNothing, UserNext
  PROVE  ClosedKeepsNothing'
<1>1. ASSUME \/ BindMultiplexer \/ CloseMultiplexer
             \/ \E o \in Ops : Reject(o)
             \/ \E s \in Sockets : Bind(s) \/ ReadNothing(s) \/ DestroySocket(s)
      PROVE  ClosedKeepsNothing'
  BY <1>1, FewerHandlers
  DEF BindMultiplexer, CloseMultiplexer, Reject, Bind, ReadNothing, DestroySocket,
      handlerVars, implVars
<1>2. ASSUME NEW s \in Sockets, Accept(s) PROVE ClosedKeepsNothing'
  <2>1. CASE AssertFails("accept_hook")
    BY <2>1, KeepsNothingFault
  <2>2. CASE ~AssertFails("accept_hook")
    BY <1>2, <2>2 DEF Accept, CarefulStart, ClosedKeepsNothing
  <2> QED
    BY <2>1, <2>2
<1>3. ASSUME NEW s \in Sockets, NEW left \in 0..MaxRx, Read(s, left) PROVE ClosedKeepsNothing'
  <2> DEFINE o == <<s, "recv">>
             C == IF s \in eof THEN {s} ELSE {}
  <2>1. IF HasData(s) THEN post_op(o, "ok") /\ UNCHANGED closed
                      ELSE abort_handlers(C, Code("reset"), slot \cup {o})
    BY <1>3 DEF Read, close_with_error
  <2>2. s \notin closed
    <3>1. o[1] = s /\ o[2] = "recv"
      OBVIOUS
    <3> QED
      BY <1>3, <3>1 DEF Read, Rejected
  <2>3. Careful => \A p \in slot \cup {o} : p[1] \notin closed
    BY <2>2 DEF ClosedKeepsNothing
  <2>4. CASE HasData(s)
    BY <2>1, <2>4, FewerHandlers DEF post_op
  <2>5. CASE ~HasData(s)
    <3> HIDE DEF o, C
    <3> QED
      BY <2>1, <2>3, <2>5, AbortKeepsNothing DEF ClosedKeepsNothing
  <2> QED
    BY <2>4, <2>5
<1>4. ASSUME NEW s \in Sockets, NEW err \in SendErrors, Connect(s, err) PROVE ClosedKeepsNothing'
  <2> DEFINE o == <<s, "connect">>
             C == IF err THEN Registered \ closed ELSE {}
  <2>1. CASE AssertFails("closed_handlers") \/ AssertFails("connect_utp")
    BY <2>1, KeepsNothingFault
  <2>2. CASE ~(AssertFails("closed_handlers") \/ AssertFails("connect_utp"))
    <3>1. abort_handlers(C, Code("io"), slot \cup {o}) /\ (Careful => s \notin closed)
      BY <1>4, <2>2 DEF Connect, CarefulStart, callback_sendto, close_with_error
    <3>2. Careful => \A p \in slot \cup {o} : p[1] \notin closed
      BY <3>1 DEF ClosedKeepsNothing
    <3> HIDE DEF o, C
    <3> QED
      BY <3>1, <3>2, AbortKeepsNothing DEF ClosedKeepsNothing
  <2> QED
    BY <2>1, <2>2
<1>5. ASSUME NEW s \in Sockets, NEW err \in SendErrors, CloseSocket(s, err)
      PROVE  ClosedKeepsNothing'
  <2> DEFINE C  == ({s} \ closed) \cup (IF err THEN Registered \ closed ELSE {})
             ec == [Code("io") EXCEPT ![s] = "aborted"]
  <2>1. CASE AssertFails("closed_handlers")
    BY <2>1, KeepsNothingFault
  <2>2. CASE ~AssertFails("closed_handlers")
    <3>1. abort_handlers(C, ec, slot)
      BY <1>5, <2>2 DEF CloseSocket, close_with_error
    <3> HIDE DEF ec, C
    <3> QED
      BY <3>1, AbortKeepsNothing DEF ClosedKeepsNothing
  <2> QED
    BY <2>1, <2>2
<1>6. ASSUME NEW s \in Sockets, NEW err \in SendErrors, NEW done \in BOOLEAN,
             Write(s, done, err)
      PROVE  ClosedKeepsNothing'
  BY <1>6, KeepsNothingWrite DEF Write
<1> QED
  BY <1>1, <1>2, <1>3, <1>4, <1>5, <1>6 DEF UserNext

LEMMA KeepsNothingNext ==
  ASSUME ClosedKeepsNothing, [Next]_vars
  PROVE  ClosedKeepsNothing'
<1>1. ASSUME LoopNext \/ UNCHANGED vars PROVE ClosedKeepsNothing'
  BY <1>1, FewerHandlers, KeepsNothingFault
  DEF LoopNext, EndHandler, Datagram, EndOnRead, Tick, EndTick, EndDestroy, RunHandler, vars,
      handlerVars, implVars
<1>2. ASSUME LibNext PROVE ClosedKeepsNothing'
  <2>1. ASSUME SendFails PROVE ClosedKeepsNothing'
    <3>1. \/ AssertFails("closed_handlers")
          \/ abort_handlers(Registered \ closed, Code("io"), slot)
      BY <2>1 DEF SendFails, callback_sendto, close_with_error
    <3> QED
      BY <3>1, KeepsNothingFault, AbortKeepsNothing DEF ClosedKeepsNothing
  <2>2. ASSUME NEW inline \in BOOLEAN, OnAccept(inline) PROVE ClosedKeepsNothing'
    <3>1. \/ AssertFails("accept_utp") \/ AssertFails("accept_handler")
          \/ slot' \subseteq slot /\ closed' = closed
      BY <2>2 DEF OnAccept, post_op
    <3> QED
      BY <3>1, KeepsNothingFault, FewerHandlers
  <2>3. ASSUME NEW s \in Sockets,
               \/ OnConnect(s) \/ OnEof(s) \/ OnError(s)
               \/ \E left \in {0, 1} : OnReceive(s, left)
        PROVE  ClosedKeepsNothing'
    BY <2>3, FewerHandlers DEF OnConnect, OnEof, OnError, OnReceive, post_op, handlerVars
  <2>4. ASSUME NEW s \in Sockets, OnDestroy(s) PROVE ClosedKeepsNothing'
    <3>1. \/ AssertFails("closed_handlers")
          \/ abort_handlers({s} \ closed, Code("conn_aborted"), slot)
      BY <2>4 DEF OnDestroy
    <3> QED
      BY <3>1, KeepsNothingFault, AbortKeepsNothing DEF ClosedKeepsNothing
  <2>5. ASSUME NEW s \in Sockets, NEW done \in BOOLEAN, NEW err \in SendErrors,
               OnWritable(s, done, err)
        PROVE  ClosedKeepsNothing'
    <3>1. Careful => s \notin closed
      <4>1. <<s, "send">>[1] = s /\ <<s, "send">> \in slot
        BY <2>5 DEF OnWritable
      <4> QED
        BY <4>1 DEF ClosedKeepsNothing
    <3> QED
      BY <2>5, <3>1, KeepsNothingWrite DEF OnWritable
  <2>6. ASSUME OnSendTo PROVE ClosedKeepsNothing'
    BY <2>6, FewerHandlers DEF OnSendTo, handlerVars, implVars
  <2> QED
    BY <1>2, <2>1, <2>2, <2>3, <2>4, <2>5, <2>6 DEF LibNext
<1> QED
  BY <1>1, <1>2, KeepsNothingUser DEF Next

\* Outside on_read, an object of the client keeps a live multiplexer.
HeldOutside == mux = "alive" /\ ~Held => frame = "on_read"

\* A step after which the same kind of objects hold the multiplexer.
LEMMA HeldStill ==
  ASSUME HeldOutside, UNCHANGED <<ext, frame, mux>>,
         \A s \in Sockets : facade[s] \in {"bound", "detached"}
                              => facade'[s] \in {"bound", "detached"}
  PROVE  HeldOutside'
BY DEF HeldOutside, Held

\* close_with_error detaches, but does not let go.
LEMMA HeldClose ==
  ASSUME HeldOutside, UNCHANGED <<ext, frame, mux>>,
         NEW C, NEW ec, NEW sl, NEW u, NEW n, close_with_error(C, ec, sl, u, facade, n)
  PROVE  HeldOutside'
<1>1. \A s \in Sockets : facade[s] \in {"bound", "detached"}
                           => facade'[s] \in {"bound", "detached"}
  BY CloseEffect
<1> QED
  BY <1>1, HeldStill

LEMMA HeldFault ==
  ASSUME HeldOutside, NEW label, AssertFails(label)
  PROVE  HeldOutside'
BY HeldStill DEF AssertFails, ownerVars, stackVars

\* An object is let go of: never the last one in the tick.
LEMMA HeldRelease ==
  ASSUME TypeOK, HeldOutside, Careful, frame' = frame, CarefulRelease, ReleaseMultiplexer
  PROVE  HeldOutside'
<1>1. frame \in {"idle", "on_read", "tick"}
  BY DEF TypeOK
<1>2. CASE Held'
  BY <1>2 DEF HeldOutside
<1>3. CASE ~Held'
  BY <1>1, <1>3 DEF HeldOutside, CarefulRelease, ReleaseMultiplexer
<1> QED
  BY <1>2, <1>3

LEMMA HeldWrite ==
  ASSUME HeldOutside, NEW s, NEW done, NEW err, NEW r, do_write(s, done, err, r)
  PROVE  HeldOutside'
<1> DEFINE o == <<s, "send">>
           C == IF err THEN Registered \ closed ELSE {}
<1>1. CASE AssertFails("closed_handlers") \/ AssertFails("empty_post")
  BY <1>1, HeldFault
<1>2. CASE ~(AssertFails("closed_handlers") \/ AssertFails("empty_post"))
  <2>1. /\ IF done THEN UNCHANGED facade
                   ELSE close_with_error(C, Code("io"), slot \cup {o}, utp, facade, 1)
        /\ UNCHANGED <<ext, frame, mux>>
    BY <1>2 DEF do_write, callback_sendto, stackVars
  <2>2. CASE done
    BY <2>1, <2>2, HeldStill
  <2>3. CASE ~done
    <3> HIDE DEF o, C
    <3> QED
      BY <2>1, <2>3, HeldClose
  <2> QED
    BY <2>2, <2>3
<1> QED
  BY <1>1, <1>2

LEMMA HeldUser ==
  ASSUME TypeOK, HeldOutside, Careful, UserNext
  PROVE  HeldOutside'
<1>1. ASSUME BindMultiplexer PROVE HeldOutside'
  BY <1>1 DEF BindMultiplexer, HeldOutside, Held
<1>2. ASSUME NEW s \in Sockets, Bind(s) PROVE HeldOutside'
  BY <1>2 DEF Bind, HeldOutside, Held, TypeOK
<1>3. ASSUME CloseMultiplexer \/ \E s \in Sockets : DestroySocket(s) PROVE HeldOutside'
  BY <1>3, HeldRelease DEF CloseMultiplexer, DestroySocket, stackVars
<1>4. ASSUME \/ \E o \in Ops : Reject(o)
             \/ \E s \in Sockets : ReadNothing(s)
      PROVE  HeldOutside'
  BY <1>4, HeldStill DEF Reject, ReadNothing, ownerVars, stackVars
<1>5. ASSUME NEW s \in Sockets, Accept(s) PROVE HeldOutside'
  BY <1>5, HeldStill, HeldFault DEF Accept, ownerVars, stackVars
<1>6. ASSUME NEW s \in Sockets, NEW left \in 0..MaxRx, Read(s, left) PROVE HeldOutside'
  <2> DEFINE o == <<s, "recv">>
             C == IF s \in eof THEN {s} ELSE {}
  <2>1. /\ IF HasData(s) THEN UNCHANGED facade
                         ELSE close_with_error(C, Code("reset"), slot \cup {o}, utp, facade, 1)
        /\ UNCHANGED <<ext, frame, mux>>
    BY <1>6 DEF Read, stackVars
  <2>2. CASE HasData(s)
    BY <2>1, <2>2, HeldStill
  <2>3. CASE ~HasData(s)
    <3> HIDE DEF o, C
    <3> QED
      BY <2>1, <2>3, HeldClose
  <2> QED
    BY <2>2, <2>3
<1>7. ASSUME NEW s \in Sockets, NEW err \in SendErrors, Connect(s, err) PROVE HeldOutside'
  <2> DEFINE o == <<s, "connect">>
             C == IF err THEN Registered \ closed ELSE {}
             u == [utp EXCEPT ![s] = "syn_sent"]
  <2>1. \/ AssertFails("closed_handlers") \/ AssertFails("connect_utp")
        \/ /\ close_with_error(C, Code("io"), slot \cup {o}, u, facade, 1)
           /\ UNCHANGED <<ext, frame, mux>>
    BY <1>7 DEF Connect, callback_sendto, stackVars
  <2> HIDE DEF C, o, u
  <2> QED
    BY <2>1, HeldFault, HeldClose
<1>8. ASSUME NEW s \in Sockets, NEW err \in SendErrors, CloseSocket(s, err) PROVE HeldOutside'
  <2>1. \/ AssertFails("closed_handlers")
        \/ frame' = frame /\ CarefulRelease /\ ReleaseMultiplexer
    BY <1>8 DEF CloseSocket, stackVars
  <2> QED
    BY <2>1, HeldFault, HeldRelease
<1>9. ASSUME NEW s \in Sockets, NEW err \in SendErrors, NEW done \in BOOLEAN,
             Write(s, done, err)
      PROVE  HeldOutside'
  BY <1>9, HeldWrite DEF Write
<1> QED
  BY <1>1, <1>2, <1>3, <1>4, <1>5, <1>6, <1>7, <1>8, <1>9 DEF UserNext

LEMMA HeldNext ==
  ASSUME TypeOK, HeldOutside, Careful, [Next]_vars
  PROVE  HeldOutside'
<1>1. ASSUME LoopNext PROVE HeldOutside'
  <2>1. ASSUME EndHandler PROVE HeldOutside'
    BY <2>1, HeldStill, HeldFault DEF EndHandler, ownerVars
  <2>2. ASSUME NEW o \in Ops, RunHandler(o) PROVE HeldOutside'
    BY <2>2, HeldStill DEF RunHandler, ownerVars
  <2>3. ASSUME Datagram \/ Tick \/ EndTick PROVE HeldOutside'
    BY <2>3 DEF Datagram, Tick, EndTick, LoopMay, HeldOutside, Held, ownerVars
  <2>4. ASSUME EndOnRead PROVE HeldOutside'
    BY <2>4 DEF EndOnRead, ReleaseMultiplexer, HeldOutside
  <2>5. ASSUME EndDestroy PROVE HeldOutside'
    BY <2>5 DEF EndDestroy, HeldOutside
  <2> QED
    BY <1>1, <2>1, <2>2, <2>3, <2>4, <2>5 DEF LoopNext
<1>2. ASSUME LibNext PROVE HeldOutside'
  <2>1. ASSUME SendFails PROVE HeldOutside'
    BY <2>1, HeldFault, HeldClose DEF SendFails, callback_sendto, stackVars
  <2>2. ASSUME NEW inline \in BOOLEAN, OnAccept(inline) PROVE HeldOutside'
    BY <2>2, HeldStill, HeldFault DEF OnAccept, ownerVars
  <2>3. ASSUME NEW s \in Sockets,
               \/ OnConnect(s) \/ OnEof(s) \/ OnError(s) \/ OnDestroy(s)
               \/ \E left \in {0, 1} : OnReceive(s, left)
        PROVE  HeldOutside'
    BY <2>3, HeldStill, HeldFault
    DEF OnConnect, OnEof, OnError, OnReceive, OnDestroy, ownerVars, stackVars
  <2>4. ASSUME NEW s \in Sockets, NEW done \in BOOLEAN, NEW err \in SendErrors,
               OnWritable(s, done, err)
        PROVE  HeldOutside'
    BY <2>4, HeldWrite DEF OnWritable
  <2>5. ASSUME OnSendTo PROVE HeldOutside'
    BY <2>5, HeldStill DEF OnSendTo, ownerVars
  <2> QED
    BY <1>2, <2>1, <2>2, <2>3, <2>4, <2>5 DEF LibNext
<1>3. ASSUME UNCHANGED vars PROVE HeldOutside'
  BY <1>3, HeldStill DEF vars, ownerVars, stackVars
<1> QED
  BY <1>1, <1>2, <1>3, HeldUser DEF Next

-----------------------------------------------------------------------------
(***************************************************************************)
(* The assertions a careful client does not run into.                      *)
(***************************************************************************)

FaultKnown ==
    \/ fault = "none"
    \/ SendMayFail /\ fault = "accept_handler" /\ Head(accepting) \in closed
    \/ SendMayFail /\ fault = "empty_post"

\* Also a socket that was closed while it was accepting has no connection.
AcceptQueue ==
    \A i \in DOMAIN accepting :
        /\ utp[accepting[i]] = "none"
        /\ \/ <<accepting[i], "accept">> \in slot
           \/ SendMayFail /\ accepting[i] \in closed

ServerSafe ==
    /\ FaultKnown
    /\ AcceptQueue
    /\ AcceptingApart

\* A step that gives no accepting socket a connection, and takes its handler
\* only when it closes the socket because a send has failed.
LEMMA ServerKept ==
  ASSUME ServerSafe, UNCHANGED <<fault, accepting>>, closed \subseteq closed',
         \A i \in DOMAIN accepting :
            /\ utp'[accepting[i]] = "none"
            /\ <<accepting[i], "accept">> \in slot =>
                  \/ <<accepting[i], "accept">> \in slot'
                  \/ SendMayFail /\ accepting[i] \in closed'
  PROVE  ServerSafe'
<1>1. FaultKnown'
  BY DEF ServerSafe, FaultKnown
<1>2. AcceptQueue'
  BY DEF ServerSafe, AcceptQueue
<1>3. AcceptingApart'
  BY DEF ServerSafe, AcceptingApart
<1> QED
  BY <1>1, <1>2, <1>3 DEF ServerSafe

\* A failed assertion, or an empty handler, that a failed send explains.
LEMMA ServerFault ==
  ASSUME ServerSafe, SendMayFail, NEW label, AssertFails(label),
         label = "empty_post" \/ (label = "accept_handler" /\ Head(accepting) \in closed)
  PROVE  ServerSafe'
<1>1. fault' = label /\ UNCHANGED <<slot, closed, utp, accepting>>
  BY DEF AssertFails, handlerVars, implVars
<1>2. FaultKnown'
  BY <1>1 DEF FaultKnown
<1>3. AcceptQueue' /\ AcceptingApart'
  BY <1>1 DEF ServerSafe, AcceptQueue, AcceptingApart
<1> QED
  BY <1>2, <1>3 DEF ServerSafe

\* close_with_error, where no accepting socket is given a connection, and
\* none closed unless sends may fail.
LEMMA ServerClose ==
  ASSUME Bookkeeping, ServerSafe, UNCHANGED <<fault, accepting>>,
         NEW C, NEW ec, NEW sl, NEW u, NEW f, NEW n, close_with_error(C, ec, sl, u, f, n),
         slot \subseteq sl,
         \A i \in DOMAIN accepting : /\ accepting[i] \in C => SendMayFail
                                     /\ u[accepting[i]] = "none"
  PROVE  ServerSafe'
<1>1. /\ \A o : o \in slot' <=> o \in sl /\ o[1] \notin C
      /\ closed' = closed \cup C
  BY CloseEffect
<1>2. \A s \in Sockets : u[s] = "none" => utp'[s] = "none"
  BY CloseEffect
<1>3. ASSUME NEW i \in DOMAIN accepting
      PROVE  /\ utp'[accepting[i]] = "none"
             /\ <<accepting[i], "accept">> \in slot =>
                  \/ <<accepting[i], "accept">> \in slot'
                  \/ SendMayFail /\ accepting[i] \in closed'
  <2>1. accepting[i] \in Sockets
    BY DEF Bookkeeping, TypeOK
  <2>2. u[accepting[i]] = "none" /\ (accepting[i] \in C => SendMayFail)
    OBVIOUS
  <2>3. <<accepting[i], "accept">>[1] = accepting[i]
    OBVIOUS
  <2> QED
    BY <1>1, <1>2, <2>1, <2>2, <2>3
<1> QED
  BY <1>1, <1>3, ServerKept

\* A send that fails is one that may.
LEMMA SendErrorsMay ==
  ASSUME NEW err \in SendErrors, err
  PROVE  SendMayFail
BY FlagsAssumption DEF SendErrors

\* What an accepting socket is known for.
LEMMA AcceptingWaits ==
  ASSUME Bookkeeping, Lifecycle, ServerSafe, NEW i \in DOMAIN accepting
  PROVE  /\ accepting[i] \in Sockets
         /\ \/ <<accepting[i], "accept">> \in slot
            \/ SendMayFail /\ accepting[i] \in closed
         /\ utp[accepting[i]] = "none"
         /\ accepting[i] \in eof => facade[accepting[i]] # "bound"
<1>1. accepting[i] \in Sockets
  BY DEF Bookkeeping, TypeOK
<1>2. /\ \/ <<accepting[i], "accept">> \in slot
         \/ SendMayFail /\ accepting[i] \in closed
      /\ utp[accepting[i]] = "none"
  BY DEF ServerSafe, AcceptQueue
<1>3. accepting[i] \in eof => facade[accepting[i]] # "bound"
  BY <1>1, <1>2 DEF Lifecycle
<1> QED
  BY <1>1, <1>2, <1>3

\* A careful client finds no handler in a closed socket.
LEMMA NoClosedHandlers ==
  ASSUME Careful, ClosedKeepsNothing, NEW s \in Sockets, s \notin closed, NEW kind
  PROVE  ~ClosedHandlers(slot) /\ ~ClosedHandlers(slot \cup {<<s, kind>>})
BY DEF ClosedKeepsNothing, ClosedHandlers

LEMMA ServerWrite ==
  ASSUME Bookkeeping, Lifecycle, ClosedKeepsNothing, ServerSafe, Careful, NEW s \in Sockets,
         NEW done, NEW err \in SendErrors, NEW r, do_write(s, done, err, r), s \notin closed
  PROVE  ServerSafe'
<1> DEFINE o == <<s, "send">>
           C == IF err THEN Registered \ closed ELSE {}
<1>1. ~ClosedHandlers(slot \cup {o})
  BY NoClosedHandlers
<1>2. CASE err /\ done
  <2>1. AssertFails("empty_post")
    BY <1>1, <1>2 DEF do_write
  <2> QED
    BY <1>2, <2>1, SendErrorsMay, ServerFault
<1>3. CASE ~(err /\ done)
  <2>1. /\ IF done THEN post_op(o, "ok") /\ UNCHANGED <<utp, closed>>
                   ELSE close_with_error(C, Code("io"), slot \cup {o}, utp, facade, 1)
        /\ UNCHANGED <<accepting, fault>>
    BY <1>1, <1>3 DEF do_write, callback_sendto
  <2>2. CASE done
    <3>1. \A i \in DOMAIN accepting : <<accepting[i], "accept">> # o
      OBVIOUS
    <3> QED
      BY <2>1, <2>2, <3>1, AcceptingWaits, ServerKept DEF post_op
  <2>3. CASE ~done
    <3>1. slot \subseteq slot \cup {o}
      OBVIOUS
    <3>2. \A i \in DOMAIN accepting : /\ accepting[i] \in C => SendMayFail
                                      /\ utp[accepting[i]] = "none"
      BY AcceptingWaits, SendErrorsMay
    <3> HIDE DEF o, C
    <3> QED
      BY <2>1, <2>3, <3>1, <3>2, ServerClose
  <2> QED
    BY <2>2, <2>3
<1> QED
  BY <1>2, <1>3

LEMMA ServerUser ==
  ASSUME Bookkeeping, Lifecycle, ClosedKeepsNothing, ServerSafe, Careful, UserNext
  PROVE  ServerSafe'
<1>1. ASSUME \/ BindMultiplexer \/ CloseMultiplexer
             \/ \E o \in Ops : Reject(o)
             \/ \E s \in Sockets : Bind(s) \/ ReadNothing(s) \/ DestroySocket(s)
      PROVE  ServerSafe'
  <2>1. UNCHANGED <<slot, utp, closed, accepting, fault>>
    BY <1>1
    DEF BindMultiplexer, CloseMultiplexer, Reject, Bind, ReadNothing, DestroySocket,
        handlerVars, implVars
  <2> QED
    BY <2>1, AcceptingWaits, ServerKept
<1>2. ASSUME NEW s \in Sockets, Accept(s) PROVE ServerSafe'
  <2>0. s \notin closed /\ utp[s] = "none" /\ <<s, "accept">> \notin slot
    BY <1>2 DEF Accept, CarefulStart
  <2>1. \A i \in DOMAIN accepting : accepting[i] # s
    BY <2>0, AcceptingWaits
  <2>2. /\ accepting' = Append(accepting, s)
        /\ slot' = slot \cup {<<s, "accept">>}
        /\ fault = "none"
        /\ UNCHANGED <<utp, closed, fault>>
    BY <1>2, <2>1 DEF Accept, MayStart, UserMay
  <2>3. accepting \in Seq(Sockets)
    BY DEF Bookkeeping, TypeOK
  <2>4. AcceptQueue'
    BY <2>0, <2>2, <2>3 DEF AcceptQueue, ServerSafe
  <2>5. AcceptingApart'
    BY <2>1, <2>2, <2>3 DEF AcceptingApart, ServerSafe
  <2>6. FaultKnown'
    BY <2>2 DEF FaultKnown
  <2> QED
    BY <2>4, <2>5, <2>6 DEF ServerSafe
<1>3. ASSUME NEW s \in Sockets, NEW left \in 0..MaxRx, Read(s, left) PROVE ServerSafe'
  <2> DEFINE o == <<s, "recv">>
             C == IF s \in eof THEN {s} ELSE {}
  <2>1. /\ IF HasData(s)
           THEN post_op(o, "ok") /\ UNCHANGED <<utp, closed>>
           ELSE close_with_error(C, Code("reset"), slot \cup {o}, utp, facade, 1)
        /\ UNCHANGED <<accepting, fault>>
    BY <1>3 DEF Read
  <2>2. facade[s] = "bound"
    <3>1. o[1] = s
      OBVIOUS
    <3> QED
      BY <1>3, <3>1 DEF Read, Rejected
  <2>3. CASE HasData(s)
    <3>1. \A i \in DOMAIN accepting : <<accepting[i], "accept">> # o
      OBVIOUS
    <3> QED
      BY <2>1, <2>3, <3>1, AcceptingWaits, ServerKept DEF post_op
  <2>4. CASE ~HasData(s)
    <3>1. \A i \in DOMAIN accepting : accepting[i] \notin C /\ utp[accepting[i]] = "none"
      BY <2>2, AcceptingWaits
    <3>2. slot \subseteq slot \cup {o}
      OBVIOUS
    <3> HIDE DEF C, o
    <3> QED
      BY <2>1, <2>4, <3>1, <3>2, ServerClose
  <2> QED
    BY <2>3, <2>4
<1>4. ASSUME NEW s \in Sockets, NEW err \in SendErrors, Connect(s, err) PROVE ServerSafe'
  <2> DEFINE o == <<s, "connect">>
             u == [utp EXCEPT ![s] = "syn_sent"]
             C == IF err THEN Registered \ closed ELSE {}
  <2>1. s \notin closed /\ utp[s] = "none" /\ <<s, "accept">> \notin slot
    BY <1>4 DEF Connect, CarefulStart
  <2>2. ~ClosedHandlers(slot \cup {o})
    BY <2>1, NoClosedHandlers
  <2>3. /\ close_with_error(C, Code("io"), slot \cup {o}, u, facade, 1)
        /\ UNCHANGED <<accepting, fault>>
    BY <1>4, <2>1, <2>2 DEF Connect, callback_sendto
  <2>4. ASSUME NEW i \in DOMAIN accepting
        PROVE  /\ accepting[i] \in C => SendMayFail
               /\ u[accepting[i]] = "none"
    <3>1. accepting[i] # s /\ accepting[i] \in Sockets /\ utp[accepting[i]] = "none"
      BY <2>1, AcceptingWaits
    <3> QED
      BY <3>1, SendErrorsMay DEF Bookkeeping, TypeOK
  <2>5. slot \subseteq slot \cup {o}
    OBVIOUS
  <2> HIDE DEF u, o, C
  <2> QED
    BY <2>3, <2>4, <2>5, ServerClose
<1>5. ASSUME NEW s \in Sockets, NEW err \in SendErrors, CloseSocket(s, err) PROVE ServerSafe'
  <2> DEFINE C  == ({s} \ closed) \cup (IF err THEN Registered \ closed ELSE {})
             ec == [Code("io") EXCEPT ![s] = "aborted"]
             f  == [facade EXCEPT ![s] = "released"]
  <2>1. <<s, "accept">> \notin slot /\ ~ClosedHandlers(slot)
    BY <1>5 DEF CloseSocket, ClosedHandlers, ClosedKeepsNothing
  <2>2. /\ close_with_error(C, ec, slot, utp, f, 0)
        /\ UNCHANGED <<accepting, fault>>
    BY <1>5, <2>1 DEF CloseSocket
  <2>3. \A i \in DOMAIN accepting : /\ accepting[i] \in C => SendMayFail
                                    /\ utp[accepting[i]] = "none"
    BY <2>1, AcceptingWaits, SendErrorsMay
  <2> HIDE DEF C, ec, f
  <2> QED
    BY <2>2, <2>3, ServerClose
<1>6. ASSUME NEW s \in Sockets, NEW err \in SendErrors, NEW done \in BOOLEAN,
             Write(s, done, err)
      PROVE  ServerSafe'
  BY <1>6, ServerWrite DEF Write
<1> QED
  BY <1>1, <1>2, <1>3, <1>4, <1>5, <1>6 DEF UserNext

LEMMA ServerLib ==
  ASSUME Bookkeeping, Lifecycle, ClosedKeepsNothing, ServerSafe, Careful, LibNext
  PROVE  ServerSafe'
<1>1. ASSUME NEW inline \in BOOLEAN, OnAccept(inline) PROVE ServerSafe'
  <2>1. accepting \in Seq(Sockets) /\ accepting # <<>> /\ 1 \in DOMAIN accepting
    BY <1>1 DEF OnAccept, Bookkeeping, TypeOK
  <2>2. PICK s : s = Head(accepting)
    OBVIOUS
  <2>3. /\ s = accepting[1] /\ utp[s] = "none"
        /\ <<s, "accept">> \in slot \/ (SendMayFail /\ s \in closed)
    BY <2>1, <2>2, AcceptingWaits
  <2>a. CASE <<s, "accept">> \notin slot
    <3>1. AssertFails("accept_handler")
      BY <1>1, <2>2, <2>3, <2>a DEF OnAccept
    <3> QED
      BY <2>2, <2>3, <2>a, <3>1, ServerFault
  <2>b. CASE <<s, "accept">> \in slot
    <3>1. /\ accepting' = Tail(accepting)
          /\ utp' = [utp EXCEPT ![s] = "syn_recv"]
          /\ slot' = slot \ {<<s, "accept">>}
          /\ fault = "none"
          /\ UNCHANGED <<fault, closed>>
      BY <1>1, <2>2, <2>3, <2>b DEF OnAccept, PopAccepting, post_op, LibMay
    <3>2. \A i \in DOMAIN accepting' : /\ i + 1 \in DOMAIN accepting
                                       /\ accepting'[i] = accepting[i + 1]
                                       /\ i \in Nat /\ i # 0
      BY <2>1, <3>1
    <3>3. \A i \in DOMAIN accepting' : accepting'[i] # s
      BY <2>1, <2>3, <3>2 DEF ServerSafe, AcceptingApart
    <3>4. AcceptQueue'
      BY <3>1, <3>2, <3>3, AcceptingWaits DEF AcceptQueue, Bookkeeping, TypeOK
    <3>5. AcceptingApart'
      <4> SUFFICES ASSUME NEW i \in DOMAIN accepting', NEW j \in DOMAIN accepting',
                          accepting'[i] = accepting'[j]
                   PROVE  i = j
        BY DEF AcceptingApart
      <4>1. i + 1 = j + 1
        BY <3>2 DEF ServerSafe, AcceptingApart
      <4> QED
        BY <3>2, <4>1
    <3>6. FaultKnown'
      BY <3>1 DEF FaultKnown
    <3> QED
      BY <3>4, <3>5, <3>6 DEF ServerSafe
  <2> QED
    BY <2>a, <2>b
<1>2. ASSUME NEW s \in Sockets, OnDestroy(s) PROVE ServerSafe'
  <2>1. utp[s] # "none"
    BY <1>2 DEF OnDestroy
  <2>2. /\ abort_handlers({s} \ closed, Code("conn_aborted"), slot)
        /\ utp' = [utp EXCEPT ![s] = "none"]
        /\ UNCHANGED <<accepting, fault>>
    BY <1>2 DEF OnDestroy, ClosedKeepsNothing
  <2>3. closed \subseteq closed'
    BY <2>2 DEF abort_handlers
  <2>4. \A i \in DOMAIN accepting : <<accepting[i], "accept">> \in slot
                                      => <<accepting[i], "accept">> \in slot'
    <3>1. \A o : o \in slot' <=> o \in slot /\ o[1] \notin {s} \ closed
      BY <2>2 DEF abort_handlers
    <3>2. \A i \in DOMAIN accepting : <<accepting[i], "accept">>[1] = accepting[i]
      OBVIOUS
    <3> QED
      BY <2>1, <3>1, <3>2, AcceptingWaits
  <2>5. \A i \in DOMAIN accepting : utp'[accepting[i]] = "none"
    BY <2>2, AcceptingWaits DEF Bookkeeping, TypeOK
  <2> QED
    BY <2>2, <2>3, <2>4, <2>5, ServerKept
<1>3. ASSUME \/ OnSendTo
             \/ \E s \in Sockets :
                   \/ OnConnect(s) \/ OnEof(s) \/ OnError(s)
                   \/ \E left \in {0, 1} : OnReceive(s, left)
      PROVE  ServerSafe'
  <2>1. /\ UNCHANGED <<accepting, fault, closed>>
        /\ \A x \in Sockets : utp[x] = "none" => utp'[x] = "none"
    BY <1>3 DEF OnSendTo, OnConnect, OnEof, OnError, OnReceive, implVars, Bookkeeping, TypeOK
  <2>2. \A x : <<x, "accept">> \in slot => <<x, "accept">> \in slot'
    BY <1>3 DEF OnSendTo, OnConnect, OnEof, OnError, OnReceive, post_op, handlerVars
  <2> QED
    BY <2>1, <2>2, AcceptingWaits, ServerKept
<1>4. ASSUME NEW s \in Sockets, NEW done \in BOOLEAN, NEW err \in SendErrors,
             OnWritable(s, done, err)
      PROVE  ServerSafe'
  <2>1. s \notin closed
    <3>1. <<s, "send">>[1] = s /\ <<s, "send">> \in slot
      BY <1>4 DEF OnWritable
    <3> QED
      BY <3>1 DEF ClosedKeepsNothing
  <2> QED
    BY <1>4, <2>1, ServerWrite DEF OnWritable
<1>5. ASSUME SendFails PROVE ServerSafe'
  <2>1. SendMayFail /\ ~ClosedHandlers(slot)
    BY <1>5 DEF SendFails, ClosedHandlers, ClosedKeepsNothing
  <2>2. /\ close_with_error(Registered \ closed, Code("io"), slot, utp, facade, 0)
        /\ UNCHANGED <<accepting, fault>>
    BY <1>5, <2>1 DEF SendFails, callback_sendto
  <2>3. \A i \in DOMAIN accepting : utp[accepting[i]] = "none"
    BY AcceptingWaits
  <2> QED
    BY <2>1, <2>2, <2>3, ServerClose
<1> QED
  BY <1>1, <1>2, <1>3, <1>4, <1>5 DEF LibNext

LEMMA ServerNext ==
  ASSUME Bookkeeping, Lifecycle, Looping, ClosedKeepsNothing, HeldOutside, ServerSafe, Careful,
         [Next]_vars
  PROVE  ServerSafe'
<1>1. ASSUME LoopNext \/ UNCHANGED vars PROVE ServerSafe'
  <2>1. frame = "tick" => Held
    BY DEF Looping, HeldOutside
  <2>2. UNCHANGED <<slot, utp, closed, accepting, fault>>
    BY <1>1, <2>1
    DEF LoopNext, EndHandler, Datagram, EndOnRead, Tick, EndTick, EndDestroy, RunHandler, vars,
        handlerVars, implVars
  <2> QED
    BY <2>2, AcceptingWaits, ServerKept
<1> QED
  BY <1>1, ServerUser, ServerLib DEF Next

-----------------------------------------------------------------------------
(***************************************************************************)
(* The contract with the receive loop, ContextLoop, in which the counter   *)
(* is only zero or not: a step that crosses zero is StartOps or StopOps,   *)
(* any other change of it is invisible.                                    *)
(***************************************************************************)

ContractStep == [Contract!Next]_Contract!vars

LEMMA ContractStill ==
  ASSUME UNCHANGED <<ops, linked, ticking, frame, mux>>
  PROVE  ContractStep
BY DEF ContractStep, Contract!vars

\* The counter is incremented, and the call may let go of the multiplexer.
LEMMA ContractIncrement ==
  ASSUME Bookkeeping, NEW n \in Nat, increment_outstanding_ops(n), frame' = frame,
         mux' = mux \/ (mux = "alive" /\ frame = "idle" /\ mux' = "expired")
  PROVE  ContractStep
<1>1. ops \in Nat /\ ops' = ops + n
  BY DEF Bookkeeping, TypeOK, increment_outstanding_ops
<1>2. CASE ops = 0 /\ n > 0
  <2>1. ~(ops > 0) /\ ops' > 0
    BY <1>1, <1>2
  <2>2. IF mux = "alive" THEN linked' = TRUE /\ ticking' = TRUE
                         ELSE UNCHANGED <<linked, ticking>>
    BY <1>2 DEF increment_outstanding_ops, start_receiving
  <2>3. Contract!StartOps
    BY <2>1, <2>2 DEF Contract!StartOps, Contract!MayRelease
  <2> QED
    BY <2>3 DEF ContractStep, Contract!Next
<1>3. CASE ~(ops = 0 /\ n > 0)
  <2>1. (ops > 0) <=> (ops' > 0)
    BY <1>1, <1>3
  <2>2. UNCHANGED <<linked, ticking>>
    BY <1>3 DEF increment_outstanding_ops
  <2>3. Contract!Expire \/ UNCHANGED Contract!vars
    BY <2>1, <2>2 DEF Contract!Expire, Contract!vars
  <2> QED
    BY <2>3 DEF ContractStep, Contract!Next
<1> QED
  BY <1>2, <1>3

LEMMA ContractDecrement ==
  ASSUME Bookkeeping, ops > 0, decrement_outstanding_ops, UNCHANGED <<frame, mux>>
  PROVE  ContractStep
<1>1. ops \in Nat /\ ops' = ops - 1
  BY DEF Bookkeeping, TypeOK, decrement_outstanding_ops
<1>2. CASE ops = 1
  <2>1. ops > 0 /\ ~(ops' > 0)
    BY <1>1, <1>2
  <2>2. ticking' = FALSE /\ linked' = IF mux = "alive" THEN FALSE ELSE linked
    BY <1>2 DEF decrement_outstanding_ops, stop_receiving
  <2>3. Contract!StopOps
    BY <2>1, <2>2 DEF Contract!StopOps, Contract!MayRelease
  <2> QED
    BY <2>3 DEF ContractStep, Contract!Next
<1>3. CASE ops # 1
  <2>1. ops' > 0 /\ UNCHANGED <<linked, ticking>>
    BY <1>1, <1>3 DEF decrement_outstanding_ops
  <2>2. UNCHANGED Contract!vars
    BY <2>1 DEF Contract!vars
  <2> QED
    BY <2>2 DEF ContractStep
<1> QED
  BY <1>2, <1>3

LEMMA ContractFault ==
  ASSUME NEW label, AssertFails(label)
  PROVE  ContractStep
BY ContractStill DEF AssertFails, ownerVars, ctxVars, stackVars

\* close_with_error increments by the connections it shuts.
LEMMA ContractClose ==
  ASSUME Bookkeeping, NEW C \in SUBSET Sockets, NEW ec, NEW sl, NEW u, NEW f, NEW n \in Nat,
         close_with_error(C, ec, sl, u, f, n), frame' = frame,
         mux' = mux \/ (mux = "alive" /\ frame = "idle" /\ mux' = "expired")
  PROVE  ContractStep
<1> DEFINE shut == {s \in C : u[s] # "none" /\ s \notin eof}
<1>1. n + Cardinality(shut) \in Nat
  BY FS_Subset, FS_CardinalityType, SocketsAssumption
<1>2. increment_outstanding_ops(n + Cardinality(shut))
  BY DEF close_with_error
<1> HIDE DEF shut
<1> QED
  BY <1>1, <1>2, ContractIncrement

LEMMA ContractWrite ==
  ASSUME Bookkeeping, NEW s \in Sockets, NEW done, NEW err, NEW r, do_write(s, done, err, r)
  PROVE  ContractStep
<1> DEFINE o == <<s, "send">>
           C == IF err THEN Registered \ closed ELSE {}
<1>1. CASE AssertFails("closed_handlers") \/ AssertFails("empty_post")
  BY <1>1, ContractFault
<1>2. CASE ~(AssertFails("closed_handlers") \/ AssertFails("empty_post"))
  <2>1. /\ \/ increment_outstanding_ops(1)
           \/ close_with_error(C, Code("io"), slot \cup {o}, utp, facade, 1)
        /\ UNCHANGED <<frame, mux>>
    BY <1>2 DEF do_write, callback_sendto, stackVars
  <2>2. C \in SUBSET Sockets
    BY DEF Registered
  <2> HIDE DEF C, o
  <2> QED
    BY <2>1, <2>2, ContractIncrement, ContractClose
<1> QED
  BY <1>1, <1>2

LEMMA ContractUser ==
  ASSUME Bookkeeping, Looping, UserNext
  PROVE  ContractStep
<1>1. ASSUME BindMultiplexer \/ \E s \in Sockets : Bind(s) PROVE ContractStep
  <2>1. mux \in {"none", "alive"} /\ mux' = "alive" /\ UNCHANGED <<ops, linked, ticking, frame>>
    BY <1>1 DEF BindMultiplexer, Bind, ctxVars, stackVars
  <2>2. Contract!Create \/ UNCHANGED Contract!vars
    BY <2>1 DEF Contract!Create, Contract!vars
  <2> QED
    BY <2>2 DEF ContractStep, Contract!Next
<1>2. ASSUME CloseMultiplexer \/ \E s \in Sockets : DestroySocket(s) PROVE ContractStep
  <2>1. ReleaseMultiplexer /\ UNCHANGED <<ops, linked, ticking, frame>>
    BY <1>2 DEF CloseMultiplexer, DestroySocket, ctxVars, stackVars
  <2>2. Contract!Expire \/ UNCHANGED Contract!vars
    BY <2>1 DEF Contract!Expire, Contract!vars, ReleaseMultiplexer
  <2> QED
    BY <2>2 DEF ContractStep, Contract!Next
<1>3. ASSUME (\E o \in Ops : Reject(o)) \/ \E s \in Sockets : ReadNothing(s) PROVE ContractStep
  BY <1>3, ContractStill DEF Reject, ReadNothing, ownerVars, ctxVars, stackVars
<1>4. ASSUME NEW s \in Sockets, Accept(s) PROVE ContractStep
  <2>1. \/ AssertFails("accept_hook")
        \/ increment_outstanding_ops(1) /\ UNCHANGED <<frame, mux>>
    BY <1>4 DEF Accept, ownerVars, stackVars
  <2> QED
    BY <2>1, ContractFault, ContractIncrement
<1>5. ASSUME NEW s \in Sockets, NEW left \in 0..MaxRx, Read(s, left) PROVE ContractStep
  <2> DEFINE o == <<s, "recv">>
             C == IF s \in eof THEN {s} ELSE {}
  <2>1. /\ \/ increment_outstanding_ops(1)
           \/ close_with_error(C, Code("reset"), slot \cup {o}, utp, facade, 1)
        /\ UNCHANGED <<frame, mux>>
    BY <1>5 DEF Read, stackVars
  <2>2. C \in SUBSET Sockets
    OBVIOUS
  <2> HIDE DEF C, o
  <2> QED
    BY <2>1, <2>2, ContractIncrement, ContractClose
<1>6. ASSUME NEW s \in Sockets, NEW err \in SendErrors, Connect(s, err) PROVE ContractStep
  <2> DEFINE o == <<s, "connect">>
             C == IF err THEN Registered \ closed ELSE {}
             u == [utp EXCEPT ![s] = "syn_sent"]
  <2>1. \/ AssertFails("closed_handlers") \/ AssertFails("connect_utp")
        \/ /\ close_with_error(C, Code("io"), slot \cup {o}, u, facade, 1)
           /\ UNCHANGED <<frame, mux>>
    BY <1>6 DEF Connect, callback_sendto, stackVars
  <2>2. C \in SUBSET Sockets
    BY DEF Registered
  <2> HIDE DEF C, o, u
  <2> QED
    BY <2>1, <2>2, ContractFault, ContractClose
<1>7. ASSUME NEW s \in Sockets, NEW err \in SendErrors, CloseSocket(s, err) PROVE ContractStep
  <2> DEFINE C  == ({s} \ closed) \cup (IF err THEN Registered \ closed ELSE {})
             ec == [Code("io") EXCEPT ![s] = "aborted"]
             f  == [facade EXCEPT ![s] = "released"]
  <2>1. \/ AssertFails("closed_handlers")
        \/ /\ close_with_error(C, ec, slot, utp, f, 0)
           /\ frame' = frame
           /\ ReleaseMultiplexer
    BY <1>7 DEF CloseSocket, stackVars
  <2>2. C \in SUBSET Sockets
    BY DEF Registered
  <2> HIDE DEF C, ec, f
  <2>3. ASSUME close_with_error(C, ec, slot, utp, f, 0), frame' = frame, ReleaseMultiplexer
        PROVE  ContractStep
    <3>1. mux' = mux \/ (mux = "alive" /\ frame = "idle" /\ mux' = "expired")
      BY <2>3 DEF ReleaseMultiplexer
    <3> QED
      BY <2>2, <2>3, <3>1, ContractClose
  <2> QED
    BY <2>1, <2>3, ContractFault
<1>8. ASSUME NEW s \in Sockets, NEW err \in SendErrors, NEW done \in BOOLEAN,
             Write(s, done, err)
      PROVE  ContractStep
  BY <1>8, ContractWrite DEF Write
<1> QED
  BY <1>1, <1>2, <1>3, <1>4, <1>5, <1>6, <1>7, <1>8 DEF UserNext

LEMMA ContractLoop ==
  ASSUME Bookkeeping, Looping, LoopNext
  PROVE  ContractStep
<1>1. ASSUME EndHandler PROVE ContractStep
  <2>1. CASE AssertFails("freed_in_tick")
    BY <2>1, ContractFault
  <2>2. CASE ~AssertFails("freed_in_tick")
    <3>1. /\ UNCHANGED <<frame, mux>>
          /\ IF running = "counted" THEN decrement_outstanding_ops
                                    ELSE UNCHANGED <<ops, linked, ticking>>
      BY <1>1, <2>2 DEF EndHandler, ownerVars
    <3>2. CASE running = "counted"
      BY <3>1, <3>2, CounterPositive, ContractDecrement
    <3>3. CASE running # "counted"
      BY <3>1, <3>3, ContractStill
    <3> QED
      BY <3>2, <3>3
  <2> QED
    BY <2>1, <2>2
<1>2. ASSUME Datagram PROVE ContractStep
  <2>1. Contract!Datagram
    BY <1>2 DEF Datagram, Contract!Datagram, LoopMay, ownerVars
  <2> QED
    BY <2>1 DEF ContractStep, Contract!Next
<1>3. ASSUME EndOnRead PROVE ContractStep
  <2>1. mux = "alive"
    BY <1>3 DEF EndOnRead, Looping
  <2>2. Contract!EndOnRead
    BY <1>3, <2>1
    DEF EndOnRead, Contract!EndOnRead, Contract!MayRelease, start_receiving, ReleaseMultiplexer
  <2> QED
    BY <2>2 DEF ContractStep, Contract!Next
<1>4. ASSUME Tick PROVE ContractStep
  <2>1. Contract!Tick
    BY <1>4 DEF Tick, Contract!Tick, LoopMay, ownerVars, ctxVars
  <2> QED
    BY <2>1 DEF ContractStep, Contract!Next
<1>5. ASSUME EndTick PROVE ContractStep
  <2>1. Contract!EndTick
    BY <1>5 DEF EndTick, Contract!EndTick, ownerVars, ctxVars
  <2> QED
    BY <2>1 DEF ContractStep, Contract!Next
<1>6. ASSUME EndDestroy PROVE ContractStep
  <2>1. Contract!Destroyed
    BY <1>6 DEF EndDestroy, Contract!Destroyed, stackVars
  <2> QED
    BY <2>1 DEF ContractStep, Contract!Next
<1>7. ASSUME NEW o \in Ops, RunHandler(o) PROVE ContractStep
  BY <1>7, ContractStill DEF RunHandler, ownerVars, ctxVars
<1> QED
  BY <1>1, <1>2, <1>3, <1>4, <1>5, <1>6, <1>7 DEF LoopNext

LEMMA ContractLib ==
  ASSUME Bookkeeping, Looping, LibNext
  PROVE  ContractStep
<1>1. ASSUME SendFails PROVE ContractStep
  <2>1. \/ AssertFails("closed_handlers")
        \/ /\ close_with_error(Registered \ closed, Code("io"), slot, utp, facade, 0)
           /\ UNCHANGED <<frame, mux>>
    BY <1>1 DEF SendFails, callback_sendto, stackVars
  <2>2. Registered \ closed \in SUBSET Sockets
    BY DEF Registered
  <2> QED
    BY <2>1, <2>2, ContractFault, ContractClose
<1>2. ASSUME NEW inline \in BOOLEAN, OnAccept(inline) PROVE ContractStep
  BY <1>2, ContractStill, ContractFault DEF OnAccept, ownerVars, ctxVars
<1>3. ASSUME NEW s \in Sockets,
             \/ OnConnect(s) \/ OnEof(s) \/ OnError(s)
             \/ \E left \in {0, 1} : OnReceive(s, left)
      PROVE  ContractStep
  BY <1>3, ContractStill DEF OnConnect, OnEof, OnError, OnReceive, ownerVars, ctxVars, stackVars
<1>4. ASSUME NEW s \in Sockets, OnDestroy(s) PROVE ContractStep
  <2>1. CASE AssertFails("closed_handlers")
    BY <2>1, ContractFault
  <2>2. CASE ~AssertFails("closed_handlers")
    <3>1. /\ IF s \in decClose THEN decrement_outstanding_ops
                               ELSE UNCHANGED <<ops, linked, ticking>>
          /\ UNCHANGED <<frame, mux>>
      BY <1>4, <2>2 DEF OnDestroy, ownerVars, stackVars
    <3>2. CASE s \in decClose
      BY <3>1, <3>2, CounterPositive, ContractDecrement
    <3>3. CASE s \notin decClose
      BY <3>1, <3>3, ContractStill
    <3> QED
      BY <3>2, <3>3
  <2> QED
    BY <2>1, <2>2
<1>5. ASSUME NEW s \in Sockets, NEW done \in BOOLEAN, NEW err \in SendErrors,
             OnWritable(s, done, err)
      PROVE  ContractStep
  BY <1>5, ContractWrite DEF OnWritable
<1>6. ASSUME OnSendTo PROVE ContractStep
  BY <1>6, ContractStill DEF OnSendTo, ownerVars, ctxVars
<1> QED
  BY <1>1, <1>2, <1>3, <1>4, <1>5, <1>6 DEF LibNext

-----------------------------------------------------------------------------
(***************************************************************************)
(* The theorems.                                                           *)
(***************************************************************************)

Clients ==
    /\ EofAfterData
    /\ ClosedKeepsNothing
    /\ Careful => HeldOutside /\ ServerSafe

\* The inductive invariant about the client, on top of the socket layer's.
THEOREM ClientInvariance == Spec => []Clients
<1>1. Init => Clients
  BY OpParts
  DEF Init, Clients, EofAfterData, ClosedKeepsNothing, ServerSafe, FaultKnown, AcceptQueue,
      AcceptingApart, HeldOutside, Ops, Kinds
<1>2. Bookkeeping /\ Lifecycle /\ Looping /\ Clients /\ [Next]_vars => Clients'
  <2> SUFFICES ASSUME Bookkeeping, Lifecycle, Looping, Clients, [Next]_vars PROVE Clients'
    OBVIOUS
  <2>1. EofAfterData'
    BY AnswersNext, AnswersEof DEF Clients
  <2>2. ClosedKeepsNothing'
    BY KeepsNothingNext DEF Clients
  <2>3. Careful => HeldOutside' /\ ServerSafe'
    BY ServerNext, HeldNext DEF Clients, Bookkeeping
  <2> QED
    BY <2>1, <2>2, <2>3 DEF Clients
<1> QED
  BY <1>1, <1>2, Invariance, PTL DEF Spec

\* A read is told of the end of the stream only after all the data.
THEOREM NoDataCutOff == Spec => []EofAfterData
<1>1. Clients => EofAfterData
  BY DEF Clients
<1> QED
  BY <1>1, ClientInvariance, PTL

\* The code a queued completion handler will be called with is final.
THEOREM AnswersFinal == Spec => CompletionFinal
<1>1. Bookkeeping /\ Lifecycle /\ [Next]_vars =>
        [\A o \in Ops : queue[o] # "none" => queue'[o] \in {queue[o], "none"}]_queue
  BY AnswersNext DEF Answers
<1> QED
  BY <1>1, Invariance, PTL DEF Spec, CompletionFinal

\* A careful client gets the handlers of every closed socket back.
THEOREM CloseAnswersAll == Spec => []ClosedKeepsNothing
<1>1. Clients => ClosedKeepsNothing
  BY DEF Clients
<1> QED
  BY <1>1, ClientInvariance, PTL

\* A careful client fails no assertion of socket_impl but those a failed send
\* explains, and frees nothing that libutp is using.
THEOREM CarefulIsSafe == Spec => []CarefulClientSafe
<1>1. Clients => CarefulClientSafe
  BY DEF Clients, ServerSafe, FaultKnown, AcceptQueue, AcceptLive, CarefulClientSafe
<1> QED
  BY <1>1, ClientInvariance, PTL

\* The socket layer keeps the contract that the receive loop implements.
THEOREM Refinement == Spec => ContractKept
<1>1. Init => Contract!Init
  BY DEF Init, Contract!Init
<1>2. Bookkeeping /\ Looping /\ [Next]_vars => [Contract!Next]_Contract!vars
  <2> SUFFICES ASSUME Bookkeeping, Looping, [Next]_vars PROVE ContractStep
    BY DEF ContractStep
  <2>1. CASE UNCHANGED vars
    BY <2>1, ContractStill DEF vars, ownerVars, ctxVars, stackVars
  <2> QED
    BY <2>1, ContractUser, ContractLoop, ContractLib DEF Next
<1> QED
  BY <1>1, <1>2, Invariance, PTL DEF Spec, ContractKept, Contract!Spec

=============================================================================
