-------------------------- MODULE UtpSockets_proof --------------------------
EXTENDS UtpSockets, FiniteSetTheorems, TLAPS

\* The pairs of a socket and a kind are finitely many.
LEMMA OpsFinite == IsFiniteSet(Ops)
<1>1. IsFiniteSet(Kinds)
  <2>1. Kinds = ((({} \cup {"connect"}) \cup {"accept"}) \cup {"send"}) \cup {"recv"}
    BY DEF Kinds
  <2>2. IsFiniteSet({} \cup {"connect"})
    BY FS_EmptySet, FS_AddElement
  <2>3. IsFiniteSet(({} \cup {"connect"}) \cup {"accept"})
    BY <2>2, FS_AddElement
  <2>4. IsFiniteSet((({} \cup {"connect"}) \cup {"accept"}) \cup {"send"})
    BY <2>3, FS_AddElement
  <2> QED
    BY <2>1, <2>4, FS_AddElement
<1> QED
  BY <1>1, FS_Product, SocketsAssumption DEF Ops

\* What an op is made of.
LEMMA OpParts ==
  /\ \A o \in Ops : o[1] \in Sockets /\ o[2] \in Kinds
  /\ \A s \in Sockets : \A k \in Kinds :
       <<s, k>> \in Ops /\ <<s, k>>[1] = s /\ <<s, k>>[2] = k
BY DEF Ops

\* Adding ops or sockets to a finite set counts them.
LEMMA CountAdd ==
  ASSUME NEW A, NEW B, IsFiniteSet(A), IsFiniteSet(B), A \cap B = {}
  PROVE  /\ IsFiniteSet(A \cup B)
         /\ Cardinality(A \cup B) = Cardinality(A) + Cardinality(B)
         /\ Cardinality(A) \in Nat /\ Cardinality(B) \in Nat
<1>1. Cardinality(A \cap B) = 0
  BY FS_EmptySet
<1>2. Cardinality(A) \in Nat /\ Cardinality(B) \in Nat
  BY FS_CardinalityType
<1>3. /\ IsFiniteSet(A \cup B)
      /\ Cardinality(A \cup B) = Cardinality(A) + Cardinality(B) - Cardinality(A \cap B)
  BY FS_Union
<1> QED
  BY <1>1, <1>2, <1>3

\* abort_handlers answers the handlers of the sockets it closes and keeps the
\* others, each of them once.
LEMMA AbortHandlers ==
  ASSUME TypeOK,
         NEW C \in SUBSET Sockets,
         NEW ec \in [Sockets -> Codes], NEW sl \in SUBSET Ops,
         \A o \in sl : queue[o] = "none",
         abort_handlers(C, ec, sl)
  PROVE  /\ closed' = closed \cup C
         /\ slot' \subseteq sl
         /\ queue' \in [Ops -> Codes \cup {"none"}]
         /\ sl \cup Queued = slot' \cup Queued'
         /\ slot' \cap Queued' = {}
<1> DEFINE aborted == {o \in sl : o[1] \in C}
<1>1. /\ closed' = closed \cup C
      /\ slot' = sl \ aborted
      /\ queue' = [o \in Ops |-> IF o \in aborted THEN ec[o[1]] ELSE queue[o]]
  BY DEF abort_handlers
<1>2. \A o \in aborted : ec[o[1]] \in Codes
  BY OpParts
<1>3. "none" \notin Codes
  BY DEF Codes
<1>4. queue' \in [Ops -> Codes \cup {"none"}]
  BY <1>1, <1>2 DEF TypeOK
<1>5. Queued' = Queued \cup aborted
  <2>1. \A o \in Ops : queue'[o] # "none" <=> (queue[o] # "none" \/ o \in aborted)
    BY <1>1, <1>2, <1>3
  <2> QED
    BY <2>1 DEF Queued
<1>6. sl \cap Queued = {}
  BY DEF Queued
<1> QED
  BY <1>1, <1>4, <1>5, <1>6

\* close_with_error keeps the types, answers or keeps every handler it was
\* called with, and counts the connections it shuts.
LEMMA CloseWithError ==
  ASSUME TypeOK, decClose \subseteq closed,
         NEW C \in SUBSET (Sockets \ closed),
         NEW ec \in [Sockets -> Codes], NEW sl \in SUBSET Ops,
         NEW u \in [Sockets -> UtpStates], NEW f \in [Sockets -> FacadeStates],
         NEW n \in Nat,
         \A o \in sl : queue[o] = "none",
         close_with_error(C, ec, sl, u, f, n)
  PROVE  /\ closed' \subseteq Sockets /\ decClose' \subseteq closed'
         /\ slot' \subseteq sl
         /\ queue' \in [Ops -> Codes \cup {"none"}]
         /\ utp' \in [Sockets -> UtpStates]
         /\ facade' \in [Sockets -> FacadeStates]
         /\ ops' \in Nat /\ linked' \in BOOLEAN /\ ticking' \in BOOLEAN
         /\ ops' + Cardinality(decClose) = ops + n + Cardinality(decClose')
         /\ sl \cup Queued = slot' \cup Queued'
         /\ slot' \cap Queued' = {}
<1> DEFINE shut == {s \in C : u[s] # "none" /\ s \notin eof}
<1>1. /\ utp' = [s \in Sockets |-> IF s \in shut THEN "closing" ELSE u[s]]
      /\ facade' = [s \in Sockets |-> IF s \in shut /\ f[s] = "bound" THEN "detached" ELSE f[s]]
      /\ decClose' = decClose \cup shut
      /\ increment_outstanding_ops(n + Cardinality(shut))
  BY DEF close_with_error, Detach
<1>2. /\ closed' = closed \cup C
      /\ slot' \subseteq sl
      /\ queue' \in [Ops -> Codes \cup {"none"}]
      /\ sl \cup Queued = slot' \cup Queued'
      /\ slot' \cap Queued' = {}
  BY AbortHandlers DEF close_with_error
<1>3. IsFiniteSet(decClose) /\ IsFiniteSet(shut) /\ decClose \cap shut = {}
  BY FS_Subset, SocketsAssumption DEF TypeOK
<1>4. /\ Cardinality(decClose') = Cardinality(decClose) + Cardinality(shut)
      /\ Cardinality(decClose) \in Nat /\ Cardinality(shut) \in Nat
  BY <1>1, <1>3, CountAdd
<1>5. ops' = ops + n + Cardinality(shut)
  BY <1>1, <1>4 DEF increment_outstanding_ops, TypeOK
<1>6. linked' \in BOOLEAN /\ ticking' \in BOOLEAN
  BY <1>1 DEF increment_outstanding_ops, start_receiving, TypeOK
<1>7. utp' \in [Sockets -> UtpStates] /\ facade' \in [Sockets -> FacadeStates]
  BY <1>1 DEF UtpStates, FacadeStates
<1>8. closed' \subseteq Sockets /\ decClose' \subseteq closed'
  BY <1>1, <1>2 DEF TypeOK
<1>9. /\ ops' \in Nat
      /\ ops' + Cardinality(decClose) = ops + n + Cardinality(decClose')
  <2>1. ops \in Nat
    BY DEF TypeOK
  <2> HIDE DEF shut
  <2> QED
    BY <2>1, <1>4, <1>5
<1> QED
  BY <1>2, <1>6, <1>7, <1>8, <1>9

-----------------------------------------------------------------------------
(***************************************************************************)
(* The bookkeeping invariant.  OpCountExact is not inductive: that a new   *)
(* op adds a closure needs after \subseteq waiting, that a re-armed one     *)
(* does not needs slot \subseteq after, and that a close is counted once    *)
(* needs decClose \subseteq closed.                                         *)
(***************************************************************************)

Bookkeeping ==
    /\ TypeOK
    /\ OpCountExact
    /\ CompletionOnce
    /\ slot \subseteq after
    /\ after \subseteq waiting
    /\ decClose \subseteq closed

LEMMA BookkeepingInit == Init => Bookkeeping
<1> SUFFICES ASSUME Init PROVE Bookkeeping
  OBVIOUS
<1>1. Queued = {}
  BY DEF Init, Queued
<1>2. TypeOK
  <2>1. accepting \in Seq(Sockets) /\ 0 \in 0..MaxRx /\ 0 \in 0..MaxRearm
    BY BoundsAssumption DEF Init
  <2> QED
    BY <2>1 DEF Init, TypeOK, UtpStates, FacadeStates, MuxStates
<1>3. OpCountExact
  BY FS_EmptySet DEF Init, OpCountExact
<1> QED
  BY <1>1, <1>2, <1>3 DEF Init, Bookkeeping, CompletionOnce

\* The sets that are counted are finite.
LEMMA Finite ==
  ASSUME TypeOK
  PROVE  /\ IsFiniteSet(after) /\ Cardinality(after) \in Nat
         /\ IsFiniteSet(decClose) /\ Cardinality(decClose) \in Nat
BY OpsFinite, SocketsAssumption, FS_Subset, FS_CardinalityType DEF TypeOK

\* setup_op for an op the client starts adds one closure, for an op that is
\* stored already none.
LEMMA SetupOp ==
  ASSUME Bookkeeping, NEW o \in Ops, setup_op(o)
  PROVE  /\ after' \in SUBSET Ops /\ waiting' \in SUBSET Ops /\ after' \subseteq waiting'
         /\ o \notin waiting => Cardinality(after') = Cardinality(after) + 1
         /\ o \in slot => after' = after /\ waiting' = waiting
<1>1. IsFiniteSet(after)
  BY Finite DEF Bookkeeping
<1>2. Cardinality(after \cup {o}) = IF o \in after THEN Cardinality(after)
                                               ELSE Cardinality(after) + 1
  BY <1>1, FS_AddElement
<1> QED
  BY <1>2 DEF setup_op, Bookkeeping, TypeOK, CompletionOnce

\* A posted handler moves from the slots to the queue.
LEMMA PostOp ==
  ASSUME TypeOK, CompletionOnce, NEW o \in Ops, NEW ec \in Codes, post_op(o, ec)
  PROVE  /\ slot' = slot \ {o}
         /\ queue' \in [Ops -> Codes \cup {"none"}]
         /\ Queued' = Queued \cup {o}
<1>1. "none" \notin Codes
  BY DEF Codes
<1> QED
  BY <1>1 DEF post_op, TypeOK, Queued

\* A failed assertion changes nothing that is counted.
LEMMA FaultStep ==
  ASSUME Bookkeeping, NEW label \in Labels, AssertFails(label)
  PROVE  Bookkeeping'
<1>1. UNCHANGED <<slot, queue, after, waiting, closed, eof, decClose, utp, rxq, accepting,
                  facade, mux, ext, ops, rearmed, linked, ticking, frame, running>>
  BY DEF AssertFails, handlerVars, implVars, ownerVars, ctxVars, stackVars
<1>2. fault' \in Labels \cup {"none"}
  BY DEF AssertFails
<1> QED
  BY <1>1, <1>2
  DEF Bookkeeping, TypeOK, OpCountExact, CompletionOnce, Queued

\* The part of Bookkeeping that the counting lemmas establish.
Counted ==
    /\ slot \in SUBSET Ops /\ after \in SUBSET Ops /\ waiting \in SUBSET Ops
    /\ queue \in [Ops -> Codes \cup {"none"}]
    /\ utp \in [Sockets -> UtpStates] /\ facade \in [Sockets -> FacadeStates]
    /\ closed \in SUBSET Sockets /\ decClose \in SUBSET Sockets
    /\ ops \in Nat /\ linked \in BOOLEAN /\ ticking \in BOOLEAN
    /\ OpCountExact /\ CompletionOnce
    /\ slot \subseteq after /\ after \subseteq waiting /\ decClose \subseteq closed

\* An op is started, or a stored one re-armed, and sockets may be closed on
\* the way: do_connect, a do_write that cannot finish, a do_read that waits.
LEMMA SetupAndClose ==
  ASSUME Bookkeeping, NEW o \in Ops, o \notin waiting \/ o \in slot,
         NEW C \in SUBSET (Sockets \ closed), NEW ec \in [Sockets -> Codes],
         NEW u \in [Sockets -> UtpStates], setup_op(o),
         close_with_error(C, ec, slot \cup {o}, u, facade, 1),
         rearmed' = rearmed + (IF o \in slot THEN 1 ELSE 0),
         running' = running
  PROVE  Counted'
<1> DEFINE sl == slot \cup {o}
<1>1. sl \in SUBSET Ops /\ \A p \in sl : queue[p] = "none"
  BY DEF Bookkeeping, TypeOK, CompletionOnce, Queued
<1>2. facade \in [Sockets -> FacadeStates] /\ TypeOK /\ decClose \subseteq closed
  BY DEF Bookkeeping, TypeOK
<1> HIDE DEF sl
<1>3. close_with_error(C, ec, sl, u, facade, 1)
  BY DEF sl
<1>4. /\ closed' \subseteq Sockets /\ decClose' \subseteq closed'
      /\ slot' \subseteq sl
      /\ queue' \in [Ops -> Codes \cup {"none"}]
      /\ utp' \in [Sockets -> UtpStates]
      /\ facade' \in [Sockets -> FacadeStates]
      /\ ops' \in Nat /\ linked' \in BOOLEAN /\ ticking' \in BOOLEAN
      /\ ops' + Cardinality(decClose) = ops + 1 + Cardinality(decClose')
      /\ sl \cup Queued = slot' \cup Queued'
      /\ slot' \cap Queued' = {}
  BY <1>1, <1>2, <1>3, CloseWithError
<1>5. /\ after' \in SUBSET Ops /\ waiting' \in SUBSET Ops /\ after' \subseteq waiting'
      /\ o \notin waiting => Cardinality(after') = Cardinality(after) + 1
      /\ o \in slot => after' = after /\ waiting' = waiting
  BY SetupOp
<1>6. CompletionOnce' /\ slot' \subseteq after'
  BY <1>4 DEF sl, setup_op, Bookkeeping, CompletionOnce
<1>7. OpCountExact'
  <2>1. Cardinality(decClose') \in Nat
    BY <1>4, FS_Subset, FS_CardinalityType, SocketsAssumption
  <2>2. o \in slot => o \in waiting
    BY DEF Bookkeeping, CompletionOnce
  <2>3. Cardinality(after) \in Nat /\ Cardinality(decClose) \in Nat
    BY <1>2, Finite
  <2>4. rearmed \in Nat /\ ops \in Nat
    BY BoundsAssumption DEF Bookkeeping, TypeOK
  <2> QED
    BY <1>4, <1>5, <2>1, <2>2, <2>3, <2>4 DEF Bookkeeping, OpCountExact
<1> QED
  BY <1>1, <1>4, <1>5, <1>6, <1>7 DEF Counted

\* An op is started, or a stored one re-armed, and completed at once: a
\* do_write that finishes, a do_read that finds data.
LEMMA SetupAndPost ==
  ASSUME Bookkeeping, NEW o \in Ops, o \notin waiting \/ o \in slot,
         setup_op(o), post_op(o, "ok"), increment_outstanding_ops(1),
         rearmed' = rearmed + (IF o \in slot THEN 1 ELSE 0),
         UNCHANGED <<running, closed, decClose, utp, facade>>
  PROVE  Counted'
<1>1. "ok" \in Codes
  BY DEF Codes
<1>2. /\ slot' = slot \ {o}
      /\ queue' \in [Ops -> Codes \cup {"none"}]
      /\ Queued' = Queued \cup {o}
  BY <1>1, PostOp DEF Bookkeeping
<1>3. /\ after' \in SUBSET Ops /\ waiting' \in SUBSET Ops /\ after' \subseteq waiting'
      /\ o \notin waiting => Cardinality(after') = Cardinality(after) + 1
      /\ o \in slot => after' = after /\ waiting' = waiting
  BY SetupOp
<1>4. ops' = ops + 1 /\ linked' \in BOOLEAN /\ ticking' \in BOOLEAN
  BY DEF increment_outstanding_ops, start_receiving, Bookkeeping, TypeOK
<1>5. CompletionOnce' /\ slot' \subseteq after'
  BY <1>2 DEF setup_op, Bookkeeping, CompletionOnce
<1>6. OpCountExact'
  <2>1. o \in slot => o \in waiting
    BY DEF Bookkeeping, CompletionOnce
  <2>2. Cardinality(after) \in Nat /\ Cardinality(decClose) \in Nat
    BY Finite DEF Bookkeeping
  <2>3. rearmed \in Nat /\ ops \in Nat
    BY BoundsAssumption DEF Bookkeeping, TypeOK
  <2> QED
    BY <1>3, <1>4, <2>1, <2>2, <2>3 DEF Bookkeeping, OpCountExact
<1> QED
  BY <1>2, <1>3, <1>4, <1>5, <1>6 DEF Counted, Bookkeeping, TypeOK

\* The other conjuncts of TypeOK complete Counted to Bookkeeping.
Framed ==
    /\ eof \in SUBSET Sockets
    /\ rxq \in [Sockets -> 0..MaxRx]
    /\ accepting \in Seq(Sockets)
    /\ rearmed \in 0..MaxRearm
    /\ mux \in MuxStates
    /\ ext \in BOOLEAN
    /\ frame \in {"idle", "on_read", "tick"}
    /\ running \in {"none", "plain", "counted"}
    /\ fault \in Labels \cup {"none"}

LEMMA CountedFramed ==
  /\ Bookkeeping <=> Counted /\ Framed
  /\ Bookkeeping' <=> Counted' /\ Framed'
BY DEF Bookkeeping, Counted, Framed, TypeOK

\* Every socket that a failed send closes is open.
LEMMA SendtoTargets ==
  ASSUME TypeOK, NEW err
  PROVE  /\ (IF err THEN Registered \ closed ELSE {}) \in SUBSET (Sockets \ closed)
         /\ \A ec \in Codes : Code(ec) \in [Sockets -> Codes]
BY DEF Registered, Code

LEMMA ConnectStep ==
  ASSUME Bookkeeping, NEW s \in Sockets, NEW err \in BOOLEAN, Connect(s, err)
  PROVE  Bookkeeping'
<1> DEFINE o == <<s, "connect">>
<1>1. o \in Ops
  BY DEF Ops, Kinds
<1>2. "closed_handlers" \in Labels /\ "connect_utp" \in Labels
  BY DEF Labels
<1>3. CASE AssertFails("closed_handlers") \/ AssertFails("connect_utp")
  BY <1>2, <1>3, FaultStep
<1>4. CASE ~(AssertFails("closed_handlers") \/ AssertFails("connect_utp"))
  <2>1. /\ o \notin waiting
        /\ setup_op(o)
        /\ callback_sendto(err, slot \cup {o}, [utp EXCEPT ![s] = "syn_sent"], facade, 1)
        /\ UNCHANGED <<eof, rxq, accepting, mux, ext, rearmed, frame, running, fault>>
    BY <1>4 DEF Connect, MayStart, stackVars
  <2>2. [utp EXCEPT ![s] = "syn_sent"] \in [Sockets -> UtpStates]
    BY DEF Bookkeeping, TypeOK, UtpStates
  <2>3. "io" \in Codes /\ rearmed' = rearmed + 0 /\ o \notin slot
    BY <2>1, BoundsAssumption DEF Codes, Bookkeeping, TypeOK, CompletionOnce
  <2>4. Counted'
    BY <1>1, <2>1, <2>2, <2>3, SetupAndClose, SendtoTargets DEF callback_sendto, Bookkeeping
  <2>5. Framed'
    BY <2>1, CountedFramed DEF Framed
  <2> QED
    BY <2>4, <2>5, CountedFramed
<1> QED
  BY <1>3, <1>4

LEMMA DoWriteStep ==
  ASSUME Bookkeeping, NEW s \in Sockets, NEW done \in BOOLEAN, NEW err \in BOOLEAN,
         NEW r \in {0, 1}, do_write(s, done, err, r),
         IF r = 0 THEN <<s, "send">> \notin waiting
                  ELSE <<s, "send">> \in slot /\ rearmed < MaxRearm
  PROVE  Bookkeeping'
<1> DEFINE o == <<s, "send">>
<1>1. o \in Ops
  BY DEF Ops, Kinds
<1>2. "closed_handlers" \in Labels /\ "empty_post" \in Labels
  BY DEF Labels
<1>3. CASE AssertFails("closed_handlers") \/ AssertFails("empty_post")
  BY <1>2, <1>3, FaultStep
<1>4. CASE ~(AssertFails("closed_handlers") \/ AssertFails("empty_post"))
  <2>1. /\ setup_op(o)
        /\ IF done
           THEN /\ post_op(o, "ok")
                /\ increment_outstanding_ops(1)
                /\ UNCHANGED <<closed, decClose, utp, facade>>
           ELSE callback_sendto(err, slot \cup {o}, utp, facade, 1)
        /\ rearmed' = rearmed + r
        /\ UNCHANGED <<eof, rxq, accepting, mux, ext, frame, running, fault>>
    BY <1>4 DEF do_write, stackVars
  <2>2. /\ o \notin waiting \/ o \in slot
        /\ rearmed' = rearmed + (IF o \in slot THEN 1 ELSE 0)
    BY <2>1 DEF Bookkeeping, CompletionOnce
  <2>3. "io" \in Codes /\ utp \in [Sockets -> UtpStates] /\ TypeOK
    BY DEF Codes, Bookkeeping, TypeOK
  <2>4. ASSUME done PROVE Counted'
    <3>1. /\ setup_op(o) /\ post_op(o, "ok") /\ increment_outstanding_ops(1)
          /\ UNCHANGED <<running, closed, decClose, utp, facade>>
      BY <2>1, <2>4
    <3> QED
      BY <1>1, <2>2, <3>1, SetupAndPost
  <2>5. ASSUME ~done PROVE Counted'
    <3>1. callback_sendto(err, slot \cup {o}, utp, facade, 1)
      BY <2>1, <2>5
    <3> QED
      BY <1>1, <2>1, <2>2, <2>3, <3>1, SetupAndClose, SendtoTargets DEF callback_sendto
  <2>6. Counted'
    BY <2>4, <2>5
  <2>7. Framed'
    BY <2>1, BoundsAssumption, CountedFramed DEF Framed
  <2> QED
    BY <2>6, <2>7, CountedFramed
<1> QED
  BY <1>3, <1>4

LEMMA ReadStep ==
  ASSUME Bookkeeping, NEW s \in Sockets, NEW left \in 0..MaxRx, Read(s, left)
  PROVE  Bookkeeping'
<1> DEFINE o == <<s, "recv">>
<1>1. o \in Ops /\ o[1] = s /\ o[2] = "recv"
  BY DEF Ops, Kinds
<1>2. /\ o \notin waiting
      /\ s \notin closed
      /\ setup_op(o)
      /\ rxq' = [rxq EXCEPT ![s] = left]
      /\ IF HasData(s)
         THEN /\ post_op(o, "ok")
              /\ increment_outstanding_ops(1)
              /\ UNCHANGED <<closed, decClose, utp, facade>>
         ELSE close_with_error(IF s \in eof THEN {s} ELSE {}, Code("reset"),
                               slot \cup {o}, utp, facade, 1)
      /\ UNCHANGED <<eof, accepting, mux, ext, rearmed, frame, running, fault>>
  BY <1>1 DEF Read, MayStart, Rejected, stackVars
<1>3. rearmed' = rearmed + (IF o \in slot THEN 1 ELSE 0)
  BY <1>2, BoundsAssumption DEF Bookkeeping, CompletionOnce, TypeOK
<1>4. /\ Code("reset") \in [Sockets -> Codes]
      /\ (IF s \in eof THEN {s} ELSE {}) \in SUBSET (Sockets \ closed)
      /\ utp \in [Sockets -> UtpStates]
  BY <1>2 DEF Code, Codes, Bookkeeping, TypeOK
<1>5. ASSUME HasData(s) PROVE Counted'
  <2>1. /\ setup_op(o) /\ post_op(o, "ok") /\ increment_outstanding_ops(1)
        /\ UNCHANGED <<running, closed, decClose, utp, facade>>
    BY <1>2, <1>5
  <2> QED
    BY <1>1, <1>2, <1>3, <2>1, SetupAndPost
<1>6. ASSUME ~HasData(s) PROVE Counted'
  <2>1. close_with_error(IF s \in eof THEN {s} ELSE {}, Code("reset"),
                         slot \cup {o}, utp, facade, 1)
    BY <1>2, <1>6
  <2> QED
    BY <1>1, <1>2, <1>3, <1>4, <2>1, SetupAndClose
<1>7. Framed'
  BY <1>2, CountedFramed DEF Framed
<1> QED
  BY <1>5, <1>6, <1>7, CountedFramed

\* Several sockets may be closed without an op being started: close, ~socket
\* and the sends libutp makes on its own.
LEMMA JustClose ==
  ASSUME Bookkeeping, NEW C \in SUBSET (Sockets \ closed), NEW ec \in [Sockets -> Codes],
         NEW f \in [Sockets -> FacadeStates],
         close_with_error(C, ec, slot, utp, f, 0),
         UNCHANGED <<after, waiting, rearmed, running>>
  PROVE  Counted'
<1>1. /\ slot \in SUBSET Ops /\ \A p \in slot : queue[p] = "none"
      /\ utp \in [Sockets -> UtpStates] /\ TypeOK /\ decClose \subseteq closed
  BY DEF Bookkeeping, TypeOK, CompletionOnce, Queued
<1>2. /\ closed' \subseteq Sockets /\ decClose' \subseteq closed'
      /\ slot' \subseteq slot
      /\ queue' \in [Ops -> Codes \cup {"none"}]
      /\ utp' \in [Sockets -> UtpStates]
      /\ facade' \in [Sockets -> FacadeStates]
      /\ ops' \in Nat /\ linked' \in BOOLEAN /\ ticking' \in BOOLEAN
      /\ ops' + Cardinality(decClose) = ops + 0 + Cardinality(decClose')
      /\ slot \cup Queued = slot' \cup Queued'
      /\ slot' \cap Queued' = {}
  BY <1>1, CloseWithError
<1>3. OpCountExact'
  <2>1. Cardinality(decClose') \in Nat
    BY <1>2, FS_Subset, FS_CardinalityType, SocketsAssumption
  <2>2. Cardinality(after) \in Nat /\ Cardinality(decClose) \in Nat
    BY <1>1, Finite
  <2>3. rearmed \in Nat /\ ops \in Nat
    BY BoundsAssumption DEF Bookkeeping, TypeOK
  <2> QED
    BY <1>2, <2>1, <2>2, <2>3 DEF Bookkeeping, OpCountExact
<1> QED
  BY <1>1, <1>2, <1>3 DEF Counted, Bookkeeping, CompletionOnce, TypeOK

LEMMA CloseSocketStep ==
  ASSUME Bookkeeping, NEW s \in Sockets, NEW err \in BOOLEAN, CloseSocket(s, err)
  PROVE  Bookkeeping'
<1> DEFINE others == IF err THEN Registered \ closed ELSE {}
           C  == ({s} \ closed) \cup others
           ec == [Code("io") EXCEPT ![s] = "aborted"]
           f  == [facade EXCEPT ![s] = "released"]
<1>1. "closed_handlers" \in Labels
  BY DEF Labels
<1>2. CASE AssertFails("closed_handlers")
  BY <1>1, <1>2, FaultStep
<1>3. CASE ~AssertFails("closed_handlers")
  <2>1. /\ close_with_error(C, ec, slot, utp, f, 0)
        /\ UNCHANGED <<after, waiting, eof, rxq, accepting, ext, rearmed, frame, running, fault>>
        /\ ReleaseMultiplexer
    BY <1>3 DEF CloseSocket, stackVars
  <2>2. /\ C \in SUBSET (Sockets \ closed)
        /\ ec \in [Sockets -> Codes]
        /\ f \in [Sockets -> FacadeStates]
    BY DEF Registered, Code, Codes, Bookkeeping, TypeOK, FacadeStates
  <2>3. Counted'
    <3> HIDE DEF C, ec, f
    <3> QED
      BY <2>1, <2>2, JustClose
  <2>4. Framed'
    BY <2>1, CountedFramed DEF Framed, ReleaseMultiplexer, MuxStates
  <2> QED
    BY <2>3, <2>4, CountedFramed
<1> QED
  BY <1>2, <1>3

LEMMA SendFailsStep ==
  ASSUME Bookkeeping, SendFails
  PROVE  Bookkeeping'
<1>1. "closed_handlers" \in Labels /\ "io" \in Codes
  BY DEF Labels, Codes
<1>2. CASE AssertFails("closed_handlers")
  BY <1>1, <1>2, FaultStep
<1>3. CASE ~AssertFails("closed_handlers")
  <2>1. /\ callback_sendto(TRUE, slot, utp, facade, 0)
        /\ UNCHANGED <<after, waiting, eof, rxq, accepting, mux, ext, rearmed, frame,
                       running, fault>>
    BY <1>3 DEF SendFails, stackVars
  <2>2. facade \in [Sockets -> FacadeStates] /\ TypeOK
    BY DEF Bookkeeping, TypeOK
  <2>3. Counted'
    BY <1>1, <2>1, <2>2, JustClose, SendtoTargets DEF callback_sendto
  <2>4. Framed'
    BY <2>1, CountedFramed DEF Framed
  <2> QED
    BY <2>3, <2>4, CountedFramed
<1> QED
  BY <1>2, <1>3

LEMMA AcceptStep ==
  ASSUME Bookkeeping, NEW s \in Sockets, Accept(s)
  PROVE  Bookkeeping'
<1> DEFINE o == <<s, "accept">>
<1>1. o \in Ops /\ "accept_hook" \in Labels
  BY DEF Ops, Kinds, Labels
<1>2. CASE AssertFails("accept_hook")
  BY <1>1, <1>2, FaultStep
<1>3. CASE ~AssertFails("accept_hook")
  <2>1. /\ o \notin waiting
        /\ accepting' = Append(accepting, s)
        /\ setup_op(o)
        /\ slot' = slot \cup {o}
        /\ increment_outstanding_ops(1)
        /\ UNCHANGED <<queue, closed, eof, decClose, utp, rxq, facade, mux, ext, rearmed,
                       frame, running, fault>>
    BY <1>3 DEF Accept, MayStart, ownerVars, stackVars
  <2>2. /\ after' \in SUBSET Ops /\ waiting' \in SUBSET Ops /\ after' \subseteq waiting'
        /\ Cardinality(after') = Cardinality(after) + 1
    BY <1>1, <2>1, SetupOp
  <2>3. ops' = ops + 1 /\ linked' \in BOOLEAN /\ ticking' \in BOOLEAN
    BY <2>1 DEF increment_outstanding_ops, start_receiving, Bookkeeping, TypeOK
  <2>4. CompletionOnce' /\ slot' \subseteq after'
    <3>1. Queued' = Queued
      BY <2>1 DEF Queued
    <3> QED
      BY <2>1, <3>1 DEF setup_op, Bookkeeping, CompletionOnce
  <2>5. OpCountExact'
    <3>1. Cardinality(after) \in Nat /\ Cardinality(decClose) \in Nat
      BY Finite DEF Bookkeeping
    <3>2. rearmed \in Nat /\ ops \in Nat
      BY BoundsAssumption DEF Bookkeeping, TypeOK
    <3> QED
      BY <2>1, <2>2, <2>3, <3>1, <3>2 DEF Bookkeeping, OpCountExact
  <2>6. Counted'
    BY <1>1, <2>1, <2>2, <2>3, <2>4, <2>5 DEF Counted, Bookkeeping, TypeOK
  <2>7. Framed'
    BY <2>1, CountedFramed DEF Framed
  <2> QED
    BY <2>6, <2>7, CountedFramed
<1> QED
  BY <1>2, <1>3

\* An op that completes without being set up.
LEMMA UncountedStep ==
  ASSUME Bookkeeping, NEW o \in Ops, NEW ec \in Codes, o \notin waiting,
         waiting' = waiting \cup {o}, queue' = [queue EXCEPT ![o] = ec],
         UNCHANGED <<slot, after, implVars, ownerVars, ctxVars, stackVars, fault>>
  PROVE  Bookkeeping'
<1>1. "none" \notin Codes
  BY DEF Codes
<1>2. queue' \in [Ops -> Codes \cup {"none"}] /\ Queued' = Queued \cup {o}
  BY <1>1 DEF Queued, Bookkeeping, TypeOK
<1>3. CompletionOnce'
  BY <1>2 DEF Bookkeeping, CompletionOnce
<1> QED
  BY <1>2, <1>3
  DEF Bookkeeping, TypeOK, OpCountExact, implVars, ownerVars, ctxVars, stackVars

\* Running the handler of o takes its closure, if it has one, on the stack.
LEMMA EnterCount ==
  ASSUME Bookkeeping, NEW o \in Ops, Enter(o), running = "none",
         UNCHANGED <<ops, decClose, rearmed>>
  PROVE  /\ OpCountExact' /\ running' \in {"none", "plain", "counted"}
         /\ after' = after \ {o} /\ waiting' = waiting \ {o}
<1>1. IsFiniteSet(after) /\ Cardinality(after) \in Nat /\ Cardinality(decClose) \in Nat
  BY Finite DEF Bookkeeping
<1>2. Cardinality(after \ {o}) = IF o \in after THEN Cardinality(after) - 1
                                               ELSE Cardinality(after)
  BY <1>1, FS_RemoveElement
<1>3. rearmed \in Nat /\ ops \in Nat
  BY BoundsAssumption DEF Bookkeeping, TypeOK
<1> QED
  BY <1>1, <1>2, <1>3 DEF Enter, Bookkeeping, OpCountExact

LEMMA RunHandlerStep ==
  ASSUME Bookkeeping, NEW o \in Ops, RunHandler(o)
  PROVE  Bookkeeping'
<1>1. /\ running = "none" /\ Enter(o)
      /\ queue[o] # "none"
      /\ queue' = [queue EXCEPT ![o] = "none"]
      /\ UNCHANGED <<slot, closed, eof, decClose, utp, rxq, accepting, facade, mux, ext,
                     ops, rearmed, linked, ticking, frame, fault>>
  BY DEF RunHandler, LoopMay, implVars, ownerVars, ctxVars
<1>2. /\ OpCountExact' /\ running' \in {"none", "plain", "counted"}
      /\ after' = after \ {o} /\ waiting' = waiting \ {o}
  BY <1>1, EnterCount
<1>3. Queued' = Queued \ {o} /\ queue' \in [Ops -> Codes \cup {"none"}]
  BY <1>1 DEF Queued, Bookkeeping, TypeOK
<1>4. o \in Queued
  BY <1>1 DEF Queued
<1> QED
  BY <1>1, <1>2, <1>3, <1>4 DEF Bookkeeping, TypeOK, CompletionOnce

\* The counter is positive while a counted handler runs or a close is owed.
LEMMA CounterPositive ==
  ASSUME Bookkeeping
  PROVE  /\ running = "counted" => ops > 0
         /\ decClose # {} => ops > 0
<1>1. /\ Cardinality(after) \in Nat /\ Cardinality(decClose) \in Nat
      /\ IsFiniteSet(decClose) /\ rearmed \in Nat
  BY Finite, BoundsAssumption DEF Bookkeeping, TypeOK
<1>2. decClose # {} => Cardinality(decClose) # 0
  BY <1>1, FS_EmptySet
<1> QED
  BY <1>1, <1>2 DEF Bookkeeping, OpCountExact

LEMMA EndHandlerStep ==
  ASSUME Bookkeeping, EndHandler
  PROVE  Bookkeeping'
<1>a. "freed_in_tick" \in Labels
  BY DEF Labels
<1>b. CASE AssertFails("freed_in_tick")
  BY <1>a, <1>b, FaultStep
<1>c. SUFFICES ASSUME ~AssertFails("freed_in_tick") PROVE Bookkeeping'
  BY <1>b
<1>1. /\ running # "none" /\ running' = "none"
      /\ UNCHANGED <<slot, queue, after, waiting, closed, eof, decClose, utp, rxq, accepting,
                     facade, mux, ext, rearmed, frame, fault>>
  BY <1>c DEF EndHandler, handlerVars, implVars, ownerVars
<1>2. linked' \in BOOLEAN /\ ticking' \in BOOLEAN
  BY <1>c DEF EndHandler, decrement_outstanding_ops, stop_receiving, Bookkeeping, TypeOK
<1>3. ops' = IF running = "counted" THEN ops - 1 ELSE ops
  BY <1>c DEF EndHandler, decrement_outstanding_ops
<1>4. ops \in Nat /\ ops' \in Nat
  BY <1>3, CounterPositive DEF Bookkeeping, TypeOK
<1>5. OpCountExact'
  <2>1. Cardinality(after) \in Nat /\ Cardinality(decClose) \in Nat /\ rearmed \in Nat
    BY Finite, BoundsAssumption DEF Bookkeeping, TypeOK
  <2> QED
    BY <1>1, <1>3, <1>4, <2>1 DEF Bookkeeping, OpCountExact
<1> QED
  BY <1>1, <1>2, <1>4, <1>5 DEF Bookkeeping, TypeOK, CompletionOnce, Queued

-----------------------------------------------------------------------------
(***************************************************************************)
(* The lifecycle invariant.  That on_connect finds its handler is not      *)
(* inductive either: a close must not take the handler away and leave the  *)
(* connection behind, which it does after EOF, so a connecting socket must *)
(* be known not to have seen one, and with it every socket object that can *)
(* still start a connect.                                                  *)
(***************************************************************************)

Lifecycle ==
    /\ AssertedStates
    /\ CloseTracked
    /\ \A s \in Sockets : facade[s] = "unbound" => utp[s] = "none"
    /\ \A i \in DOMAIN accepting : facade[accepting[i]] # "unbound"
    /\ \A s \in eof : /\ utp[s] # "syn_sent"
                      /\ utp[s] = "none" => facade[s] \in {"detached", "released"}
    /\ mux = "expired" => \A s \in Sockets : facade[s] \notin {"bound", "detached"}

\* ReceivingWhileOps, with what ties the loop to the multiplexer's lifetime.
Looping ==
    /\ ReceivingWhileOps
    /\ frame # "idle" => mux = "alive"
    /\ Held => mux = "alive"
    /\ mux = "none" => ops = 0 /\ ~linked /\ ~ticking

\* Steps that post a stored handler and leave the counted sets alone.
LEMMA PostStoredStep ==
  ASSUME Bookkeeping, NEW o \in Ops, NEW ec \in Codes, o \in slot, post_op(o, ec),
         UNCHANGED <<after, waiting, decClose, closed, facade, ops, rearmed, linked,
                     ticking, running>>,
         utp' \in [Sockets -> UtpStates], Framed'
  PROVE  Bookkeeping'
<1>1. /\ slot' = slot \ {o}
      /\ queue' \in [Ops -> Codes \cup {"none"}]
      /\ Queued' = Queued \cup {o}
  BY PostOp DEF Bookkeeping
<1>2. Counted'
  BY <1>1 DEF Bookkeeping, TypeOK, CompletionOnce, OpCountExact, Counted
<1> QED
  BY <1>2, CountedFramed

LEMMA OnConnectStep ==
  ASSUME Bookkeeping, Lifecycle, NEW s \in Sockets, OnConnect(s)
  PROVE  Bookkeeping'
<1> DEFINE o == <<s, "connect">>
<1>1. o \in Ops /\ "ok" \in Codes /\ o \in slot
  BY DEF Ops, Kinds, Codes, OnConnect, Lifecycle, AssertedStates
<1>2. /\ post_op(o, "ok")
      /\ UNCHANGED <<after, waiting, closed, eof, decClose, rxq, accepting, facade, mux, ext,
                     ops, rearmed, linked, ticking, frame, running, fault>>
      /\ utp' = [utp EXCEPT ![s] = "connected"]
  BY DEF OnConnect, ownerVars, ctxVars, stackVars
<1>3. utp' \in [Sockets -> UtpStates] /\ Framed'
  BY <1>2, CountedFramed DEF Bookkeeping, TypeOK, UtpStates, Framed
<1> QED
  BY <1>1, <1>2, <1>3, PostStoredStep

\* Steps that leave handlers and counter alone.
LEMMA QuietStep ==
  ASSUME Bookkeeping,
         UNCHANGED <<slot, queue, after, waiting, closed, decClose, ops, rearmed, running>>,
         utp' \in [Sockets -> UtpStates], facade' \in [Sockets -> FacadeStates],
         linked' \in BOOLEAN, ticking' \in BOOLEAN, Framed'
  PROVE  Bookkeeping'
<1>1. Counted'
  BY DEF Bookkeeping, TypeOK, CompletionOnce, OpCountExact, Counted, Queued
<1> QED
  BY <1>1, CountedFramed

LEMMA OnReceiveStep ==
  ASSUME Bookkeeping, NEW s \in Sockets, NEW left \in {0, 1}, OnReceive(s, left)
  PROVE  Bookkeeping'
<1> DEFINE o == <<s, "recv">>
<1>1. o \in Ops /\ "ok" \in Codes
  BY DEF Ops, Kinds, Codes
<1>2. /\ rxq[s] + left <= MaxRx
      /\ IF o \in slot THEN post_op(o, "ok") ELSE UNCHANGED <<slot, queue>>
      /\ rxq' = [rxq EXCEPT ![s] = @ + left]
      /\ utp' = [utp EXCEPT ![s] = "connected"]
      /\ UNCHANGED <<after, waiting, closed, eof, decClose, accepting, facade, mux, ext,
                     ops, rearmed, linked, ticking, frame, running, fault>>
  BY DEF OnReceive, ownerVars, ctxVars, stackVars
<1>3. utp' \in [Sockets -> UtpStates] /\ facade' \in [Sockets -> FacadeStates]
  BY <1>2 DEF Bookkeeping, TypeOK, UtpStates
<1>4. Framed'
  <2>1. rxq' \in [Sockets -> 0..MaxRx]
    BY <1>2, BoundsAssumption DEF Bookkeeping, TypeOK
  <2> QED
    BY <1>2, <2>1, CountedFramed DEF Framed
<1>5. CASE o \in slot
  BY <1>1, <1>2, <1>3, <1>4, <1>5, PostStoredStep
<1>6. CASE o \notin slot
  BY <1>2, <1>3, <1>4, <1>6, QuietStep DEF Bookkeeping, TypeOK
<1> QED
  BY <1>5, <1>6

LEMMA OnEofStep ==
  ASSUME Bookkeeping, NEW s \in Sockets, OnEof(s)
  PROVE  Bookkeeping'
<1> DEFINE o == <<s, "recv">>
<1>1. o \in Ops /\ "reset" \in Codes
  BY DEF Ops, Kinds, Codes
<1>2. /\ IF o \in slot THEN post_op(o, "reset") ELSE UNCHANGED <<slot, queue>>
      /\ eof' = eof \cup {s}
      /\ UNCHANGED <<after, waiting, closed, decClose, utp, rxq, accepting, facade, mux, ext,
                     ops, rearmed, linked, ticking, frame, running, fault>>
  BY DEF OnEof, ownerVars, ctxVars, stackVars
<1>3. /\ utp' \in [Sockets -> UtpStates] /\ facade' \in [Sockets -> FacadeStates]
      /\ Framed'
  BY <1>2, CountedFramed DEF Bookkeeping, TypeOK, Framed
<1>4. CASE o \in slot
  BY <1>1, <1>2, <1>3, <1>4, PostStoredStep
<1>5. CASE o \notin slot
  BY <1>2, <1>3, <1>5, QuietStep DEF Bookkeeping, TypeOK
<1> QED
  BY <1>4, <1>5

LEMMA OnErrorStep ==
  ASSUME Bookkeeping, NEW s \in Sockets, OnError(s)
  PROVE  Bookkeeping'
<1>1. /\ utp' = [utp EXCEPT ![s] = "failed"]
      /\ UNCHANGED <<slot, queue, after, waiting, closed, eof, decClose, rxq, accepting, facade,
                     mux, ext, ops, rearmed, linked, ticking, frame, running, fault>>
  BY DEF OnError, handlerVars, ownerVars, ctxVars, stackVars
<1>2. utp' \in [Sockets -> UtpStates] /\ Framed'
  BY <1>1, CountedFramed DEF Bookkeeping, TypeOK, UtpStates, Framed
<1> QED
  BY <1>1, <1>2, QuietStep DEF Bookkeeping, TypeOK

LEMMA OnDestroyStep ==
  ASSUME Bookkeeping, NEW s \in Sockets, OnDestroy(s)
  PROVE  Bookkeeping'
<1> DEFINE C == {s} \ closed
<1>1. "closed_handlers" \in Labels
  BY DEF Labels
<1>2. CASE AssertFails("closed_handlers")
  BY <1>1, <1>2, FaultStep
<1>3. CASE ~AssertFails("closed_handlers")
  <2>1. /\ abort_handlers(C, Code("conn_aborted"), slot)
        /\ utp' = [utp EXCEPT ![s] = "none"]
        /\ IF s \in decClose THEN decrement_outstanding_ops
                             ELSE UNCHANGED <<ops, linked, ticking>>
        /\ decClose' = decClose \ {s}
        /\ UNCHANGED <<after, waiting, eof, rxq, accepting, facade, mux, ext, rearmed,
                       frame, running, fault>>
    BY <1>3 DEF OnDestroy, ownerVars, stackVars
  <2>2. /\ C \in SUBSET Sockets /\ Code("conn_aborted") \in [Sockets -> Codes]
        /\ slot \in SUBSET Ops /\ (\A o \in slot : queue[o] = "none") /\ TypeOK
    BY DEF Code, Codes, Bookkeeping, TypeOK, CompletionOnce, Queued
  <2>3. /\ closed' = closed \cup C
        /\ slot' \subseteq slot
        /\ queue' \in [Ops -> Codes \cup {"none"}]
        /\ slot \cup Queued = slot' \cup Queued'
        /\ slot' \cap Queued' = {}
    BY <2>1, <2>2, AbortHandlers
  <2>4. /\ ops' = IF s \in decClose THEN ops - 1 ELSE ops
        /\ linked' \in BOOLEAN /\ ticking' \in BOOLEAN
    BY <2>1, <2>2 DEF decrement_outstanding_ops, stop_receiving, TypeOK
  <2>5. Cardinality(decClose') = IF s \in decClose THEN Cardinality(decClose) - 1
                                                  ELSE Cardinality(decClose)
    BY <2>1, <2>2, Finite, FS_RemoveElement
  <2>6. /\ Cardinality(after) \in Nat /\ Cardinality(decClose) \in Nat
        /\ rearmed \in Nat /\ ops \in Nat
    BY <2>2, Finite, BoundsAssumption DEF TypeOK
  <2>7. ops' \in Nat
    BY <2>4, <2>6, CounterPositive
  <2>8. OpCountExact'
    BY <2>1, <2>4, <2>5, <2>6 DEF Bookkeeping, OpCountExact
  <2>9. Counted'
    <3>1. utp' \in [Sockets -> UtpStates] /\ facade' \in [Sockets -> FacadeStates]
      BY <2>1 DEF Bookkeeping, TypeOK, UtpStates
    <3>2. CompletionOnce' /\ slot' \subseteq after' /\ after' \subseteq waiting'
      BY <2>1, <2>3 DEF Bookkeeping, CompletionOnce
    <3>3. decClose' \subseteq closed' /\ decClose' \in SUBSET Sockets
          /\ closed' \in SUBSET Sockets /\ slot' \in SUBSET Ops
          /\ after' \in SUBSET Ops /\ waiting' \in SUBSET Ops
      BY <2>1, <2>2, <2>3 DEF Bookkeeping, TypeOK
    <3> QED
      BY <2>3, <2>4, <2>7, <2>8, <3>1, <3>2, <3>3 DEF Counted
  <2>10. Framed'
    BY <2>1, CountedFramed DEF Framed
  <2> QED
    BY <2>9, <2>10, CountedFramed
<1> QED
  BY <1>2, <1>3

LEMMA OnAcceptStep ==
  ASSUME Bookkeeping, NEW inline \in BOOLEAN, OnAccept(inline)
  PROVE  Bookkeeping'
<1> DEFINE s == Head(accepting)
           o == <<s, "accept">>
<1>1. "accept_utp" \in Labels /\ "accept_handler" \in Labels /\ "ok" \in Codes
  BY DEF Labels, Codes
<1>2. CASE AssertFails("accept_utp") \/ AssertFails("accept_handler")
  BY <1>1, <1>2, FaultStep
<1>3. CASE ~(AssertFails("accept_utp") \/ AssertFails("accept_handler"))
  <2>1. /\ accepting # <<>> /\ running = "none"
        /\ o \in slot
        /\ accepting' = PopAccepting
        /\ utp' = [utp EXCEPT ![s] = "syn_recv"]
        /\ IF inline
           THEN slot' = slot \ {o} /\ Enter(o) /\ UNCHANGED queue
           ELSE post_op(o, "ok") /\ UNCHANGED <<after, waiting, running>>
        /\ UNCHANGED <<closed, eof, decClose, rxq, facade, mux, ext, ops, rearmed, linked,
                       ticking, frame, fault>>
    BY <1>3 DEF OnAccept, LibMay, ownerVars, ctxVars
  <2>2. accepting \in Seq(Sockets) /\ s \in Sockets /\ accepting' \in Seq(Sockets)
    BY <2>1 DEF Bookkeeping, TypeOK, PopAccepting
  <2>3. o \in Ops /\ utp' \in [Sockets -> UtpStates]
    BY <2>1, <2>2 DEF Ops, Kinds, Bookkeeping, TypeOK, UtpStates
  <2> HIDE DEF o, s
  <2>4. CASE ~inline
    <3>1. post_op(o, "ok") /\ UNCHANGED <<after, waiting, running>>
      BY <2>1, <2>4
    <3>2. Framed'
      BY <2>1, <2>2, <3>1, CountedFramed DEF Framed
    <3> QED
      BY <1>1, <2>1, <2>3, <3>1, <3>2, PostStoredStep
  <2>5. CASE inline
    <3>1. slot' = slot \ {o} /\ Enter(o) /\ UNCHANGED queue
      BY <2>1, <2>5
    <3>2. /\ OpCountExact' /\ running' \in {"none", "plain", "counted"}
          /\ after' = after \ {o} /\ waiting' = waiting \ {o}
      BY <2>1, <2>3, <3>1, EnterCount
    <3>3. CompletionOnce'
      BY <2>1, <3>1, <3>2 DEF Bookkeeping, CompletionOnce, Queued
    <3>4. Counted'
      BY <2>1, <2>3, <3>1, <3>2, <3>3 DEF Counted, Bookkeeping, TypeOK
    <3>5. Framed'
      BY <2>1, <2>2, <3>2, CountedFramed DEF Framed
    <3> QED
      BY <3>4, <3>5, CountedFramed
  <2> QED
    BY <2>4, <2>5
<1> QED
  BY <1>2, <1>3

\* The steps that open and close frames, bind, and let go of objects.
QuietAction ==
    \/ BindMultiplexer \/ CloseMultiplexer
    \/ Datagram \/ EndOnRead \/ Tick \/ EndTick \/ EndDestroy
    \/ \E s \in Sockets : Bind(s) \/ DestroySocket(s)

LEMMA QuietActionStep ==
  ASSUME Bookkeeping, QuietAction
  PROVE  Bookkeeping'
<1>1. /\ UNCHANGED <<slot, queue, after, waiting, closed, eof, decClose, utp, rxq, accepting,
                     ops, rearmed, running, fault>>
  BY DEF QuietAction, BindMultiplexer, CloseMultiplexer, Datagram, EndOnRead, Tick, EndTick,
         EndDestroy, Bind, DestroySocket, handlerVars, implVars, ownerVars, ctxVars, stackVars
<1>2. facade' \in [Sockets -> FacadeStates]
  <2>1. FacadeStates = {"unbound", "bound", "detached", "released"}
    BY DEF FacadeStates
  <2> QED
  BY <2>1 DEF QuietAction, BindMultiplexer, CloseMultiplexer, Datagram, EndOnRead, Tick, EndTick,
         EndDestroy, Bind, DestroySocket, ownerVars, Bookkeeping, TypeOK
<1>3. /\ linked' \in BOOLEAN /\ ticking' \in BOOLEAN
  BY DEF QuietAction, BindMultiplexer, CloseMultiplexer, Datagram, EndOnRead, Tick, EndTick,
         EndDestroy, Bind, DestroySocket, ctxVars, start_receiving, Bookkeeping, TypeOK
<1>4. /\ mux' \in MuxStates /\ ext' \in BOOLEAN /\ frame' \in {"idle", "on_read", "tick"}
  BY DEF QuietAction, BindMultiplexer, CloseMultiplexer, Datagram, EndOnRead, Tick, EndTick,
         EndDestroy, Bind, DestroySocket, ownerVars, stackVars, ReleaseMultiplexer, MuxStates,
         Bookkeeping, TypeOK
<1>5. Framed'
  BY <1>1, <1>4, CountedFramed DEF Framed
<1> QED
  BY <1>1, <1>2, <1>3, <1>5, QuietStep DEF Bookkeeping, TypeOK

\* The slots are entered: the function that now runs is not counted.
LEMMA OnSendToStep ==
  ASSUME Bookkeeping, OnSendTo
  PROVE  Bookkeeping'
<1>1. /\ running = "none" /\ running' = "plain"
      /\ UNCHANGED <<slot, queue, after, waiting, closed, eof, decClose, utp, rxq, accepting,
                     facade, mux, ext, ops, rearmed, linked, ticking, frame, fault>>
  BY DEF OnSendTo, LibMay, handlerVars, implVars, ownerVars, ctxVars
<1> QED
  BY <1>1 DEF Bookkeeping, TypeOK, OpCountExact, CompletionOnce, Queued

LEMMA BookkeepingNext ==
  ASSUME Bookkeeping, Lifecycle, [Next]_vars
  PROVE  Bookkeeping'
<1>1. SendErrors \subseteq BOOLEAN /\ "bad" \in Codes /\ "ok" \in Codes
  BY DEF SendErrors, Codes
<1>2. \A s \in Sockets : <<s, "send">> \in Ops /\ <<s, "recv">> \in Ops
  BY DEF Ops, Kinds
<1>3. CASE UserNext
  <2>1. ASSUME NEW o \in Ops, Reject(o) PROVE Bookkeeping'
    BY <1>1, <2>1, UncountedStep DEF Reject, MayStart
  <2>2. ASSUME NEW s \in Sockets, ReadNothing(s) PROVE Bookkeeping'
    BY <1>1, <1>2, <2>2, UncountedStep DEF ReadNothing, MayStart
  <2>3. ASSUME NEW s \in Sockets, NEW err \in SendErrors, NEW done \in BOOLEAN,
               Write(s, done, err)
        PROVE  Bookkeeping'
    BY <1>1, <2>3, DoWriteStep DEF Write, MayStart
  <2> QED
    BY <1>1, <1>3, <2>1, <2>2, <2>3, QuietActionStep, AcceptStep, ReadStep, ConnectStep,
       CloseSocketStep
    DEF UserNext, QuietAction
<1>4. CASE LoopNext
  BY <1>4, QuietActionStep, EndHandlerStep, RunHandlerStep DEF LoopNext, QuietAction
<1>5. CASE LibNext
  <2>1. ASSUME NEW s \in Sockets, NEW err \in SendErrors, NEW done \in BOOLEAN,
               OnWritable(s, done, err)
        PROVE  Bookkeeping'
    BY <1>1, <2>1, DoWriteStep DEF OnWritable
  <2> QED
    BY <1>5, <2>1, OnSendToStep, SendFailsStep, OnAcceptStep, OnConnectStep, OnEofStep, OnErrorStep,
       OnDestroyStep, OnReceiveStep
    DEF LibNext
<1>6. CASE UNCHANGED vars
  BY <1>6 DEF Bookkeeping, TypeOK, OpCountExact, CompletionOnce, Queued, vars, handlerVars,
              implVars, ownerVars, ctxVars, stackVars
<1> QED
  BY <1>3, <1>4, <1>5, <1>6 DEF Next

-----------------------------------------------------------------------------

LEMMA LifecycleInit == Init => Lifecycle
BY DEF Init, Lifecycle, AssertedStates, CloseTracked

\* What close_with_error does to one socket and to one handler.
LEMMA CloseEffect ==
  ASSUME NEW C, NEW ec, NEW sl, NEW u, NEW f, NEW n, close_with_error(C, ec, sl, u, f, n)
  PROVE  /\ closed' = closed \cup C
         /\ \A o : o \in slot' <=> o \in sl /\ o[1] \notin C
         /\ \A s \in Sockets :
              LET shut == s \in C /\ u[s] # "none" /\ s \notin eof
              IN  /\ utp'[s] = IF shut THEN "closing" ELSE u[s]
                  /\ facade'[s] = IF shut /\ f[s] = "bound" THEN "detached" ELSE f[s]
                  /\ s \in decClose' <=> s \in decClose \/ shut
BY DEF close_with_error, abort_handlers, Detach

\* Lifecycle, for given handlers, connections and facades and without the
\* multiplexer's part.
Alive(sl, u, f) ==
    /\ \A s \in Sockets : u[s] = "syn_sent" => <<s, "connect">> \in sl
    /\ \A s \in Sockets : s \in decClose <=> u[s] = "closing"
    /\ \A s \in Sockets : f[s] = "bound" => u[s] # "closing"
    /\ \A s \in Sockets : f[s] = "unbound" => u[s] = "none"
    /\ \A s \in eof : /\ u[s] # "syn_sent"
                      /\ u[s] = "none" => f[s] \in {"detached", "released"}

LEMMA CloseAlive ==
  ASSUME Bookkeeping, NEW C \in SUBSET (Sockets \ closed), NEW ec, NEW sl \in SUBSET Ops,
         NEW u \in [Sockets -> UtpStates], NEW f \in [Sockets -> FacadeStates], NEW n,
         Alive(sl, u, f), eof' = eof,
         close_with_error(C, ec, sl, u, f, n)
  PROVE  Alive(slot, utp, facade)'
<1>1. /\ \A o : o \in slot' <=> o \in sl /\ o[1] \notin C
      /\ \A s \in Sockets :
              LET shut == s \in C /\ u[s] # "none" /\ s \notin eof
              IN  /\ utp'[s] = IF shut THEN "closing" ELSE u[s]
                  /\ facade'[s] = IF shut /\ f[s] = "bound" THEN "detached" ELSE f[s]
                  /\ s \in decClose' <=> s \in decClose \/ shut
  BY CloseEffect
<1>2. \A s \in Sockets : utp'[s] = "syn_sent" => <<s, "connect">> \in slot'
  <2> SUFFICES ASSUME NEW s \in Sockets, utp'[s] = "syn_sent"
               PROVE  <<s, "connect">> \in slot'
    OBVIOUS
  <2>1. u[s] = "syn_sent" /\ s \notin eof /\ s \notin C
    BY <1>1 DEF Alive
  <2> QED
    BY <1>1, <2>1 DEF Alive
<1>3. \A s \in Sockets : s \in decClose' <=> utp'[s] = "closing"
  BY <1>1 DEF Alive
<1>4. \A s \in Sockets : facade'[s] = "bound" => utp'[s] # "closing"
  BY <1>1 DEF Alive
<1>5. \A s \in Sockets : facade'[s] = "unbound" => utp'[s] = "none"
  BY <1>1 DEF Alive
<1>6. \A s \in eof' : /\ utp'[s] # "syn_sent"
                      /\ utp'[s] = "none" => facade'[s] \in {"detached", "released"}
  BY <1>1 DEF Alive, Bookkeeping, TypeOK
<1> QED
  BY <1>2, <1>3, <1>4, <1>5, <1>6 DEF Alive

\* The other parts of Lifecycle.
Queues ==
    /\ \A s \in Sockets : <<s, "recv">> \in slot => rxq[s] = 0
    /\ decClose \subseteq closed
    /\ \A i \in DOMAIN accepting : facade[accepting[i]] # "unbound"
    /\ mux = "expired" => \A s \in Sockets : facade[s] \notin {"bound", "detached"}

LEMMA AliveQueues ==
  /\ Lifecycle <=> Alive(slot, utp, facade) /\ Queues
  /\ Lifecycle' <=> Alive(slot, utp, facade)' /\ Queues'
BY DEF Lifecycle, Alive, Queues, AssertedStates, CloseTracked

\* A step that leaves the state Lifecycle is about alone, or only answers a
\* handler that is not a connect.
LEMMA StillLifecycle ==
  ASSUME Lifecycle, UNCHANGED <<closed, eof, decClose, utp, rxq, accepting, facade>>,
         \A s \in Sockets : <<s, "connect">> \in slot => <<s, "connect">> \in slot',
         \A s \in Sockets : <<s, "recv">> \in slot' => <<s, "recv">> \in slot,
         mux' = mux \/ mux' # "expired"
  PROVE  Lifecycle'
BY AliveQueues DEF Alive, Queues

LEMMA LifecycleFault ==
  ASSUME Lifecycle, NEW label, AssertFails(label)
  PROVE  Lifecycle'
BY StillLifecycle DEF AssertFails, handlerVars, implVars, ownerVars

LEMMA CloseQueues ==
  ASSUME Bookkeeping, Lifecycle, NEW C, NEW ec, NEW sl, NEW u, NEW f, NEW n,
         close_with_error(C, ec, sl, u, f, n),
         \A s \in Sockets : <<s, "recv">> \in sl => rxq'[s] = 0,
         \A s \in Sockets : f[s] = "unbound" => facade[s] = "unbound",
         accepting' = accepting,
         mux' = "expired" => \A s \in Sockets : facade'[s] \notin {"bound", "detached"}
  PROVE  Queues'
<1>1. /\ \A o : o \in slot' => o \in sl
      /\ \A s \in Sockets : facade'[s] = "unbound" => f[s] = "unbound"
  BY CloseEffect
<1>2. decClose' \subseteq closed'
  BY DEF close_with_error, abort_handlers, Bookkeeping
<1>3. \A i \in DOMAIN accepting : accepting[i] \in Sockets
  BY DEF Bookkeeping, TypeOK
<1> QED
  BY <1>1, <1>2, <1>3, AliveQueues DEF Queues

LEMMA LifecycleConnect ==
  ASSUME Bookkeeping, Lifecycle, NEW s \in Sockets, NEW err \in BOOLEAN, Connect(s, err)
  PROVE  Lifecycle'
<1> DEFINE o == <<s, "connect">>
           u == [utp EXCEPT ![s] = "syn_sent"]
           C == IF err THEN Registered \ closed ELSE {}
<1>1. CASE AssertFails("closed_handlers") \/ AssertFails("connect_utp")
  BY <1>1, LifecycleFault
<1>2. CASE ~(AssertFails("closed_handlers") \/ AssertFails("connect_utp"))
  <2>1. /\ facade[s] = "bound" /\ utp[s] = "none" /\ mux # "expired"
        /\ close_with_error(C, Code("io"), slot \cup {o}, u, facade, 1)
        /\ UNCHANGED <<eof, rxq, accepting, mux>>
    BY <1>2 DEF Connect, MayStart, UserMay, callback_sendto
  <2>2. /\ C \in SUBSET (Sockets \ closed) /\ slot \cup {o} \in SUBSET Ops
        /\ u \in [Sockets -> UtpStates] /\ facade \in [Sockets -> FacadeStates]
    BY DEF Registered, Ops, Kinds, UtpStates, Bookkeeping, TypeOK
  <2>3. Alive(slot \cup {o}, u, facade)
    BY <2>1, AliveQueues DEF Alive, Bookkeeping, TypeOK
  <2>4. \A x \in Sockets : <<x, "recv">> \in slot \cup {o} => rxq'[x] = 0
    BY <2>1, AliveQueues DEF Queues
  <2>5. Queues' /\ Alive(slot, utp, facade)'
    <3> HIDE DEF u, C, o
    <3> QED
      BY <2>1, <2>2, <2>3, <2>4, CloseAlive, CloseQueues
  <2> QED
    BY <2>5, AliveQueues
<1> QED
  BY <1>1, <1>2

LEMMA LifecycleWrite ==
  ASSUME Bookkeeping, Lifecycle, NEW s \in Sockets, NEW done \in BOOLEAN,
         NEW err \in BOOLEAN, NEW r, do_write(s, done, err, r), mux # "expired"
  PROVE  Lifecycle'
<1> DEFINE o == <<s, "send">>
           C == IF err THEN Registered \ closed ELSE {}
<1>1. CASE AssertFails("closed_handlers") \/ AssertFails("empty_post")
  BY <1>1, LifecycleFault
<1>2. CASE ~(AssertFails("closed_handlers") \/ AssertFails("empty_post"))
  <2>1. /\ IF done
           THEN /\ post_op(o, "ok")
                /\ UNCHANGED <<closed, decClose, utp, facade>>
           ELSE close_with_error(C, Code("io"), slot \cup {o}, utp, facade, 1)
        /\ UNCHANGED <<eof, rxq, accepting, mux>>
    BY <1>2 DEF do_write, callback_sendto
  <2>2. CASE done
    BY <2>1, <2>2, StillLifecycle DEF post_op
  <2>3. CASE ~done
    <3>1. close_with_error(C, Code("io"), slot \cup {o}, utp, facade, 1)
      BY <2>1, <2>3
    <3>2. /\ C \in SUBSET (Sockets \ closed) /\ slot \cup {o} \in SUBSET Ops
          /\ utp \in [Sockets -> UtpStates] /\ facade \in [Sockets -> FacadeStates]
      BY DEF Registered, Ops, Kinds, Bookkeeping, TypeOK
    <3>3. Alive(slot \cup {o}, utp, facade)
      BY AliveQueues DEF Alive
    <3>4. \A x \in Sockets : <<x, "recv">> \in slot \cup {o} => rxq'[x] = 0
      BY <2>1, AliveQueues DEF Queues
    <3>5. Queues' /\ Alive(slot, utp, facade)'
      <4> HIDE DEF C, o
      <4> QED
        BY <2>1, <3>1, <3>2, <3>3, <3>4, CloseAlive, CloseQueues
    <3> QED
      BY <3>5, AliveQueues
  <2> QED
    BY <2>2, <2>3
<1> QED
  BY <1>1, <1>2

LEMMA LifecycleRead ==
  ASSUME Bookkeeping, Lifecycle, NEW s \in Sockets, NEW left \in 0..MaxRx, Read(s, left)
  PROVE  Lifecycle'
<1> DEFINE o == <<s, "recv">>
           C == IF s \in eof THEN {s} ELSE {}
<1>1. /\ o \notin waiting /\ s \notin closed /\ left <= rxq[s] /\ mux # "expired"
      /\ rxq' = [rxq EXCEPT ![s] = left]
      /\ IF HasData(s)
         THEN /\ post_op(o, "ok")
              /\ UNCHANGED <<closed, decClose, utp, facade>>
         ELSE close_with_error(C, Code("reset"), slot \cup {o}, utp, facade, 1)
      /\ UNCHANGED <<eof, accepting, mux>>
  <2>1. o[1] = s /\ o[2] = "recv"
    OBVIOUS
  <2> QED
    BY <2>1 DEF Read, MayStart, UserMay, Rejected
<1>2. rxq \in [Sockets -> Nat] /\ left \in Nat /\ o \notin slot
  BY <1>1, BoundsAssumption DEF Bookkeeping, TypeOK, CompletionOnce
<1>3. CASE HasData(s)
  <2>1. slot' = slot \ {o} /\ UNCHANGED <<closed, decClose, utp, facade>>
    BY <1>1, <1>3 DEF post_op
  <2>2. Alive(slot, utp, facade)'
    BY <1>1, <2>1, AliveQueues DEF Alive
  <2>3. \A x \in Sockets : <<x, "recv">> \in slot' => rxq'[x] = 0
    BY <1>1, <1>2, <2>1, AliveQueues DEF Queues
  <2>4. Queues'
    BY <1>1, <2>1, <2>3, AliveQueues DEF Queues
  <2> QED
    BY <2>2, <2>4, AliveQueues
<1>4. CASE ~HasData(s)
  <2>1. close_with_error(C, Code("reset"), slot \cup {o}, utp, facade, 1)
    BY <1>1, <1>4
  <2>2. /\ C \in SUBSET (Sockets \ closed) /\ slot \cup {o} \in SUBSET Ops
        /\ utp \in [Sockets -> UtpStates] /\ facade \in [Sockets -> FacadeStates]
    BY <1>1 DEF Ops, Kinds, Bookkeeping, TypeOK
  <2>3. Alive(slot \cup {o}, utp, facade)
    BY AliveQueues DEF Alive
  <2>4. \A x \in Sockets : <<x, "recv">> \in slot \cup {o} => rxq'[x] = 0
    <3>1. left = 0
      BY <1>1, <1>2, <1>4 DEF HasData
    <3> QED
      BY <1>1, <1>2, <3>1, AliveQueues DEF Queues
  <2>5. Queues' /\ Alive(slot, utp, facade)'
    <3> HIDE DEF C, o
    <3> QED
      BY <1>1, <2>1, <2>2, <2>3, <2>4, CloseAlive, CloseQueues
  <2> QED
    BY <2>5, AliveQueues
<1> QED
  BY <1>3, <1>4

LEMMA LifecycleCloseSocket ==
  ASSUME Bookkeeping, Lifecycle, NEW s \in Sockets, NEW err \in BOOLEAN, CloseSocket(s, err)
  PROVE  Lifecycle'
<1> DEFINE others == IF err THEN Registered \ closed ELSE {}
           C  == ({s} \ closed) \cup others
           ec == [Code("io") EXCEPT ![s] = "aborted"]
           f  == [facade EXCEPT ![s] = "released"]
<1>1. CASE AssertFails("closed_handlers")
  BY <1>1, LifecycleFault
<1>2. CASE ~AssertFails("closed_handlers")
  <2>1. /\ close_with_error(C, ec, slot, utp, f, 0)
        /\ UNCHANGED <<eof, rxq, accepting>>
        /\ mux # "expired"
        /\ ReleaseMultiplexer
    BY <1>2 DEF CloseSocket, UserMay
  <2>2. /\ C \in SUBSET (Sockets \ closed) /\ slot \in SUBSET Ops
        /\ utp \in [Sockets -> UtpStates] /\ f \in [Sockets -> FacadeStates]
    BY DEF Registered, Bookkeeping, TypeOK, FacadeStates
  <2>3. Alive(slot, utp, f)
    BY AliveQueues DEF Alive, Bookkeeping, TypeOK
  <2>4. /\ \A x \in Sockets : <<x, "recv">> \in slot => rxq'[x] = 0
        /\ \A x \in Sockets : f[x] = "unbound" => facade[x] = "unbound"
    BY <2>1, AliveQueues DEF Queues, Bookkeeping, TypeOK
  <2>5. mux' = "expired" => \A x \in Sockets : facade'[x] \notin {"bound", "detached"}
    BY <2>1 DEF ReleaseMultiplexer, Held
  <2>6. Queues' /\ Alive(slot, utp, facade)'
    <3> HIDE DEF C, ec, f
    <3> QED
      BY <2>1, <2>2, <2>3, <2>4, <2>5, CloseAlive, CloseQueues
  <2> QED
    BY <2>6, AliveQueues
<1> QED
  BY <1>1, <1>2

LEMMA LifecycleSendFails ==
  ASSUME Bookkeeping, Lifecycle, SendFails
  PROVE  Lifecycle'
<1> DEFINE C == Registered \ closed
<1>1. CASE AssertFails("closed_handlers")
  BY <1>1, LifecycleFault
<1>2. CASE ~AssertFails("closed_handlers")
  <2>1. /\ close_with_error(C, Code("io"), slot, utp, facade, 0)
        /\ UNCHANGED <<eof, rxq, accepting, mux>>
        /\ mux # "expired"
    BY <1>2 DEF SendFails, LibMay, callback_sendto
  <2>2. /\ C \in SUBSET (Sockets \ closed) /\ slot \in SUBSET Ops
        /\ utp \in [Sockets -> UtpStates] /\ facade \in [Sockets -> FacadeStates]
    BY DEF Registered, Bookkeeping, TypeOK
  <2>3. Alive(slot, utp, facade) /\ Queues
    BY AliveQueues
  <2>4. Queues' /\ Alive(slot, utp, facade)'
    <3>1. \A x \in Sockets : <<x, "recv">> \in slot => rxq'[x] = 0
      BY <2>1, <2>3 DEF Queues
    <3> HIDE DEF C
    <3> QED
      BY <2>1, <2>2, <2>3, <3>1, CloseAlive, CloseQueues
  <2> QED
    BY <2>4, AliveQueues
<1> QED
  BY <1>1, <1>2

LEMMA LifecycleAccept ==
  ASSUME Bookkeeping, Lifecycle, NEW s \in Sockets, Accept(s)
  PROVE  Lifecycle'
<1>1. CASE AssertFails("accept_hook")
  BY <1>1, LifecycleFault
<1>2. CASE ~AssertFails("accept_hook")
  <2>1. /\ facade[s] = "bound"
        /\ accepting' = Append(accepting, s)
        /\ slot' = slot \cup {<<s, "accept">>}
        /\ UNCHANGED <<closed, eof, decClose, utp, rxq, facade, mux>>
    BY <1>2 DEF Accept, ownerVars
  <2>2. Alive(slot, utp, facade)'
    BY <2>1, AliveQueues DEF Alive
  <2>3. \A i \in DOMAIN accepting' : facade'[accepting'[i]] # "unbound"
    <3>1. accepting \in Seq(Sockets)
      BY DEF Bookkeeping, TypeOK
    <3> QED
      BY <2>1, <3>1, AliveQueues DEF Queues
  <2>4. Queues'
    BY <2>1, <2>3, AliveQueues DEF Queues
  <2> QED
    BY <2>2, <2>4, AliveQueues
<1> QED
  BY <1>1, <1>2

LEMMA LifecycleOnConnect ==
  ASSUME Bookkeeping, Lifecycle, NEW s \in Sockets, OnConnect(s)
  PROVE  Lifecycle'
<1>1. /\ utp[s] = "syn_sent"
      /\ utp' = [utp EXCEPT ![s] = "connected"]
      /\ slot' = slot \ {<<s, "connect">>}
      /\ UNCHANGED <<closed, eof, decClose, rxq, accepting, facade, mux>>
  BY DEF OnConnect, post_op, ownerVars
<1>2. Alive(slot, utp, facade)'
  BY <1>1, AliveQueues DEF Alive, Bookkeeping, TypeOK
<1>3. Queues'
  BY <1>1, AliveQueues DEF Queues
<1> QED
  BY <1>2, <1>3, AliveQueues

LEMMA LifecycleOnReceive ==
  ASSUME Bookkeeping, Lifecycle, NEW s \in Sockets, NEW left \in {0, 1}, OnReceive(s, left)
  PROVE  Lifecycle'
<1> DEFINE o == <<s, "recv">>
<1>1. /\ utp[s] \in {"syn_recv", "connected"}
      /\ s \notin eof
      /\ utp' = [utp EXCEPT ![s] = "connected"]
      /\ rxq' = [rxq EXCEPT ![s] = @ + left]
      /\ slot' = slot \ {o}
      /\ UNCHANGED <<closed, eof, decClose, accepting, facade, mux>>
  BY DEF OnReceive, post_op, ownerVars
<1>2. Alive(slot, utp, facade)'
  BY <1>1, AliveQueues DEF Alive, Bookkeeping, TypeOK
<1>3. \A x \in Sockets : <<x, "recv">> \in slot' => rxq'[x] = 0
  BY <1>1, AliveQueues DEF Queues, Bookkeeping, TypeOK
<1>4. Queues'
  BY <1>1, <1>3, AliveQueues DEF Queues
<1> QED
  BY <1>2, <1>4, AliveQueues

LEMMA LifecycleOnError ==
  ASSUME Bookkeeping, Lifecycle, NEW s \in Sockets, OnError(s)
  PROVE  Lifecycle'
<1>1. /\ utp[s] \in {"syn_sent", "syn_recv", "connected"}
      /\ utp' = [utp EXCEPT ![s] = "failed"]
      /\ UNCHANGED <<slot, closed, eof, decClose, rxq, accepting, facade, mux>>
  BY DEF OnError, handlerVars, ownerVars
<1>2. Alive(slot, utp, facade)'
  BY <1>1, AliveQueues DEF Alive, Bookkeeping, TypeOK
<1>3. Queues'
  BY <1>1, AliveQueues DEF Queues
<1> QED
  BY <1>2, <1>3, AliveQueues

LEMMA LifecycleOnEof ==
  ASSUME Bookkeeping, Lifecycle, NEW s \in Sockets, OnEof(s)
  PROVE  Lifecycle'
<1> DEFINE o == <<s, "recv">>
<1>1. /\ utp[s] \in {"syn_recv", "connected", "closing"}
      /\ eof' = eof \cup {s}
      /\ slot' = slot \ {o}
      /\ UNCHANGED <<closed, decClose, utp, rxq, accepting, facade, mux>>
  BY DEF OnEof, post_op, ownerVars
<1>2. Alive(slot, utp, facade)'
  BY <1>1, AliveQueues DEF Alive
<1>3. Queues'
  BY <1>1, AliveQueues DEF Queues
<1> QED
  BY <1>2, <1>3, AliveQueues

LEMMA LifecycleOnDestroy ==
  ASSUME Bookkeeping, Lifecycle, NEW s \in Sockets, OnDestroy(s)
  PROVE  Lifecycle'
<1>1. CASE AssertFails("closed_handlers")
  BY <1>1, LifecycleFault
<1>2. CASE ~AssertFails("closed_handlers")
  <2>1. /\ utp[s] = "closing" \/ (mux = "expired" /\ utp[s] # "none")
        /\ utp' = [utp EXCEPT ![s] = "none"]
        /\ decClose' = decClose \ {s}
        /\ abort_handlers({s} \ closed, Code("conn_aborted"), slot)
        /\ UNCHANGED <<eof, rxq, accepting, facade, mux>>
    BY <1>2 DEF OnDestroy, ownerVars
  <2>2. /\ \A o : o \in slot' => o \in slot
        /\ \A x \in Sockets : x # s /\ <<x, "connect">> \in slot => <<x, "connect">> \in slot'
        /\ closed \subseteq closed'
    BY <2>1 DEF abort_handlers
  <2>3. facade[s] \in {"detached", "released"}
    BY <2>1, AliveQueues DEF Alive, Queues, Bookkeeping, TypeOK, FacadeStates
  <2>4. Alive(slot, utp, facade)'
    BY <2>1, <2>2, <2>3, AliveQueues DEF Alive, Bookkeeping, TypeOK
  <2>5. Queues'
    BY <2>1, <2>2, AliveQueues DEF Queues
  <2> QED
    BY <2>4, <2>5, AliveQueues
<1> QED
  BY <1>1, <1>2

LEMMA LifecycleOnAccept ==
  ASSUME Bookkeeping, Lifecycle, NEW inline \in BOOLEAN, OnAccept(inline)
  PROVE  Lifecycle'
<1> DEFINE s == Head(accepting)
<1>1. CASE AssertFails("accept_utp") \/ AssertFails("accept_handler")
  BY <1>1, LifecycleFault
<1>2. CASE ~(AssertFails("accept_utp") \/ AssertFails("accept_handler"))
  <2>1. /\ accepting # <<>>
        /\ utp[s] = "none"
        /\ accepting' = Tail(accepting)
        /\ utp' = [utp EXCEPT ![s] = "syn_recv"]
        /\ slot' = slot \ {<<s, "accept">>}
        /\ UNCHANGED <<closed, eof, decClose, rxq, facade, mux>>
    BY <1>2 DEF OnAccept, PopAccepting, post_op, ownerVars
  <2>2. /\ s \in Sockets /\ facade[s] # "unbound"
        /\ \A i \in DOMAIN accepting' : facade'[accepting'[i]] # "unbound"
    <3>1. accepting \in Seq(Sockets)
      BY DEF Bookkeeping, TypeOK
    <3> QED
      BY <2>1, <3>1, AliveQueues DEF Queues
  <2> HIDE DEF s
  <2>3. Alive(slot, utp, facade)'
    BY <2>1, <2>2, AliveQueues DEF Alive, Bookkeeping, TypeOK
  <2>4. Queues'
    BY <2>1, <2>2, AliveQueues DEF Queues
  <2> QED
    BY <2>3, <2>4, AliveQueues
<1> QED
  BY <1>1, <1>2

LEMMA LifecycleQuiet ==
  ASSUME Bookkeeping, Lifecycle, QuietAction
  PROVE  Lifecycle'
<1>1. UNCHANGED <<slot, closed, eof, decClose, utp, rxq, accepting>>
  BY DEF QuietAction, BindMultiplexer, CloseMultiplexer, Datagram, EndOnRead, Tick, EndTick,
         EndDestroy, Bind, DestroySocket, handlerVars, implVars
<1>2. mux' = "expired" => \A s \in Sockets : facade'[s] \notin {"bound", "detached"}
  BY AliveQueues
  DEF Queues, QuietAction, BindMultiplexer, CloseMultiplexer, Datagram, EndOnRead, Tick, EndTick,
      EndDestroy, Bind, DestroySocket, ownerVars, ReleaseMultiplexer, Held
<1>3. \A s \in Sockets : /\ facade'[s] = "bound" => facade[s] \in {"unbound", "bound"}
                         /\ facade'[s] = "unbound" => facade[s] = "unbound"
                         /\ facade[s] \in {"detached", "released"}
                              => facade'[s] \in {"detached", "released"}
  BY DEF QuietAction, BindMultiplexer, CloseMultiplexer, Datagram, EndOnRead, Tick, EndTick,
         EndDestroy, Bind, DestroySocket, ownerVars, Bookkeeping, TypeOK
<1>4. \A i \in DOMAIN accepting : accepting[i] \in Sockets
  BY DEF Bookkeeping, TypeOK
<1>5. Alive(slot, utp, facade)'
  BY <1>1, <1>3, AliveQueues DEF Alive, Bookkeeping, TypeOK
<1>6. Queues'
  BY <1>1, <1>2, <1>3, <1>4, AliveQueues DEF Queues
<1> QED
  BY <1>5, <1>6, AliveQueues

LEMMA LifecycleNext ==
  ASSUME Bookkeeping, Lifecycle, [Next]_vars
  PROVE  Lifecycle'
<1>1. SendErrors \subseteq BOOLEAN
  BY DEF SendErrors
<1>2. CASE UserNext
  <2>1. ASSUME NEW o \in Ops, Reject(o) PROVE Lifecycle'
    BY <2>1, StillLifecycle DEF Reject, implVars, ownerVars
  <2>2. ASSUME NEW s \in Sockets, ReadNothing(s) PROVE Lifecycle'
    BY <2>2, StillLifecycle DEF ReadNothing, implVars, ownerVars
  <2>3. ASSUME NEW s \in Sockets, NEW err \in SendErrors, NEW done \in BOOLEAN,
               Write(s, done, err)
        PROVE  Lifecycle'
    BY <1>1, <2>3, LifecycleWrite DEF Write, MayStart, UserMay
  <2> QED
    BY <1>1, <1>2, <2>1, <2>2, <2>3, LifecycleQuiet, LifecycleAccept, LifecycleRead,
       LifecycleConnect, LifecycleCloseSocket
    DEF UserNext, QuietAction
<1>3. CASE LoopNext
  <2>1. ASSUME NEW o \in Ops, RunHandler(o) PROVE Lifecycle'
    BY <2>1, StillLifecycle DEF RunHandler, implVars, ownerVars
  <2>2. ASSUME EndHandler PROVE Lifecycle'
    BY <2>2, StillLifecycle, LifecycleFault DEF EndHandler, handlerVars, implVars, ownerVars
  <2> QED
    BY <1>3, <2>1, <2>2, LifecycleQuiet DEF LoopNext, QuietAction
<1>4. CASE LibNext
  <2>1. ASSUME NEW s \in Sockets, NEW err \in SendErrors, NEW done \in BOOLEAN,
               OnWritable(s, done, err)
        PROVE  Lifecycle'
    BY <1>1, <2>1, LifecycleWrite DEF OnWritable, LibMay
  <2>2. ASSUME OnSendTo PROVE Lifecycle'
    BY <2>2, StillLifecycle DEF OnSendTo, handlerVars, implVars, ownerVars
  <2> QED
    BY <1>4, <2>1, <2>2, LifecycleSendFails, LifecycleOnAccept, LifecycleOnConnect, LifecycleOnEof,
       LifecycleOnError, LifecycleOnDestroy, LifecycleOnReceive
    DEF LibNext
<1>5. CASE UNCHANGED vars
  BY <1>5, StillLifecycle DEF vars, handlerVars, implVars, ownerVars
<1> QED
  BY <1>2, <1>3, <1>4, <1>5 DEF Next

-----------------------------------------------------------------------------
(***************************************************************************)
(* Receiving while ops are outstanding.                                    *)
(***************************************************************************)

LEMMA LoopingInit == Init => Looping
BY DEF Init, Looping, ReceivingWhileOps, Held

\* The three facts ReceivingWhileOps states of a live multiplexer.
Armed ==
    /\ ticking <=> ops > 0
    /\ linked => ops > 0
    /\ frame # "on_read" /\ ops > 0 => linked

LEMMA IncrementArms ==
  ASSUME Bookkeeping, Armed, mux = "alive", NEW n \in Nat,
         increment_outstanding_ops(n), frame' = frame
  PROVE  Armed'
<1>1. ops \in Nat /\ linked \in BOOLEAN /\ ticking \in BOOLEAN /\ ops' = ops + n
  BY DEF Bookkeeping, TypeOK, increment_outstanding_ops
<1>2. CASE ops = 0 /\ n > 0
  BY <1>1, <1>2 DEF Armed, increment_outstanding_ops, start_receiving
<1>3. CASE ~(ops = 0 /\ n > 0)
  BY <1>1, <1>3 DEF Armed, increment_outstanding_ops
<1> QED
  BY <1>2, <1>3

LEMMA DecrementArms ==
  ASSUME Bookkeeping, Armed, mux = "alive", ops > 0,
         decrement_outstanding_ops, frame' = frame
  PROVE  Armed'
<1>1. ops \in Nat /\ linked \in BOOLEAN /\ ticking \in BOOLEAN /\ ops' = ops - 1
  BY DEF Bookkeeping, TypeOK, decrement_outstanding_ops
<1>2. CASE ops = 1
  BY <1>1, <1>2 DEF Armed, decrement_outstanding_ops, stop_receiving
<1>3. CASE ops # 1
  BY <1>1, <1>3 DEF Armed, decrement_outstanding_ops
<1> QED
  BY <1>2, <1>3

\* A step that keeps the multiplexer alive and leaves the context armed.
LEMMA ArmedLooping ==
  ASSUME Armed', mux' = "alive"
  PROVE  Looping'
BY DEF Looping, ReceivingWhileOps, Armed

\* A step that touches neither the context nor any owner.
LEMMA StillLooping ==
  ASSUME Looping, UNCHANGED <<ops, linked, ticking, frame, facade, mux, ext>>
  PROVE  Looping'
BY DEF Looping, ReceivingWhileOps, Held

LEMMA FaultLooping ==
  ASSUME Looping, NEW label, AssertFails(label)
  PROVE  Looping'
BY StillLooping DEF AssertFails, ownerVars, ctxVars, stackVars

\* close_with_error only increments.
LEMMA CloseArms ==
  ASSUME Bookkeeping, Armed, mux = "alive", NEW C \in SUBSET Sockets, NEW ec, NEW sl, NEW u,
         NEW f, NEW n \in Nat, close_with_error(C, ec, sl, u, f, n), frame' = frame
  PROVE  Armed'
<1> DEFINE shut == {s \in C : u[s] # "none" /\ s \notin eof}
<1>1. n + Cardinality(shut) \in Nat
  BY FS_Subset, FS_CardinalityType, SocketsAssumption
<1>2. increment_outstanding_ops(n + Cardinality(shut))
  BY DEF close_with_error
<1> QED
  BY <1>1, <1>2, IncrementArms

\* A bound socket and a library frame each keep the multiplexer alive.
LEMMA AliveArmed ==
  ASSUME Looping, mux = "alive" \/ frame # "idle" \/ (\E s \in Sockets : facade[s] = "bound")
  PROVE  mux = "alive" /\ Armed
BY DEF Looping, ReceivingWhileOps, Held, Armed

LEMMA LoopingWrite ==
  ASSUME Bookkeeping, Looping, NEW s \in Sockets, NEW done, NEW err, NEW r,
         do_write(s, done, err, r), mux = "alive"
  PROVE  Looping'
<1>1. CASE AssertFails("closed_handlers") \/ AssertFails("empty_post")
  BY <1>1, FaultLooping
<1>2. CASE ~(AssertFails("closed_handlers") \/ AssertFails("empty_post"))
  <2> DEFINE C == IF err THEN Registered \ closed ELSE {}
  <2>1. /\ \/ increment_outstanding_ops(1)
           \/ close_with_error(C, Code("io"), slot \cup {<<s, "send">>}, utp, facade, 1)
        /\ UNCHANGED <<mux, frame>>
    BY <1>2 DEF do_write, callback_sendto, stackVars
  <2>2. C \in SUBSET Sockets
    BY DEF Registered
  <2>3. Armed'
    <3> HIDE DEF C
    <3> QED
      BY <2>1, <2>2, AliveArmed, IncrementArms, CloseArms
  <2> QED
    BY <2>1, <2>3, ArmedLooping
<1> QED
  BY <1>1, <1>2

LEMMA LoopingConnect ==
  ASSUME Bookkeeping, Looping, NEW s \in Sockets, NEW err, Connect(s, err)
  PROVE  Looping'
<1>1. CASE AssertFails("closed_handlers") \/ AssertFails("connect_utp")
  BY <1>1, FaultLooping
<1>2. CASE ~(AssertFails("closed_handlers") \/ AssertFails("connect_utp"))
  <2> DEFINE C == IF err THEN Registered \ closed ELSE {}
  <2>1. /\ close_with_error(C, Code("io"), slot \cup {<<s, "connect">>},
                            [utp EXCEPT ![s] = "syn_sent"], facade, 1)
        /\ facade[s] = "bound"
        /\ UNCHANGED <<mux, frame>>
    BY <1>2 DEF Connect, callback_sendto, stackVars
  <2>2. C \in SUBSET Sockets
    BY DEF Registered
  <2>3. mux = "alive" /\ Armed
    BY <2>1, AliveArmed
  <2>4. Armed'
    <3> HIDE DEF C
    <3> QED
      BY <2>1, <2>2, <2>3, CloseArms
  <2> QED
    BY <2>1, <2>3, <2>4, ArmedLooping
<1> QED
  BY <1>1, <1>2

LEMMA LoopingRead ==
  ASSUME Bookkeeping, Looping, NEW s \in Sockets, NEW left, Read(s, left)
  PROVE  Looping'
<1> DEFINE C == IF s \in eof THEN {s} ELSE {}
           o == <<s, "recv">>
<1>1. /\ \/ increment_outstanding_ops(1)
         \/ close_with_error(C, Code("reset"), slot \cup {o}, utp, facade, 1)
      /\ facade[s] = "bound"
      /\ UNCHANGED <<mux, frame>>
  <2>1. o[1] = s
    OBVIOUS
  <2> QED
    BY <2>1 DEF Read, Rejected, stackVars
<1>2. mux = "alive" /\ Armed /\ C \in SUBSET Sockets
  BY <1>1, AliveArmed
<1>3. Armed'
  <2> HIDE DEF C, o
  <2> QED
    BY <1>1, <1>2, IncrementArms, CloseArms
<1> QED
  BY <1>1, <1>2, <1>3, ArmedLooping

LEMMA LoopingAccept ==
  ASSUME Bookkeeping, Looping, NEW s \in Sockets, Accept(s)
  PROVE  Looping'
<1>1. CASE AssertFails("accept_hook")
  BY <1>1, FaultLooping
<1>2. CASE ~AssertFails("accept_hook")
  <2>1. increment_outstanding_ops(1) /\ facade[s] = "bound" /\ UNCHANGED <<mux, frame>>
    BY <1>2 DEF Accept, ownerVars, stackVars
  <2> QED
    BY <2>1, AliveArmed, IncrementArms, ArmedLooping
<1> QED
  BY <1>1, <1>2

LEMMA LoopingCloseSocket ==
  ASSUME Bookkeeping, Looping, NEW s \in Sockets, NEW err, CloseSocket(s, err)
  PROVE  Looping'
<1>1. CASE AssertFails("closed_handlers")
  BY <1>1, FaultLooping
<1>2. CASE ~AssertFails("closed_handlers")
  <2> DEFINE C == ({s} \ closed) \cup (IF err THEN Registered \ closed ELSE {})
             ec == [Code("io") EXCEPT ![s] = "aborted"]
             f  == [facade EXCEPT ![s] = "released"]
  <2>1. /\ close_with_error(C, ec, slot, utp, f, 0)
        /\ facade[s] = "bound"
        /\ UNCHANGED <<ext, frame>>
        /\ ReleaseMultiplexer
    BY <1>2 DEF CloseSocket, stackVars
  <2>2. C \in SUBSET Sockets
    BY DEF Registered
  <2>3. mux = "alive" /\ Armed
    BY <2>1, AliveArmed
  <2>4. Armed'
    <3> HIDE DEF C, ec, f
    <3> QED
      BY <2>1, <2>2, <2>3, CloseArms
  <2>5. CASE mux' = "alive"
    BY <2>4, <2>5, ArmedLooping
  <2>6. CASE mux' # "alive"
    BY <2>1, <2>3, <2>6 DEF ReleaseMultiplexer, Looping, ReceivingWhileOps, Held
  <2> QED
    BY <2>5, <2>6
<1> QED
  BY <1>1, <1>2

LEMMA LoopingSendFails ==
  ASSUME Bookkeeping, Looping, SendFails
  PROVE  Looping'
<1>1. CASE AssertFails("closed_handlers")
  BY <1>1, FaultLooping
<1>2. CASE ~AssertFails("closed_handlers")
  <2>1. /\ close_with_error(Registered \ closed, Code("io"), slot, utp, facade, 0)
        /\ frame # "idle"
        /\ UNCHANGED <<mux, frame>>
    BY <1>2 DEF SendFails, LibMay, callback_sendto, stackVars
  <2>2. Registered \ closed \in SUBSET Sockets
    BY DEF Registered
  <2>3. mux = "alive" /\ Armed
    BY <2>1, AliveArmed
  <2> QED
    BY <2>1, <2>2, <2>3, CloseArms, ArmedLooping
<1> QED
  BY <1>1, <1>2

\* A decrement, wherever it comes from: it never happens before there is a
\* multiplexer, and afterwards there is nothing to keep armed.
LEMMA DecrementLooping ==
  ASSUME Bookkeeping, Looping, ops > 0, decrement_outstanding_ops,
         UNCHANGED <<frame, facade, mux, ext>>
  PROVE  Looping'
<1>1. CASE mux = "alive"
  BY <1>1, AliveArmed, DecrementArms, ArmedLooping
<1>2. CASE mux # "alive"
  <2>1. mux # "none"
    BY DEF Looping, Bookkeeping, TypeOK
  <2> QED
    BY <1>2, <2>1 DEF Looping, ReceivingWhileOps, Held
<1> QED
  BY <1>1, <1>2

LEMMA LoopingEndHandler ==
  ASSUME Bookkeeping, Looping, EndHandler
  PROVE  Looping'
<1>1. CASE AssertFails("freed_in_tick")
  BY <1>1, FaultLooping
<1>2. CASE ~AssertFails("freed_in_tick")
  <2>1. /\ UNCHANGED <<frame, facade, mux, ext>>
        /\ IF running = "counted" THEN decrement_outstanding_ops
                                  ELSE UNCHANGED <<ops, linked, ticking>>
    BY <1>2 DEF EndHandler, ownerVars
  <2>2. CASE running = "counted"
    BY <2>1, <2>2, CounterPositive, DecrementLooping
  <2>3. CASE running # "counted"
    BY <2>1, <2>3, StillLooping
  <2> QED
    BY <2>2, <2>3
<1> QED
  BY <1>1, <1>2

LEMMA LoopingOnDestroy ==
  ASSUME Bookkeeping, Looping, NEW s \in Sockets, OnDestroy(s)
  PROVE  Looping'
<1>1. CASE AssertFails("closed_handlers")
  BY <1>1, FaultLooping
<1>2. CASE ~AssertFails("closed_handlers")
  <2>1. /\ IF s \in decClose THEN decrement_outstanding_ops
                             ELSE UNCHANGED <<ops, linked, ticking>>
        /\ UNCHANGED <<frame, facade, mux, ext>>
    BY <1>2 DEF OnDestroy, ownerVars, stackVars
  <2>2. CASE s \in decClose
    BY <2>1, <2>2, CounterPositive, DecrementLooping
  <2>3. CASE s \notin decClose
    BY <2>1, <2>3, StillLooping
  <2> QED
    BY <2>2, <2>3
<1> QED
  BY <1>1, <1>2

LEMMA LoopingQuiet ==
  ASSUME Bookkeeping, Looping, QuietAction
  PROVE  Looping'
<1>1. ops \in Nat /\ ops' = ops
  BY DEF Bookkeeping, TypeOK, QuietAction, BindMultiplexer, CloseMultiplexer, Datagram, EndOnRead,
         Tick, EndTick, EndDestroy, Bind, DestroySocket, ctxVars
<1>2. ASSUME BindMultiplexer \/ \E s \in Sockets : Bind(s) PROVE Looping'
  <2>1. /\ mux \in {"none", "alive"} /\ mux' = "alive"
        /\ UNCHANGED <<ops, linked, ticking, frame>>
    BY <1>2 DEF BindMultiplexer, Bind, ctxVars, stackVars
  <2> QED
    BY <2>1, <1>1 DEF Looping, ReceivingWhileOps
<1>3. ASSUME CloseMultiplexer \/ \E s \in Sockets : DestroySocket(s) PROVE Looping'
  <2>1. /\ mux = "alive"
        /\ UNCHANGED <<ops, linked, ticking, frame>>
        /\ ReleaseMultiplexer
    BY <1>3 DEF CloseMultiplexer, DestroySocket, ctxVars, stackVars, Looping, Held
  <2> QED
    BY <2>1 DEF Looping, ReceivingWhileOps, ReleaseMultiplexer, Held
<1>4. ASSUME Datagram PROVE Looping'
  BY <1>4 DEF Datagram, Looping, ReceivingWhileOps, ownerVars
<1>5. ASSUME Tick \/ EndTick PROVE Looping'
  BY <1>5, <1>1 DEF Tick, EndTick, LibMay, LoopMay, Looping, ReceivingWhileOps, ownerVars, ctxVars, Held
<1>6. ASSUME EndDestroy PROVE Looping'
  BY <1>6 DEF EndDestroy, Looping, ReceivingWhileOps, Held, stackVars
<1>7. ASSUME EndOnRead PROVE Looping'
  <2>1. /\ mux = "alive" /\ frame' = "idle" /\ ext' = ext /\ facade' = facade
        /\ ReleaseMultiplexer
        /\ IF ops > 0 THEN linked' = TRUE /\ ticking' = TRUE ELSE UNCHANGED <<linked, ticking>>
    BY <1>7 DEF EndOnRead, LibMay, Looping, start_receiving
  <2>2. Armed'
    BY <2>1, <1>1 DEF Armed, Looping, ReceivingWhileOps
  <2>3. CASE mux' = "alive"
    BY <2>2, <2>3, ArmedLooping
  <2>4. CASE mux' # "alive"
    BY <2>1, <2>4 DEF ReleaseMultiplexer, Looping, ReceivingWhileOps, Held
  <2> QED
    BY <2>3, <2>4
<1> QED
  BY <1>2, <1>3, <1>4, <1>5, <1>6, <1>7 DEF QuietAction

LEMMA LoopingNext ==
  ASSUME Bookkeeping, Looping, [Next]_vars
  PROVE  Looping'
<1>1. CASE UserNext
  <2>1. ASSUME NEW o \in Ops, Reject(o) PROVE Looping'
    BY <2>1, StillLooping DEF Reject, ownerVars, ctxVars, stackVars
  <2>2. ASSUME NEW s \in Sockets, ReadNothing(s) PROVE Looping'
    BY <2>2, StillLooping DEF ReadNothing, ownerVars, ctxVars, stackVars
  <2>3. ASSUME NEW s \in Sockets, NEW err \in SendErrors, NEW done \in BOOLEAN,
               Write(s, done, err)
        PROVE  Looping'
    <3>1. facade[s] = "bound"
      <4>1. <<s, "send">>[1] = s
        OBVIOUS
      <4> QED
        BY <2>3, <4>1 DEF Write, Rejected
    <3> QED
      BY <2>3, <3>1, AliveArmed, LoopingWrite DEF Write
  <2> QED
    BY <1>1, <2>1, <2>2, <2>3, LoopingQuiet, LoopingAccept, LoopingRead, LoopingConnect,
       LoopingCloseSocket
    DEF UserNext, QuietAction
<1>2. CASE LoopNext
  <2>1. ASSUME NEW o \in Ops, RunHandler(o) PROVE Looping'
    BY <2>1, StillLooping DEF RunHandler, ownerVars, ctxVars
  <2> QED
    BY <1>2, <2>1, LoopingEndHandler, LoopingQuiet DEF LoopNext, QuietAction
<1>3. CASE LibNext
  <2>1. ASSUME NEW s \in Sockets, NEW err \in SendErrors, NEW done \in BOOLEAN,
               OnWritable(s, done, err)
        PROVE  Looping'
    BY <2>1, AliveArmed, LoopingWrite DEF OnWritable, LibMay
  <2>2. ASSUME NEW s \in Sockets,
               \/ OnConnect(s) \/ OnEof(s) \/ OnError(s)
               \/ \E left \in {0, 1} : OnReceive(s, left)
        PROVE  Looping'
    BY <2>2, StillLooping DEF OnConnect, OnEof, OnError, OnReceive, ownerVars, ctxVars, stackVars
  <2>3. ASSUME NEW inline \in BOOLEAN, OnAccept(inline) PROVE Looping'
    BY <2>3, StillLooping, FaultLooping DEF OnAccept, ownerVars, ctxVars
  <2>4. ASSUME OnSendTo PROVE Looping'
    BY <2>4, StillLooping DEF OnSendTo, ownerVars, ctxVars
  <2> QED
    BY <1>3, <2>1, <2>2, <2>3, <2>4, LoopingSendFails, LoopingOnDestroy DEF LibNext
<1>4. CASE UNCHANGED vars
  BY <1>4, StillLooping DEF vars, ownerVars, ctxVars, stackVars
<1> QED
  BY <1>1, <1>2, <1>3, <1>4 DEF Next

-----------------------------------------------------------------------------
(***************************************************************************)
(* The theorems.                                                           *)
(***************************************************************************)

\* The inductive invariant of the socket layer.
THEOREM Invariance == Spec => [](Bookkeeping /\ Lifecycle /\ Looping)
<1>1. Init => Bookkeeping /\ Lifecycle /\ Looping
  BY BookkeepingInit, LifecycleInit, LoopingInit
<1>2. Bookkeeping /\ Lifecycle /\ Looping /\ [Next]_vars => (Bookkeeping /\ Lifecycle /\ Looping)'
  BY BookkeepingNext, LifecycleNext, LoopingNext
<1> QED
  BY <1>1, <1>2, PTL DEF Spec

\* Every variable keeps its type; in particular the unsigned counter
\* _outstanding_op_count is never decremented below zero.
THEOREM TypeCorrect == Spec => []TypeOK
<1>1. Bookkeeping => TypeOK
  BY DEF Bookkeeping
<1> QED
  BY <1>1, Invariance, PTL

\* For any number of sockets, no completion handler is lost or called twice.
THEOREM NoCompletionLost == Spec => []CompletionOnce
<1>1. Bookkeeping => CompletionOnce
  BY DEF Bookkeeping
<1> QED
  BY <1>1, Invariance, PTL

\* The op counter counts closures, closes and re-armed writes exactly.
THEOREM CounterExact == Spec => []OpCountExact
<1>1. Bookkeeping => OpCountExact
  BY DEF Bookkeeping
<1> QED
  BY <1>1, Invariance, PTL

\* The context receives and ticks while, and only while, an op is outstanding.
THEOREM NoLostWakeup == Spec => []ReceivingWhileOps
<1>1. Looping => ReceivingWhileOps
  BY DEF Looping
<1> QED
  BY <1>1, Invariance, PTL

\* A connection that is closing is counted and out of the client's reach.
THEOREM ClosesTracked == Spec => []CloseTracked
<1>1. Lifecycle => CloseTracked
  BY DEF Lifecycle
<1> QED
  BY <1>1, Invariance, PTL

\* The assertions of on_receive and close_with_error hold, and on_connect
\* always finds its handler.
THEOREM AssertionsHold == Spec => []AssertedStates
<1>1. Lifecycle => AssertedStates
  BY DEF Lifecycle
<1> QED
  BY <1>1, Invariance, PTL

=============================================================================
