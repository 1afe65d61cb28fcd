------------------------- MODULE ReceiveLoop_proof -------------------------
EXTENDS ReceiveLoop, TLAPS

(***************************************************************************)
(* The inductive invariant: the checked invariants, and who can be around  *)
(* at which time of the multiplexer's life.  Without Lifetimes the         *)
(* invariants about a live multiplexer say nothing of the step that        *)
(* creates it, nor about a flush that outlives its owners.                 *)
(***************************************************************************)

Lifetimes ==
    /\ bound = open
    /\ rx \subseteq open
    /\ tx \subseteq open
    /\ list \cap flushing = {}
    /\ flushing # {} => frame \in {"flush", "on_read"}
    /\ mux = "alive" => (running <=> want)
    /\ mux # "alive" => open = {} /\ ~held /\ flushing = {} /\ frame = "idle"
    /\ mux = "none" => /\ list = {} /\ ~receiving /\ io = "none"
                       /\ ~want /\ ~running
                       /\ \A u \in Users : sends[u] = "none"
    /\ mux = "dead" => ~running

IInv ==
    /\ TypeOK
    /\ OneReceive
    /\ ReceivingForSomebody
    /\ WaitersLinked
    /\ TickerArmed
    /\ NothingAfterDestroy
    /\ Lifetimes

LEMMA InitIInv == Init => IInv
BY DEF Init, IInv, TypeOK, OneReceive, ReceivingForSomebody, WaitersLinked, TickerArmed,
       NothingAfterDestroy, Lifetimes, Linked, Entries

USE DEF loopVars, userVars, tickerVars

\* The client's and the context's calls.
LEMMA ClientStep ==
  ASSUME IInv, ClientNext
  PROVE  IInv'
<1> USE CtxAssumption DEF IInv, TypeOK, Entries, Linked
<1>1. ASSUME StartOps PROVE IInv'
  BY <1>1 DEF StartOps, start_receiving, ticker_start, register_recv_handler, Live,
       OneReceive, ReceivingForSomebody, WaitersLinked, TickerArmed, NothingAfterDestroy, Lifetimes
<1>2. ASSUME StopOps PROVE IInv'
  BY <1>2 DEF StopOps, ticker_stop, unlink, on_recv_entry_unlinked, Live,
       OneReceive, ReceivingForSomebody, WaitersLinked, TickerArmed, NothingAfterDestroy, Lifetimes
<1>3. ASSUME BindSocket PROVE IInv'
  BY <1>3 DEF BindSocket, UserMay, Live,
       OneReceive, ReceivingForSomebody, WaitersLinked, TickerArmed, NothingAfterDestroy, Lifetimes
<1>4. ASSUME ReleaseSockets PROVE IInv'
  BY <1>4 DEF ReleaseSockets, ReleaseImpl, Held, UserMay, Live,
       OneReceive, ReceivingForSomebody, WaitersLinked, TickerArmed, NothingAfterDestroy, Lifetimes
<1>5. ASSUME NEW u \in Users, Bind(u) PROVE IInv'
  BY <1>5 DEF Bind, StateLive, UserMay, Live,
       OneReceive, ReceivingForSomebody, WaitersLinked, TickerArmed, NothingAfterDestroy, Lifetimes
<1>6. ASSUME NEW u \in Users, Receive(u) PROVE IInv'
  BY <1>6 DEF Receive, register_recv_handler, UserMay, Live,
       OneReceive, ReceivingForSomebody, WaitersLinked, TickerArmed, NothingAfterDestroy, Lifetimes
<1>7. ASSUME NEW u \in Users, Send(u) PROVE IInv'
  BY <1>7 DEF Send, UserMay, Live,
       OneReceive, ReceivingForSomebody, WaitersLinked, TickerArmed, NothingAfterDestroy, Lifetimes
<1>8. ASSUME NEW u \in Users, Close(u) PROVE IInv'
  BY <1>8 DEF Close, ClearEntry, ReleaseImpl, Held, unlink, on_recv_entry_unlinked, UserMay, Live,
       OneReceive, ReceivingForSomebody, WaitersLinked, TickerArmed, NothingAfterDestroy, Lifetimes
<1> QED
  BY <1>1, <1>2, <1>3, <1>4, <1>5, <1>6, <1>7, <1>8 DEF ClientNext

\* What io_context runs.
LEMMA LoopStep ==
  ASSUME IInv, LoopNext
  PROVE  IInv'
<1> USE CtxAssumption DEF IInv, TypeOK, Entries, Linked
<1>1. ASSUME OnCanceled PROVE IInv'
  BY <1>1 DEF OnCanceled, Continue, LoopMay, Live,
       OneReceive, ReceivingForSomebody, WaitersLinked, TickerArmed, NothingAfterDestroy, Lifetimes
<1>2. ASSUME OnReceived PROVE IInv'
  BY <1>2 DEF OnReceived, LoopMay, Live,
       OneReceive, ReceivingForSomebody, WaitersLinked, TickerArmed, NothingAfterDestroy, Lifetimes
<1>3. ASSUME OnOrphaned PROVE IInv'
  BY <1>3 DEF OnOrphaned, LoopMay, Live,
       OneReceive, ReceivingForSomebody, WaitersLinked, TickerArmed, NothingAfterDestroy, Lifetimes
<1>4. ASSUME OnTimer PROVE IInv'
  <2>1. CASE running /\ mux = "alive"
    <3>1. running' = TRUE /\ frame' = "tick" /\ timer' = "off" /\ frame = "idle"
      BY <1>4, <2>1 DEF OnTimer, LoopMay
    <3> QED
      BY <1>4, <2>1, <3>1 DEF OnTimer, OneReceive, ReceivingForSomebody, WaitersLinked,
         TickerArmed, NothingAfterDestroy, Lifetimes
  <2>2. CASE ~(running /\ mux = "alive")
    <3>1. running' = FALSE /\ frame' = "idle" /\ timer' = "off" /\ frame = "idle"
      BY <1>4, <2>2 DEF OnTimer, LoopMay
    <3> QED
      BY <1>4, <2>2, <3>1 DEF OnTimer, OneReceive, ReceivingForSomebody, WaitersLinked,
         TickerArmed, NothingAfterDestroy, Lifetimes
  <2> QED
    BY <2>1, <2>2
<1>5. ASSUME FlushContext PROVE IInv'
  BY <1>5 DEF FlushContext, Live,
       OneReceive, ReceivingForSomebody, WaitersLinked, TickerArmed, NothingAfterDestroy, Lifetimes
<1>6. ASSUME EndOnRead PROVE IInv'
  BY <1>6 DEF EndOnRead, start_receiving, ticker_start, register_recv_handler, Live,
       OneReceive, ReceivingForSomebody, WaitersLinked, TickerArmed, NothingAfterDestroy, Lifetimes
<1>7. ASSUME EndFlush PROVE IInv'
  BY <1>7 DEF EndFlush, Continue, ReleaseImpl, Held, Live,
       OneReceive, ReceivingForSomebody, WaitersLinked, TickerArmed, NothingAfterDestroy, Lifetimes
<1>8. ASSUME EndTick PROVE IInv'
  BY <1>8 DEF EndTick, Held, Live,
       OneReceive, ReceivingForSomebody, WaitersLinked, TickerArmed, NothingAfterDestroy, Lifetimes
<1>9. ASSUME Destroy PROVE IInv'
  BY <1>9 DEF Destroy, ticker_stop,
       OneReceive, ReceivingForSomebody, WaitersLinked, TickerArmed, NothingAfterDestroy, Lifetimes
<1>10. ASSUME NEW u \in Users, FlushUser(u) PROVE IInv'
  <2>1. /\ flushing' = flushing \ {u}
        /\ frame = "flush" /\ mux = "alive"
        /\ UNCHANGED <<list, receiving, io, frame, open, bound, tx, sends, want, held,
                        running, timer, mux>>
    BY <1>10 DEF FlushUser, Live, Lifetimes
  <2>2. CASE u \in bound
    <3>1. rx' = rx \ {u} /\ fault' = fault
      BY <1>10, <2>2 DEF FlushUser
    <3>2. u \in flushing /\ u \notin list /\ u # Ctx
      BY <1>10 DEF FlushUser, Lifetimes
    <3>3. WaitersLinked'
      BY <2>1, <3>1, <3>2 DEF WaitersLinked, Lifetimes
    <3>4. TypeOK' /\ Lifetimes'
      BY <2>1, <3>1 DEF Lifetimes
    <3> QED
      BY <2>1, <3>3, <3>4
      DEF OneReceive, ReceivingForSomebody, TickerArmed, NothingAfterDestroy
  <2>3. CASE u \notin bound
    <3>1. rx' = rx /\ fault' = "recv_handler"
      BY <1>10, <2>3 DEF FlushUser
    <3> QED
      BY <2>1, <2>3, <3>1 DEF OneReceive, ReceivingForSomebody, WaitersLinked, TickerArmed,
         NothingAfterDestroy, Lifetimes
  <2> QED
    BY <2>2, <2>3
<1>11. ASSUME NEW u \in Users, OnSent(u) PROVE IInv'
  BY <1>11 DEF OnSent, unlink, on_recv_entry_unlinked, LoopMay, Live,
       OneReceive, ReceivingForSomebody, WaitersLinked, TickerArmed, NothingAfterDestroy, Lifetimes
<1> QED
  BY <1>1, <1>2, <1>3, <1>4, <1>5, <1>6, <1>7, <1>8, <1>9, <1>10, <1>11 DEF LoopNext

\* The kernel's steps.
LEMMA KernelStep ==
  ASSUME IInv, KernelNext
  PROVE  IInv'
<1> USE CtxAssumption DEF IInv, TypeOK, Entries, Linked
<1>1. ASSUME Arrive PROVE IInv'
  BY <1>1 DEF Arrive,
       OneReceive, ReceivingForSomebody, WaitersLinked, TickerArmed, NothingAfterDestroy, Lifetimes
<1>2. ASSUME TimerExpires PROVE IInv'
  BY <1>2 DEF TimerExpires,
       OneReceive, ReceivingForSomebody, WaitersLinked, TickerArmed, NothingAfterDestroy, Lifetimes
<1>3. ASSUME NEW u \in Users, Depart(u) PROVE IInv'
  BY <1>3 DEF Depart,
       OneReceive, ReceivingForSomebody, WaitersLinked, TickerArmed, NothingAfterDestroy, Lifetimes
<1> QED
  BY <1>1, <1>2, <1>3 DEF KernelNext

-----------------------------------------------------------------------------
(***************************************************************************)
(* The theorems.                                                           *)
(***************************************************************************)

\* The inductive invariant of the receive loop.
THEOREM Invariance == Spec => []IInv
<1>1. IInv /\ [Next]_vars => IInv'
  <2> SUFFICES ASSUME IInv, [Next]_vars PROVE IInv'
    OBVIOUS
  <2>1. CASE UNCHANGED vars
    BY <2>1 DEF vars, IInv, TypeOK, Entries, Linked, OneReceive, ReceivingForSomebody,
       WaitersLinked, TickerArmed, NothingAfterDestroy, Lifetimes
  <2> QED
    BY <2>1, ClientStep, LoopStep, KernelStep DEF Next
<1> QED
  BY <1>1, InitIInv, PTL DEF Spec

\* For any number of udp_multiplexers, _is_receiving is set exactly while a
\* receive is in flight or being handed out, so neither assertion of
\* start_receiving can fail.
THEOREM OneReceiveAtATime == Spec => []OneReceive
<1>1. IInv => OneReceive
  BY DEF IInv
<1> QED
  BY <1>1, Invariance, PTL

\* For any number of udp_multiplexers, nobody waits in the list while the loop
\* sleeps, and the loop does not wait for nobody.
THEOREM NoLostWakeup == Spec => []ReceivingForSomebody
<1>1. IInv => ReceivingForSomebody
  BY DEF IInv
<1> QED
  BY <1>1, Invariance, PTL

\* Whoever waits for a datagram is in a list, and nobody else is but the
\* entries that a send keeps alive.
THEOREM WaitersKnown == Spec => []WaitersLinked
<1>1. IInv => WaitersLinked
  BY DEF IInv
<1> QED
  BY <1>1, Invariance, PTL

\* The ticker never runs without a wait, nor waits without running.
THEOREM TickerNeverStalls == Spec => []TickerArmed
<1>1. IInv => TickerArmed
  BY DEF IInv
<1> QED
  BY <1>1, Invariance, PTL

\* A destroyed multiplexer leaves no operation pending and no handler
\* unanswered.
THEOREM DestructionComplete == Spec => []NothingAfterDestroy
<1>1. IInv => NothingAfterDestroy
  BY DEF IInv
<1> QED
  BY <1>1, Invariance, PTL

\* The receive loop and the ticker implement the contract of ContextLoop.
THEOREM Refinement == Spec => ContractKept
<1>1. Init => Contract!Init
  BY DEF Init, Contract!Init, Linked
<1>2. IInv /\ [Next]_vars => [Contract!Next]_Contract!vars
  <2> SUFFICES ASSUME IInv, [Next]_vars PROVE [Contract!Next]_Contract!vars
    OBVIOUS
  <2> USE CtxAssumption DEF IInv, TypeOK, Entries, Linked, Lifetimes, Contract!Next
  <2>1. ASSUME StartOps PROVE [Contract!Next]_Contract!vars
    BY <2>1 DEF Contract!StartOps, Contract!MayRelease, StartOps, start_receiving, ticker_start, register_recv_handler, Live
  <2>2. ASSUME StopOps PROVE [Contract!Next]_Contract!vars
    BY <2>2 DEF Contract!StopOps, Contract!MayRelease, StopOps, ticker_stop, unlink, Live
  <2>3. ASSUME BindSocket PROVE [Contract!Next]_Contract!vars
    BY <2>3 DEF Contract!Create, Contract!vars, BindSocket, UserMay, Live
  <2>4. ASSUME ReleaseSockets PROVE [Contract!Next]_Contract!vars
    BY <2>4 DEF Contract!Expire, Contract!vars, ReleaseSockets, ReleaseImpl, Held, UserMay, Live
  <2>5. ASSUME NEW u \in Users, Bind(u) PROVE [Contract!Next]_Contract!vars
    BY <2>5 DEF Contract!Create, Contract!vars, Bind, UserMay, Live
  <2>6. ASSUME NEW u \in Users, Receive(u) PROVE [Contract!Next]_Contract!vars
    BY <2>6 DEF Contract!vars, Receive, register_recv_handler
  <2>7. ASSUME NEW u \in Users, Send(u) PROVE [Contract!Next]_Contract!vars
    BY <2>7 DEF Contract!vars, Send
  <2>8. ASSUME NEW u \in Users, Close(u) PROVE [Contract!Next]_Contract!vars
    BY <2>8 DEF Contract!Expire, Contract!vars, Close, ReleaseImpl, Held, unlink, UserMay, Live
  <2>9. ASSUME OnCanceled PROVE [Contract!Next]_Contract!vars
    BY <2>9 DEF Contract!vars, OnCanceled
  <2>10. ASSUME OnReceived PROVE [Contract!Next]_Contract!vars
    BY <2>10 DEF Contract!vars, OnReceived, LoopMay
  <2>11. ASSUME OnOrphaned PROVE [Contract!Next]_Contract!vars
    BY <2>11 DEF Contract!vars, OnOrphaned
  <2>12. ASSUME OnTimer PROVE [Contract!Next]_Contract!vars
    <3>1. CASE running /\ mux = "alive"
      <4>1. running' = TRUE /\ frame' = "tick" /\ frame = "idle"
        BY <2>12, <3>1 DEF OnTimer, LoopMay
      <4> QED
        BY <2>12, <3>1, <4>1 DEF Contract!Tick, OnTimer
    <3>2. CASE ~(running /\ mux = "alive")
      <4>1. running' = FALSE /\ frame' = "idle" /\ frame = "idle" /\ mux # "expired"
        BY <2>12, <3>2 DEF OnTimer, LoopMay, Live
      <4> QED
        BY <2>12, <3>2, <4>1 DEF Contract!vars, OnTimer
    <3> QED
      BY <3>1, <3>2
  <2>13. ASSUME FlushContext PROVE [Contract!Next]_Contract!vars
    BY <2>13 DEF Contract!Datagram, FlushContext, Live
  <2>14. ASSUME EndOnRead PROVE [Contract!Next]_Contract!vars
    BY <2>14 DEF Contract!EndOnRead, Contract!MayRelease, EndOnRead, start_receiving, ticker_start, register_recv_handler
  <2>15. ASSUME EndFlush PROVE [Contract!Next]_Contract!vars
    BY <2>15 DEF Contract!Expire, Contract!vars, EndFlush, ReleaseImpl, Held
  <2>16. ASSUME EndTick PROVE [Contract!Next]_Contract!vars
    BY <2>16 DEF Contract!EndTick, Contract!vars, EndTick
  <2>17. ASSUME Destroy PROVE [Contract!Next]_Contract!vars
    BY <2>17 DEF Contract!Destroyed, Destroy, ticker_stop
  <2>18. ASSUME NEW u \in Users, FlushUser(u) PROVE [Contract!Next]_Contract!vars
    BY <2>18 DEF Contract!vars, FlushUser
  <2>19. ASSUME NEW u \in Users, OnSent(u) PROVE [Contract!Next]_Contract!vars
    BY <2>19 DEF Contract!vars, OnSent, unlink
  <2>20. ASSUME Arrive \/ TimerExpires \/ \E u \in Users : Depart(u) PROVE [Contract!Next]_Contract!vars
    BY <2>20 DEF Contract!vars, Arrive, TimerExpires, Depart
  <2>21. ASSUME UNCHANGED vars PROVE [Contract!Next]_Contract!vars
    BY <2>21 DEF Contract!vars, vars
  <2> QED
    BY <2>1, <2>2, <2>3, <2>4, <2>5, <2>6, <2>7, <2>8, <2>9, <2>10, <2>11, <2>12, <2>13, <2>14, <2>15, <2>16, <2>17, <2>18, <2>19, <2>20, <2>21
       DEF Next, ClientNext, LoopNext, KernelNext
<1> QED
  BY <1>1, <1>2, Invariance, PTL DEF Spec, ContractKept, Contract!Spec

=============================================================================
