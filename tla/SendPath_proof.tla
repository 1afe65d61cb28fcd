--------------------------- MODULE SendPath_proof ---------------------------
EXTENDS SendPath, TLAPS

(***************************************************************************)
(* The inductive invariant.  Reachable says who can lead to a state, for   *)
(* every client; OneSendPerState, for a client that makes one send at a    *)
(* time, that the three places a send is kept in agree as long as its      *)
(* operation is in flight: whatever the slots of the signal do meanwhile,  *)
(* the memory of the state cannot be given to another object.              *)
(***************************************************************************)

Reachable ==
    /\ attached = {state[u] : u \in Users} \ {Nil}
    /\ \A u, v \in Users : state[u] = state[v] /\ state[u] # Nil => u = v
    /\ orphans \subseteq InFlight
    /\ emitting # None => /\ emitting.of \in InFlight
                          /\ emitting.code # "none"

OneSendPerState ==
    /\ \A s \in States : txh[s] # Nil => s \in attached /\ flight[txh[s]] = s
    /\ \A x \in InFlight : txbuf[flight[x]] = x
    /\ \A x \in InFlight : flight[x] \in attached => txh[flight[x]] = x
    /\ \A x \in InFlight : {queue[x], answered[x]} \subseteq {None, Aborted}
    /\ \A x \in InFlight : txh[flight[x]] = x <=> queue[x] = None /\ answered[x] = None
    /\ \A x \in Sends : queue[x] = None \/ answered[x] = None
    /\ \A x \in Sends : queue[x].of \in {Nil, x} /\ answered[x].of \in {Nil, x}

IInv ==
    /\ TypeOK
    /\ Reachable
    /\ OneAtATime => OneSendPerState

-----------------------------------------------------------------------------
(***************************************************************************)
(* Results, and the parts actions are made of.                             *)
(***************************************************************************)

LEMMA ResultFacts ==
  /\ None \in Results /\ Aborted \in Results /\ None # Aborted
  /\ None.of = Nil /\ Aborted.of = Nil
  /\ \A x \in Sends, code \in {"ok", "error", "aborted"} :
       /\ [of |-> x, code |-> code] \in Results
       /\ [of |-> x, code |-> code] # None
       /\ [of |-> x, code |-> code].of = x
       /\ [of |-> x, code |-> code].code # "none"
  /\ \A r \in Results : r.of \in Sends \cup {Nil}
BY DEF None, Aborted, Results

\* handler::post moves one handler, at most, from its state to the queue.
LEMMA PostEffect ==
  ASSUME TypeOK, NEW s \in States, NEW r \in Results, Post(s, r)
  PROVE  /\ txh' \in [States -> Sends \cup {Nil}]
         /\ queue' \in [Sends -> Results]
         /\ \A q \in States : txh'[q] = IF q = s THEN Nil ELSE txh[q]
         /\ \A x \in Sends : queue'[x] = IF x = txh[s] THEN r ELSE queue[x]
BY NilAssumption DEF TypeOK, Post

\* What is left to an operation whose multiplexer may be gone.
LEMMA ReleaseEffect ==
  ASSUME TypeOK, Release
  PROVE  orphans' \subseteq InFlight'
BY DEF Release, InFlight, TypeOK

LEMMA InitIInv == Init => IInv
BY NilAssumption, ResultFacts
   DEF Init, IInv, TypeOK, Reachable, OneSendPerState, InFlight

-----------------------------------------------------------------------------
(***************************************************************************)
(* The calls of the client.                                                *)
(***************************************************************************)

LEMMA BindStep ==
  ASSUME IInv, NEW u \in Users, NEW s \in States, Bind(u, s)
  PROVE  IInv'
<1> USE NilAssumption DEF IInv, Bind, FreeState
<1>1. TypeOK'
  BY DEF TypeOK
<1>2. Reachable'
  BY DEF Reachable, TypeOK, InFlight
<1>3. OneSendPerState => OneSendPerState'
  BY DEF OneSendPerState, Reachable, TypeOK, InFlight
<1> QED
  BY <1>1, <1>2, <1>3

LEMMA CloseStep ==
  ASSUME IInv, NEW u \in Users, Close(u)
  PROVE  IInv'
<1> USE NilAssumption, ResultFacts DEF IInv
<1> DEFINE s == state[u]
<1>1. s \in States /\ Post(s, Aborted) /\ Release
  BY DEF Close, TypeOK
<1>2. /\ txh' \in [States -> Sends \cup {Nil}]
      /\ queue' \in [Sends -> Results]
      /\ \A q \in States : txh'[q] = IF q = s THEN Nil ELSE txh[q]
      /\ \A x \in Sends : queue'[x] = IF x = txh[s] THEN Aborted ELSE queue[x]
  BY <1>1, PostEffect
<1>3. /\ state' = [state EXCEPT ![u] = Nil]
      /\ attached' = attached \ {s}
      /\ UNCHANGED <<txbuf, flight, emitting, answered>>
  BY DEF Close
<1>4. orphans' \subseteq InFlight'
  BY <1>1, ReleaseEffect
<1>5. TypeOK'
  BY <1>2, <1>3, <1>4 DEF TypeOK, InFlight
<1>6. Reachable'
  BY <1>1, <1>3, <1>4 DEF Reachable, TypeOK, InFlight
<1>7. OneSendPerState => OneSendPerState'
  BY <1>1, <1>2, <1>3 DEF OneSendPerState, Reachable, TypeOK, InFlight
<1> QED
  BY <1>5, <1>6, <1>7

LEMMA SendStep ==
  ASSUME IInv, NEW u \in Users, NEW x \in Sends, Send(u, x)
  PROVE  IInv'
<1> USE NilAssumption, ResultFacts DEF IInv
<1> DEFINE s == state[u]
<1>1. /\ s \in States
      /\ OneAtATime => txh[s] = Nil
      /\ flight[x] = Nil /\ queue[x] = None /\ answered[x] = None
      /\ \A q \in States : txh[q] # x
      /\ txbuf' = [txbuf EXCEPT ![s] = x]
      /\ txh' = [txh EXCEPT ![s] = x]
      /\ flight' = [flight EXCEPT ![x] = s]
      /\ UNCHANGED <<state, attached, orphans, emitting, queue, answered>>
  BY DEF Send, Pending, Started, InFlight, Stored, Posted, Told, TypeOK
<1>2. TypeOK'
  BY <1>1 DEF TypeOK
<1>3. Reachable'
  BY <1>1 DEF Reachable, TypeOK, InFlight
<1>4. OneAtATime /\ OneSendPerState => OneSendPerState'
  BY <1>1 DEF OneSendPerState, Reachable, TypeOK, InFlight
<1> QED
  BY <1>2, <1>3, <1>4, <1>1

-----------------------------------------------------------------------------
(***************************************************************************)
(* What io_context runs.                                                   *)
(***************************************************************************)

LEMMA CompleteStep ==
  ASSUME IInv, NEW x \in Sends, NEW code \in {"ok", "error", "aborted"}, Complete(x, code)
  PROVE  IInv'
<1>1. /\ emitting' \in Results /\ emitting'.of = x /\ emitting'.code # "none"
      /\ x \in InFlight
      /\ UNCHANGED <<state, attached, txh, txbuf, flight, orphans, queue, answered>>
  BY ResultFacts DEF Complete
<1>2. TypeOK'
  BY <1>1 DEF IInv, TypeOK
<1>3. Reachable'
  BY <1>1 DEF IInv, Reachable, InFlight
<1>4. OneSendPerState => OneSendPerState'
  BY <1>1 DEF OneSendPerState, InFlight
<1> QED
  BY <1>2, <1>3, <1>4 DEF IInv

\* The end of an operation, with or without its multiplexer: the handler that
\* its state holds is posted with r, and the state is let go.
LEMMA EndOfFlight ==
  ASSUME IInv, NEW x \in InFlight, NEW r \in {Aborted} \cup {q \in Results : q.of = x},
         r # None,
         Post(flight[x], r),
         flight' = [flight EXCEPT ![x] = Nil],
         UNCHANGED <<state, attached, txbuf, answered>>,
         emitting' = None,
         orphans' \subseteq InFlight'
  PROVE  IInv'
<1> USE NilAssumption, ResultFacts DEF IInv
<1> DEFINE s == flight[x]
<1>1. s \in States /\ x \in Sends /\ r \in Results /\ r.of \in {Nil, x}
  BY DEF InFlight, TypeOK
<1>2. /\ txh' \in [States -> Sends \cup {Nil}]
      /\ queue' \in [Sends -> Results]
      /\ \A q \in States : txh'[q] = IF q = s THEN Nil ELSE txh[q]
      /\ \A y \in Sends : queue'[y] = IF y = txh[s] THEN r ELSE queue[y]
  BY <1>1, PostEffect
<1>3. TypeOK'
  BY <1>1, <1>2 DEF TypeOK, InFlight
<1>4. Reachable'
  BY <1>1, <1>2 DEF Reachable, TypeOK, InFlight
<1>5. ASSUME OneSendPerState PROVE OneSendPerState'
  <2>1. txh[s] \in {x, Nil}
    BY <1>1, <1>5 DEF OneSendPerState, TypeOK, InFlight
  <2>2. \A y \in InFlight' : y \in InFlight /\ y # x /\ flight'[y] = flight[y] /\ flight[y] # s
    BY <1>1, <1>5 DEF OneSendPerState, TypeOK, InFlight
  <2>3. \A q \in States : txh'[q] # Nil => q \in attached' /\ flight'[txh'[q]] = q
    BY <1>1, <1>2, <1>5 DEF OneSendPerState, TypeOK
  <2>4. \A y \in InFlight' : /\ txbuf'[flight'[y]] = y
                             /\ flight'[y] \in attached' => txh'[flight'[y]] = y
    BY <1>2, <1>5, <2>2 DEF OneSendPerState, TypeOK, InFlight
  <2>5. \A y \in InFlight' : queue'[y] = queue[y] /\ txh'[flight'[y]] = txh[flight[y]]
    BY <1>1, <1>2, <2>1, <2>2 DEF InFlight, TypeOK
  <2>6. \A y \in Sends : queue'[y] = None \/ answered'[y] = None
    BY <1>1, <1>2, <1>5, <2>1 DEF OneSendPerState
  <2>7. \A y \in Sends : queue'[y].of \in {Nil, y} /\ answered'[y].of \in {Nil, y}
    BY <1>1, <1>2, <1>5, <2>1 DEF OneSendPerState
  <2> QED
    BY <1>5, <2>2, <2>3, <2>4, <2>5, <2>6, <2>7 DEF OneSendPerState
<1> QED
  BY <1>3, <1>4, <1>5

LEMMA EndSignalStep ==
  ASSUME IInv, EndSignal
  PROVE  IInv'
<1>1. emitting.of \in InFlight /\ emitting \in Results /\ emitting # None
  BY DEF IInv, Reachable, TypeOK, EndSignal
<1>2. orphans' \subseteq InFlight'
  BY ReleaseEffect DEF IInv, EndSignal
<1> QED
  BY <1>1, <1>2, EndOfFlight DEF EndSignal

LEMMA CompleteOrphanStep ==
  ASSUME IInv, NEW x \in Sends, CompleteOrphan(x)
  PROVE  IInv'
<1>1. x \in InFlight /\ Aborted \in Results /\ Aborted # None /\ emitting' = None
  BY ResultFacts DEF IInv, Reachable, TypeOK, CompleteOrphan
<1>2. orphans' \subseteq InFlight'
  BY <1>1 DEF IInv, Reachable, TypeOK, CompleteOrphan, InFlight
<1> QED
  BY <1>1, <1>2, EndOfFlight DEF CompleteOrphan

LEMMA RunHandlerStep ==
  ASSUME IInv, NEW x \in Sends, RunHandler(x)
  PROVE  IInv'
BY NilAssumption, ResultFacts
   DEF IInv, RunHandler, Posted, TypeOK, Reachable, OneSendPerState, InFlight

-----------------------------------------------------------------------------
(***************************************************************************)
(* The theorems.                                                           *)
(***************************************************************************)

\* For every number of objects, states and sends, and with client code in the
\* slots of the signal at every completion, the places a send is kept in
\* stay in step.
THEOREM Invariance == Spec => []IInv
<1>1. IInv /\ [Next]_vars => IInv'
  <2> SUFFICES ASSUME IInv, [Next]_vars PROVE IInv'
    OBVIOUS
  <2>1. CASE UNCHANGED vars
    BY <2>1 DEF vars, IInv, TypeOK, Reachable, OneSendPerState, InFlight
  <2>2. CASE ClientNext
    BY <2>2, BindStep, CloseStep, SendStep DEF ClientNext
  <2>3. CASE LoopNext
    BY <2>3, EndSignalStep, CompleteOrphanStep, RunHandlerStep, CompleteStep DEF LoopNext
  <2> QED
    BY <2>1, <2>2, <2>3 DEF Next
<1> QED
  BY <1>1, InitIInv, PTL DEF Spec

\* Every variable of the send path keeps its type, whatever the client does;
\* in particular the completion always finds the state it refers to.
THEOREM TypeCorrect == Spec => []TypeOK
<1>1. IInv => TypeOK
  BY DEF IInv
<1> QED
  BY <1>1, Invariance, PTL

\* async_send_to of a client that waits for its handlers answers every send,
\* and once: a send in flight is stored, posted or called, and only one of
\* the three.
THEOREM EverySendAnsweredOnce == Spec => []SendAnsweredOnce
<1>1. IInv => SendAnsweredOnce
  <2> SUFFICES ASSUME IInv, OneAtATime PROVE SendAnsweredOnce
    BY DEF SendAnsweredOnce
  <2> USE NilAssumption DEF IInv
  <2>1. InFlight \subseteq Stored \cup Posted \cup Told
    BY DEF OneSendPerState, InFlight, Stored, Posted, Told, TypeOK
  <2>2. \A x \in Stored : x \in InFlight /\ queue[x] = None /\ answered[x] = None
    BY DEF OneSendPerState, InFlight, Stored, TypeOK
  <2> QED
    BY <2>1, <2>2 DEF SendAnsweredOnce, OneSendPerState, Posted, Told
<1> QED
  BY <1>1, Invariance, PTL

\* A handler is called with the result of its own send, or with the abort of
\* a close, although do_send posts whatever handler it finds.
THEOREM ResultsNotMixedUp == Spec => []OwnResult
<1>1. IInv => OwnResult
  BY DEF IInv, OwnResult, OneSendPerState
<1> QED
  BY <1>1, Invariance, PTL

\* The slots of on_send_to see the buffers of the datagram that was sent.
THEOREM SignalOfTheSend == Spec => []SignalTruthful
<1>1. IInv => SignalTruthful
  BY DEF IInv, SignalTruthful, OneSendPerState, Reachable
<1> QED
  BY <1>1, Invariance, PTL

=============================================================================
