------------------------------- MODULE Signal -------------------------------
(***************************************************************************)
(* Signal<T>, through which a udp_multiplexer_impl tells its clients of    *)
(* every datagram it has sent.  A Connection is a node of the signal's     *)
(* intrusive list and carries its slot; it unlinks itself when it is       *)
(* destroyed and takes over the place in the list when it is moved.        *)
(*                                                                         *)
(* A call of the signal walks the list while the slots it calls connect,   *)
(* drop and move connections and make further calls.  The client keeps the *)
(* connection whose slot is running: nothing in Signal protects it.        *)
(***************************************************************************)
EXTENDS Naturals, Sequences, Functions

CONSTANTS
    Signals, Connections, Slots,
    Nil,         \* no slot
    MaxDepth,    \* bound on nested calls
    AssignOver,  \* does the client assign to connections that are linked?
    Asserts      \* is the program built with assertions?

ASSUME NilAssumption   == Nil \notin Slots \cup Connections
ASSUME DepthAssumption == MaxDepth \in Nat
ASSUME FlagsAssumption == AssignOver \in BOOLEAN /\ Asserts \in BOOLEAN

VARIABLES
    list,   \* _connections of each signal
    slot,   \* _slot of each connection
    stack,  \* the calls that are running, the innermost last
    fault   \* has assert(0) been reached?

vars == <<list, slot, stack, fault>>

\* A running call: where its iterator is and, as history, how often it has
\* called each slot, and which have been connected ever since it began.
Calls == [sig : Signals, cur : Connections, times : [Slots -> Nat], due : SUBSET Slots]

TypeOK ==
    /\ list \in [Signals -> Seq(Connections)]
    /\ slot \in [Connections -> Slots \cup {Nil}]
    /\ stack \in Seq(Calls)
    /\ fault \in BOOLEAN

Init ==
    /\ list = [g \in Signals |-> <<>>]
    /\ slot = [c \in Connections |-> Nil]
    /\ stack = <<>>
    /\ fault = FALSE

-----------------------------------------------------------------------------

\* Where c is in a list, which has it once.
Position(s, c) == CHOOSE j \in DOMAIN s : s[j] = c

Linked  == UNION {Range(list[g]) : g \in Signals}
Running == {stack[i].cur : i \in DOMAIN stack}
Active  == {stack[i].sig : i \in DOMAIN stack}

Zero == [x \in Slots |-> 0]

\* A slot that is destroyed is nobody's duty any more.
Forget(x) ==
    [i \in DOMAIN stack |->
        [stack[i] EXCEPT !.due = @ \ {x},
                         !.times = [y \in Slots |-> IF y = x THEN 0 ELSE @[y]]]]

\* connect: the new connection becomes the last of the list.
Connect(g, c, x) ==
    /\ ~fault
    /\ slot[c] = Nil /\ c \notin Linked
    /\ \A d \in Connections : slot[d] # x
    /\ slot' = [slot EXCEPT ![c] = x]
    /\ list' = [list EXCEPT ![g] = Append(@, c)]
    /\ UNCHANGED <<stack, fault>>

\* Mutant: the node is not taken out of the list.
Unlinked_not(s, c) == s

\* auto_unlink: the connections after c move up.
Unlinked(s, c) ==
    IF c \in Range(s)
    THEN [j \in 1..(Len(s) - 1) |-> IF j < Position(s, c) THEN s[j] ELSE s[j + 1]]
    ELSE s

\* The destructor of a Connection.
Disconnect(c) ==
    /\ ~fault
    /\ slot[c] # Nil \/ c \in Linked
    /\ c \notin Running
    /\ slot' = [slot EXCEPT ![c] = Nil]
    /\ list' = [g \in Signals |-> Unlinked(list[g], c)]
    /\ stack' = Forget(slot[c])
    /\ UNCHANGED fault

\* Mutant: the place in the list is not taken over.
Swapped_not(s, c, d) == s

\* swap_nodes: c and d take each other's place.
Swapped(s, c, d) ==
    [i \in DOMAIN s |-> CASE s[i] = c -> d [] s[i] = d -> c [] OTHER -> s[i]]

\* The move constructor and the move assignment, from c to d.
Move(c, d) ==
    /\ ~fault
    /\ c # d
    /\ slot[c] # Nil \/ c \in Linked
    /\ c \notin Running /\ d \notin Running
    /\ d \in Linked => AssignOver
    /\ slot' = [slot EXCEPT ![d] = slot[c], ![c] = Nil]
    /\ list' = [g \in Signals |-> Swapped(list[g], c, d)]
    /\ stack' = Forget(slot[d])
    /\ UNCHANGED fault

\* The moves of a Signal, which swap the two lists, and its destructor.  No
\* call is running: its caller keeps the owner of the signal alive.
MoveSignal(g, h) ==
    /\ ~fault
    /\ g # h /\ {g, h} \cap Active = {}
    /\ list[g] # <<>>
    /\ list' = [list EXCEPT ![g] = list[h], ![h] = list[g]]
    /\ UNCHANGED <<slot, stack, fault>>

DestroySignal(g) ==
    /\ ~fault
    /\ g \notin Active
    /\ list[g] # <<>>
    /\ list' = [list EXCEPT ![g] = <<>>]
    /\ UNCHANGED <<slot, stack, fault>>

\* connection._slot(args): the call of g has come to connection c.
At(g, c, times, due) ==
    [sig |-> g, cur |-> c, due |-> due,
     times |-> IF slot[c] = Nil THEN times ELSE [times EXCEPT ![slot[c]] = @ + 1]]

\* operator(): begins with the first connection.
Emit(g) ==
    /\ ~fault
    /\ list[g] # <<>>
    /\ Len(stack) < MaxDepth
    /\ LET c == Head(list[g])
       IN  /\ stack' = Append(stack, At(g, c, Zero, {slot[d] : d \in Range(list[g])} \ {Nil}))
           /\ fault' = (Asserts /\ slot[c] = Nil)
    /\ UNCHANGED <<list, slot>>

\* The slot returns: on to the connection that is next now, if there is one.
Return ==
    LET top   == stack[Len(stack)]
        conns == list[top.sig]
        i     == Position(conns, top.cur)
    IN  /\ ~fault
        /\ stack # <<>>
        /\ IF i = Len(conns)
           THEN stack' = SubSeq(stack, 1, Len(stack) - 1) /\ UNCHANGED fault
           ELSE /\ stack' = [stack EXCEPT ![Len(stack)] =
                                At(top.sig, conns[i + 1], top.times, top.due)]
                /\ fault' = (Asserts /\ slot[conns[i + 1]] = Nil)
        /\ UNCHANGED <<list, slot>>

Next ==
    \/ Return
    \/ \E g \in Signals :
          \/ Emit(g) \/ DestroySignal(g)
          \/ \E h \in Signals : MoveSignal(g, h)
          \/ \E c \in Connections, x \in Slots : Connect(g, c, x)
    \/ \E c \in Connections : Disconnect(c) \/ \E d \in Connections : Move(c, d)

Spec == Init /\ [][Next]_vars

-----------------------------------------------------------------------------
(***************************************************************************)
(* Properties.                                                             *)
(***************************************************************************)

\* The lists stay sound under every sequence of moves: a connection is in
\* one list and once, every linked connection has its slot, and the iterator
\* of a running call points into the list it walks.
ListsSound ==
    /\ \A g, h \in Signals : \A i \in DOMAIN list[g], j \in DOMAIN list[h] :
          list[g][i] = list[h][j] => g = h /\ i = j
    /\ ~AssignOver => \A c \in Linked : slot[c] # Nil
    /\ \A i \in DOMAIN stack : stack[i].cur \in Range(list[stack[i].sig])

\* A call reaches everybody once: when it ends it has called each slot that
\* has been connected since it began, wherever its connection was moved to
\* and whatever the slots before it did to the list, and none of them twice.
EverySlotCalled ==
    [][Len(stack') < Len(stack) =>
          LET top == stack[Len(stack)]
          IN  /\ \A x \in top.due : top.times[x] = 1
              /\ \A x \in Slots : top.times[x] <= 1]_vars

\* catch: assert(0).  No call meets an empty slot.
NoEmptySlot == ~fault

=============================================================================
