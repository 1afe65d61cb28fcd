---------------------------- MODULE Signal_proof ----------------------------
EXTENDS Signal, SequenceTheorems, TLAPS

(***************************************************************************)
(* The inductive invariant.  Each slot belongs to one connection, and a    *)
(* call that has come to place p of its list has called the slots that are *)
(* now at the places up to p, once each, and no other: slots keep their    *)
(* order in a list whatever becomes of their connections.                  *)
(***************************************************************************)

LinkedOnce ==
    \A g, h \in Signals : \A i \in 1..Len(list[g]), j \in 1..Len(list[h]) :
        list[g][i] = list[h][j] => g = h /\ i = j

SlotsApart ==
    \A c, d \in Connections : slot[c] = slot[d] /\ slot[c] # Nil => c = d

Filled ==
    ~AssignOver => \A g \in Signals : \A i \in 1..Len(list[g]) : slot[list[g][i]] # Nil

\* Slot x is at one of the first n places of the list of g.
Among(g, n, x) == \E j \in 1..n : slot[list[g][j]] = x

\* The call f has come to place p.
WalkedTo(f, p) ==
    /\ list[f.sig][p] = f.cur
    /\ \A x \in Slots : f.times[x] = IF Among(f.sig, p, x) THEN 1 ELSE 0
    /\ \A x \in f.due : Among(f.sig, Len(list[f.sig]), x)

Walking ==
    \A k \in 1..Len(stack) : \E p \in 1..Len(list[stack[k].sig]) : WalkedTo(stack[k], p)

IInv == TypeOK /\ LinkedOnce /\ SlotsApart /\ Filled /\ Walking

-----------------------------------------------------------------------------
(***************************************************************************)
(* Lists and calls.                                                        *)
(***************************************************************************)

LEMMA ListType ==
  ASSUME TypeOK, NEW g \in Signals
  PROVE  /\ list[g] \in Seq(Connections)
         /\ Len(list[g]) \in Nat
         /\ DOMAIN list[g] = 1..Len(list[g])
         /\ \A i \in 1..Len(list[g]) : list[g][i] \in Connections
         /\ list[g] # <<>> => Len(list[g]) > 0
BY LenProperties, ElementOfSeq, EmptySeq DEF TypeOK

LEMMA StackType ==
  ASSUME TypeOK
  PROVE  /\ Len(stack) \in Nat
         /\ DOMAIN stack = 1..Len(stack)
         /\ \A k \in 1..Len(stack) :
               /\ stack[k] \in Calls
               /\ stack[k].sig \in Signals /\ stack[k].cur \in Connections
               /\ stack[k].times \in [Slots -> Nat] /\ stack[k].due \in SUBSET Slots
<1>1. stack \in Seq(Calls)
  BY DEF TypeOK
<1>2. Len(stack) \in Nat /\ DOMAIN stack = 1..Len(stack)
  BY <1>1, LenProperties
<1>3. \A k \in 1..Len(stack) : stack[k] \in Calls
  BY <1>1, ElementOfSeq
<1> QED
  BY <1>2, <1>3 DEF Calls

\* The calls after slot x has been forgotten.
LEMMA ForgetEffect ==
  ASSUME TypeOK, NEW x
  PROVE  /\ Forget(x) \in Seq(Calls)
         /\ Len(Forget(x)) = Len(stack)
         /\ \A k \in 1..Len(stack) :
               /\ Forget(x)[k].sig = stack[k].sig
               /\ Forget(x)[k].cur = stack[k].cur
               /\ Forget(x)[k].due = stack[k].due \ {x}
               /\ \A y \in Slots : Forget(x)[k].times[y] = IF y = x THEN 0 ELSE stack[k].times[y]
<1> DEFINE f(k) == [stack[k] EXCEPT !.due = @ \ {x},
                                    !.times = [y \in Slots |-> IF y = x THEN 0 ELSE @[y]]]
<1>1. Len(stack) \in Nat /\ DOMAIN stack = 1..Len(stack)
  BY StackType
<1>2. Forget(x) = [k \in 1..Len(stack) |-> f(k)]
  BY <1>1 DEF Forget
<1>3. ASSUME NEW k \in 1..Len(stack)
      PROVE  /\ f(k) \in Calls
             /\ f(k).sig = stack[k].sig
             /\ f(k).cur = stack[k].cur
             /\ f(k).due = stack[k].due \ {x}
             /\ \A y \in Slots : f(k).times[y] = IF y = x THEN 0 ELSE stack[k].times[y]
  BY StackType DEF Calls
<1> HIDE DEF f
<1>4. Forget(x) \in Seq(Calls) /\ Len(Forget(x)) = Len(stack)
  BY <1>1, <1>2, <1>3
<1> QED
  BY <1>2, <1>3, <1>4

LEMMA InitIInv == Init => IInv
<1> SUFFICES ASSUME Init PROVE IInv
  OBVIOUS
<1>1. TypeOK
  BY EmptySeq DEF Init, TypeOK
<1>2. \A g \in Signals : Len(list[g]) = 0
  BY DEF Init
<1>3. Len(stack) = 0
  BY DEF Init
<1> QED
  BY <1>1, <1>2, <1>3 DEF IInv, LinkedOnce, SlotsApart, Filled, Walking, Init

\* A linked connection.
LEMMA LinkedPlaces ==
  ASSUME TypeOK, NEW c
  PROVE  c \in Linked <=> \E g \in Signals : \E i \in 1..Len(list[g]) : list[g][i] = c
BY ListType DEF Linked, Range

\* The connection a running call has come to.
LEMMA NotRunning ==
  ASSUME TypeOK, NEW c, c \notin Running
  PROVE  \A k \in 1..Len(stack) : stack[k].cur # c
BY StackType DEF Running

\* A call whose signal is inactive is not running.
LEMMA NotActive ==
  ASSUME TypeOK, NEW g, g \notin Active
  PROVE  \A k \in 1..Len(stack) : stack[k].sig # g
BY StackType DEF Active

-----------------------------------------------------------------------------
(***************************************************************************)
(* Steps that leave the part of the list a call walks as it is.            *)
(***************************************************************************)

\* The call f goes on with a list that has at most become longer.
LEMMA SameWalk ==
  ASSUME TypeOK, NEW f \in Calls, NEW p \in 1..Len(list[f.sig]), WalkedTo(f, p),
         Len(list'[f.sig]) \in Nat,
         Len(list[f.sig]) <= Len(list'[f.sig]),
         \A j \in 1..Len(list[f.sig]) :
            /\ list'[f.sig][j] = list[f.sig][j]
            /\ slot'[list[f.sig][j]] = slot[list[f.sig][j]]
  PROVE  p \in 1..Len(list'[f.sig]) /\ WalkedTo(f, p)'
<1>1. f.sig \in Signals
  BY DEF Calls
<1>2. Len(list[f.sig]) \in Nat
  BY <1>1, ListType
<1>3. p \in 1..Len(list'[f.sig])
  BY <1>2
<1>4. ASSUME NEW x PROVE Among(f.sig, p, x)' <=> Among(f.sig, p, x)
  <2>1. \A j \in 1..p : j \in 1..Len(list[f.sig])
    BY <1>2
  <2> QED
    BY <2>1 DEF Among
<1>5. ASSUME NEW x, Among(f.sig, Len(list[f.sig]), x)
      PROVE  Among(f.sig, Len(list[f.sig]), x)'
  <2>1. PICK j \in 1..Len(list[f.sig]) : slot[list[f.sig][j]] = x
    BY <1>5 DEF Among
  <2>2. j \in 1..Len(list'[f.sig])
    BY <1>2
  <2>3. slot'[list'[f.sig][j]] = x
    BY <2>1
  <2> QED
    BY <2>2, <2>3 DEF Among
<1> QED
  BY <1>3, <1>4, <1>5 DEF WalkedTo

\* The same for all calls.
LEMMA SameWalks ==
  ASSUME TypeOK, TypeOK', Walking, UNCHANGED stack,
         \A k \in 1..Len(stack) :
            /\ Len(list[stack[k].sig]) <= Len(list'[stack[k].sig])
            /\ \A j \in 1..Len(list[stack[k].sig]) :
                  /\ list'[stack[k].sig][j] = list[stack[k].sig][j]
                  /\ slot'[list[stack[k].sig][j]] = slot[list[stack[k].sig][j]]
  PROVE  Walking'
<1> SUFFICES ASSUME NEW k \in 1..Len(stack)
             PROVE  \E p \in 1..Len(list'[stack[k].sig]) : WalkedTo(stack[k], p)'
  BY DEF Walking
<1>0. stack[k] \in Calls /\ stack[k].sig \in Signals
  BY StackType
<1>1. PICK p \in 1..Len(list[stack[k].sig]) : WalkedTo(stack[k], p)
  BY DEF Walking
<1>2. Len(list'[stack[k].sig]) \in Nat
  BY <1>0, LenProperties DEF TypeOK
<1> QED
  BY <1>0, <1>1, <1>2, SameWalk

LEMMA ConnectStep ==
  ASSUME IInv, NEW g \in Signals, NEW c \in Connections, NEW x \in Slots, Connect(g, c, x)
  PROVE  IInv'
<1> USE DEF IInv
<1>1. /\ list'[g] = Append(list[g], c)
      /\ \A h \in Signals : h # g => list'[h] = list[h]
      /\ DOMAIN list' = Signals
  BY DEF Connect, TypeOK
<1>2. /\ \A d \in Connections : slot'[d] = IF d = c THEN x ELSE slot[d]
      /\ UNCHANGED <<stack, fault>>
      /\ \A d \in Connections : slot[d] # x
      /\ slot' \in [Connections -> Slots \cup {Nil}]
  BY DEF Connect, TypeOK
<1>3. \A h \in Signals : \A i \in 1..Len(list[h]) : list[h][i] # c
  BY LinkedPlaces DEF Connect
<1>4. /\ list'[g] \in Seq(Connections)
      /\ Len(list'[g]) = Len(list[g]) + 1
      /\ \A i \in 1..Len(list[g]) : list'[g][i] = list[g][i]
      /\ list'[g][Len(list[g]) + 1] = c
  BY <1>1, ListType, AppendProperties
<1>5. \A h \in Signals : Len(list[h]) \in Nat
  BY ListType
<1>6. TypeOK'
  <2>1. list' \in [Signals -> Seq(Connections)]
    BY <1>1, <1>4, ListType DEF Connect, TypeOK
  <2> QED
    BY <2>1, <1>2 DEF TypeOK
<1>7. ASSUME NEW h \in Signals, NEW i \in 1..Len(list'[h])
      PROVE  \/ i \in 1..Len(list[h]) /\ list'[h][i] = list[h][i]
             \/ h = g /\ i = Len(list[g]) + 1 /\ list'[h][i] = c
  <2>1. CASE h = g
    <3>1. i \in 1..Len(list[g]) \/ i = Len(list[g]) + 1
      BY <2>1, <1>4, <1>5
    <3> QED
      BY <2>1, <3>1, <1>4
  <2>2. CASE h # g
    BY <2>2, <1>1
  <2> QED
    BY <2>1, <2>2
<1>8. LinkedOnce'
  <2> SUFFICES ASSUME NEW h \in Signals, NEW h2 \in Signals,
                      NEW i \in 1..Len(list'[h]), NEW j \in 1..Len(list'[h2]),
                      list'[h][i] = list'[h2][j]
               PROVE  h = h2 /\ i = j
    BY DEF LinkedOnce
  <2>1. \/ i \in 1..Len(list[h]) /\ list'[h][i] = list[h][i]
        \/ h = g /\ i = Len(list[g]) + 1 /\ list'[h][i] = c
    BY <1>7
  <2>2. \/ j \in 1..Len(list[h2]) /\ list'[h2][j] = list[h2][j]
        \/ h2 = g /\ j = Len(list[g]) + 1 /\ list'[h2][j] = c
    BY <1>7
  <2>3. CASE list'[h][i] = c
    BY <2>1, <2>2, <2>3, <1>3
  <2>4. CASE list'[h][i] # c
    BY <2>1, <2>2, <2>4 DEF LinkedOnce
  <2> QED
    BY <2>3, <2>4
<1>9. SlotsApart'
  BY <1>2 DEF SlotsApart
<1>10. Filled'
  <2> SUFFICES ASSUME ~AssignOver, NEW h \in Signals, NEW i \in 1..Len(list'[h])
               PROVE  slot'[list'[h][i]] # Nil
    BY DEF Filled
  <2>1. CASE i \in 1..Len(list[h]) /\ list'[h][i] = list[h][i]
    <3>1. list[h][i] \in Connections /\ slot[list[h][i]] # Nil
      BY <2>1, ListType DEF Filled
    <3> QED
      BY <2>1, <3>1, <1>3, <1>2
  <2>2. CASE list'[h][i] = c
    BY <2>2, <1>2, NilAssumption
  <2> QED
    BY <2>1, <2>2, <1>7
<1>11. Walking'
  <2>1. ASSUME NEW h \in Signals
        PROVE  /\ Len(list[h]) <= Len(list'[h])
               /\ \A j \in 1..Len(list[h]) :
                     /\ list'[h][j] = list[h][j]
                     /\ slot'[list[h][j]] = slot[list[h][j]]
    <3>1. Len(list[h]) <= Len(list'[h])
      BY <1>1, <1>4, <1>5
    <3>2. \A j \in 1..Len(list[h]) : list'[h][j] = list[h][j]
      BY <1>1, <1>4
    <3>3. \A j \in 1..Len(list[h]) : slot'[list[h][j]] = slot[list[h][j]]
      BY <1>2, <1>3, ListType
    <3> QED
      BY <3>1, <3>2, <3>3
  <2> QED
    BY <2>1, <1>2, <1>6, SameWalks, StackType
<1> QED
  BY <1>6, <1>8, <1>9, <1>10, <1>11

LEMMA MoveSignalStep ==
  ASSUME IInv, NEW g \in Signals, NEW h \in Signals, MoveSignal(g, h)
  PROVE  IInv'
<1> USE DEF IInv
<1>1. /\ list'[g] = list[h] /\ list'[h] = list[g]
      /\ \A k \in Signals : k # g /\ k # h => list'[k] = list[k]
      /\ g # h /\ g \notin Active /\ h \notin Active
      /\ UNCHANGED <<slot, stack, fault>>
      /\ list' \in [Signals -> Seq(Connections)]
  BY DEF MoveSignal, TypeOK
<1>2. TypeOK'
  BY <1>1 DEF TypeOK
<1>3. LinkedOnce'
  <2> DEFINE from(k) == IF k = g THEN h ELSE IF k = h THEN g ELSE k
  <2>1. \A k \in Signals : from(k) \in Signals /\ list'[k] = list[from(k)]
    BY <1>1
  <2>2. \A k, k2 \in Signals : from(k) = from(k2) => k = k2
    BY <1>1
  <2> HIDE DEF from
  <2> SUFFICES ASSUME NEW k \in Signals, NEW k2 \in Signals,
                      NEW i \in 1..Len(list'[k]), NEW j \in 1..Len(list'[k2]),
                      list'[k][i] = list'[k2][j]
               PROVE  k = k2 /\ i = j
    BY DEF LinkedOnce
  <2>3. from(k) = from(k2) /\ i = j
    BY <2>1 DEF LinkedOnce
  <2> QED
    BY <2>2, <2>3
<1>4. SlotsApart' /\ Filled'
  BY <1>1 DEF SlotsApart, Filled
<1>5. \A k \in 1..Len(stack) : stack[k].sig \in Signals /\ list'[stack[k].sig] = list[stack[k].sig]
  BY <1>1, NotActive, StackType
<1>6. \A k \in 1..Len(stack) : Len(list[stack[k].sig]) \in Nat
  BY <1>5, ListType
<1>7. Walking'
  <2>1. \A k \in 1..Len(stack) : Len(list[stack[k].sig]) <= Len(list'[stack[k].sig])
    BY <1>5, <1>6
  <2> QED
    BY <2>1, <1>1, <1>2, <1>5, SameWalks
<1> QED
  BY <1>2, <1>3, <1>4, <1>7

LEMMA DestroySignalStep ==
  ASSUME IInv, NEW g \in Signals, DestroySignal(g)
  PROVE  IInv'
<1> USE DEF IInv
<1>1. /\ list'[g] = <<>>
      /\ \A k \in Signals : k # g => list'[k] = list[k]
      /\ g \notin Active
      /\ UNCHANGED <<slot, stack, fault>>
      /\ list' \in [Signals -> Seq(Connections)]
  BY EmptySeq DEF DestroySignal, TypeOK
<1>2. TypeOK'
  BY <1>1 DEF TypeOK
<1>3. \A k \in Signals : \A i \in 1..Len(list'[k]) : k # g /\ list'[k] = list[k]
  BY <1>1, EmptySeq
<1>4. LinkedOnce' /\ SlotsApart' /\ Filled'
  <2>1. LinkedOnce'
    <3> SUFFICES ASSUME NEW k \in Signals, NEW k2 \in Signals,
                        NEW i \in 1..Len(list'[k]), NEW j \in 1..Len(list'[k2]),
                        list'[k][i] = list'[k2][j]
                 PROVE  k = k2 /\ i = j
      BY DEF LinkedOnce
    <3>1. list'[k] = list[k] /\ list'[k2] = list[k2]
      BY <1>3
    <3> QED
      BY <3>1 DEF LinkedOnce
  <2>2. SlotsApart'
    BY <1>1 DEF SlotsApart
  <2>3. Filled'
    BY <1>1, <1>3 DEF Filled
  <2> QED
    BY <2>1, <2>2, <2>3
<1>5. \A k \in 1..Len(stack) : stack[k].sig \in Signals /\ list'[stack[k].sig] = list[stack[k].sig]
  BY <1>1, NotActive, StackType
<1>6. \A k \in 1..Len(stack) : Len(list[stack[k].sig]) \in Nat
  BY <1>5, ListType
<1>7. Walking'
  <2>1. \A k \in 1..Len(stack) : Len(list[stack[k].sig]) <= Len(list'[stack[k].sig])
    BY <1>5, <1>6
  <2> QED
    BY <2>1, <1>1, <1>2, <1>5, SameWalks
<1> QED
  BY <1>2, <1>4, <1>7

-----------------------------------------------------------------------------
(***************************************************************************)
(* Steps that destroy a slot.                                              *)
(***************************************************************************)

\* The call k was at place p of the list of g and is at place q of it now,
\* with the same slots before it except for x, which has been forgotten.
LEMMA ForgetWalk ==
  ASSUME TypeOK, NEW x, stack' = Forget(x),
         NEW k \in 1..Len(stack), NEW g \in Signals, stack[k].sig = g,
         NEW p \in 1..Len(list[g]), WalkedTo(stack[k], p),
         NEW q \in 1..Len(list'[g]), list'[g][q] = list[g][p],
         \A y \in Slots : Among(g, q, y)' <=> y # x /\ Among(g, p, y),
         \A y \in Slots : y # x /\ Among(g, Len(list[g]), y) => Among(g, Len(list[g]), y)'
  PROVE  \E r \in 1..Len(list'[stack'[k].sig]) : WalkedTo(stack[k], r)'
<1>1. /\ stack'[k].sig = g
      /\ stack'[k].cur = stack[k].cur
      /\ stack'[k].due = stack[k].due \ {x}
      /\ \A y \in Slots : stack'[k].times[y] = IF y = x THEN 0 ELSE stack[k].times[y]
  BY ForgetEffect
<1>2. /\ list[g][p] = stack[k].cur
      /\ \A y \in Slots : stack[k].times[y] = IF Among(g, p, y) THEN 1 ELSE 0
      /\ \A y \in stack[k].due : Among(g, Len(list[g]), y)
  BY DEF WalkedTo
<1>3. list'[g][q] = stack'[k].cur
  BY <1>1, <1>2
<1>4. \A y \in Slots : stack'[k].times[y] = IF Among(g, q, y)' THEN 1 ELSE 0
  BY <1>1, <1>2
<1>5. \A y \in stack'[k].due : Among(g, Len(list[g]), y)'
  BY <1>1, <1>2, StackType
<1>6. WalkedTo(stack[k], q)'
  BY <1>1, <1>3, <1>4, <1>5 DEF WalkedTo
<1> QED
  BY <1>1, <1>6

\* The list without c: the places after that of c move up.
LEMMA UnlinkedEffect ==
  ASSUME TypeOK, LinkedOnce, NEW g \in Signals, NEW c, NEW q \in 1..Len(list[g]), list[g][q] = c
  PROVE  /\ Unlinked(list[g], c) \in Seq(Connections)
         /\ Len(Unlinked(list[g], c)) = Len(list[g]) - 1
         /\ \A j \in 1..(Len(list[g]) - 1) :
               Unlinked(list[g], c)[j] = IF j < q THEN list[g][j] ELSE list[g][j + 1]
<1> DEFINE s == list[g]
<1>0. /\ s \in Seq(Connections) /\ Len(s) \in Nat /\ DOMAIN s = 1..Len(s)
      /\ \A i \in 1..Len(s) : s[i] \in Connections
  BY ListType
<1>1. Position(s, c) = q
  BY <1>0 DEF Position, LinkedOnce
<1>2. c \in Range(s)
  BY <1>0 DEF Range
<1>3. Unlinked(s, c) = [j \in 1..(Len(s) - 1) |-> IF j < q THEN s[j] ELSE s[j + 1]]
  BY <1>1, <1>2 DEF Unlinked
<1>4. Len(s) - 1 \in Nat
  BY <1>0
<1>5. \A j \in 1..(Len(s) - 1) : (IF j < q THEN s[j] ELSE s[j + 1]) \in Connections
  <2> TAKE j \in 1..(Len(s) - 1)
  <2>1. j \in 1..Len(s) /\ j + 1 \in 1..Len(s)
    BY <1>0
  <2> QED
    BY <2>1, <1>0
<1> HIDE DEF s
<1>6. Unlinked(s, c) \in Seq(Connections) /\ Len(Unlinked(s, c)) = Len(s) - 1
  BY <1>3, <1>4, <1>5
<1> QED
  BY <1>3, <1>6 DEF s

LEMMA NotUnlinked ==
  ASSUME TypeOK, NEW g \in Signals, NEW c, \A i \in 1..Len(list[g]) : list[g][i] # c
  PROVE  Unlinked(list[g], c) = list[g]
<1>1. c \notin Range(list[g])
  BY ListType DEF Range
<1> QED
  BY <1>1 DEF Unlinked

\* Where the connection at place i of the new list has been.
LEMMA UnlinkedFrom ==
  ASSUME TypeOK, LinkedOnce, NEW c, NEW g \in Signals, NEW i \in 1..Len(Unlinked(list[g], c))
  PROVE  \E j \in 1..Len(list[g]) :
            /\ Unlinked(list[g], c)[i] = list[g][j]
            /\ list[g][j] # c
            /\ \A q \in 1..Len(list[g]) : list[g][q] = c => j = IF i < q THEN i ELSE i + 1
            /\ (\A q \in 1..Len(list[g]) : list[g][q] # c) => j = i
<1>0. Len(list[g]) \in Nat
  BY ListType
<1>1. CASE \A q \in 1..Len(list[g]) : list[g][q] # c
  BY <1>1, NotUnlinked
<1>2. ASSUME NEW q \in 1..Len(list[g]), list[g][q] = c
      PROVE  \E j \in 1..Len(list[g]) :
                /\ Unlinked(list[g], c)[i] = list[g][j]
                /\ list[g][j] # c
                /\ j = IF i < q THEN i ELSE i + 1
  <2>1. /\ Len(Unlinked(list[g], c)) = Len(list[g]) - 1
        /\ \A j \in 1..(Len(list[g]) - 1) :
               Unlinked(list[g], c)[j] = IF j < q THEN list[g][j] ELSE list[g][j + 1]
    BY <1>2, UnlinkedEffect
  <2>2. i \in 1..(Len(list[g]) - 1)
    BY <2>1
  <2> DEFINE j == IF i < q THEN i ELSE i + 1
  <2>3. j \in 1..Len(list[g]) /\ j # q
    BY <2>2, <1>0
  <2>4. Unlinked(list[g], c)[i] = list[g][j]
    BY <2>1, <2>2
  <2> HIDE DEF j
  <2>5. list[g][j] # c
    BY <2>3, <1>2 DEF LinkedOnce
  <2> QED
    BY <2>3, <2>4, <2>5 DEF j
<1>3. \A q, r \in 1..Len(list[g]) : list[g][q] = c /\ list[g][r] = c => q = r
  BY DEF LinkedOnce
<1> QED
  BY <1>1, <1>2, <1>3

\* The list of g after c, which is at place q of it, has gone.
LEMMA DisconnectedList ==
  ASSUME TypeOK, LinkedOnce, NEW c \in Connections, Disconnect(c),
         NEW g \in Signals, NEW q \in 1..Len(list[g]), list[g][q] = c
  PROVE  /\ Len(list'[g]) = Len(list[g]) - 1
         /\ \A j \in 1..(Len(list[g]) - 1) :
               list'[g][j] = IF j < q THEN list[g][j] ELSE list[g][j + 1]
<1>1. list'[g] = Unlinked(list[g], c)
  BY DEF Disconnect, TypeOK
<1>2. /\ Len(Unlinked(list[g], c)) = Len(list[g]) - 1
      /\ \A j \in 1..(Len(list[g]) - 1) :
            Unlinked(list[g], c)[j] = IF j < q THEN list[g][j] ELSE list[g][j + 1]
  BY UnlinkedEffect
<1> QED
  BY <1>1, <1>2

\* The slots at the first n places, when c is not among them or is at place q.
LEMMA AmongUnlinked ==
  ASSUME TypeOK, LinkedOnce, SlotsApart, NEW c \in Connections, Disconnect(c),
         NEW g \in Signals, NEW n \in 0..Len(list[g]), NEW m,
         \/ m = n /\ \A i \in 1..Len(list[g]) : list[g][i] # c
         \/ \E q \in 1..Len(list[g]) : list[g][q] = c /\ m = IF n < q THEN n ELSE n - 1,
         NEW y \in Slots
  PROVE  Among(g, m, y)' <=> y # slot[c] /\ Among(g, n, y)
<1>0. /\ Len(list[g]) \in Nat
      /\ \A i \in 1..Len(list[g]) : list[g][i] \in Connections
  BY ListType
<1>1. /\ list'[g] = Unlinked(list[g], c)
      /\ \A d \in Connections : slot'[d] = IF d = c THEN Nil ELSE slot[d]
      /\ y # Nil
  BY NilAssumption DEF Disconnect, TypeOK
<1>2. CASE m = n /\ \A i \in 1..Len(list[g]) : list[g][i] # c
  <2>1. list'[g] = list[g]
    BY <1>1, <1>2, NotUnlinked
  <2>2. ASSUME NEW j \in 1..n
        PROVE  /\ slot'[list'[g][j]] = slot[list[g][j]]
               /\ slot[list[g][j]] = y => y # slot[c]
    <3>1. j \in 1..Len(list[g])
      BY <1>0
    <3> QED
      BY <3>1, <2>1, <1>0, <1>1, <1>2 DEF SlotsApart
  <2> QED
    BY <1>2, <2>2 DEF Among
<1>3. ASSUME NEW q \in 1..Len(list[g]), list[g][q] = c, m = IF n < q THEN n ELSE n - 1
      PROVE  Among(g, m, y)' <=> y # slot[c] /\ Among(g, n, y)
  <2>1. /\ Len(list'[g]) = Len(list[g]) - 1
        /\ \A j \in 1..(Len(list[g]) - 1) :
              list'[g][j] = IF j < q THEN list[g][j] ELSE list[g][j + 1]
    BY <1>3, DisconnectedList
  <2>2. ASSUME NEW j \in 1..Len(list[g]), j # q
        PROVE  /\ slot'[list[g][j]] = slot[list[g][j]]
               /\ slot[list[g][j]] = y => y # slot[c]
    <3>1. list[g][j] # c
      BY <2>2, <1>3 DEF LinkedOnce
    <3> QED
      BY <3>1, <1>0, <1>1 DEF SlotsApart
  <2>3. m \in Nat
    BY <1>0, <1>3
  <2>4. ASSUME Among(g, m, y)' PROVE y # slot[c] /\ Among(g, n, y)
    <3>1. PICK i \in 1..m : slot'[list'[g][i]] = y
      BY <2>4 DEF Among
    <3> DEFINE j == IF i < q THEN i ELSE i + 1
    <3>2. i \in 1..(Len(list[g]) - 1) /\ j \in 1..n /\ j \in 1..Len(list[g]) /\ j # q
      BY <1>0, <1>3
    <3>3. list'[g][i] = list[g][j]
      BY <2>1, <3>2
    <3> HIDE DEF j
    <3>4. slot[list[g][j]] = y /\ y # slot[c]
      BY <3>1, <3>2, <3>3, <2>2
    <3> QED
      BY <3>2, <3>4 DEF Among
  <2>5. ASSUME y # slot[c], Among(g, n, y) PROVE Among(g, m, y)'
    <3>1. PICK j \in 1..n : slot[list[g][j]] = y
      BY <2>5 DEF Among
    <3>2. j # q
      BY <3>1, <2>5, <1>3
    <3> DEFINE i == IF j < q THEN j ELSE j - 1
    <3>3. j \in 1..Len(list[g]) /\ i \in 1..(Len(list[g]) - 1) /\ i \in 1..m
      BY <1>0, <1>3, <3>2
    <3>4. list'[g][i] = list[g][j]
      BY <2>1, <3>2, <3>3
    <3> HIDE DEF i
    <3>5. slot'[list'[g][i]] = y
      BY <3>1, <3>2, <3>3, <3>4, <2>2
    <3> QED
      BY <3>3, <3>5 DEF Among
  <2> QED
    BY <2>4, <2>5
<1> QED
  BY <1>2, <1>3

LEMMA DisconnectStep ==
  ASSUME IInv, NEW c \in Connections, Disconnect(c)
  PROVE  IInv'
<1> USE DEF IInv
<1>1. /\ \A g \in Signals : list'[g] = Unlinked(list[g], c)
      /\ DOMAIN list' = Signals /\ list' = [g \in Signals |-> list'[g]]
      /\ \A d \in Connections : slot'[d] = IF d = c THEN Nil ELSE slot[d]
      /\ slot' \in [Connections -> Slots \cup {Nil}]
      /\ stack' = Forget(slot[c])
      /\ fault' = fault
      /\ c \notin Running
  BY DEF Disconnect, TypeOK
<1>2. ASSUME NEW g \in Signals PROVE list'[g] \in Seq(Connections)
  <2>1. CASE \A i \in 1..Len(list[g]) : list[g][i] # c
    BY <1>1, <2>1, NotUnlinked, ListType
  <2>2. ASSUME NEW q \in 1..Len(list[g]), list[g][q] = c PROVE list'[g] \in Seq(Connections)
    <3>1. Unlinked(list[g], c) \in Seq(Connections)
      BY <2>2, UnlinkedEffect
    <3> QED
      BY <3>1, <1>1
  <2> QED
    BY <2>1, <2>2
<1>3. list' \in [Signals -> Seq(Connections)]
  BY <1>1, <1>2
<1>4. stack' \in Seq(Calls) /\ Len(stack') = Len(stack)
  BY <1>1, ForgetEffect
<1>5. TypeOK'
  BY <1>1, <1>3, <1>4 DEF TypeOK
<1>6. ASSUME NEW g \in Signals, NEW i \in 1..Len(list'[g])
      PROVE  \E j \in 1..Len(list[g]) :
            /\ list'[g][i] = list[g][j]
            /\ list[g][j] # c
            /\ \A q \in 1..Len(list[g]) : list[g][q] = c => j = IF i < q THEN i ELSE i + 1
            /\ (\A q \in 1..Len(list[g]) : list[g][q] # c) => j = i
  <2>1. list'[g] = Unlinked(list[g], c)
    BY <1>1
  <2>2. i \in 1..Len(Unlinked(list[g], c))
    BY <2>1
  <2>3. \E j \in 1..Len(list[g]) :
            /\ Unlinked(list[g], c)[i] = list[g][j]
            /\ list[g][j] # c
            /\ \A q \in 1..Len(list[g]) : list[g][q] = c => j = IF i < q THEN i ELSE i + 1
            /\ (\A q \in 1..Len(list[g]) : list[g][q] # c) => j = i
    BY <2>2, UnlinkedFrom
  <2> QED
    BY <2>1, <2>3
<1>7. LinkedOnce'
  <2> SUFFICES ASSUME NEW g \in Signals, NEW h \in Signals,
                      NEW i1 \in 1..Len(list'[g]), NEW i2 \in 1..Len(list'[h]),
                      list'[g][i1] = list'[h][i2]
               PROVE  g = h /\ i1 = i2
    BY DEF LinkedOnce
  <2>1. PICK j1 \in 1..Len(list[g]) :
            /\ list'[g][i1] = list[g][j1]
            /\ \A q \in 1..Len(list[g]) : list[g][q] = c => j1 = IF i1 < q THEN i1 ELSE i1 + 1
            /\ (\A q \in 1..Len(list[g]) : list[g][q] # c) => j1 = i1
    BY <1>6
  <2>2. PICK j2 \in 1..Len(list[h]) :
            /\ list'[h][i2] = list[h][j2]
            /\ \A q \in 1..Len(list[h]) : list[h][q] = c => j2 = IF i2 < q THEN i2 ELSE i2 + 1
            /\ (\A q \in 1..Len(list[h]) : list[h][q] # c) => j2 = i2
    BY <1>6
  <2>3. g = h /\ j1 = j2
    <3>1. list[g][j1] = list[h][j2]
      BY <2>1, <2>2
    <3> QED
      BY <3>1 DEF LinkedOnce
  <2>4. CASE \A q \in 1..Len(list[g]) : list[g][q] # c
    BY <2>1, <2>2, <2>3, <2>4
  <2>5. ASSUME NEW q \in 1..Len(list[g]), list[g][q] = c PROVE i1 = i2
    <3>1. /\ j1 = IF i1 < q THEN i1 ELSE i1 + 1
          /\ j2 = IF i2 < q THEN i2 ELSE i2 + 1
      BY <2>1, <2>2, <2>3, <2>5
    <3>2. i1 \in Int /\ i2 \in Int /\ q \in Int
      OBVIOUS
    <3> QED
      BY <3>1, <3>2, <2>3
  <2> QED
    BY <2>3, <2>4, <2>5
<1>8. SlotsApart'
  BY <1>1 DEF SlotsApart
<1>9. Filled'
  <2> SUFFICES ASSUME ~AssignOver, NEW g \in Signals, NEW i \in 1..Len(list'[g])
               PROVE  slot'[list'[g][i]] # Nil
    BY DEF Filled
  <2>1. PICK j \in 1..Len(list[g]) : list'[g][i] = list[g][j] /\ list[g][j] # c
    BY <1>6
  <2>2. list[g][j] \in Connections /\ slot[list[g][j]] # Nil
    BY ListType DEF Filled
  <2> QED
    BY <2>1, <2>2, <1>1
<1>10. Walking'
  <2> SUFFICES ASSUME NEW k \in 1..Len(stack)
               PROVE  \E r \in 1..Len(list'[stack'[k].sig]) : WalkedTo(stack[k], r)'
    BY <1>4 DEF Walking
  <2>1. stack[k].sig \in Signals /\ stack[k].cur # c
    BY StackType, NotRunning, <1>1
  <2>2. PICK p \in 1..Len(list[stack[k].sig]) : WalkedTo(stack[k], p)
    BY DEF Walking
  <2> SUFFICES ASSUME NEW g \in Signals, g = stack[k].sig
               PROVE  \E r \in 1..Len(list'[stack'[k].sig]) : WalkedTo(stack[k], r)'
    BY <2>1
  <2>3. /\ Len(list[g]) \in Nat
        /\ p \in 1..Len(list[g])
        /\ list[g][p] # c
    BY <2>1, <2>2, ListType DEF WalkedTo
  <2>4. ASSUME NEW q, q \in 1..Len(list'[g]), list'[g][q] = list[g][p],
               \A y \in Slots : Among(g, q, y)' <=> y # slot[c] /\ Among(g, p, y),
               \A y \in Slots : y # slot[c] /\ Among(g, Len(list[g]), y) => Among(g, Len(list[g]), y)'
        PROVE  \E r \in 1..Len(list'[stack'[k].sig]) : WalkedTo(stack[k], r)'
    <3>1. PICK x : x = slot[c]
      OBVIOUS
    <3>2. TypeOK /\ stack' = Forget(x) /\ stack[k].sig = g
      BY <1>1, <3>1
    <3>3. p \in 1..Len(list[g]) /\ WalkedTo(stack[k], p)
      BY <2>2, <2>3
    <3>4. /\ \A y \in Slots : Among(g, q, y)' <=> y # x /\ Among(g, p, y)
          /\ \A y \in Slots :
                y # x /\ Among(g, Len(list[g]), y) => Among(g, Len(list[g]), y)'
      BY <2>4, <3>1
    <3> HIDE DEF IInv
    <3> QED
      BY <2>4, <3>2, <3>3, <3>4, ForgetWalk
  <2>5. CASE \A i \in 1..Len(list[g]) : list[g][i] # c
    <3>1. list'[g] = list[g]
      BY <1>1, <2>5, NotUnlinked
    <3>2. p \in 1..Len(list'[g]) /\ list'[g][p] = list[g][p]
      BY <3>1, <2>3
    <3>3. p \in 0..Len(list[g]) /\ Len(list[g]) \in 0..Len(list[g])
      BY <2>3
    <3>4. \A y \in Slots : Among(g, p, y)' <=> y # slot[c] /\ Among(g, p, y)
      BY <2>5, <3>3, AmongUnlinked
    <3>5. \A y \in Slots : Among(g, Len(list[g]), y)' <=> y # slot[c] /\ Among(g, Len(list[g]), y)
      <4> SUFFICES ASSUME NEW y \in Slots, NEW n, n = Len(list[g]), n = Len(list'[g])
                   PROVE  Among(g, n, y)' <=> y # slot[c] /\ Among(g, n, y)
        BY <3>1 DEF Among
      <4>1. n \in 0..Len(list[g])
        BY <3>3
      <4> QED
        BY <4>1, <2>5, AmongUnlinked
    <3> QED
      BY <2>4, <3>2, <3>4, <3>5
  <2>6. ASSUME NEW u \in 1..Len(list[g]), list[g][u] = c
        PROVE  \E r \in 1..Len(list'[stack'[k].sig]) : WalkedTo(stack[k], r)'
    <3>1. /\ Len(list'[g]) = Len(list[g]) - 1
          /\ \A j \in 1..(Len(list[g]) - 1) :
                list'[g][j] = IF j < u THEN list[g][j] ELSE list[g][j + 1]
      <4>1. TypeOK /\ LinkedOnce
        OBVIOUS
      <4> HIDE DEF IInv
      <4> QED
        BY <4>1, <2>6, DisconnectedList
    <3>2. p # u
      BY <2>3, <2>6
    <3> DEFINE q == IF p < u THEN p ELSE p - 1
    <3>3. q \in 1..(Len(list[g]) - 1) /\ q \in 1..Len(list'[g])
      BY <3>1, <3>2, <2>3
    <3>4. list'[g][q] = list[g][p]
      <4>1. list'[g][q] = IF q < u THEN list[g][q] ELSE list[g][q + 1]
        BY <3>1, <3>3
      <4>2. IF q < u THEN q = p ELSE q + 1 = p
        BY <2>3, <3>2
      <4> HIDE DEF q
      <4> QED
        BY <4>1, <4>2
    <3>5. p \in 0..Len(list[g]) /\ Len(list[g]) \in 0..Len(list[g]) /\ ~(Len(list[g]) < u)
      BY <2>3
    <3>6. \A y \in Slots : Among(g, q, y)' <=> y # slot[c] /\ Among(g, p, y)
      BY <2>6, <3>5, AmongUnlinked
    <3>7. ASSUME NEW y \in Slots, y # slot[c], Among(g, Len(list[g]), y)
          PROVE  Among(g, Len(list[g]), y)'
      <4>1. PICK n : n = Len(list[g])
        OBVIOUS
      <4>2. PICK m : m = Len(list'[g])
        OBVIOUS
      <4>3. n \in 0..Len(list[g]) /\ m = IF n < u THEN n ELSE n - 1
        BY <3>1, <3>5, <4>1, <4>2
      <4>4. Among(g, n, y)
        BY <3>7, <4>1
      <4>5. Among(g, m, y)'
        BY <2>6, <3>7, <4>3, <4>4, AmongUnlinked
      <4> QED
        BY <4>2, <4>5 DEF Among
    <3> HIDE DEF q
    <3> QED
      BY <2>4, <3>3, <3>4, <3>6, <3>7
  <2> QED
    BY <2>5, <2>6
<1> QED
  BY <1>5, <1>7, <1>8, <1>9, <1>10

LEMMA MoveStep ==
  ASSUME IInv, NEW c \in Connections, NEW d \in Connections, Move(c, d)
  PROVE  IInv'
<1> USE DEF IInv
<1>1. /\ c # d
      /\ \A g \in Signals : list'[g] = Swapped(list[g], c, d)
      /\ list' = [g \in Signals |-> list'[g]]
      /\ \A e \in Connections : slot'[e] = IF e = c THEN Nil ELSE IF e = d THEN slot[c] ELSE slot[e]
      /\ slot' \in [Connections -> Slots \cup {Nil}]
      /\ stack' = Forget(slot[d])
      /\ fault' = fault
      /\ c \notin Running /\ d \notin Running
      /\ ~AssignOver => d \notin Linked
  BY DEF Move, TypeOK
<1>2. ASSUME NEW g \in Signals
      PROVE  /\ list'[g] \in Seq(Connections)
             /\ Len(list'[g]) = Len(list[g])
             /\ \A i \in 1..Len(list[g]) :
                   list'[g][i] = IF list[g][i] = c THEN d ELSE IF list[g][i] = d THEN c ELSE list[g][i]
  <2>1. /\ Len(list[g]) \in Nat /\ DOMAIN list[g] = 1..Len(list[g])
        /\ \A i \in 1..Len(list[g]) : list[g][i] \in Connections
    BY ListType
  <2> DEFINE to(e) == IF e = c THEN d ELSE IF e = d THEN c ELSE e
  <2>2. Swapped(list[g], c, d) = [i \in 1..Len(list[g]) |-> to(list[g][i])]
    BY <2>1, <1>1 DEF Swapped
  <2>3. \A i \in 1..Len(list[g]) : to(list[g][i]) \in Connections
    BY <2>1
  <2> HIDE DEF to
  <2>4. /\ Swapped(list[g], c, d) \in Seq(Connections)
        /\ Len(Swapped(list[g], c, d)) = Len(list[g])
    BY <2>1, <2>2, <2>3
  <2>5. \A i \in 1..Len(list[g]) : Swapped(list[g], c, d)[i] = to(list[g][i])
    BY <2>2
  <2> QED
    BY <2>4, <2>5, <1>1 DEF to
<1>3. list' \in [Signals -> Seq(Connections)]
  BY <1>1, <1>2
<1>4. stack' \in Seq(Calls) /\ Len(stack') = Len(stack)
  BY <1>1, ForgetEffect
<1>5. TypeOK'
  BY <1>1, <1>3, <1>4 DEF TypeOK
<1>6. LinkedOnce'
  <2> SUFFICES ASSUME NEW g \in Signals, NEW h \in Signals,
                      NEW i \in 1..Len(list[g]), NEW j \in 1..Len(list[h]),
                      list'[g][i] = list'[h][j]
               PROVE  g = h /\ i = j
    BY <1>2 DEF LinkedOnce
  <2>1. list[g][i] = list[h][j]
    BY <1>1, <1>2
  <2> QED
    BY <2>1 DEF LinkedOnce
<1>7. SlotsApart'
  BY <1>1 DEF SlotsApart
\* The slot at a place stays there, unless it is the one that is destroyed.
<1>8. ASSUME NEW g \in Signals, NEW i \in 1..Len(list[g])
      PROVE  slot'[list'[g][i]] = IF list[g][i] = d THEN Nil ELSE slot[list[g][i]]
  <2>1. list[g][i] \in Connections
    BY ListType
  <2>2. list'[g][i] = IF list[g][i] = c THEN d ELSE IF list[g][i] = d THEN c ELSE list[g][i]
    BY <1>2
  <2> QED
    BY <2>1, <2>2, <1>1
<1>9. Filled'
  <2> SUFFICES ASSUME ~AssignOver, NEW g \in Signals, NEW i \in 1..Len(list[g])
               PROVE  slot'[list'[g][i]] # Nil
    BY <1>2 DEF Filled
  <2>1. list[g][i] # d
    BY <1>1, LinkedPlaces
  <2> QED
    BY <2>1, <1>8 DEF Filled
<1>10. ASSUME NEW g \in Signals, NEW i \in 1..Len(list[g]), NEW y \in Slots
       PROVE  slot'[list'[g][i]] = y <=> y # slot[d] /\ slot[list[g][i]] = y
  <2>1. list[g][i] \in Connections /\ y # Nil
    BY ListType, NilAssumption
  <2>2. slot'[list'[g][i]] = IF list[g][i] = d THEN Nil ELSE slot[list[g][i]]
    BY <1>8
  <2> QED
    BY <2>1, <2>2 DEF SlotsApart
<1>11. Walking'
  <2> SUFFICES ASSUME NEW k \in 1..Len(stack)
               PROVE  \E r \in 1..Len(list'[stack'[k].sig]) : WalkedTo(stack[k], r)'
    BY <1>4 DEF Walking
  <2>1. stack[k].sig \in Signals /\ stack[k].cur # c /\ stack[k].cur # d
    BY StackType, NotRunning, <1>1
  <2>2. PICK p \in 1..Len(list[stack[k].sig]) : WalkedTo(stack[k], p)
    BY DEF Walking
  <2> SUFFICES ASSUME NEW g \in Signals, g = stack[k].sig
               PROVE  \E r \in 1..Len(list'[stack'[k].sig]) : WalkedTo(stack[k], r)'
    BY <2>1
  <2>3. /\ Len(list[g]) \in Nat
        /\ p \in 1..Len(list[g])
        /\ list[g][p] # c /\ list[g][p] # d
    BY <2>1, <2>2, ListType DEF WalkedTo
  <2>4. p \in 1..Len(list'[g]) /\ list'[g][p] = list[g][p]
    BY <2>3, <1>2
  <2>5. \A y \in Slots : Among(g, p, y)' <=> y # slot[d] /\ Among(g, p, y)
    <3>1. \A j \in 1..p : j \in 1..Len(list[g])
      BY <2>3
    <3> QED
      BY <3>1, <1>10 DEF Among
  <2>6. \A y \in Slots : y # slot[d] /\ Among(g, Len(list[g]), y) => Among(g, Len(list[g]), y)'
    BY <1>2, <1>10 DEF Among
  <2>7. ASSUME NEW q, q \in 1..Len(list'[g]), list'[g][q] = list[g][p],
               \A y \in Slots : Among(g, q, y)' <=> y # slot[d] /\ Among(g, p, y),
               \A y \in Slots : y # slot[d] /\ Among(g, Len(list[g]), y) => Among(g, Len(list[g]), y)'
        PROVE  \E r \in 1..Len(list'[stack'[k].sig]) : WalkedTo(stack[k], r)'
    <3>1. PICK x : x = slot[d]
      OBVIOUS
    <3>2. TypeOK /\ stack' = Forget(x) /\ stack[k].sig = g
      BY <1>1, <3>1
    <3>3. p \in 1..Len(list[g]) /\ WalkedTo(stack[k], p)
      BY <2>2, <2>3
    <3>4. /\ \A y \in Slots : Among(g, q, y)' <=> y # x /\ Among(g, p, y)
          /\ \A y \in Slots :
                y # x /\ Among(g, Len(list[g]), y) => Among(g, Len(list[g]), y)'
      BY <2>7, <3>1
    <3> HIDE DEF IInv
    <3> QED
      BY <2>7, <3>2, <3>3, <3>4, ForgetWalk
  <2> QED
    BY <2>4, <2>5, <2>6, <2>7
<1> QED
  BY <1>5, <1>6, <1>7, <1>9, <1>11

-----------------------------------------------------------------------------
(***************************************************************************)
(* The steps of a call.                                                    *)
(***************************************************************************)

\* A call of the signal of g arrives at place p, with the slots before it called.
LEMMA Arrives ==
  ASSUME TypeOK, LinkedOnce, SlotsApart, NEW g \in Signals, NEW p \in 1..Len(list[g]),
         NEW t \in [Slots -> Nat],
         \A x \in Slots : t[x] = IF Among(g, p - 1, x) THEN 1 ELSE 0,
         NEW due \in SUBSET Slots,
         \A x \in due : Among(g, Len(list[g]), x)
  PROVE  At(g, list[g][p], t, due) \in Calls /\ WalkedTo(At(g, list[g][p], t, due), p)
<1> DEFINE c == list[g][p]
           f == At(g, c, t, due)
<1>0. /\ Len(list[g]) \in Nat
      /\ \A i \in 1..Len(list[g]) : list[g][i] \in Connections
  BY ListType
<1>1. c \in Connections /\ slot[c] \in Slots \cup {Nil}
  BY <1>0 DEF TypeOK
<1>2. /\ f.sig = g /\ f.cur = c /\ f.due = due
      /\ f.times = IF slot[c] = Nil THEN t ELSE [t EXCEPT ![slot[c]] = @ + 1]
  BY DEF At
<1>3. f.times \in [Slots -> Nat]
  BY <1>1, <1>2
<1>4. f \in Calls
  BY <1>1, <1>2, <1>3 DEF At, Calls
<1>5. ASSUME NEW x \in Slots PROVE f.times[x] = IF Among(g, p, x) THEN 1 ELSE 0
  <2>0. x # Nil
    BY NilAssumption
  <2>1. CASE slot[c] = x
    <3>1. ~Among(g, p - 1, x)
      <4> SUFFICES ASSUME NEW j \in 1..(p - 1), slot[list[g][j]] = x PROVE FALSE
        BY DEF Among
      <4>1. j \in 1..Len(list[g]) /\ j # p
        BY <1>0
      <4>2. list[g][j] = c
        BY <4>1, <1>0, <1>1, <2>0, <2>1 DEF SlotsApart
      <4> QED
        BY <4>1, <4>2 DEF LinkedOnce
    <3>2. Among(g, p, x)
      <4>1. p \in 1..p
        BY <1>0
      <4> QED
        BY <4>1, <2>1 DEF Among
    <3>3. t[x] = 0 /\ f.times[x] = t[x] + 1
      BY <3>1, <2>0, <2>1, <1>2
    <3> QED
      BY <3>2, <3>3
  <2>2. CASE slot[c] # x
    <3>1. Among(g, p, x) <=> Among(g, p - 1, x)
      <4>1. \A j \in 1..p : j = p \/ j \in 1..(p - 1)
        BY <1>0
      <4>2. \A j \in 1..(p - 1) : j \in 1..p
        BY <1>0
      <4> QED
        BY <4>1, <4>2, <2>2 DEF Among
    <3>2. f.times[x] = t[x]
      BY <1>1, <1>2, <2>2
    <3> QED
      BY <3>1, <3>2
  <2> QED
    BY <2>1, <2>2
<1> HIDE DEF f
<1> QED
  BY <1>2, <1>4, <1>5 DEF WalkedTo, f

\* A step that leaves lists and slots alone leaves call k at its place.
LEMMA WalkUnchanged ==
  ASSUME UNCHANGED <<list, slot>>, NEW k, NEW f, stack'[k] = f,
         NEW r \in 1..Len(list[f.sig]), WalkedTo(f, r)
  PROVE  \E q \in 1..Len(list'[stack'[k].sig]) : WalkedTo(stack[k], q)'
<1>1. r \in 1..Len(list'[stack'[k].sig])
  OBVIOUS
<1>2. WalkedTo(stack[k], r)'
  BY DEF WalkedTo, Among
<1> QED
  BY <1>1, <1>2

\* A call that stays at its place in a list that stays as it is.
LEMMA WalkKept ==
  ASSUME UNCHANGED <<list, slot>>, NEW f, NEW k, stack'[k] = f,
         NEW p \in 1..Len(list[f.sig]), WalkedTo(f, p)
  PROVE  \E r \in 1..Len(list'[stack'[k].sig]) : WalkedTo(stack[k], r)'
<1>1. /\ list'[stack'[k].sig][p] = stack'[k].cur
      /\ \A x \in Slots : stack'[k].times[x] = IF Among(stack[k].sig, p, x)' THEN 1 ELSE 0
      /\ \A x \in stack'[k].due : Among(stack[k].sig, Len(list[stack[k].sig]), x)'
  BY DEF WalkedTo, Among
<1>2. WalkedTo(stack[k], p)'
  BY <1>1 DEF WalkedTo
<1> QED
  BY <1>2

LEMMA EmitStep ==
  ASSUME IInv, NEW g \in Signals, Emit(g)
  PROVE  IInv'
<1> USE DEF IInv
<1> DEFINE due == {slot[d] : d \in Range(list[g])} \ {Nil}
           f == At(g, list[g][1], Zero, due)
<1>0. /\ Len(list[g]) \in Nat /\ DOMAIN list[g] = 1..Len(list[g]) /\ list[g] # <<>>
      /\ Len(list[g]) > 0
      /\ \A i \in 1..Len(list[g]) : list[g][i] \in Connections
  BY ListType DEF Emit
<1>1. /\ stack' = Append(stack, f)
      /\ fault' \in BOOLEAN
      /\ UNCHANGED <<list, slot>>
  BY FlagsAssumption DEF Emit
<1>2. 1 \in 1..Len(list[g])
  BY <1>0
<1>3. \A x \in due : x \in Slots /\ Among(g, Len(list[g]), x)
  BY <1>0 DEF Range, Among, TypeOK
<1>4. \A x : ~Among(g, 1 - 1, x)
  BY DEF Among
<1>5. Zero \in [Slots -> Nat] /\ \A x \in Slots : Zero[x] = IF Among(g, 1 - 1, x) THEN 1 ELSE 0
  BY <1>4 DEF Zero
<1> HIDE DEF due
<1>6. f \in Calls /\ WalkedTo(f, 1)
  BY <1>2, <1>3, <1>5, Arrives
<1>7. f.sig = g
  BY DEF At
<1> HIDE DEF f
<1>8. /\ stack' \in Seq(Calls)
      /\ Len(stack') = Len(stack) + 1
      /\ \A k \in 1..Len(stack) : stack'[k] = stack[k]
      /\ stack'[Len(stack) + 1] = f
  BY <1>1, <1>6, AppendProperties DEF TypeOK
<1>9. TypeOK' /\ LinkedOnce' /\ SlotsApart' /\ Filled'
  BY <1>1, <1>8 DEF TypeOK, LinkedOnce, SlotsApart, Filled
<1>10. Walking'
  <2> SUFFICES ASSUME NEW k \in 1..Len(stack')
               PROVE  \E p \in 1..Len(list'[stack'[k].sig]) : WalkedTo(stack[k], p)'
    BY DEF Walking
  <2>1. k \in 1..Len(stack) \/ k = Len(stack) + 1
    BY <1>8, StackType
  <2>2. CASE k \in 1..Len(stack)
    <3>1. PICK p \in 1..Len(list[stack[k].sig]) : WalkedTo(stack[k], p)
      BY <2>2 DEF Walking
    <3>2. stack'[k] = stack[k]
      BY <2>2, <1>8
    <3> HIDE DEF IInv
    <3> QED
      BY <3>1, <3>2, <1>1, WalkKept
  <2>3. CASE k = Len(stack) + 1
    <3>1. stack'[k] = f /\ 1 \in 1..Len(list[f.sig])
      BY <2>3, <1>2, <1>7, <1>8
    <3> HIDE DEF IInv
    <3> QED
      BY <3>1, <1>1, <1>6, WalkKept
  <2> QED
    BY <2>1, <2>2, <2>3
<1> QED
  BY <1>9, <1>10

LEMMA ReturnStep ==
  ASSUME IInv, Return
  PROVE  IInv'
<1> USE DEF IInv
<1> DEFINE n == Len(stack)
           top == stack[n]
           g == top.sig
<1>0. stack # <<>> /\ UNCHANGED <<list, slot>>
  BY DEF Return
<1>1. /\ n \in Nat /\ n > 0 /\ n \in 1..Len(stack)
      /\ g \in Signals /\ top.times \in [Slots -> Nat] /\ top.due \in SUBSET Slots
      /\ stack \in Seq(Calls)
  BY <1>0, StackType, EmptySeq DEF TypeOK
<1>2. PICK p \in 1..Len(list[g]) : WalkedTo(top, p)
  BY <1>1 DEF Walking
<1>3. Len(list[g]) \in Nat /\ DOMAIN list[g] = 1..Len(list[g])
  BY <1>1, ListType
<1>4. Position(list[g], top.cur) = p
  BY <1>1, <1>2, <1>3 DEF Position, WalkedTo, LinkedOnce
<1>5. CASE p = Len(list[g])
  <2>1. stack' = SubSeq(stack, 1, n - 1) /\ UNCHANGED fault
    BY <1>4, <1>5 DEF Return
  <2>2. /\ stack' \in Seq(Calls)
        /\ Len(stack') = n - 1
        /\ \A k \in 1..(n - 1) : stack'[k] = stack[k]
    <3>1. SubSeq(stack, 1, n - 1) = [k \in 1..(n - 1) |-> stack[k]]
      BY <1>1
    <3>2. n - 1 \in Nat /\ \A k \in 1..(n - 1) : k \in 1..Len(stack)
      BY <1>1
    <3>3. \A k \in 1..(n - 1) : stack[k] \in Calls
      BY <3>2, StackType
    <3> HIDE DEF n
    <3> QED
      BY <2>1, <3>1, <3>2, <3>3
  <2>3. TypeOK' /\ LinkedOnce' /\ SlotsApart' /\ Filled'
    BY <1>0, <2>1, <2>2 DEF TypeOK, LinkedOnce, SlotsApart, Filled
  <2>4. Walking'
    <3> SUFFICES ASSUME NEW k \in 1..Len(stack')
                 PROVE  \E r \in 1..Len(list'[stack'[k].sig]) : WalkedTo(stack[k], r)'
      BY DEF Walking
    <3>1. k \in 1..(n - 1) /\ k \in 1..Len(stack)
      BY <1>1, <2>2
    <3>2. PICK r \in 1..Len(list[stack[k].sig]) : WalkedTo(stack[k], r)
      BY <3>1 DEF Walking
    <3> QED
      BY <3>1, <3>2, <2>2, <1>0, WalkUnchanged
  <2> QED
    BY <2>3, <2>4
<1>6. CASE p # Len(list[g])
  <2> DEFINE f == At(g, list[g][p + 1], top.times, top.due)
  <2>1. /\ stack' = [stack EXCEPT ![n] = f]
        /\ fault' \in BOOLEAN
    BY <1>4, <1>6, FlagsAssumption DEF Return
  <2>2. p + 1 \in 1..Len(list[g]) /\ (p + 1) - 1 = p
    BY <1>3, <1>6
  <2>3. /\ \A x \in Slots : top.times[x] = IF Among(g, p, x) THEN 1 ELSE 0
        /\ \A x \in top.due : Among(g, Len(list[g]), x)
    BY <1>2 DEF WalkedTo
  <2>4. f \in Calls /\ WalkedTo(f, p + 1) /\ f.sig = g
    <3>1. ASSUME NEW q \in 1..Len(list[g]), q - 1 = p
          PROVE  /\ At(g, list[g][q], top.times, top.due) \in Calls
                 /\ WalkedTo(At(g, list[g][q], top.times, top.due), q)
      BY <3>1, <1>1, <2>3, Arrives
    <3>2. f.sig = g
      BY DEF At
    <3> QED
      BY <2>2, <3>1, <3>2
  <2> HIDE DEF f
  <2>5. /\ stack' \in Seq(Calls)
        /\ Len(stack') = n
        /\ \A k \in 1..n : stack'[k] = IF k = n THEN f ELSE stack[k]
    BY <1>1, <2>1, <2>4
  <2>6. TypeOK' /\ LinkedOnce' /\ SlotsApart' /\ Filled'
    BY <1>0, <2>1, <2>5 DEF TypeOK, LinkedOnce, SlotsApart, Filled
  <2>7. Walking'
    <3> SUFFICES ASSUME NEW k \in 1..Len(stack)
                 PROVE  \E r \in 1..Len(list'[stack'[k].sig]) : WalkedTo(stack[k], r)'
      BY <2>5 DEF Walking
    <3>1. CASE k # n
      <4>1. PICK r \in 1..Len(list[stack[k].sig]) : WalkedTo(stack[k], r)
        BY DEF Walking
      <4> QED
        BY <3>1, <4>1, <2>5, <1>0, WalkUnchanged
    <3>2. CASE k = n
      BY <3>2, <2>2, <2>4, <2>5, <1>0, WalkUnchanged
    <3> QED
      BY <3>1, <3>2
  <2> QED
    BY <2>6, <2>7
<1> QED
  BY <1>5, <1>6

-----------------------------------------------------------------------------
(***************************************************************************)
(* The theorems.                                                           *)
(***************************************************************************)

LEMMA NextIInv == IInv /\ [Next]_vars => IInv'
<1> SUFFICES ASSUME IInv, [Next]_vars PROVE IInv'
  OBVIOUS
<1>1. CASE Return
  BY <1>1, ReturnStep
<1>2. ASSUME NEW g \in Signals, Emit(g) PROVE IInv'
  BY <1>2, EmitStep
<1>3. ASSUME NEW g \in Signals, DestroySignal(g) PROVE IInv'
  BY <1>3, DestroySignalStep
<1>4. ASSUME NEW g \in Signals, NEW h \in Signals, MoveSignal(g, h) PROVE IInv'
  BY <1>4, MoveSignalStep
<1>5. ASSUME NEW g \in Signals, NEW c \in Connections, NEW x \in Slots, Connect(g, c, x) PROVE IInv'
  BY <1>5, ConnectStep
<1>6. ASSUME NEW c \in Connections, Disconnect(c) PROVE IInv'
  BY <1>6, DisconnectStep
<1>7. ASSUME NEW c \in Connections, NEW d \in Connections, Move(c, d) PROVE IInv'
  BY <1>7, MoveStep
<1>8. CASE UNCHANGED vars
  <2>1. TypeOK' /\ LinkedOnce' /\ SlotsApart' /\ Filled'
    BY <1>8 DEF vars, IInv, TypeOK, LinkedOnce, SlotsApart, Filled
  <2>2. Walking'
    BY <1>8, WalkUnchanged DEF vars, IInv, Walking
  <2> QED
    BY <2>1, <2>2 DEF IInv
<1> QED
  BY <1>1, <1>2, <1>3, <1>4, <1>5, <1>6, <1>7, <1>8 DEF Next

\* The inductive invariant holds.
THEOREM Invariance == Spec => []IInv
BY InitIInv, NextIInv, PTL DEF Spec

\* The state of every signal, connection and call has its type.
THEOREM TypeCorrect == Spec => []TypeOK
<1>1. IInv => TypeOK
  BY DEF IInv
<1> QED
  BY <1>1, Invariance, PTL

\* The intrusive lists stay sound, and the iterators of running calls point
\* into them, whatever is connected, destroyed, moved or called from a slot.
THEOREM SoundLists == Spec => []ListsSound
<1>1. IInv => ListsSound
  <2> SUFFICES ASSUME IInv PROVE ListsSound
    OBVIOUS
  <2> USE DEF IInv
  <2>1. ASSUME NEW g \in Signals, NEW h \in Signals,
               NEW i \in DOMAIN list[g], NEW j \in DOMAIN list[h], list[g][i] = list[h][j]
        PROVE  g = h /\ i = j
    <3>1. i \in 1..Len(list[g]) /\ j \in 1..Len(list[h])
      BY ListType
    <3>2. LinkedOnce
      OBVIOUS
    <3> HIDE DEF IInv
    <3> QED
      BY <2>1, <3>1, <3>2 DEF LinkedOnce
  <2>2. ~AssignOver => \A c \in Linked : slot[c] # Nil
    BY LinkedPlaces DEF Filled
  <2>3. ASSUME NEW k \in DOMAIN stack PROVE stack[k].cur \in Range(list[stack[k].sig])
    <3>1. k \in 1..Len(stack) /\ stack[k].sig \in Signals
      BY StackType
    <3>2. PICK p \in 1..Len(list[stack[k].sig]) : list[stack[k].sig][p] = stack[k].cur
      BY <3>1 DEF Walking, WalkedTo
    <3> QED
      BY <3>1, <3>2, ListType DEF Range
  <2> QED
    BY <2>1, <2>2, <2>3 DEF ListsSound
<1> QED
  BY <1>1, Invariance, PTL

\* When a call of a signal ends it has called every slot that was connected
\* all along exactly once, and no slot twice.
THEOREM CallsReachEverySlot == Spec => EverySlotCalled
<1> DEFINE Ended == Len(stack') < Len(stack) =>
              LET top == stack[Len(stack)]
              IN  /\ \A x \in top.due : top.times[x] = 1
                  /\ \A x \in Slots : top.times[x] <= 1
<1>1. IInv /\ [Next]_vars => [Ended]_vars
  <2> SUFFICES ASSUME IInv, Next, Len(stack') < Len(stack) PROVE Ended
    BY DEF vars
  <2> USE DEF IInv
  <2>1. Len(stack) \in Nat
    BY StackType
  <2>2. Return
    <3>1. ASSUME NEW x, stack' = Forget(x) PROVE FALSE
      BY <3>1, <2>1, ForgetEffect
    <3>2. ASSUME NEW g \in Signals, Emit(g) PROVE FALSE
      <4>1. PICK f : stack' = Append(stack, f)
        BY <3>2 DEF Emit
      <4>2. Len(Append(stack, f)) = Len(stack) + 1
        BY DEF TypeOK
      <4> QED
        BY <4>1, <4>2, <2>1
    <3>3. ASSUME UNCHANGED stack PROVE FALSE
      BY <3>3, <2>1
    <3> QED
      BY <3>1, <3>2, <3>3 DEF Next, DestroySignal, MoveSignal, Connect, Disconnect, Move
  <2> DEFINE n == Len(stack)
             g == stack[n].sig
  <2>3. n \in 1..Len(stack) /\ g \in Signals /\ stack[n].due \in SUBSET Slots
    BY <2>1, <2>2, StackType, EmptySeq DEF Return, TypeOK
  <2>4. PICK p \in 1..Len(list[g]) : WalkedTo(stack[n], p)
    BY <2>3 DEF Walking
  <2>5. Position(list[g], stack[n].cur) = p
    BY <2>3, <2>4, ListType DEF Position, WalkedTo, LinkedOnce
  <2>6. p = Len(list[g])
    <3> SUFFICES ASSUME p # Len(list[g]) PROVE FALSE
      OBVIOUS
    <3>1. PICK f : stack' = [stack EXCEPT ![n] = f]
      BY <2>2, <2>5 DEF Return
    <3>2. Len([stack EXCEPT ![n] = f]) = Len(stack)
      BY DEF TypeOK
    <3> QED
      BY <3>1, <3>2, <2>1
  <2>7. \A x \in Slots : stack[n].times[x] = IF Among(g, Len(list[g]), x) THEN 1 ELSE 0
    BY <2>4, <2>6 DEF WalkedTo
  <2>8. \A x \in stack[n].due : Among(g, Len(list[g]), x)
    BY <2>4 DEF WalkedTo
  <2> QED
    BY <2>3, <2>7, <2>8
<1> HIDE DEF Ended
<1>2. [][Ended]_vars => EverySlotCalled
  BY DEF Ended, EverySlotCalled
<1>3. Spec => [][Ended]_vars
  BY <1>1, Invariance, PTL DEF Spec
<1> QED
  BY <1>2, <1>3, PTL

=============================================================================
