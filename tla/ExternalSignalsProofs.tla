------------------------ MODULE ExternalSignalsProofs ------------------------
(***************************************************************************)
(* The ring of pending signals, for every capacity and any callers: its    *)
(* positions and entries are right whatever they do, and until one of them *)
(* advances the head while another holds a copy of it, nothing published   *)
(* is lost and the ring implements the bounded queue.                      *)
(***************************************************************************)
EXTENDS ExternalSignals, SequenceTheorems, TLAPS

Position == 0..(Capacity - 1)

IndicesGiven == \A p \in Producer : pc[p] # "idle" => myIndex[p] \in Index

\* A caller's head stays true, and so does the room that it has found; what it
\* stores is outside of what waits, and stays there unless another caller that
\* has stored too is about to publish.
CallerInv ==
    \A p \in Producer :
        /\ pc[p] # "idle" => myHead[p] = head
        /\ pc[p] \in {"room found", "slot stored"} => After(head) # tail
        /\ pc[p] = "slot stored" /\ (\A q \in Producer \ {p} : pc[q] # "slot stored") =>
              slot[head] = myIndex[p]

\* The batch being delivered is the oldest part of what waits.
BatchInv ==
    draining => /\ Distance(tail, cur) <= Distance(tail, end)
                /\ Distance(tail, end) <= Distance(tail, head)

NothingLost == published = delivered \o Waiting

TypeInv == TypeOK /\ IndicesGiven
QueueInv == TypeInv /\ CallerInv /\ BatchInv /\ NothingLost
IInv == TypeInv /\ (~raced => QueueInv)

\* The entries of the array a from f up to t, in the order of the ring.
Between(a, f, t) == [k \in 1..Distance(f, t) |-> a[(f + k - 1) % Capacity]]

-----------------------------------------------------------------------------
(* Positions on the ring, without the modulus *)

LEMMA Wrapped ==
    ASSUME NEW n \in Nat, n < 2 * Capacity
    PROVE  n % Capacity = IF n < Capacity THEN n ELSE n - Capacity
<1> USE RingAssumption
<1>1. CASE n < Capacity
  BY <1>1
<1>2. CASE n >= Capacity
  BY <1>2
<1> QED
  BY <1>1, <1>2

LEMMA AfterIs ==
    ASSUME NEW f \in Position
    PROVE  /\ f = Capacity - 1 => After(f) = 0
           /\ f # Capacity - 1 => After(f) = f + 1
           /\ After(f) \in Position
BY RingAssumption, Wrapped DEF After, Position

LEMMA DistanceIs ==
    ASSUME NEW f \in Position, NEW t \in Position
    PROVE  /\ f <= t => Distance(f, t) = t - f
           /\ t < f => Distance(f, t) = t + Capacity - f
           /\ Distance(f, t) \in Position
BY RingAssumption, Wrapped DEF Distance, Position

LEMMA PlaceIs ==
    ASSUME NEW f \in Position, NEW k \in 1..Capacity
    PROVE  /\ f + k - 1 < Capacity => (f + k - 1) % Capacity = f + k - 1
           /\ f + k - 1 >= Capacity => (f + k - 1) % Capacity = f + k - 1 - Capacity
           /\ (f + k - 1) % Capacity \in Position
BY RingAssumption, Wrapped DEF Position

LEMMA PositionIs ==
    ASSUME NEW f \in Position
    PROVE  f \in Nat /\ 0 <= f /\ f < Capacity /\ f <= Capacity - 1
BY RingAssumption DEF Position

LEMMA HeadMoves ==
    ASSUME NEW f \in Position, NEW t \in Position, After(t) # f
    PROVE  Distance(f, After(t)) = Distance(f, t) + 1
BY AfterIs, DistanceIs, PositionIs, RingAssumption

LEMMA PlaceOfHead ==
    ASSUME NEW f \in Position, NEW t \in Position,
           NEW k \in 1..Capacity
    PROVE  (f + k - 1) % Capacity = t <=> k = Distance(f, t) + 1
<1> DEFINE place == (f + k - 1) % Capacity
<1>1. /\ f + k - 1 < Capacity => place = f + k - 1
      /\ f + k - 1 >= Capacity => place = f + k - 1 - Capacity
  BY PlaceIs
<1>2. /\ f <= t => Distance(f, t) = t - f
      /\ t < f => Distance(f, t) = t + Capacity - f
  BY DistanceIs
<1>3. f \in Nat /\ t \in Nat /\ f < Capacity /\ t < Capacity /\ Capacity \in Nat
  BY PositionIs, RingAssumption
<1> HIDE DEF place
<1>4. place = t <=> k = Distance(f, t) + 1
  BY <1>1, <1>2, <1>3
<1> QED
  BY <1>4 DEF place

LEMMA PlaceFromNext ==
    ASSUME NEW f \in Position, NEW k \in 1..Capacity, NEW j \in 1..Capacity, j = k + 1
    PROVE  (After(f) + k - 1) % Capacity = (f + j - 1) % Capacity
<1> DEFINE g == After(f)
           p == (f + j - 1) % Capacity
           q == (g + k - 1) % Capacity
<1>1. /\ f = Capacity - 1 => g = 0
      /\ f # Capacity - 1 => g = f + 1
      /\ g \in Position
  BY AfterIs
<1>2. /\ f + j - 1 < Capacity => p = f + j - 1
      /\ f + j - 1 >= Capacity => p = f + j - 1 - Capacity
  BY PlaceIs
<1> HIDE DEF g
<1>3. /\ g + k - 1 < Capacity => q = g + k - 1
      /\ g + k - 1 >= Capacity => q = g + k - 1 - Capacity
  BY <1>1, PlaceIs
<1>4. f \in Nat /\ f < Capacity /\ Capacity \in Nat
  BY PositionIs, RingAssumption
<1> HIDE DEF p, q
<1>5. p = q
  BY <1>1, <1>2, <1>3, <1>4
<1> QED
  BY <1>5 DEF p, q, g

LEMMA FirstMoves ==
    ASSUME NEW f \in Position, NEW t \in Position, f # t
    PROVE  Distance(f, t) = Distance(After(f), t) + 1
BY AfterIs, DistanceIs, PositionIs, RingAssumption

LEMMA WaitingPlaces ==
    ASSUME NEW f \in Position, NEW t \in Position, NEW k \in 1..Distance(f, t)
    PROVE  k \in 1..Capacity /\ (f + k - 1) % Capacity # t /\ (f + k - 1) % Capacity \in Position
<1>1. Distance(f, t) \in Nat /\ Distance(f, t) < Capacity
  BY DistanceIs, PositionIs
<1>2. k \in 1..Capacity /\ k # Distance(f, t) + 1
  BY <1>1, RingAssumption
<1> QED
  BY <1>2, PlaceOfHead, PlaceIs

LEMMA Nested ==
    ASSUME NEW t \in Position, NEW c \in Position, NEW h \in Position,
           Distance(t, c) <= Distance(t, h)
    PROVE  /\ Distance(t, h) = Distance(t, c) + Distance(c, h)
           /\ After(h) # t => After(h) # c
BY AfterIs, DistanceIs, PositionIs, RingAssumption

LEMMA NestedMoves ==
    ASSUME NEW t \in Position, NEW c \in Position, NEW e \in Position, c # e,
           Distance(t, c) <= Distance(t, e)
    PROVE  /\ Distance(t, After(c)) = Distance(t, c) + 1
           /\ Distance(t, After(c)) <= Distance(t, e)
<1>1. Distance(t, c) \in Nat /\ Distance(t, e) \in Nat /\ Distance(t, e) < Capacity
  BY DistanceIs, PositionIs
<1>2. Distance(t, c) # Distance(t, e)
  BY DistanceIs, PositionIs, RingAssumption
<1>3. Distance(t, c) < Capacity - 1
  BY <1>1, <1>2, RingAssumption
<1>4. After(c) # t
  BY <1>3, AfterIs, DistanceIs, PositionIs, RingAssumption
<1> QED
  BY <1>1, <1>2, <1>4, HeadMoves

-----------------------------------------------------------------------------
(* What waits *)

LEMMA BetweenIsSeq ==
    ASSUME NEW S, NEW a \in [Position -> S], NEW f \in Position, NEW t \in Position
    PROVE  /\ Between(a, f, t) \in Seq(S)
           /\ Len(Between(a, f, t)) = Distance(f, t)
           /\ \A k \in 1..Distance(f, t) : Between(a, f, t)[k] = a[(f + k - 1) % Capacity]
<1>1. Distance(f, t) \in Nat
  BY DistanceIs, PositionIs
<1>2. \A k \in 1..Distance(f, t) : a[(f + k - 1) % Capacity] \in S
  BY WaitingPlaces
<1>3. Between(a, f, t) \in [1..Distance(f, t) -> S]
  BY <1>2 DEF Between
<1> QED
  BY <1>1, <1>3, LenProperties, IsASeq DEF Between

\* A store at the end of what waits changes nothing of it.
LEMMA StoreOutside ==
    ASSUME NEW S, NEW a \in [Position -> S], NEW f \in Position, NEW t \in Position,
           NEW i
    PROVE  Between([a EXCEPT ![t] = i], f, t) = Between(a, f, t)
<1>1. \A k \in 1..Distance(f, t) :
        [a EXCEPT ![t] = i][(f + k - 1) % Capacity] = a[(f + k - 1) % Capacity]
  BY WaitingPlaces
<1> QED
  BY <1>1 DEF Between

\* A head that moves on adds the entry it was at.
LEMMA HeadAppends ==
    ASSUME NEW S, NEW a \in [Position -> S], NEW f \in Position, NEW t \in Position,
           After(t) # f
    PROVE  Between(a, f, After(t)) = Append(Between(a, f, t), a[t])
<1> DEFINE d == Distance(f, t)
           w == Between(a, f, t)
           v == Between(a, f, After(t))
<1>1. After(t) \in Position /\ a[t] \in S
  BY AfterIs
<1>2. Distance(f, After(t)) = d + 1 /\ d \in Nat /\ d + 1 \in 1..Capacity
  BY HeadMoves, DistanceIs, PositionIs, RingAssumption
<1>3. /\ v \in Seq(S) /\ Len(v) = d + 1
      /\ \A k \in 1..(d + 1) : v[k] = a[(f + k - 1) % Capacity]
  <2>1. /\ v \in Seq(S) /\ Len(v) = Distance(f, After(t))
        /\ \A k \in 1..Distance(f, After(t)) : v[k] = a[(f + k - 1) % Capacity]
    BY <1>1, BetweenIsSeq
  <2> HIDE DEF v, d
  <2> QED
    BY <1>2, <2>1, Zenon
<1>4. /\ w \in Seq(S) /\ Len(w) = d
      /\ \A k \in 1..d : w[k] = a[(f + k - 1) % Capacity]
  BY BetweenIsSeq
<1>5. (f + (d + 1) - 1) % Capacity = t
  BY <1>2, PlaceOfHead
<1>6. /\ Append(w, a[t]) \in Seq(S) /\ Len(Append(w, a[t])) = d + 1
      /\ \A k \in 1..d : Append(w, a[t])[k] = w[k]
      /\ Append(w, a[t])[d + 1] = a[t]
  BY <1>1, <1>4, AppendProperties
<1> HIDE DEF d, w, v
<1>7. ASSUME NEW k \in 1..(d + 1) PROVE v[k] = Append(w, a[t])[k]
  <2>1. CASE k = d + 1
    BY <2>1, <1>2, <1>3, <1>5, <1>6
  <2>2. CASE k # d + 1
    <3>1. k \in 1..d
      BY <2>2, <1>2
    <3> QED
      BY <3>1, <1>3, <1>4, <1>6
  <2> QED
    BY <2>1, <2>2
<1>8. v = Append(w, a[t])
  BY <1>3, <1>6, <1>7, SeqEqual
<1> QED
  BY <1>8 DEF v, w

\* A first position that moves on takes the oldest entry away.
LEMMA FirstTakes ==
    ASSUME NEW S, NEW a \in [Position -> S], NEW f \in Position, NEW t \in Position,
           f # t
    PROVE  /\ Between(a, f, t) # <<>>
           /\ Head(Between(a, f, t)) = a[f]
           /\ Tail(Between(a, f, t)) = Between(a, After(f), t)
<1> DEFINE d == Distance(After(f), t)
           w == Between(a, f, t)
           v == Between(a, After(f), t)
<1>1. After(f) \in Position
  BY AfterIs
<1>2. Distance(f, t) = d + 1 /\ d \in Nat /\ d + 1 < Capacity
  BY <1>1, FirstMoves, DistanceIs, PositionIs
<1>3. /\ w \in Seq(S) /\ Len(w) = d + 1
      /\ \A k \in 1..(d + 1) : w[k] = a[(f + k - 1) % Capacity]
  <2>1. /\ w \in Seq(S) /\ Len(w) = Distance(f, t)
        /\ \A k \in 1..Distance(f, t) : w[k] = a[(f + k - 1) % Capacity]
    BY BetweenIsSeq
  <2> HIDE DEF w, d
  <2> QED
    BY <1>2, <2>1, Zenon
<1>4. /\ v \in Seq(S) /\ Len(v) = d
      /\ \A k \in 1..d : v[k] = a[(After(f) + k - 1) % Capacity]
  BY <1>1, BetweenIsSeq
<1>5. (f + 1 - 1) % Capacity = f
  BY PlaceIs, PositionIs, RingAssumption
<1>6. w # <<>> /\ w[1] = a[f]
  BY <1>2, <1>3, <1>5, EmptySeq
<1>7. /\ Tail(w) \in Seq(S) /\ Len(Tail(w)) = d
      /\ \A k \in 1..d : Tail(w)[k] = w[k + 1]
  <2>1. /\ Tail(w) \in Seq(S) /\ Len(Tail(w)) = Len(w) - 1
        /\ \A k \in 1..Len(Tail(w)) : Tail(w)[k] = w[k + 1]
    BY <1>3, <1>6, HeadTailProperties
  <2> HIDE DEF w, d
  <2>2. Len(Tail(w)) = d
    BY <1>2, <1>3, <2>1
  <2> QED
    BY <2>1, <2>2, Zenon
<1>8. ASSUME NEW k \in 1..d PROVE Tail(w)[k] = v[k]
  <2>1. k \in 1..Capacity /\ k + 1 \in 1..Capacity /\ k + 1 \in 1..(d + 1)
    BY <1>2, RingAssumption
  <2>2. (After(f) + k - 1) % Capacity = (f + (k + 1) - 1) % Capacity
    BY <2>1, PlaceFromNext
  <2>3. w[k + 1] = a[(f + (k + 1) - 1) % Capacity]
    BY <2>1, <1>3
  <2> QED
    BY <2>2, <2>3, <1>4, <1>7
<1> HIDE DEF d, w, v
<1>9. Tail(w) = v
  BY <1>4, <1>7, <1>8, SeqEqual
<1>10. Head(w) = w[1]
  BY <1>3
<1> QED
  BY <1>6, <1>9, <1>10 DEF w, v

-----------------------------------------------------------------------------
(* Steps *)

LEMMA TypesInitially == Init => TypeInv
<1> SUFFICES ASSUME Init PROVE TypeInv
  OBVIOUS
<1>1. <<>> \in Seq(Index)
  BY EmptySeq
<1>2. 0 \in 0..(Capacity - 1) /\ 0 \in 0..MaxCalls
  BY RingAssumption
<1>3. TypeOK
  BY <1>1, <1>2 DEF Init, TypeOK
<1> QED
  BY <1>3 DEF Init, TypeInv, IndicesGiven

LEMMA AppendTyped ==
    ASSUME NEW s \in Seq(Index), NEW i \in Index
    PROVE  Append(s, i) \in Seq(Index)
BY AppendProperties

LEMMA TypesPreserved ==
    ASSUME TypeInv, [Next]_vars
    PROVE  TypeInv'
<1>a. ASSUME NEW p \in Producer, NEW i \in Index, LoadHead(p, i)
       PROVE  calls' \in 0..MaxCalls
  <2>1. calls < MaxCalls /\ calls' = calls + 1
    BY <1>a DEF LoadHead
  <2>2. calls \in 0..MaxCalls /\ MaxCalls \in Nat
    BY RingAssumption DEF TypeInv, TypeOK
  <2> QED
    BY <2>1, <2>2
<1>b. ASSUME NEW p \in Producer, LoadTail(p)
       PROVE  dropped' \in Nat
  <2>1. dropped' \in {dropped, dropped + 1} /\ dropped \in Nat
    BY <1>b DEF LoadTail, TypeInv, TypeOK
  <2> QED
    BY <2>1
<1> USE DEF TypeInv, TypeOK, IndicesGiven, producerVars, consumerVars
<1>1. CASE UNCHANGED vars
  BY <1>1 DEF vars
<1>2. ASSUME NEW p \in Producer, NEW i \in Index, LoadHead(p, i) PROVE TypeInv'
  <2>1. calls' \in 0..MaxCalls
    BY <1>2, <1>a
  <2>2. TypeOK'
    BY <1>2, <2>1 DEF LoadHead
  <2>3. \A q \in Producer : pc'[q] # "idle" => myIndex'[q] \in Index
    BY <1>2 DEF LoadHead
  <2> QED
    BY <1>2, <2>2, <2>3
<1>3. ASSUME NEW p \in Producer, LoadTail(p) PROVE TypeInv'
  <2>1. TypeOK'
    BY <1>3, <1>b DEF LoadTail
  <2>2. \A q \in Producer : pc'[q] # "idle" => myIndex'[q] \in Index
    BY <1>3 DEF LoadTail
  <2> QED
    BY <2>1, <2>2
<1>4. ASSUME NEW p \in Producer, StoreSlot(p) PROVE TypeInv'
  BY <1>4 DEF StoreSlot
<1>5. ASSUME NEW p \in Producer, StoreHead(p) PROVE TypeInv'
  <2>1. head' \in Position
    BY <1>5, AfterIs DEF StoreHead, Position
  <2>2. published' \in Seq(Index)
    BY <1>5, AppendTyped DEF StoreHead
  <2> QED
    BY <1>5, <2>1, <2>2 DEF StoreHead, Position
<1>6. CASE BeginDrain
  BY <1>6 DEF BeginDrain
<1>7. CASE Deliver
  <2>1. cur' \in Position
    BY <1>7, AfterIs DEF Deliver, Position
  <2>2. delivered' \in Seq(Index)
    BY <1>7, AppendTyped DEF Deliver
  <2> QED
    BY <1>7, <2>1, <2>2 DEF Deliver, Position
<1>8. CASE EndDrain
  BY <1>8 DEF EndDrain
<1> QED
  BY <1>1, <1>2, <1>3, <1>4, <1>5, <1>6, <1>7, <1>8 DEF Next, Drain, Call, Continue

\* Whoever has raced has raced for ever, and a caller that advances the head
\* without racing is the only one.
LEMMA NotRaced ==
    ASSUME TypeInv, [Next]_vars, ~raced'
    PROVE  /\ ~raced
           /\ \A p \in Producer : StoreHead(p) => \A q \in Producer \ {p} : pc[q] = "idle"
<1> USE DEF TypeInv, TypeOK
<1>1. CASE UNCHANGED vars
  BY <1>1 DEF vars, StoreHead, producerVars
<1>2. ASSUME NEW p \in Producer, NEW i \in Index, LoadHead(p, i) PROVE raced' = raced
  BY <1>2 DEF LoadHead
<1> QED
  BY <1>1, <1>2 DEF Next, Drain, Call, Continue, LoadTail, StoreSlot, StoreHead, BeginDrain,
                    Deliver, EndDrain

LEMMA Positions ==
    ASSUME TypeOK
    PROVE  /\ head \in Position /\ tail \in Position /\ cur \in Position /\ end \in Position
           /\ slot \in [Position -> Index \union {0}]
           /\ First \in Position
BY DEF TypeOK, Position, First

LEMMA CallerPreserved ==
    ASSUME TypeInv, CallerInv, BatchInv, [Next]_vars, ~raced'
    PROVE  CallerInv'
<1> USE DEF CallerInv, producerVars, consumerVars, TypeInv
<1>0. pc \in [Producer -> {"idle", "head loaded", "room found", "slot stored"}]
  BY DEF TypeOK
<1>1. CASE UNCHANGED vars
  BY <1>1 DEF vars
<1>2. ASSUME NEW p \in Producer, NEW i \in Index, LoadHead(p, i) PROVE CallerInv'
  BY <1>2 DEF LoadHead, TypeOK
<1>3. ASSUME NEW p \in Producer, LoadTail(p) PROVE CallerInv'
  BY <1>3 DEF LoadTail, TypeOK
<1>4. ASSUME NEW p \in Producer, StoreSlot(p) PROVE CallerInv'
  BY <1>4 DEF StoreSlot, TypeOK
<1>5. ASSUME NEW p \in Producer, StoreHead(p) PROVE CallerInv'
  BY <1>5, NotRaced DEF StoreHead, TypeOK
<1>6. CASE BeginDrain
  BY <1>6 DEF BeginDrain
<1>7. CASE Deliver
  BY <1>7 DEF Deliver
<1>8. CASE EndDrain
  <2>1. After(head) # tail => After(head) # cur
    BY <1>8, Positions, Nested DEF EndDrain, BatchInv
  <2> QED
    BY <1>8, <2>1 DEF EndDrain
<1> QED
  BY <1>1, <1>2, <1>3, <1>4, <1>5, <1>6, <1>7, <1>8 DEF Next, Drain, Call, Continue

LEMMA BatchPreserved ==
    ASSUME TypeInv, CallerInv, BatchInv, [Next]_vars
    PROVE  BatchInv'
<1> USE DEF BatchInv, producerVars, consumerVars, TypeInv
<1>1. CASE UNCHANGED vars
  BY <1>1 DEF vars
<1>2. ASSUME NEW p \in Producer, NEW i \in Index, LoadHead(p, i) PROVE BatchInv'
  BY <1>2 DEF LoadHead
<1>3. ASSUME NEW p \in Producer, LoadTail(p) PROVE BatchInv'
  BY <1>3 DEF LoadTail
<1>4. ASSUME NEW p \in Producer, StoreSlot(p) PROVE BatchInv'
  BY <1>4 DEF StoreSlot
<1>5. ASSUME NEW p \in Producer, StoreHead(p) PROVE BatchInv'
  <2>1. head' = After(head) /\ After(head) # tail /\ UNCHANGED <<tail, draining, cur, end>>
    BY <1>5 DEF StoreHead, CallerInv
  <2>2. Distance(tail, After(head)) = Distance(tail, head) + 1
    BY <2>1, Positions, HeadMoves
  <2>3. Distance(tail, head) \in Nat /\ Distance(tail, end) \in Nat
    BY Positions, DistanceIs, PositionIs
  <2> QED
    BY <2>1, <2>2, <2>3
<1>6. CASE BeginDrain
  <2>1. Distance(tail, tail) = 0 /\ Distance(tail, head) \in Nat
    BY Positions, DistanceIs, PositionIs
  <2> QED
    BY <1>6, <2>1 DEF BeginDrain
<1>7. CASE Deliver
  <2>1. Distance(tail, After(cur)) <= Distance(tail, end)
    BY <1>7, Positions, NestedMoves DEF Deliver
  <2> QED
    BY <1>7, <2>1 DEF Deliver
<1>8. CASE EndDrain
  BY <1>8 DEF EndDrain
<1> QED
  BY <1>1, <1>2, <1>3, <1>4, <1>5, <1>6, <1>7, <1>8 DEF Next, Drain, Call, Continue

-----------------------------------------------------------------------------
(* Nothing is lost *)

LEMMA WaitingIs == Waiting = Between(slot, First, head)
BY DEF Waiting, Between

LEMMA WaitingTyped ==
    ASSUME TypeOK
    PROVE  Waiting \in Seq(Index \union {0}) /\ Len(Waiting) = Distance(First, head)
BY Positions, WaitingIs, BetweenIsSeq

LEMMA RoomForHead ==
    ASSUME TypeOK, BatchInv, After(head) # tail
    PROVE  After(head) # First
<1>1. CASE draining
  BY <1>1, Positions, Nested, DistanceIs, PositionIs DEF BatchInv, First
<1>2. CASE ~draining
  BY <1>2 DEF First
<1> QED
  BY <1>1, <1>2

\* What each step does to the queue.
LEMMA StoreSlotWaits ==
    ASSUME QueueInv, NEW p \in Producer, StoreSlot(p)
    PROVE  Waiting' = Waiting
<1>1. slot' = [slot EXCEPT ![head] = myIndex[p]] /\ UNCHANGED <<head, tail, draining, cur>>
  BY DEF StoreSlot, QueueInv, CallerInv, consumerVars
<1>2. Between([slot EXCEPT ![head] = myIndex[p]], First, head) = Between(slot, First, head)
  <2>1. /\ slot \in [Position -> Index \union {0}]
        /\ head \in Position /\ First \in Position
    BY Positions DEF QueueInv, TypeInv
  <2> HIDE DEF First
  <2> QED
    BY <2>1, StoreOutside
<1> QED
  BY <1>1, <1>2, WaitingIs DEF Waiting, First, Between

LEMMA StoreHeadWaits ==
    ASSUME QueueInv, NEW p \in Producer, StoreHead(p), ~raced'
    PROVE  Waiting' = Append(Waiting, myIndex[p]) /\ myIndex[p] \in Index
<1>1. /\ head' = After(head) /\ slot[head] = myIndex[p] /\ After(head) # tail
      /\ UNCHANGED <<slot, tail, draining, cur>>
  <2>1. \A q \in Producer \ {p} : pc[q] = "idle"
    BY DEF StoreHead
  <2> QED
    BY <2>1 DEF StoreHead, QueueInv, CallerInv, consumerVars
<1>2. Between(slot, First, After(head)) = Append(Between(slot, First, head), slot[head])
  BY <1>1, Positions, RoomForHead, HeadAppends DEF QueueInv, TypeInv
<1>3. Waiting' = Between(slot, First, After(head))
  BY <1>1 DEF Waiting, First, Between
<1>4. myIndex[p] \in Index
  BY DEF StoreHead, QueueInv, TypeInv, IndicesGiven
<1> QED
  BY <1>1, <1>2, <1>3, <1>4, WaitingIs

LEMMA DeliverTakes ==
    ASSUME QueueInv, Deliver
    PROVE  /\ Waiting # <<>> /\ Waiting' = Tail(Waiting)
           /\ Head(Waiting) \in Index
           /\ delivered' = Append(delivered, Head(Waiting))
<1>1. draining /\ cur # end /\ cur' = After(cur) /\ UNCHANGED <<slot, head, tail, draining>>
  BY DEF Deliver
<1>2. cur # head
  <2>1. Distance(tail, cur) # Distance(tail, end)
    BY <1>1, Positions, DistanceIs, PositionIs, RingAssumption DEF QueueInv, TypeInv
  <2>2. /\ Distance(tail, cur) \in Nat /\ Distance(tail, end) \in Nat
        /\ Distance(tail, head) \in Nat
    BY Positions, DistanceIs, PositionIs DEF QueueInv, TypeInv
  <2> QED
    BY <1>1, <2>1, <2>2 DEF QueueInv, BatchInv
<1>3. First = cur /\ First' = After(cur)
  BY <1>1 DEF First
<1>4. /\ Waiting # <<>> /\ Head(Waiting) = slot[cur]
      /\ Tail(Waiting) = Between(slot, After(cur), head)
  BY <1>2, <1>3, Positions, FirstTakes, WaitingIs DEF QueueInv, TypeInv
<1>5. Waiting' = Between(slot, After(cur), head)
  BY <1>1, <1>3 DEF Waiting, Between
<1>6. Head(Waiting) \in Index
  <2>1. published = delivered \o Waiting /\ published \in Seq(Index) /\ delivered \in Seq(Index)
    BY DEF QueueInv, NothingLost, TypeInv, TypeOK
  <2>2. /\ delivered \in Seq(Index \union {0}) /\ Waiting \in Seq(Index \union {0})
        /\ Len(delivered) \in Nat
    BY <2>1, WaitingTyped, SeqMonotonic, LenProperties DEF QueueInv, TypeInv
  <2>3. Len(Waiting) \in Nat \ {0} /\ Head(Waiting) = Waiting[1]
    BY <1>4, <2>2, EmptySeq
  <2>4. /\ Len(published) = Len(delivered) + Len(Waiting)
        /\ published[Len(delivered) + 1] = Waiting[1]
    BY <2>1, <2>2, <2>3, ConcatProperties
  <2>5. Len(delivered) + 1 \in 1..Len(published)
    BY <2>2, <2>3, <2>4
  <2> QED
    BY <2>1, <2>3, <2>4, <2>5, ElementOfSeq
<1> QED
  BY <1>4, <1>5, <1>6 DEF Deliver

LEMMA OthersKeepWaiting ==
    ASSUME [Next]_vars,
           ~Deliver, \A p \in Producer : ~StoreSlot(p) /\ ~StoreHead(p)
    PROVE  Waiting' = Waiting
<1>1. UNCHANGED <<slot, head>> /\ First' = First
  <2>1. CASE UNCHANGED vars
    BY <2>1 DEF vars, First, consumerVars
  <2>2. ASSUME NEW p \in Producer, NEW i \in Index, LoadHead(p, i)
        PROVE UNCHANGED <<slot, head>> /\ First' = First
    BY <2>2 DEF LoadHead, First, consumerVars
  <2>3. ASSUME NEW p \in Producer, LoadTail(p)
        PROVE UNCHANGED <<slot, head>> /\ First' = First
    BY <2>3 DEF LoadTail, First, consumerVars
  <2>4. CASE BeginDrain
    BY <2>4 DEF BeginDrain, First
  <2>5. CASE EndDrain
    BY <2>5 DEF EndDrain, First
  <2> QED
    BY <2>1, <2>2, <2>3, <2>4, <2>5 DEF Next, Drain, Call, Continue
<1> QED
  BY <1>1 DEF Waiting

LEMMA WaitingInitially == Init => Waiting = <<>>
<1> SUFFICES ASSUME Init PROVE Waiting = <<>>
  OBVIOUS
<1>1. Waiting \in Seq(Index \union {0}) /\ Len(Waiting) = Distance(First, head)
  BY TypesInitially, WaitingTyped DEF TypeInv
<1>2. First = 0 /\ head = 0 /\ 0 \in Position
  BY RingAssumption DEF Init, First, Position
<1>3. Len(Waiting) = 0
  BY <1>1, <1>2, DistanceIs
<1> QED
  BY <1>1, <1>3, EmptySeq

LEMMA AppendLater ==
    ASSUME NEW S, NEW d \in Seq(S), NEW w \in Seq(S), NEW q, q = d \o w, NEW i \in S
    PROVE  Append(q, i) = d \o Append(w, i)
<1>1. <<i>> \in Seq(S) /\ q \in Seq(S)
  BY ConcatProperties
<1>2. Append(q, i) = (d \o w) \o <<i>> /\ Append(w, i) = w \o <<i>>
  BY <1>1, AppendIsConcat
<1> QED
  BY <1>1, <1>2, ConcatAssociative

LEMMA TakeFirst ==
    ASSUME NEW S, NEW d \in Seq(S), NEW w \in Seq(S), w # <<>>
    PROVE  Append(d, Head(w)) \o Tail(w) = d \o w
<1>1. /\ Head(w) \in S /\ Tail(w) \in Seq(S) /\ Len(Tail(w)) = Len(w) - 1
      /\ \A i \in 1..Len(Tail(w)) : Tail(w)[i] = w[i + 1]
  BY HeadTailProperties
<1>2. Len(d) \in Nat /\ Len(w) \in Nat \ {0} /\ Head(w) = w[1]
  BY EmptySeq, LenProperties
<1>3. /\ Append(d, Head(w)) \in Seq(S) /\ Len(Append(d, Head(w))) = Len(d) + 1
      /\ \A i \in 1..Len(d) : Append(d, Head(w))[i] = d[i]
      /\ Append(d, Head(w))[Len(d) + 1] = Head(w)
  BY <1>1, AppendProperties
<1> DEFINE a == Append(d, Head(w))
           t == Tail(w)
           l == a \o t
           r == d \o w
<1>4. /\ l \in Seq(S) /\ Len(l) = Len(a) + Len(t)
      /\ \A i \in 1..(Len(a) + Len(t)) : l[i] = IF i <= Len(a) THEN a[i] ELSE t[i - Len(a)]
  BY <1>1, <1>3, ConcatProperties
<1>5. /\ r \in Seq(S) /\ Len(r) = Len(d) + Len(w)
      /\ \A i \in 1..(Len(d) + Len(w)) : r[i] = IF i <= Len(d) THEN d[i] ELSE w[i - Len(d)]
  BY ConcatProperties
<1> HIDE DEF a, t, l, r
<1>6. Len(a) = Len(d) + 1 /\ Len(t) = Len(w) - 1
  BY <1>1, <1>3 DEF a, t
<1>7. ASSUME NEW i \in 1..Len(r) PROVE l[i] = r[i]
  <2>0. i \in Nat /\ i >= 1 /\ i <= Len(d) + Len(w)
    BY <1>2, <1>5
  <2>a. i \in 1..(Len(a) + Len(t)) /\ i \in 1..(Len(d) + Len(w))
    BY <2>0, <1>2, <1>6
  <2>1. CASE i <= Len(d)
    <3>1. l[i] = a[i] /\ r[i] = d[i]
      <4>1. i <= Len(a)
        BY <2>0, <2>1, <1>2, <1>6
      <4> QED
        BY <4>1, <2>a, <2>1, <1>4, <1>5
    <3> QED
      BY <2>0, <2>1, <3>1, <1>2, <1>3 DEF a
  <2>2. CASE i = Len(d) + 1
    <3>1. l[i] = a[i] /\ r[i] = w[1]
      <4>1. i <= Len(a) /\ ~(i <= Len(d)) /\ i - Len(d) = 1
        BY <2>2, <1>2, <1>6
      <4> QED
        BY <4>1, <2>a, <1>4, <1>5
    <3> QED
      BY <2>2, <3>1, <1>2, <1>3 DEF a
  <2>3. CASE i > Len(d) + 1
    <3>1. l[i] = t[i - Len(a)] /\ r[i] = w[i - Len(d)]
      BY <2>0, <2>3, <1>2, <1>4, <1>5, <1>6
    <3>2. i - Len(a) \in 1..Len(t) /\ i - Len(a) + 1 = i - Len(d)
      BY <2>0, <2>3, <1>2, <1>6
    <3>3. t[i - Len(a)] = w[i - Len(a) + 1]
      BY <3>2, <1>1 DEF t
    <3> QED
      BY <3>1, <3>2, <3>3
  <2> QED
    BY <2>0, <2>1, <2>2, <2>3, <1>2
<1>8. l = r
  BY <1>2, <1>4, <1>5, <1>6, <1>7, SeqEqual
<1> QED
  BY <1>8 DEF l, r, a, t

LEMMA NothingLostPreserved ==
    ASSUME QueueInv, [Next]_vars, ~raced'
    PROVE  NothingLost'
<1>1. /\ published = delivered \o Waiting /\ Waiting \in Seq(Index \union {0})
      /\ delivered \in Seq(Index \union {0})
  BY WaitingTyped, SeqMonotonic DEF QueueInv, NothingLost, TypeInv, TypeOK
<1>2. ASSUME NEW p \in Producer, StoreSlot(p) PROVE NothingLost'
  BY <1>1, <1>2, StoreSlotWaits DEF StoreSlot, NothingLost, consumerVars
<1>3. ASSUME NEW p \in Producer, StoreHead(p) PROVE NothingLost'
  <2>1. Waiting' = Append(Waiting, myIndex[p]) /\ myIndex[p] \in Index \union {0}
    BY <1>3, StoreHeadWaits
  <2>2. published' = Append(published, myIndex[p]) /\ delivered' = delivered
    BY <1>3 DEF StoreHead, consumerVars
  <2>3. Append(published, myIndex[p]) = delivered \o Append(Waiting, myIndex[p])
    BY <1>1, <2>1, AppendLater
  <2> QED
    BY <2>1, <2>2, <2>3 DEF NothingLost
<1>4. CASE Deliver
  <2>1. /\ Waiting # <<>> /\ Waiting' = Tail(Waiting)
        /\ delivered' = Append(delivered, Head(Waiting)) /\ published' = published
    BY <1>4, DeliverTakes DEF Deliver
  <2> QED
    BY <1>1, <2>1, TakeFirst DEF NothingLost
<1>5. CASE ~Deliver /\ \A p \in Producer : ~StoreSlot(p) /\ ~StoreHead(p)
  <2>1. Waiting' = Waiting
    BY <1>5, OthersKeepWaiting
  <2>2. UNCHANGED <<published, delivered>>
    BY <1>5 DEF Next, Drain, Call, Continue, vars, consumerVars, LoadHead, LoadTail,
                BeginDrain, EndDrain
  <2> QED
    BY <1>1, <2>1, <2>2 DEF NothingLost
<1> QED
  BY <1>2, <1>3, <1>4, <1>5

LEMMA IInvInitially == Init => IInv
<1> SUFFICES ASSUME Init PROVE QueueInv
  BY DEF IInv, QueueInv
<1>1. TypeInv
  BY TypesInitially
<1>2. CallerInv /\ BatchInv
  BY DEF Init, CallerInv, BatchInv
<1>3. NothingLost
  <2>1. published = <<>> /\ delivered = <<>> /\ Waiting = <<>>
    BY WaitingInitially DEF Init
  <2> QED
    BY <2>1, EmptySeq, ConcatEmptySeq DEF NothingLost
<1> QED
  BY <1>1, <1>2, <1>3 DEF QueueInv

LEMMA IInvPreserved ==
    ASSUME IInv, [Next]_vars
    PROVE  IInv'
<1>1. TypeInv'
  BY TypesPreserved DEF IInv
<1>2. ASSUME ~raced' PROVE QueueInv'
  <2>1. QueueInv
    BY <1>2, NotRaced DEF IInv
  <2> QED
    BY <1>1, <1>2, <2>1, CallerPreserved, BatchPreserved, NothingLostPreserved DEF QueueInv
<1> QED
  BY <1>1, <1>2 DEF IInv

LEMMA IInvHolds == Spec => []IInv
BY IInvInitially, IInvPreserved, PTL DEF Spec

\* The positions stay on the ring and every entry is an index that a caller
\* gave, however many threads call signalExternalSemaphore at once: the modulus
\* there and in processPendingSignals.
THEOREM RingTypeCorrect == Spec => []TypeOK
<1>1. IInv => TypeOK
  BY DEF IInv, TypeInv
<1> QED
  BY <1>1, IInvHolds, PTL

\* Until a caller advances the head while another holds a copy of it, no
\* published signal is lost, doubled or passed by another, for any capacity, any
\* callers and whatever their calls and the drain overlap with: that store is
\* the one way to lose a signal.
THEOREM NothingPublishedIsLost == Spec => []NoSilentLoss
<1>1. IInv => NoSilentLoss
  BY DEF IInv, QueueInv, NothingLost, NoSilentLoss
<1> QED
  BY <1>1, IInvHolds, PTL

-----------------------------------------------------------------------------
(* The refinement *)

Unreleased == IF draining THEN Distance(tail, cur) ELSE 0

LEMMA QueueInitially == Init => Queue!Init
BY WaitingInitially DEF Init, Queue!Init

\* The room that the queue has is the room the caller finds.
LEMMA RoomIs ==
    ASSUME QueueInv
    PROVE  Len(Waiting) + Unreleased = Distance(tail, head)
<1>1. Len(Waiting) = Distance(First, head)
  BY WaitingTyped DEF QueueInv, TypeInv
<1>2. CASE draining
  <2>1. Distance(tail, cur) <= Distance(tail, head)
    <3>1. /\ Distance(tail, cur) \in Nat /\ Distance(tail, end) \in Nat
          /\ Distance(tail, head) \in Nat
      BY Positions, DistanceIs, PositionIs DEF QueueInv, TypeInv
    <3> QED
      BY <1>2, <3>1 DEF QueueInv, BatchInv
  <2>2. Distance(tail, head) = Distance(tail, cur) + Distance(cur, head)
    BY <2>1, Positions, Nested DEF QueueInv, TypeInv
  <2>3. Distance(tail, cur) \in Nat /\ Distance(cur, head) \in Nat
    BY Positions, DistanceIs, PositionIs DEF QueueInv, TypeInv
  <2> QED
    BY <1>1, <1>2, <2>2, <2>3 DEF First, Unreleased
<1>3. CASE ~draining
  <2>1. Distance(tail, head) \in Nat
    BY Positions, DistanceIs, PositionIs DEF QueueInv, TypeInv
  <2> QED
    BY <1>1, <1>3, <2>1 DEF First, Unreleased
<1> QED
  BY <1>2, <1>3

LEMMA FullIs ==
    ASSUME QueueInv
    PROVE  After(head) = tail <=> ~(Len(Waiting) + Unreleased < Capacity - 1)
<1>1. head \in Position /\ tail \in Position
  BY Positions DEF QueueInv, TypeInv
<1>2. After(head) = tail <=> ~(Distance(tail, head) < Capacity - 1)
  <2>1. Distance(tail, head) \in Nat /\ Distance(tail, head) <= Capacity - 1
    BY <1>1, DistanceIs, PositionIs
  <2>2. CASE After(head) = tail
    <3>1. Distance(tail, head) = Capacity - 1
      BY <1>1, <2>2, AfterIs, DistanceIs, PositionIs, RingAssumption
    <3> QED
      BY <2>2, <3>1, RingAssumption
  <2>3. CASE After(head) # tail
    <3>1. Distance(tail, After(head)) = Distance(tail, head) + 1
      BY <1>1, <2>3, HeadMoves
    <3>2. Distance(tail, After(head)) <= Capacity - 1 /\ Capacity \in Nat
      BY <1>1, AfterIs, DistanceIs, PositionIs, RingAssumption
    <3> QED
      BY <2>1, <2>3, <3>1, <3>2
  <2> QED
    BY <2>2, <2>3
<1> QED
  BY <1>2, RoomIs

LEMMA StepsQueue ==
    ASSUME QueueInv, [Next]_vars, ~raced'
    PROVE  [Queue!Next]_(Queue!vars)
<1> USE DEF Queue!vars, consumerVars, producerVars
<1>1. CASE UNCHANGED vars
  <2>1. Waiting' = Waiting
    BY <1>1 DEF vars, Waiting, First
  <2> QED
    BY <1>1, <2>1 DEF vars
<1>2. ASSUME NEW p \in Producer, NEW i \in Index, LoadHead(p, i)
      PROVE UNCHANGED Queue!vars
  <2>1. Waiting' = Waiting
    BY <1>2 DEF LoadHead, Waiting, First
  <2> QED
    BY <1>2, <2>1 DEF LoadHead
<1>3. ASSUME NEW p \in Producer, LoadTail(p) PROVE [Queue!Next]_(Queue!vars)
  <2>1. Waiting' = Waiting
    BY <1>3 DEF LoadTail, Waiting, First
  <2>2. myHead[p] = head /\ UNCHANGED <<draining, tail, cur, delivered>>
    BY <1>3 DEF LoadTail, QueueInv, CallerInv
  <2>3. CASE After(head) = tail
    <3>1. dropped' = dropped + 1
      BY <1>3, <2>2, <2>3 DEF LoadTail
    <3>2. ~Queue!Room
      BY <2>3, FullIs DEF Queue!Room, Unreleased
    <3> QED
      BY <2>1, <2>2, <3>1, <3>2 DEF Queue!Next, Queue!Drop
  <2>4. CASE After(head) # tail
    <3>1. UNCHANGED <<dropped, draining, tail, cur, delivered>>
      BY <1>3, <2>2, <2>4 DEF LoadTail
    <3> QED
      BY <2>1, <3>1
  <2> QED
    BY <2>3, <2>4
<1>4. ASSUME NEW p \in Producer, StoreSlot(p) PROVE UNCHANGED Queue!vars
  BY <1>4, StoreSlotWaits DEF StoreSlot
<1>5. ASSUME NEW p \in Producer, StoreHead(p) PROVE Queue!Next
  <2>1. After(head) # tail
    BY <1>5 DEF StoreHead, QueueInv, CallerInv
  <2>2. Queue!Room
    BY <2>1, FullIs DEF Queue!Room, Unreleased
  <2>3. Queue!Offer(myIndex[p])
    BY <1>5, <2>2, StoreHeadWaits DEF StoreHead, Queue!Offer
  <2> QED
    BY <1>5, <2>3, StoreHeadWaits DEF Queue!Next
<1>6. CASE BeginDrain
  <2>1. Waiting' = Waiting
    BY <1>6 DEF BeginDrain, Waiting, First
  <2>2. Distance(tail, tail) = 0
    BY Positions, DistanceIs, PositionIs DEF QueueInv, TypeInv
  <2> QED
    BY <1>6, <2>1, <2>2 DEF BeginDrain
<1>7. CASE Deliver
  <2>1. Distance(tail, After(cur)) = Distance(tail, cur) + 1
    BY <1>7, Positions, NestedMoves DEF Deliver, QueueInv, TypeInv, BatchInv
  <2>2. Queue!Receive
    BY <1>7, <2>1, DeliverTakes DEF Deliver, Queue!Receive
  <2> QED
    BY <2>2 DEF Queue!Next
<1>8. CASE EndDrain
  <2>1. Waiting' = Waiting
    BY <1>8 DEF EndDrain, Waiting, First
  <2>2. Queue!Release
    BY <1>8, <2>1 DEF EndDrain, Queue!Release
  <2> QED
    BY <2>2 DEF Queue!Next
<1> QED
  BY <1>1, <1>2, <1>3, <1>4, <1>5, <1>6, <1>7, <1>8 DEF Next, Drain, Call, Continue

\* Until a caller advances the head while another holds a copy of it, the ring
\* is the bounded FIFO queue that callers expect: a signal is dropped only when
\* Capacity - 1 wait or are being delivered, and the room of a batch comes back
\* at once.
THEOREM RingImplementsQueue == Spec => RingIsQueue
<1>1. Init => Queue!Init
  BY QueueInitially
<1>2. IInv /\ [Next]_vars => [~raced' => Queue!Next]_(Queue!vars)
  <2> SUFFICES ASSUME IInv, [Next]_vars, ~raced'
               PROVE  [Queue!Next]_(Queue!vars)
    OBVIOUS
  <2>1. QueueInv
    BY NotRaced DEF IInv
  <2> QED
    BY <2>1, StepsQueue
<1> QED
  BY <1>1, <1>2, IInvHolds, PTL DEF Spec, RingIsQueue

=============================================================================
