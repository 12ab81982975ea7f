-------------------------- MODULE FFICallbacksProofs --------------------------
(* The invariants of callbacks, for every number of processes, handlers,     *)
(* priorities and callbacks.                                                 *)
EXTENDS FFICallbacks, ProcessListsProofs

USE NilAssumption

-----------------------------------------------------------------------------
(* Types.  They need nothing of the image.                                   *)

\* The scheduler's helpers keep the slots typed, whatever the lists are like.
LEMMA LinkingKeepsHeap ==
    ASSUME NEW h \in Heap
    PROVE  /\ \A p \in Proc, l \in List : AddLastLinkToList(h, p, l) \in Heap
           /\ \A l \in List : RemoveFirstLinkOfList(h, l) \in Heap
           /\ \A p \in Proc : TransferTo(h, p) \in Heap
           /\ \A l \in List : ~IsEmptyList(h, l) => h.firstLink[l] \in Proc
<1> USE DEF Heap
<1>1. ASSUME NEW p \in Proc, NEW l \in List PROVE AddLastLinkToList(h, p, l) \in Heap
  BY DEF AddLastLinkToList, IsEmptyList
<1>2. ASSUME NEW l \in List PROVE RemoveFirstLinkOfList(h, l) \in Heap
  BY DEF RemoveFirstLinkOfList
<1>3. ASSUME NEW p \in Proc PROVE TransferTo(h, p) \in Heap
  BY DEF TransferTo
<1>4. \A l \in List : ~IsEmptyList(h, l) => h.firstLink[l] \in Proc
  BY DEF IsEmptyList
<1> QED
  BY <1>1, <1>2, <1>3, <1>4

\* ... and so do the switches made of them.
LEMMA SwitchingKeepsHeap ==
    ASSUME NEW h \in Heap
    PROVE  /\ \A i \in ReadyPriorities(h) : SwitchToHeadOf(h, i) \in Heap
           /\ \A i \in ReadyPriorities(h) : PreemptByHeadOf(h, i) \in Heap
           /\ \A p \in Proc : PutToSleep(h, p) \in Heap
           /\ \A p \in Proc : ResumeProcess(h, p) \in Heap
           /\ TransferToHighestPriority(h) \in Heap
           /\ \A l \in List : ~IsEmptyList(h, l) => WakeFirstWaiter(h, l) \in Heap
<1>1. h.active \in Proc
  BY DEF Heap
<1>2. \A g \in Heap : \A p \in Proc : PutToSleep(g, p) \in Heap
  BY LinkingKeepsHeap, ReadyPrioritiesAreLists DEF PutToSleep
<1>3. \A g \in Heap : \A p \in Proc : ResumeProcess(g, p) \in Heap
  <2> SUFFICES ASSUME NEW g \in Heap, NEW p \in Proc PROVE ResumeProcess(g, p) \in Heap
    OBVIOUS
  <2>1. g.active \in Proc
    BY DEF Heap
  <2> QED
    BY <1>2, <2>1, LinkingKeepsHeap DEF ResumeProcess
<1>4. ASSUME NEW i \in ReadyPriorities(h)
      PROVE  /\ SwitchToHeadOf(h, i) \in Heap /\ PreemptByHeadOf(h, i) \in Heap
  <2>1. i \in List /\ h.firstLink[i] \in Proc /\ RemoveFirstLinkOfList(h, i) \in Heap
    BY ReadyPrioritiesAreLists, LinkingKeepsHeap
  <2>2. PutToSleep(RemoveFirstLinkOfList(h, i), h.active) \in Heap
    BY <1>1, <1>2, <2>1
  <2> QED
    BY <2>1, <2>2, LinkingKeepsHeap DEF SwitchToHeadOf, PreemptByHeadOf
<1>5. TransferToHighestPriority(h) \in Heap
  <2>1. CASE ReadyPriorities(h) = {}
    BY <2>1 DEF TransferToHighestPriority
  <2>2. CASE ReadyPriorities(h) # {}
    <3>1. Highest(ReadyPriorities(h)) \in ReadyPriorities(h)
      BY <2>2, ReadyPrioritiesAreLists, ExtremesExist
    <3> QED
      BY <1>4, <2>2, <3>1 DEF TransferToHighestPriority
  <2> QED
    BY <2>1, <2>2
<1>6. ASSUME NEW l \in List, ~IsEmptyList(h, l) PROVE WakeFirstWaiter(h, l) \in Heap
  <2>1. h.firstLink[l] \in Proc /\ RemoveFirstLinkOfList(h, l) \in Heap
    BY <1>6, LinkingKeepsHeap
  <2> QED
    BY <1>3, <2>1 DEF WakeFirstWaiter
<1> QED
  BY <1>2, <1>3, <1>4, <1>5, <1>6

LEMMA SequenceEnds ==
    ASSUME NEW S, NEW s \in Seq(S), s # <<>>
    PROVE  /\ Len(s) \in Nat \ {0} /\ DOMAIN s = 1..Len(s)
           /\ Top(s) = s[Len(s)] /\ Top(s) \in S
           /\ Below(s) \in Seq(S) /\ Len(Below(s)) = Len(s) - 1
           /\ \A i \in 1..(Len(s) - 1) : Below(s)[i] = s[i]
<1>1. Len(s) \in Nat \ {0} /\ DOMAIN s = 1..Len(s)
  BY EmptySeq, LenProperties
<1>2. \A i \in 1..Len(s) : s[i] \in S
  BY ElementOfSeq
<1> QED
  BY <1>1, <1>2, SubSeqProperties DEF Top, Below

\* What a longjmp leaves of the C stack.
LEMMA SequencePrefix ==
    ASSUME NEW S, NEW s \in Seq(S), NEW k \in 1..Len(s)
    PROVE  /\ SubSeq(s, 1, k - 1) \in Seq(S) /\ Len(SubSeq(s, 1, k - 1)) = k - 1
           /\ \A i \in 1..(k - 1) : SubSeq(s, 1, k - 1)[i] = s[i]
<1>1. Len(s) \in Nat /\ \A i \in 1..Len(s) : s[i] \in S
  BY LenProperties, ElementOfSeq
<1>2. k - 1 \in Int /\ \A i \in 1..(k - 1) : s[i] \in S
  BY <1>1
<1> QED
  BY <1>1, <1>2, SubSeqProperties

Loop == [callback : Callback, caller : Proc, answer : Callback \union {NoCallback}]

\* CallbackTypeOK, and that only entering a callback signals the semaphore.
TypeInv ==
    /\ heap \in Heap
    /\ issued \in 0..MaxCallbacks
    /\ excessSignals \in [Semaphore -> 0..issued]
    /\ parked \in SUBSET Proc
    /\ contexts \in Seq(Callback) /\ Len(contexts) <= MaxCallbackDepth
    /\ callout \in Proc \union {Nil}
    /\ pending \in Callback \union {NoCallback}
    /\ loops \in Seq(Loop)
    /\ serving \in [Handler -> Callback \union {NoCallback}]
    /\ woken \in SUBSET Handler
    /\ disorderly \in BOOLEAN

LEMMA EnterKeepsTypes == TypeInv /\ EnterInterpreterFromCallback => TypeInv'
<1> SUFFICES ASSUME TypeInv, EnterInterpreterFromCallback PROVE TypeInv'
  OBVIOUS
<1> USE CallbackAssumption DEF TypeInv
<1> DEFINE h == PushCallout(heap, active)
           s == CallbackSemaphore
<1>1. active \in Proc /\ h \in Heap /\ s \in List
  BY DEF active, PushCallout, Heap, List
<1>2. issued' = issued + 1 /\ issued' \in 0..MaxCallbacks /\ issued' \in Callback
  BY DEF EnterInterpreterFromCallback, Callback
<1>3. \A g \in Heap : ReplaceActive(g) \in Heap
  <2> SUFFICES ASSUME NEW g \in Heap, ReadyPriorities(g) # {} PROVE ReplaceActive(g) \in Heap
    BY DEF ReplaceActive
  <2> DEFINE i == Highest(ReadyPriorities(g))
  <2>1. i \in ReadyPriorities(g) /\ i \in List /\ ~IsEmptyList(g, i)
    BY ExtremesExist, ReadyPrioritiesAreLists
  <2> HIDE DEF i
  <2>2. RemoveFirstLinkOfList(g, i) \in Heap /\ g.firstLink[i] \in Proc
    BY <2>1, LinkingKeepsHeap
  <2> DEFINE f == RemoveFirstLinkOfList(g, i)
             p == g.firstLink[i]
  <2>3. ReplaceActive(g) = [f EXCEPT !.active = p, !.savedContext = @ \ {p}]
    BY DEF ReplaceActive, i
  <2> HIDE DEF f, p
  <2>4. f \in Heap /\ p \in Proc
    BY <2>2 DEF f, p
  <2>5. f.savedContext \ {p} \in SUBSET Proc
    BY <2>4 DEF Heap
  <2> QED
    BY ONLY <2>3, <2>4, <2>5 DEF Heap
<1>4. heap' \in Heap
  <2>1. CASE IsEmptyList(h, s)
    BY <1>1, <1>3, <2>1 DEF EnterInterpreterFromCallback
  <2>2. CASE ~IsEmptyList(h, s)
    <3>1. WakeFirstWaiter(h, s) \in Heap
      BY <1>1, <2>2, SwitchingKeepsHeap
    <3> QED
      BY <1>3, <2>2, <3>1 DEF EnterInterpreterFromCallback
  <2> QED
    BY <2>1, <2>2
<1>5. excessSignals' \in [Semaphore -> 0..issued']
  BY <1>2 DEF EnterInterpreterFromCallback
<1>6. contexts' \in Seq(Callback) /\ Len(contexts') <= MaxCallbackDepth
  BY <1>2, AppendProperties, LenProperties DEF EnterInterpreterFromCallback
<1>7. loops' \in Seq(Loop)
  <2>1. [callback |-> issued', caller |-> active, answer |-> NoCallback] \in Loop
    BY <1>1, <1>2 DEF Loop
  <2> QED
    BY <1>2, <2>1, AppendProperties DEF EnterInterpreterFromCallback
<1>8. callout' \in Proc \union {Nil}
  BY <1>1 DEF EnterInterpreterFromCallback
<1> QED
  BY <1>2, <1>4, <1>5, <1>6, <1>7, <1>8 DEF EnterInterpreterFromCallback, history, imageVars

LEMMA HandlersKeepTypes ==
    TypeInv /\ (WaitForCallback \/ PrimitiveReadNextCallback \/ PrimitiveCallbackReturn)
       => TypeInv'
<1> USE CallbackAssumption DEF TypeInv
<1>1. ASSUME TypeInv, WaitForCallback PROVE TypeInv'
  <2> DEFINE s == CallbackSemaphore
             w == AddLastLinkToList(heap, active, s)
  <2>1. active \in Proc /\ s \in List /\ w \in Heap
    BY <1>1, LinkingKeepsHeap DEF active, Heap, List
  <2>2. heap' \in Heap
    BY <1>1, <2>1, LinkingKeepsHeap, SwitchingKeepsHeap DEF WaitForCallback, PrimitiveWait
  <2>3. excessSignals' \in [Semaphore -> 0..issued]
    BY <1>1 DEF WaitForCallback, PrimitiveWait
  <2>4. woken' \in SUBSET Handler
    BY <1>1 DEF WaitForCallback
  <2> QED
    BY <1>1, <2>2, <2>3, <2>4 DEF WaitForCallback, PrimitiveWait, history
<1>2. ASSUME TypeInv, PrimitiveReadNextCallback PROVE TypeInv'
  <2>1. contexts # <<>> => Top(contexts) \in Callback
    BY <1>2, SequenceEnds
  <2>2. serving' \in [Handler -> Callback \union {NoCallback}] /\ woken' \in SUBSET Handler
    BY <1>2, <2>1 DEF PrimitiveReadNextCallback
  <2> QED
    BY <1>2, <2>2 DEF PrimitiveReadNextCallback, vars
<1>3. ASSUME TypeInv, PrimitiveCallbackReturn PROVE TypeInv'
  <2>1. /\ Top(contexts) \in Callback /\ Below(contexts) \in Seq(Callback)
        /\ Len(Below(contexts)) <= MaxCallbackDepth
    <3>1. contexts \in Seq(Callback) /\ contexts # <<>> /\ Len(contexts) <= MaxCallbackDepth
      BY <1>3 DEF PrimitiveCallbackReturn
    <3>2. /\ Top(contexts) \in Callback /\ Below(contexts) \in Seq(Callback)
          /\ Len(Below(contexts)) = Len(contexts) - 1 /\ Len(contexts) \in Nat
      BY ONLY <3>1, SequenceEnds
    <3>3. MaxCallbackDepth \in Nat
      OBVIOUS
    <3> QED
      BY ONLY <3>1, <3>2, <3>3
  <2>2. serving' \in [Handler -> Callback \union {NoCallback}]
    BY <1>3 DEF PrimitiveCallbackReturn
  <2> QED
    BY <1>3, <2>1, <2>2 DEF PrimitiveCallbackReturn, vars
<1> QED
  BY <1>1, <1>2, <1>3

LEMMA LoopsKeepTypes == TypeInv /\ (BeginCooldown \/ ReturnToC) => TypeInv'
<1> USE DEF TypeInv
<1>1. ASSUME TypeInv, BeginCooldown PROVE TypeInv'
  <2> DEFINE n == Len(loops)
             e == [loops[n] EXCEPT !.answer = pending]
  <2>1. n \in 1..Len(loops) /\ loops[n] \in Loop
    BY <1>1, SequenceEnds DEF BeginCooldown
  <2>2. e \in Loop
    BY <1>1, <2>1 DEF Loop
  <2>3. loops' = [loops EXCEPT ![n] = e]
    BY <1>1 DEF BeginCooldown
  <2>4. loops' \in Seq(Loop)
    BY <1>1, <2>1, <2>2, <2>3, ExceptSeq
  <2> QED
    BY <1>1, <2>4 DEF BeginCooldown, vars, imageVars
<1>2. ASSUME TypeInv, ReturnToC PROVE TypeInv'
  <2> DEFINE g == SaveAndRequeue(heap)
  <2>1. g \in Heap
    <3>1. [heap EXCEPT !.savedContext = @ \union {heap.active}] \in Heap /\ heap.active \in Proc
      BY <1>2 DEF Heap
    <3> QED
      BY <3>1, SwitchingKeepsHeap DEF SaveAndRequeue
  <2> HIDE DEF g
  <2>2. PopCallout(g) \in Heap /\ NextCallout(g) \in Proc \union {Nil}
    BY <1>2, <2>1 DEF PopCallout, NextCallout, Heap
  <2>3. heap' \in Heap /\ callout' \in Proc \union {Nil}
    BY <1>2, <2>2 DEF ReturnToC, g
  <2>4. loops' \in Seq(Loop)
    <3>1. PICK k \in DOMAIN loops : loops' = SubSeq(loops, 1, k - 1)
      BY <1>2 DEF ReturnToC, JumpTo
    <3>2. k \in 1..Len(loops)
      BY <3>1, LenProperties
    <3> QED
      BY <1>2, <3>1, <3>2, SequencePrefix
  <2> QED
    BY <1>2, <2>3, <2>4 DEF ReturnToC, history, imageVars
<1> QED
  BY <1>1, <1>2

LEMMA SwitchingKeepsTypes == TypeInv /\ SwitchProcess => TypeInv'
<1> SUFFICES ASSUME TypeInv, SwitchProcess PROVE TypeInv'
  OBVIOUS
<1> USE DEF TypeInv
<1>1. UNCHANGED <<excessSignals, contexts, callout, pending, loops, serving, woken, issued,
                  disorderly>>
  BY DEF SwitchProcess, callbackVars, PrimitiveSuspendActive, PrimitiveResume, PrimitiveYield,
         CheckForPreemption, StepForceYield
<1>2. active \in Proc /\ Priority[active] \in List
  BY ReadyPrioritiesAreLists DEF active, Heap
<1>3. heap' \in Heap /\ parked' \in SUBSET Proc
  <2>1. CASE active \notin Handler /\ PrimitiveSuspendActive
    BY <1>2, <2>1, SwitchingKeepsHeap DEF PrimitiveSuspendActive
  <2>2. ASSUME NEW p \in parked, PrimitiveResume(p) PROVE heap' \in Heap /\ parked' \in SUBSET Proc
    BY <2>2, SwitchingKeepsHeap DEF PrimitiveResume
  <2>3. CASE PrimitiveYield
    <3>1. AddLastLinkToList(heap, active, Priority[active]) \in Heap
      BY <1>2, LinkingKeepsHeap
    <3> QED
      BY <2>3, <3>1, SwitchingKeepsHeap DEF PrimitiveYield, history
  <2>4. CASE CheckForPreemption
    <3>1. HigherReady(heap) \subseteq ReadyPriorities(heap)
      BY DEF HigherReady
    <3>2. Lowest(HigherReady(heap)) \in ReadyPriorities(heap)
      BY <2>4, <3>1, ReadyPrioritiesAreLists, ExtremesExist DEF CheckForPreemption
    <3> QED
      BY <2>4, <3>2, SwitchingKeepsHeap DEF CheckForPreemption, history
  <2>5. CASE StepForceYield
    <3>1. PICK i \in YieldCandidates(heap) : heap' = PreemptByHeadOf(heap, i)
      BY <2>5 DEF StepForceYield
    <3>2. i \in ReadyPriorities(heap)
      <4>1. CASE HigherReady(heap) # {}
        <5>1. HigherReady(heap) \subseteq ReadyPriorities(heap)
          BY DEF HigherReady
        <5> QED
          BY <3>1, <4>1, <5>1, ReadyPrioritiesAreLists, ExtremesExist DEF YieldCandidates
      <4>2. CASE HigherReady(heap) = {}
        BY <3>1, <4>2 DEF YieldCandidates
      <4> QED
        BY <4>1, <4>2
    <3> QED
      BY <2>5, <3>1, <3>2, SwitchingKeepsHeap DEF StepForceYield, history
  <2> QED
    BY <2>1, <2>2, <2>3, <2>4, <2>5 DEF SwitchProcess
<1> QED
  BY <1>1, <1>3

LEMMA InitIsTyped == CallbackInit => TypeInv
<1> SUFFICES ASSUME CallbackInit PROVE TypeInv
  OBVIOUS
<1>1. heap \in Heap /\ parked \in SUBSET Proc
  BY DEF CallbackInit, Init, Heap
<1>2. issued = 0 /\ issued \in 0..MaxCallbacks /\ MaxCallbackDepth \in Nat
  BY CallbackAssumption DEF CallbackInit
<1>3. <<>> \in Seq(Callback) /\ <<>> \in Seq(Loop) /\ Len(<<>>) = 0
  BY EmptySeq
<1>4. disorderly \in BOOLEAN
  BY DEF CallbackInit
<1> QED
  BY <1>1, <1>2, <1>3, <1>4 DEF CallbackInit, Init, TypeInv

LEMMA TypesStay == TypeInv /\ [CallbackNext]_<<vars, callbackVars>> => TypeInv'
<1>1. TypeInv /\ UNCHANGED <<vars, callbackVars>> => TypeInv'
  BY DEF TypeInv, vars, callbackVars
<1> QED
  BY <1>1, EnterKeepsTypes, HandlersKeepTypes, LoopsKeepTypes, SwitchingKeepsTypes
     DEF CallbackNext, CallbackStep

LEMMA TypesHold == CallbackSpec => []TypeInv
BY InitIsTyped, TypesStay, PTL DEF CallbackSpec

\* The callback stack never grows past its limit, nor does anything signal the
\* handlers' semaphore except a callback; this needs nothing of the image.
THEOREM CallbackTypesCorrect == CallbackSpec => []CallbackTypeOK
<1>1. TypeInv => CallbackTypeOK
  <2> SUFFICES ASSUME TypeInv PROVE CallbackTypeOK
    OBVIOUS
  <2>1. 0..issued \subseteq 0..MaxCallbacks
    BY CallbackAssumption DEF TypeInv
  <2> QED
    BY <2>1 DEF TypeInv, CallbackTypeOK, Loop
<1> QED
  BY <1>1, TypesHold, PTL

-----------------------------------------------------------------------------
(* The scheduler with suspended callers beside it.  A caller is on no list,  *)
(* yet its nextLink is in use; what the helpers do to the others is what     *)
(* they do in a heap without these links.                                    *)

Unchained(h, C) ==
    [h EXCEPT !.nextLink = [q \in Proc |-> IF q \in C THEN Nil ELSE h.nextLink[q]]]

\* The lists of h are linked properly and the processes of C are on none.
Apart(h, C) ==
    /\ h \in Heap /\ GoodHeap(Unchained(h, C))
    /\ \A p \in C : h.myList[p] = Nil

\* What happens to h on the way to k is nothing to the processes of C.
LeavesAside(h, k, C) ==
    \A p \in C : /\ k.nextLink[p] = h.nextLink[p]
                 /\ p \in h.savedContext /\ p # k.active => p \in k.savedContext

\* h becomes k as the heap without the links of C becomes u.
Mirrors(h, k, u, C) == Apart(k, C) /\ LeavesAside(h, k, C) /\ Unchained(k, C) = u

LEMMA HeapSlots ==
    ASSUME NEW h \in Heap
    PROVE  /\ h.nextLink \in [Proc -> Proc \union {Nil}]
           /\ h.myList \in [Proc -> List \union {Nil}]
           /\ h.firstLink \in [List -> Proc \union {Nil}]
           /\ h.lastLink \in [List -> Proc \union {Nil}]
           /\ h.savedContext \in SUBSET Proc
           /\ h.active \in Proc
BY DEF Heap

LEMMA SameHeap ==
    ASSUME NEW g \in Heap, NEW h \in Heap,
           g.nextLink = h.nextLink, g.myList = h.myList, g.firstLink = h.firstLink,
           g.lastLink = h.lastLink, g.savedContext = h.savedContext, g.active = h.active
    PROVE  g = h
BY DEF Heap

LEMMA UnchainedSlots ==
    ASSUME NEW h \in Heap, NEW C
    PROVE  LET g == Unchained(h, C)
           IN  /\ g \in Heap
               /\ g.nextLink = [q \in Proc |-> IF q \in C THEN Nil ELSE h.nextLink[q]]
               /\ g.myList = h.myList /\ g.firstLink = h.firstLink /\ g.lastLink = h.lastLink
               /\ g.savedContext = h.savedContext /\ g.active = h.active
               /\ ReadyPriorities(g) = ReadyPriorities(h)
               /\ \A l \in List : IsEmptyList(g, l) <=> IsEmptyList(h, l)
BY DEF Heap, Unchained, ReadyPriorities, IsEmptyList

\* The ends of a list are not processes of C.
LEMMA EndsAreNotAside ==
    ASSUME NEW C \in SUBSET Proc, NEW h, Apart(h, C), NEW l \in List, ~IsEmptyList(h, l)
    PROVE  /\ h.firstLink[l] \in Proc \ C /\ h.myList[h.firstLink[l]] = l
           /\ h.lastLink[l] \in Proc \ C /\ h.myList[h.lastLink[l]] = l
<1> DEFINE g == Unchained(h, C)
<1>1. /\ h \in Heap /\ GoodHeap(g)
      /\ g.myList = h.myList /\ g.firstLink = h.firstLink /\ g.lastLink = h.lastLink
  BY UnchainedSlots DEF Apart
<1>2. EmptyListsAgree(g) /\ EndsAreOnTheList(g)
  BY <1>1 DEF GoodHeap, LinksOK
<1> HIDE DEF g
<1>3. h.firstLink[l] # Nil /\ h.firstLink[l] \in Proc /\ h.lastLink[l] \in Proc
  BY <1>1, <1>2, HeapSlots DEF IsEmptyList, EmptyListsAgree
<1>4. h.myList[h.firstLink[l]] = l /\ h.myList[h.lastLink[l]] = l
  BY <1>1, <1>2, <1>3 DEF EndsAreOnTheList
<1> QED
  BY <1>3, <1>4 DEF Apart

LEMMA AddLastSlots ==
    ASSUME NEW h \in Heap, NEW p \in Proc, NEW l \in List
    PROVE  LET k == AddLastLinkToList(h, p, l)
           IN  /\ k.myList = [h.myList EXCEPT ![p] = l]
               /\ k.savedContext = h.savedContext /\ k.active = h.active
BY DEF AddLastLinkToList, Heap

LEMMA AddLastAside ==
    ASSUME NEW C \in SUBSET Proc, NEW h, Apart(h, C),
           NEW p \in Proc, p \notin C, h.myList[p] = Nil, NEW l \in List
    PROVE  Mirrors(h, AddLastLinkToList(h, p, l), AddLastLinkToList(Unchained(h, C), p, l), C)
<1> DEFINE k == AddLastLinkToList(h, p, l)
           g == Unchained(h, C)
           u == Unchained(k, C)
           a == AddLastLinkToList(g, p, l)
<1>1. h \in Heap /\ GoodHeap(g) /\ \A q \in C : h.myList[q] = Nil
  BY DEF Apart
<1>2h. k \in Heap
  BY <1>1, LinkingKeepsHeap
<1>2. /\ k.nextLink = IF h.firstLink[l] = Nil
                      THEN [h.nextLink EXCEPT ![p] = Nil]
                      ELSE [h.nextLink EXCEPT ![p] = Nil, ![h.lastLink[l]] = p]
      /\ k.myList = [h.myList EXCEPT ![p] = l]
      /\ k.firstLink = [h.firstLink EXCEPT ![l] = IF h.firstLink[l] = Nil THEN p ELSE @]
      /\ k.lastLink = [h.lastLink EXCEPT ![l] = p]
      /\ k.savedContext = h.savedContext /\ k.active = h.active
  BY <1>1 DEF AddLastLinkToList, IsEmptyList, Heap
<1>3. /\ g \in Heap
      /\ g.nextLink = [q \in Proc |-> IF q \in C THEN Nil ELSE h.nextLink[q]]
      /\ g.myList = h.myList /\ g.firstLink = h.firstLink /\ g.lastLink = h.lastLink
      /\ g.savedContext = h.savedContext /\ g.active = h.active
  BY <1>1, UnchainedSlots
<1>4h. a \in Heap
  BY <1>3, LinkingKeepsHeap
<1>4. /\ a.nextLink = IF g.firstLink[l] = Nil
                      THEN [g.nextLink EXCEPT ![p] = Nil]
                      ELSE [g.nextLink EXCEPT ![p] = Nil, ![g.lastLink[l]] = p]
      /\ a.myList = [g.myList EXCEPT ![p] = l]
      /\ a.firstLink = [g.firstLink EXCEPT ![l] = IF g.firstLink[l] = Nil THEN p ELSE @]
      /\ a.lastLink = [g.lastLink EXCEPT ![l] = p]
      /\ a.savedContext = g.savedContext /\ a.active = g.active
  BY <1>3 DEF AddLastLinkToList, IsEmptyList, Heap
<1>5. GoodHeap(a)
  BY <1>1, <1>3, AddLastKeepsLinks
<1> HIDE DEF k, a, g
<1>6. /\ u \in Heap
      /\ u.nextLink = [q \in Proc |-> IF q \in C THEN Nil ELSE k.nextLink[q]]
      /\ u.myList = k.myList /\ u.firstLink = k.firstLink /\ u.lastLink = k.lastLink
      /\ u.savedContext = k.savedContext /\ u.active = k.active
  BY <1>2h, UnchainedSlots
<1> HIDE DEF u
<1>7. h.firstLink[l] # Nil => h.lastLink[l] \in Proc \ C
  BY EndsAreNotAside DEF IsEmptyList
<1>8. h.nextLink \in [Proc -> Proc \union {Nil}]
  BY <1>1, HeapSlots
<1>9. u.nextLink = a.nextLink
  <2>1. g.nextLink \in [Proc -> Proc \union {Nil}]
    BY <1>3, HeapSlots
  <2>2. CASE h.firstLink[l] = Nil
    <3>1. /\ k.nextLink = [h.nextLink EXCEPT ![p] = Nil]
          /\ a.nextLink = [g.nextLink EXCEPT ![p] = Nil]
      BY <1>2, <1>3, <1>4, <2>2
    <3> QED
      BY <1>3, <1>6, <1>8, <2>1, <3>1
  <2>3. CASE h.firstLink[l] # Nil
    <3>1. /\ k.nextLink = [h.nextLink EXCEPT ![p] = Nil, ![h.lastLink[l]] = p]
          /\ a.nextLink = [g.nextLink EXCEPT ![p] = Nil, ![h.lastLink[l]] = p]
      BY <1>2, <1>3, <1>4, <2>3
    <3> QED
      BY <1>3, <1>6, <1>7, <1>8, <2>1, <2>3, <3>1
  <2> QED
    BY <2>2, <2>3
<1>10. u = a
  BY <1>2, <1>3, <1>4h, <1>4, <1>6, <1>9, SameHeap
<1>11. LeavesAside(h, k, C)
  BY <1>2, <1>7, <1>8 DEF LeavesAside
<1>12. Apart(k, C)
  BY <1>1, <1>2h, <1>2, <1>5, <1>10, HeapSlots DEF Apart, u
<1> QED
  BY <1>10, <1>11, <1>12 DEF k, a, g, u, Mirrors

LEMMA RemoveFirstSlots ==
    ASSUME NEW h \in Heap, NEW l \in List, h.firstLink[l] \in Proc
    PROVE  LET k == RemoveFirstLinkOfList(h, l)
           IN  /\ k.myList = [h.myList EXCEPT ![h.firstLink[l]] = Nil]
               /\ k.savedContext = h.savedContext /\ k.active = h.active
BY DEF RemoveFirstLinkOfList, Heap

LEMMA RemoveFirstAside ==
    ASSUME NEW C \in SUBSET Proc, NEW h, Apart(h, C), NEW l \in List, ~IsEmptyList(h, l)
    PROVE  Mirrors(h, RemoveFirstLinkOfList(h, l), RemoveFirstLinkOfList(Unchained(h, C), l), C)
<1> DEFINE k == RemoveFirstLinkOfList(h, l)
           g == Unchained(h, C)
           u == Unchained(k, C)
           a == RemoveFirstLinkOfList(g, l)
           f == h.firstLink[l]
<1>1. /\ h \in Heap /\ GoodHeap(g) /\ \A q \in C : h.myList[q] = Nil
      /\ f \in Proc \ C /\ h.myList[f] = l
  BY EndsAreNotAside DEF Apart
<1>2h. k \in Heap
  BY <1>1, LinkingKeepsHeap
<1>2. /\ k.nextLink = [h.nextLink EXCEPT ![f] = Nil]
      /\ k.myList = [h.myList EXCEPT ![f] = Nil]
      /\ k.firstLink = [h.firstLink EXCEPT ![l] = IF f = h.lastLink[l] THEN Nil ELSE h.nextLink[f]]
      /\ k.lastLink = [h.lastLink EXCEPT ![l] = IF f = h.lastLink[l] THEN Nil ELSE @]
      /\ k.savedContext = h.savedContext /\ k.active = h.active
  BY <1>1 DEF RemoveFirstLinkOfList, Heap
<1>3. /\ g \in Heap
      /\ g.nextLink = [q \in Proc |-> IF q \in C THEN Nil ELSE h.nextLink[q]]
      /\ g.myList = h.myList /\ g.firstLink = h.firstLink /\ g.lastLink = h.lastLink
      /\ g.savedContext = h.savedContext /\ g.active = h.active
      /\ ~IsEmptyList(g, l)
  BY <1>1, UnchainedSlots
<1>4h. a \in Heap
  BY <1>1, <1>3, LinkingKeepsHeap
<1>4. /\ a.nextLink = [g.nextLink EXCEPT ![f] = Nil]
      /\ a.myList = [g.myList EXCEPT ![f] = Nil]
      /\ a.firstLink = [g.firstLink EXCEPT ![l] = IF f = g.lastLink[l] THEN Nil ELSE g.nextLink[f]]
      /\ a.lastLink = [g.lastLink EXCEPT ![l] = IF f = g.lastLink[l] THEN Nil ELSE @]
      /\ a.savedContext = g.savedContext /\ a.active = g.active
  BY <1>1, <1>3 DEF RemoveFirstLinkOfList, Heap
<1>5. GoodHeap(a)
  BY <1>1, <1>3, RemoveFirstKeepsLinks
<1> HIDE DEF k, a, g
<1>6. /\ u \in Heap
      /\ u.nextLink = [q \in Proc |-> IF q \in C THEN Nil ELSE k.nextLink[q]]
      /\ u.myList = k.myList /\ u.firstLink = k.firstLink /\ u.lastLink = k.lastLink
      /\ u.savedContext = k.savedContext /\ u.active = k.active
  BY <1>2h, UnchainedSlots
<1> HIDE DEF u, f
<1>8. h.nextLink \in [Proc -> Proc \union {Nil}] /\ h.myList \in [Proc -> List \union {Nil}]
  BY <1>1, HeapSlots
<1>9. u.nextLink = a.nextLink /\ u.firstLink = a.firstLink
  BY <1>1, <1>2, <1>3, <1>4, <1>6, <1>8
<1>10. u = a
  BY <1>2, <1>3, <1>4h, <1>4, <1>6, <1>9, SameHeap
<1>11. LeavesAside(h, k, C)
  BY <1>1, <1>2, <1>8 DEF LeavesAside
<1>12. Apart(k, C)
  BY <1>1, <1>2h, <1>2, <1>5, <1>8, <1>10 DEF Apart, u
<1> QED
  BY <1>1, <1>2, <1>10, <1>11, <1>12 DEF k, a, g, u, f, Mirrors

LEMMA TransferAside ==
    ASSUME NEW C \in SUBSET Proc, NEW h, Apart(h, C), NEW p \in Proc
    PROVE  Mirrors(h, TransferTo(h, p), TransferTo(Unchained(h, C), p), C)
<1> DEFINE k == TransferTo(h, p)
           g == Unchained(h, C)
           u == Unchained(k, C)
           a == TransferTo(g, p)
<1>1. h \in Heap /\ GoodHeap(g) /\ \A q \in C : h.myList[q] = Nil
  BY DEF Apart
<1>2h. k \in Heap
  BY <1>1, LinkingKeepsHeap
<1>2. /\ k.nextLink = h.nextLink /\ k.myList = h.myList
      /\ k.firstLink = h.firstLink /\ k.lastLink = h.lastLink
      /\ k.savedContext = IF p = h.active THEN h.savedContext
                          ELSE (h.savedContext \union {h.active}) \ {p}
      /\ k.active = p
  BY <1>1 DEF TransferTo, Heap
<1>3. /\ g \in Heap
      /\ g.nextLink = [q \in Proc |-> IF q \in C THEN Nil ELSE h.nextLink[q]]
      /\ g.myList = h.myList /\ g.firstLink = h.firstLink /\ g.lastLink = h.lastLink
      /\ g.savedContext = h.savedContext /\ g.active = h.active
  BY <1>1, UnchainedSlots
<1>4h. a \in Heap
  BY <1>3, LinkingKeepsHeap
<1>4. /\ a.nextLink = g.nextLink /\ a.myList = g.myList
      /\ a.firstLink = g.firstLink /\ a.lastLink = g.lastLink
      /\ a.savedContext = IF p = g.active THEN g.savedContext
                          ELSE (g.savedContext \union {g.active}) \ {p}
      /\ a.active = p
  BY <1>3 DEF TransferTo, Heap
<1>5. GoodHeap(a)
  BY <1>1, TransferKeepsLists
<1> HIDE DEF k, a, g
<1>6. /\ u \in Heap
      /\ u.nextLink = [q \in Proc |-> IF q \in C THEN Nil ELSE k.nextLink[q]]
      /\ u.myList = k.myList /\ u.firstLink = k.firstLink /\ u.lastLink = k.lastLink
      /\ u.savedContext = k.savedContext /\ u.active = k.active
  BY <1>2h, UnchainedSlots
<1> HIDE DEF u
<1>7. u = a
  BY <1>2, <1>3, <1>4h, <1>4, <1>6, SameHeap
<1> QED
  BY <1>1, <1>2h, <1>2, <1>5, <1>7 DEF k, a, g, u, Apart, LeavesAside, Mirrors

LEMMA MirrorsCompose ==
    ASSUME NEW C, NEW h, NEW g, NEW u, NEW k, NEW v,
           Mirrors(h, g, u, C), Mirrors(g, k, v, C), g.active \notin C
    PROVE  Mirrors(h, k, v, C)
BY DEF Mirrors, LeavesAside

LEMMA SwitchAside ==
    ASSUME NEW C \in SUBSET Proc, NEW h, Apart(h, C), h.active \notin C
    PROVE  /\ \A i \in ReadyPriorities(h) :
                 Mirrors(h, SwitchToHeadOf(h, i), SwitchToHeadOf(Unchained(h, C), i), C)
           /\ Mirrors(h, TransferToHighestPriority(h),
                      TransferToHighestPriority(Unchained(h, C)), C)
<1> DEFINE u == Unchained(h, C)
<1>1. h \in Heap /\ ReadyPriorities(u) = ReadyPriorities(h) /\ u.firstLink = h.firstLink
  BY UnchainedSlots DEF Apart
<1>2. ASSUME NEW i \in ReadyPriorities(h)
      PROVE  Mirrors(h, SwitchToHeadOf(h, i), SwitchToHeadOf(u, i), C)
  <2> DEFINE r == RemoveFirstLinkOfList(h, i)
             f == h.firstLink[i]
  <2>1. i \in List /\ ~IsEmptyList(h, i) /\ f \in Proc
    BY ReadyPrioritiesAreLists, EndsAreNotAside
  <2>2. Mirrors(h, r, RemoveFirstLinkOfList(u, i), C)
    BY <2>1, RemoveFirstAside
  <2>a. r.active = h.active /\ f \in Proc
    BY <1>1, <2>1, RemoveFirstSlots
  <2> HIDE DEF r, f, u
  <2>3. Apart(r, C) /\ Unchained(r, C) = RemoveFirstLinkOfList(u, i)
    BY <2>2 DEF Mirrors
  <2>4. Mirrors(r, TransferTo(r, f), TransferTo(Unchained(r, C), f), C)
    BY <2>a, <2>3, TransferAside
  <2>5. Mirrors(h, TransferTo(r, f), TransferTo(RemoveFirstLinkOfList(u, i), f), C)
    BY <2>2, <2>a, <2>3, <2>4, MirrorsCompose
  <2> QED
    BY <1>1, <2>5 DEF SwitchToHeadOf, r, f
<1> HIDE DEF u
<1>3. Mirrors(h, TransferToHighestPriority(h), TransferToHighestPriority(u), C)
  <2>1. CASE ReadyPriorities(h) = {}
    BY <1>1, <2>1 DEF TransferToHighestPriority, Mirrors, LeavesAside, u
  <2>2. CASE ReadyPriorities(h) # {}
    <3> DEFINE i == Highest(ReadyPriorities(h))
    <3>1. i \in ReadyPriorities(h)
      BY <2>2, ReadyPrioritiesAreLists, ExtremesExist
    <3>2. /\ TransferToHighestPriority(h) = SwitchToHeadOf(h, i)
          /\ TransferToHighestPriority(u) = SwitchToHeadOf(u, i)
      BY <1>1, <2>2 DEF TransferToHighestPriority
    <3> QED
      BY <1>2, <3>1, <3>2
  <2> QED
    BY <2>1, <2>2
<1> QED
  BY <1>2, <1>3 DEF u

\* A heap between two steps, with the callers C beside it.
Beside(h, C) ==
    /\ h \in Heap /\ Schedulable(Unchained(h, C))
    /\ \A p \in C : h.myList[p] = Nil /\ p # h.active /\ p \in h.savedContext

\* OnlyMoves with the callers beside it, whose links stay.
Moves(h, k, C, S) ==
    /\ Beside(k, C)
    /\ \A p \in C : k.nextLink[p] = h.nextLink[p]
    /\ \A p \in Proc : p \notin S => KeepsPlace(h, k, p)

LEMMA BesideSlots ==
    ASSUME NEW C \in SUBSET Proc, NEW h, Beside(h, C)
    PROVE  LET u == Unchained(h, C)
           IN  /\ Apart(h, C) /\ h \in Heap /\ Schedulable(u) /\ GoodHeap(u)
               /\ u.myList = h.myList /\ u.firstLink = h.firstLink /\ u.active = h.active
               /\ u.savedContext = h.savedContext
               /\ ReadyPriorities(u) = ReadyPriorities(h)
               /\ \A l \in List : IsEmptyList(u, l) <=> IsEmptyList(h, l)
               /\ h.active \in Proc \ C /\ h.myList[h.active] = Nil
               /\ h.myList \in [Proc -> List \union {Nil}]
               /\ h.savedContext \in SUBSET Proc
<1>1. h \in Heap /\ Schedulable(Unchained(h, C)) /\ GoodHeap(Unchained(h, C))
  BY DEF Beside, Schedulable
<1>2. Apart(h, C) /\ h.active \notin C
  BY <1>1 DEF Apart, Beside
<1>3. /\ h.active \in Proc /\ h.myList \in [Proc -> List \union {Nil}]
      /\ h.savedContext \in SUBSET Proc
  BY <1>1, HeapSlots
<1>4. LET u == Unchained(h, C)
      IN  /\ u.myList = h.myList /\ u.firstLink = h.firstLink /\ u.active = h.active
          /\ u.savedContext = h.savedContext
          /\ ReadyPriorities(u) = ReadyPriorities(h)
          /\ \A l \in List : IsEmptyList(u, l) <=> IsEmptyList(h, l)
  BY <1>1, UnchainedSlots
<1>5. h.myList[h.active] = Nil
  BY <1>1, <1>4 DEF Schedulable
<1> QED
  BY <1>1, <1>2, <1>3, <1>4, <1>5

LEMMA MovesBeside ==
    ASSUME NEW C \in SUBSET Proc, NEW h, Beside(h, C), NEW k, NEW u, Mirrors(h, k, u, C),
           NEW S, S \intersect C = {}, OnlyMoves(Unchained(h, C), u, S)
    PROVE  Moves(h, k, C, S) /\ u.myList = k.myList /\ u.active = k.active
<1>1. /\ k \in Heap /\ Schedulable(Unchained(k, C)) /\ Unchained(k, C) = u
      /\ Unchained(k, C).myList = k.myList /\ Unchained(k, C).active = k.active
  BY UnchainedSlots DEF Apart, OnlyMoves, Mirrors
<1>2. Unchained(h, C).myList = h.myList /\ Unchained(h, C).active = h.active
  BY BesideSlots
<1>3. \A p \in Proc : p \notin S => KeepsPlace(h, k, p)
  BY <1>1, <1>2 DEF OnlyMoves, KeepsPlace, Runnable
<1>4. ASSUME NEW p \in C PROVE k.myList[p] = Nil /\ p # k.active /\ p \in k.savedContext
  <2>1. p \in Proc /\ p \notin S /\ h.myList[p] = Nil /\ p # h.active /\ p \in h.savedContext
    BY DEF Beside
  <2>2. ~Runnable(h, p)
    BY <2>1 DEF Runnable, List
  <2>3. k.myList[p] = Nil /\ p # k.active
    BY <1>3, <2>1, <2>2 DEF KeepsPlace
  <2> QED
    BY <2>1, <2>3 DEF LeavesAside, Mirrors
<1>5. \A p \in C : k.nextLink[p] = h.nextLink[p]
  BY DEF LeavesAside, Mirrors
<1> QED
  BY <1>1, <1>3, <1>4, <1>5 DEF Moves, Beside

LEMMA SleepAside ==
    ASSUME NEW C \in SUBSET Proc, NEW h, Apart(h, C),
           NEW p \in Proc, p \notin C, h.myList[p] = Nil
    PROVE  /\ Mirrors(h, PutToSleep(h, p), PutToSleep(Unchained(h, C), p), C)
           /\ PutToSleep(h, p).active = h.active
<1>1. Priority[p] \in List /\ h \in Heap
  BY ReadyPrioritiesAreLists DEF Apart
<1>2. Mirrors(h, PutToSleep(h, p), PutToSleep(Unchained(h, C), p), C)
  BY <1>1, AddLastAside DEF PutToSleep
<1>3. PutToSleep(h, p).active = h.active
  BY <1>1, AddLastSlots DEF PutToSleep
<1> QED
  BY <1>2, <1>3

LEMMA PreemptMoves ==
    ASSUME NEW C \in SUBSET Proc, NEW h, Beside(h, C), NEW i \in ReadyPriorities(h)
    PROVE  Moves(h, PreemptByHeadOf(h, i), C, {})
<1> DEFINE u == Unchained(h, C)
           f == h.firstLink[i]
           r == RemoveFirstLinkOfList(h, i)
           s == PutToSleep(r, h.active)
           ur == RemoveFirstLinkOfList(u, i)
           us == PutToSleep(ur, h.active)
           k == TransferTo(s, f)
<1>0. i \in List /\ ~IsEmptyList(h, i)
  BY ReadyPrioritiesAreLists
<1>1. /\ Apart(h, C) /\ h \in Heap /\ Schedulable(u)
      /\ h.active \in Proc \ C /\ h.myList[h.active] = Nil
      /\ i \in ReadyPriorities(u) /\ u.firstLink = h.firstLink /\ u.active = h.active
      /\ h.myList \in [Proc -> List \union {Nil}]
  BY BesideSlots
<1>b. f \in Proc \ C /\ h.myList[f] = i
  BY <1>0, <1>1, EndsAreNotAside
<1>c. r.myList = [h.myList EXCEPT ![f] = Nil] /\ r.active = h.active
  BY <1>0, <1>1, <1>b, RemoveFirstSlots
<1>a. Mirrors(h, r, ur, C)
  BY <1>0, <1>1, RemoveFirstAside
<1>2. /\ Mirrors(h, r, ur, C)
      /\ f \in Proc \ C /\ r.myList = [h.myList EXCEPT ![f] = Nil] /\ r.active = h.active
  BY <1>a, <1>b, <1>c
<1> HIDE DEF u, f, r, ur
<1>3. /\ Apart(r, C) /\ Unchained(r, C) = ur
      /\ h.active \in Proc \ C /\ r.myList[h.active] = Nil
  BY <1>1, <1>2 DEF Mirrors
<1>4. Mirrors(r, s, us, C) /\ s.active = r.active
  BY <1>3, SleepAside
<1> HIDE DEF s, us
<1>5. Apart(s, C) /\ Unchained(s, C) = us
  BY <1>4 DEF Mirrors
<1>6. Mirrors(s, k, TransferTo(us, f), C)
  BY <1>2, <1>5, TransferAside
<1>7. Mirrors(h, s, us, C)
  BY <1>1, <1>2, <1>4, MirrorsCompose
<1> HIDE DEF k
<1>8. Mirrors(h, k, TransferTo(us, f), C)
  BY <1>1, <1>2, <1>4, <1>6, <1>7, MirrorsCompose
<1>9. k = PreemptByHeadOf(h, i) /\ TransferTo(us, f) = PreemptByHeadOf(u, i)
  BY <1>1 DEF PreemptByHeadOf, k, s, r, us, ur, f
<1>10. OnlyMoves(u, PreemptByHeadOf(u, i), {})
  BY <1>1, PreemptionRearranges
<1> QED
  BY <1>8, <1>9, <1>10, MovesBeside DEF u

LEMMA BlockMoves ==
    ASSUME NEW C \in SUBSET Proc, NEW h, Beside(h, C), NEW l \in List,
           ReadyPriorities(AddLastLinkToList(h, h.active, l)) # {}
    PROVE  LET k == TransferToHighestPriority(AddLastLinkToList(h, h.active, l))
           IN  /\ Moves(h, k, C, {h.active})
               /\ l \in Priorities => Moves(h, k, C, {})
               /\ l \notin Priorities => k.myList[h.active] = l /\ k.active # h.active
<1> DEFINE u == Unchained(h, C)
           w == AddLastLinkToList(h, h.active, l)
           v == AddLastLinkToList(u, h.active, l)
           k == TransferToHighestPriority(w)
           uk == TransferToHighestPriority(v)
<1>1. /\ Apart(h, C) /\ h \in Heap /\ Schedulable(u) /\ h.active \in Proc \ C
      /\ h.myList[h.active] = Nil /\ u.active = h.active
  BY BesideSlots
<1>2. Mirrors(h, w, v, C) /\ w.active = h.active
  BY <1>1, AddLastAside, AddLastSlots
<1> HIDE DEF w, v
<1>3. Apart(w, C) /\ w \in Heap /\ Unchained(w, C) = v
  BY <1>2 DEF Mirrors, Apart
<1>4. ReadyPriorities(v) = ReadyPriorities(w) /\ ReadyPriorities(w) # {}
  BY <1>3, UnchainedSlots DEF w
<1>5. Mirrors(w, k, uk, C)
  BY <1>1, <1>2, <1>3, SwitchAside
<1> HIDE DEF k, uk
<1>6. Mirrors(h, k, uk, C)
  BY <1>1, <1>2, <1>5, MirrorsCompose
<1>7. /\ OnlyMoves(u, uk, {u.active})
      /\ l \in Priorities => OnlyMoves(u, uk, {})
      /\ l \notin Priorities => uk.myList[u.active] = l /\ uk.active # u.active
  <2>1. v = AddLastLinkToList(u, u.active, l) /\ ReadyPriorities(v) # {} /\ Schedulable(u)
    BY <1>1, <1>4 DEF v
  <2>2. LET g == TransferToHighestPriority(v)
        IN  /\ OnlyMoves(u, g, {u.active})
            /\ l \in Priorities => OnlyMoves(u, g, {})
            /\ l \notin Priorities => g.myList[u.active] = l /\ g.active # u.active
    BY <2>1, LeaveForList
  <2> QED
    BY <2>2 DEF uk
<1>8. /\ Moves(h, k, C, {h.active}) /\ uk.myList = k.myList /\ uk.active = k.active
      /\ l \in Priorities => Moves(h, k, C, {})
  BY <1>1, <1>6, <1>7, MovesBeside DEF u
<1> QED
  BY <1>1, <1>7, <1>8 DEF k, w

LEMMA DropMoves ==
    ASSUME NEW C \in SUBSET Proc, NEW h, Beside(h, C), ReadyPriorities(h) # {}
    PROVE  LET k == TransferToHighestPriority(h)
           IN  /\ Moves(h, k, C, {h.active})
               /\ k.myList[h.active] = Nil /\ k.active # h.active
<1> DEFINE u == Unchained(h, C)
           k == TransferToHighestPriority(h)
           uk == TransferToHighestPriority(u)
<1>1. /\ Apart(h, C) /\ Schedulable(u) /\ h.active \in Proc \ C /\ ReadyPriorities(u) # {}
      /\ u.active = h.active
  BY BesideSlots
<1>2. Mirrors(h, k, uk, C)
  BY <1>1, SwitchAside
<1>3. OnlyMoves(u, uk, {h.active}) /\ uk.myList[h.active] = Nil /\ uk.active # h.active
  BY <1>1, LeaveForNothing
<1> HIDE DEF uk, k
<1>4. Moves(h, k, C, {h.active}) /\ uk.myList = k.myList /\ uk.active = k.active
  BY <1>1, <1>2, <1>3, MovesBeside DEF u
<1> QED
  BY <1>3, <1>4 DEF k

LEMMA ResumeMoves ==
    ASSUME NEW C \in SUBSET Proc, NEW h, Beside(h, C),
           NEW p \in Proc \ C, h.myList[p] = Nil, p # h.active, p \in h.savedContext
    PROVE  Moves(h, ResumeProcess(h, p), C, {p}) /\ Runnable(ResumeProcess(h, p), p)
<1> DEFINE u == Unchained(h, C)
           k == ResumeProcess(h, p)
           uk == ResumeProcess(u, p)
<1>1. /\ Apart(h, C) /\ Schedulable(u) /\ h.active \in Proc \ C /\ u.active = h.active
      /\ u.myList = h.myList /\ u.savedContext = h.savedContext /\ h.myList[h.active] = Nil
  BY BesideSlots
<1>2. Mirrors(h, k, uk, C)
  <2>1. CASE Priority[p] > Priority[h.active]
    <3> DEFINE s == PutToSleep(h, h.active)
               us == PutToSleep(u, h.active)
    <3>1. Mirrors(h, s, us, C) /\ s.active = h.active
      BY <1>1, SleepAside
    <3> HIDE DEF s, us
    <3>2. Apart(s, C) /\ Unchained(s, C) = us
      BY <3>1 DEF Mirrors
    <3>3. Mirrors(s, TransferTo(s, p), TransferTo(us, p), C)
      BY <3>2, TransferAside
    <3>4. Mirrors(h, TransferTo(s, p), TransferTo(us, p), C)
      BY <1>1, <3>1, <3>3, MirrorsCompose
    <3> QED
      BY <1>1, <2>1, <3>4 DEF ResumeProcess, s, us
  <2>2. CASE ~(Priority[p] > Priority[h.active])
    <3>1. Mirrors(h, PutToSleep(h, p), PutToSleep(u, p), C)
      BY <1>1, SleepAside
    <3> QED
      BY <1>1, <2>2, <3>1 DEF ResumeProcess
  <2> QED
    BY <2>1, <2>2
<1>3. OnlyMoves(u, uk, {p}) /\ Runnable(uk, p)
  BY <1>1, ResumeMakesRunnable
<1> HIDE DEF uk, k
<1>4. Moves(h, k, C, {p}) /\ uk.myList = k.myList /\ uk.active = k.active
  BY <1>2, <1>3, MovesBeside DEF u
<1> QED
  BY <1>3, <1>4 DEF k, Runnable

-----------------------------------------------------------------------------
(* Entering: the running process becomes a caller.                           *)

\* enterInterpreterFromCallback saves the caller and uses its link: for the
\* lists nothing has changed.
Pushed(h, g, c, D) ==
    LET u == Unchained(g, D)
    IN  /\ Apart(g, D) /\ Schedulable(u)
        /\ u.myList = h.myList /\ u.active = h.active
        /\ g.firstLink = h.firstLink /\ g.myList = h.myList /\ g.active = h.active
        /\ g.nextLink = [h.nextLink EXCEPT ![h.active] = c]
        /\ D \subseteq g.savedContext

LEMMA PushAside ==
    ASSUME NEW C \in SUBSET Proc, NEW h, Beside(h, C), NEW c \in Proc \union {Nil},
           NEW D, D = C \union {h.active},
           NEW g, g = [h EXCEPT !.savedContext = @ \union {h.active}, !.nextLink[h.active] = c]
    PROVE  Pushed(h, g, c, D)
<1> DEFINE a == h.active
           u == Unchained(g, D)
           v == Unchained(h, C)
<1>1. /\ h \in Heap /\ Schedulable(v) /\ GoodHeap(v) /\ ListedSaved(v)
      /\ a \in Proc \ C /\ h.myList[a] = Nil
      /\ \A p \in C : h.myList[p] = Nil /\ p \in h.savedContext
  BY BesideSlots DEF Schedulable, Beside
<1>2. /\ v.nextLink = [q \in Proc |-> IF q \in C THEN Nil ELSE h.nextLink[q]]
      /\ v.myList = h.myList /\ v.firstLink = h.firstLink /\ v.lastLink = h.lastLink
      /\ v.savedContext = h.savedContext /\ v.active = a
  BY <1>1, UnchainedSlots
<1>3. h.nextLink \in [Proc -> Proc \union {Nil}] /\ h.savedContext \in SUBSET Proc
  BY <1>1, HeapSlots
<1>4. /\ g \in Heap
      /\ g.nextLink = [h.nextLink EXCEPT ![a] = c] /\ g.myList = h.myList
      /\ g.firstLink = h.firstLink /\ g.lastLink = h.lastLink
      /\ g.savedContext = h.savedContext \union {a} /\ g.active = a
  BY <1>1 DEF Heap
<1>a. D = C \union {a}
  OBVIOUS
<1> HIDE DEF a, v
<1>5. /\ u \in Heap
      /\ u.nextLink = [q \in Proc |-> IF q \in D THEN Nil ELSE g.nextLink[q]]
      /\ u.myList = g.myList /\ u.firstLink = g.firstLink /\ u.lastLink = g.lastLink
      /\ u.savedContext = g.savedContext /\ u.active = g.active
  <2>1. g \in Heap
    BY <1>4
  <2> QED
    BY ONLY <2>1, UnchainedSlots
<1>6. v.nextLink[a] = Nil
  BY <1>1, <1>2 DEF GoodHeap, LinksOK, OffListUnlinked
<1> HIDE DEF u
<1>7. u.nextLink = v.nextLink
  BY <1>1, <1>2, <1>3, <1>4, <1>5, <1>6, <1>a
<1>8. GoodHeap(u)
  BY <1>1, <1>2, <1>4, <1>5, <1>7, SameLinks
<1>9. Schedulable(u)
  BY <1>1, <1>2, <1>4, <1>5, <1>8 DEF Schedulable, ListedSaved
<1>10. Apart(g, D)
  BY <1>1, <1>4, <1>8, <1>a DEF Apart, u
<1>11. D \subseteq g.savedContext
  BY <1>1, <1>4, <1>a
<1> QED
  BY <1>4, <1>5, <1>9, <1>10, <1>11 DEF a, u, Pushed

\* ReplaceActive with the callers aside.
LEMMA ReplaceAside ==
    ASSUME NEW D \in SUBSET Proc, NEW h, Apart(h, D), ReadyPriorities(h) # {}
    PROVE  Mirrors(h, ReplaceActive(h), ReplaceActive(Unchained(h, D)), D)
<1> DEFINE u == Unchained(h, D)
           i == Highest(ReadyPriorities(h))
           f == h.firstLink[i]
           r == RemoveFirstLinkOfList(h, i)
           ur == RemoveFirstLinkOfList(u, i)
           k == [r EXCEPT !.active = f, !.savedContext = @ \ {f}]
           uk == [ur EXCEPT !.active = f, !.savedContext = @ \ {f}]
<1>1. h \in Heap /\ ReadyPriorities(u) = ReadyPriorities(h) /\ u.firstLink = h.firstLink
  BY UnchainedSlots DEF Apart
<1>2. k = ReplaceActive(h) /\ uk = ReplaceActive(u)
  BY <1>1 DEF ReplaceActive
<1>3. i \in ReadyPriorities(h) /\ i \in List /\ ~IsEmptyList(h, i)
  BY ReadyPrioritiesAreLists, ExtremesExist
<1> HIDE DEF i, u
<1>4. f \in Proc \ D
  BY <1>3, EndsAreNotAside
<1>5. Mirrors(h, r, ur, D)
  BY <1>3, RemoveFirstAside DEF u
<1>6. r.savedContext = h.savedContext
  BY <1>1, <1>3, <1>4, RemoveFirstSlots
<1> HIDE DEF f, r, ur
<1>7. /\ r \in Heap /\ GoodHeap(Unchained(r, D)) /\ \A p \in D : r.myList[p] = Nil
      /\ Unchained(r, D) = ur
  BY <1>5 DEF Mirrors, Apart
<1>8. /\ k \in Heap /\ k.nextLink = r.nextLink /\ k.myList = r.myList
      /\ k.firstLink = r.firstLink /\ k.lastLink = r.lastLink
      /\ k.active = f /\ k.savedContext = r.savedContext \ {f}
  BY <1>4, <1>7 DEF Heap
<1>9. /\ ur \in Heap
      /\ ur.nextLink = [q \in Proc |-> IF q \in D THEN Nil ELSE r.nextLink[q]]
      /\ ur.myList = r.myList /\ ur.firstLink = r.firstLink /\ ur.lastLink = r.lastLink
      /\ ur.savedContext = r.savedContext /\ ur.active = r.active
  BY <1>7, UnchainedSlots
<1>10. /\ uk \in Heap /\ uk.nextLink = ur.nextLink /\ uk.myList = ur.myList
       /\ uk.firstLink = ur.firstLink /\ uk.lastLink = ur.lastLink
       /\ uk.active = f /\ uk.savedContext = ur.savedContext \ {f}
  BY <1>4, <1>9 DEF Heap
<1> HIDE DEF k, uk
<1>12. Unchained(k, D) = uk
  <2> DEFINE w == Unchained(k, D)
  <2>1. /\ w \in Heap
        /\ w.nextLink = [q \in Proc |-> IF q \in D THEN Nil ELSE k.nextLink[q]]
        /\ w.myList = k.myList /\ w.firstLink = k.firstLink /\ w.lastLink = k.lastLink
        /\ w.savedContext = k.savedContext /\ w.active = k.active
    BY <1>8, UnchainedSlots
  <2> HIDE DEF w
  <2>2. w.nextLink = uk.nextLink
    BY <1>8, <1>9, <1>10, <2>1
  <2>3. /\ w.myList = uk.myList /\ w.firstLink = uk.firstLink /\ w.lastLink = uk.lastLink
        /\ w.savedContext = uk.savedContext /\ w.active = uk.active
    BY <1>8, <1>9, <1>10, <2>1
  <2>4. w = uk
    BY <1>10, <2>1, <2>2, <2>3, SameHeap
  <2> QED
    BY <2>4 DEF w
<1>13. GoodHeap(uk)
  BY <1>7, <1>10, SameLinks
<1>14. LeavesAside(h, r, D)
  BY <1>5 DEF Mirrors
<1>15. LeavesAside(h, k, D)
  BY <1>4, <1>6, <1>8, <1>14 DEF LeavesAside
<1>16. Apart(k, D)
  BY <1>7, <1>8, <1>12, <1>13 DEF Apart
<1> QED
  BY <1>2, <1>12, <1>15, <1>16 DEF Mirrors, u

\* Waking a handler that does not outrank the caller, which runs on.
Wakes(h, k, u, v, D, w) ==
    /\ Mirrors(h, k, v, D) /\ w \in Proc \ D
    /\ OnlyMoves(u, v, {w}) /\ v.myList[w] = Priority[w] /\ v.active = h.active
    /\ k.savedContext = h.savedContext

LEMMA WakeAside ==
    ASSUME NEW D \in SUBSET Proc, NEW h, Apart(h, D), Schedulable(Unchained(h, D)),
           NEW s \in List \ Priorities, ~IsEmptyList(h, s),
           Priority[h.firstLink[s]] <= Priority[h.active]
    PROVE  LET u == Unchained(h, D)
           IN  Wakes(h, WakeFirstWaiter(h, s), u, WakeFirstWaiter(u, s), D, h.firstLink[s])
<1> DEFINE u == Unchained(h, D)
           w == h.firstLink[s]
           r == RemoveFirstLinkOfList(h, s)
           ur == RemoveFirstLinkOfList(u, s)
           k == PutToSleep(r, w)
           v == PutToSleep(ur, w)
<1>1. /\ h \in Heap /\ u.firstLink = h.firstLink /\ u.active = h.active /\ u.myList = h.myList
      /\ ~IsEmptyList(u, s) /\ h.active \in Proc
  BY UnchainedSlots, HeapSlots DEF Apart
<1>2. w \in Proc \ D /\ h.myList[w] = s
  BY EndsAreNotAside
<1>3. Mirrors(h, r, ur, D)
  BY RemoveFirstAside
<1>4. /\ Schedulable(ur) /\ w \in ur.savedContext /\ w # ur.active /\ ur.active = h.active
      /\ ur.myList = [h.myList EXCEPT ![w] = Nil]
  BY <1>1, FirstWaiterLeaves
<1>5. r.myList = [h.myList EXCEPT ![w] = Nil] /\ r.active = h.active
  BY <1>1, <1>2, RemoveFirstSlots
<1>6. h.myList \in [Proc -> List \union {Nil}]
  BY <1>1, HeapSlots
<1> HIDE DEF r, ur, w, u
<1>7. Apart(r, D) /\ Unchained(r, D) = ur
  BY <1>3 DEF Mirrors
<1>8. r.myList[w] = Nil /\ ur.myList[w] = Nil
  BY <1>2, <1>4, <1>5, <1>6
<1>9. Mirrors(r, k, v, D) /\ k.active = r.active
  BY <1>2, <1>7, <1>8, SleepAside
<1>10. Mirrors(h, k, v, D)
  BY <1>3, <1>5, <1>9 DEF Mirrors, LeavesAside
<1>11. ~(Priority[w] > Priority[h.active])
  BY <1>1, <1>2, PriorityAssumption DEF w, Priorities
<1>12. k = WakeFirstWaiter(h, s) /\ v = WakeFirstWaiter(u, s)
  BY <1>1, <1>4, <1>5, <1>11 DEF WakeFirstWaiter, ResumeProcess, r, ur, w
<1>13. OnlyMoves(ur, v, {w}) /\ v = ResumeProcess(ur, w)
  BY <1>2, <1>4, <1>8, <1>11, ResumeMakesRunnable DEF ResumeProcess
<1>14. /\ GoodHeap(ur) /\ ur \in Heap /\ Priority[w] \in List
  BY <1>2, <1>4, ReadyPrioritiesAreLists DEF Schedulable, GoodHeap
<1>15. v.myList = [ur.myList EXCEPT ![w] = Priority[w]] /\ v.active = ur.active
  BY <1>2, <1>14, AddLastSlots DEF PutToSleep
<1> HIDE DEF k, v
<1>16. OnlyMoves(u, v, {w})
  BY <1>1, <1>2, <1>4, <1>6, <1>13 DEF OnlyMoves, KeepsPlace, Runnable
<1>17. v.myList[w] = Priority[w]
  BY <1>2, <1>4, <1>6, <1>15
<1>18. k.savedContext = h.savedContext
  <2>1. r \in Heap /\ r.savedContext = h.savedContext
    BY <1>1, <1>2, <1>7, RemoveFirstSlots DEF Apart, r, w
  <2>2. k = AddLastLinkToList(r, w, Priority[w])
    BY DEF PutToSleep, k
  <2>3. \A l \in List : AddLastLinkToList(r, w, l).savedContext = r.savedContext
    BY <1>2, <2>1, AddLastSlots
  <2> QED
    BY <1>14, <2>1, <2>2, <2>3
<1> QED
  BY <1>2, <1>4, <1>10, <1>12, <1>15, <1>16, <1>17, <1>18 DEF u, w, Wakes

\* The head of the highest ready queue runs, and no trace is left of the
\* process that ran.
LEMMA ReplaceMoves ==
    ASSUME NEW h, Schedulable(h), ReadyPriorities(h) # {}
    PROVE  LET k == ReplaceActive(h)
           IN  /\ OnlyMoves(h, k, {h.active})
               /\ k.myList[h.active] = Nil /\ k.active # h.active
<1> DEFINE i == Highest(ReadyPriorities(h))
           r == RemoveFirstLinkOfList(h, i)
           T == h.savedContext \ {h.firstLink[i]}
           k == ReplaceActive(h)
<1>1. /\ i \in ReadyPriorities(h) /\ i \in List /\ ~IsEmptyList(h, i)
      /\ h \in Heap
  BY ReadyPrioritiesAreLists, ExtremesExist DEF Schedulable, GoodHeap
<1>2. k = [r EXCEPT !.active = h.firstLink[i], !.savedContext = @ \ {h.firstLink[i]}]
  BY DEF ReplaceActive
<1> HIDE DEF i, k
<1>3. r.savedContext = h.savedContext /\ r \in Heap
  BY <1>1, RemoveFirstSlots, LinkingKeepsHeap
<1>4. k = [RemoveFirstLinkOfList(h, i) EXCEPT !.active = h.firstLink[i], !.savedContext = T]
  BY <1>2, <1>3
<1>5. T \in SUBSET Proc /\ h.savedContext \ {h.firstLink[i]} \subseteq T
  BY <1>1, HeapSlots
<1> HIDE DEF T
<1>6. /\ OnlyMoves(h, k, {h.active}) /\ k.myList[h.active] = Nil
      /\ k.active # h.active
  BY <1>1, <1>4, <1>5, HeadTakesOver
<1> QED
  BY <1>6 DEF k

\* In k the process that ran in h is one more caller, linked to c; whoever is
\* neither a caller nor in S is where it was.
Enters(h, k, C, c, S) ==
    /\ Beside(k, C \union {h.active})
    /\ k.nextLink[h.active] = c
    /\ \A p \in C : k.nextLink[p] = h.nextLink[p]
    /\ \A p \in Proc : p \notin S /\ p # h.active => KeepsPlace(h, k, p)

\* m is the heap after the signal: the highest ready process takes over.
LEMMA EntersFrom ==
    ASSUME NEW C \in SUBSET Proc, NEW h, Beside(h, C), NEW c \in Proc \union {Nil},
           NEW D, D = C \union {h.active}, NEW g, Pushed(h, g, c, D),
           NEW m, NEW v, Mirrors(g, m, v, D), D \subseteq m.savedContext,
           NEW S, S \intersect D = {}, OnlyMoves(h, v, S), v.active = h.active,
           ReadyPriorities(v) # {}
    PROVE  /\ Enters(h, ReplaceActive(m), C, c, S)
           /\ \A p \in Proc \ D : v.myList[p] \in Priorities => Runnable(ReplaceActive(m), p)
<1> DEFINE a == h.active
           k == ReplaceActive(m)
           vk == ReplaceActive(v)
<1>1. /\ D \in SUBSET Proc /\ a \in Proc \ C /\ h.myList \in [Proc -> List \union {Nil}]
      /\ h.nextLink \in [Proc -> Proc \union {Nil}]
      /\ \A p \in C : h.myList[p] = Nil /\ p \in Proc
  BY BesideSlots, HeapSlots DEF Beside
<1>3. Apart(m, D) /\ m \in Heap /\ Unchained(m, D) = v /\ LeavesAside(g, m, D) /\ Schedulable(v)
  BY DEF Mirrors, Apart, OnlyMoves
<1>4. /\ ReadyPriorities(m) = ReadyPriorities(v) /\ m.myList = v.myList /\ m.active = a
      /\ v \in Heap
  <2>1. /\ Unchained(m, D) \in Heap /\ Unchained(m, D).myList = m.myList
        /\ Unchained(m, D).active = m.active
        /\ ReadyPriorities(Unchained(m, D)) = ReadyPriorities(m)
    BY ONLY <1>3, UnchainedSlots
  <2> QED
    BY <1>3, <2>1
<1>5. Mirrors(m, k, vk, D)
  BY <1>1, <1>3, <1>4, ReplaceAside
<1> HIDE DEF k, vk
<1>7. OnlyMoves(v, vk, {a}) /\ vk.myList[a] = Nil /\ vk.active # a
  BY <1>3, ReplaceMoves DEF vk
<1> HIDE DEF a
<1>8. /\ Apart(k, D) /\ LeavesAside(m, k, D) /\ Unchained(k, D) = vk /\ k \in Heap
      /\ Schedulable(vk)
  BY <1>5, <1>7 DEF Mirrors, Apart, OnlyMoves
<1>9. vk.myList = k.myList /\ vk.active = k.active
  BY <1>8, UnchainedSlots
<1>10. ASSUME NEW p \in Proc, p \notin S, p # a PROVE KeepsPlace(h, k, p)
  <2>1. KeepsPlace(h, v, p) /\ KeepsPlace(v, vk, p)
    BY <1>7, <1>10 DEF OnlyMoves
  <2> QED
    BY <1>9, <2>1 DEF KeepsPlace, Runnable, a
<1>11. ASSUME NEW p \in D PROVE k.myList[p] = Nil /\ p # k.active /\ p \in k.savedContext
  <2>1. k.myList[p] = Nil
    BY <1>8 DEF Apart
  <2>2. p # k.active
    <3>1. CASE p = a
      BY <1>7, <1>9, <3>1
    <3>2. CASE p # a
      <4>1. p \in C /\ p \in Proc /\ p \notin S /\ h.myList[p] = Nil
        BY <1>1, <3>2 DEF a
      <4>2. ~Runnable(h, p)
        BY <3>2, <4>1 DEF Runnable, List, a
      <4> QED
        BY <1>10, <3>2, <4>1, <4>2 DEF KeepsPlace, a
    <3> QED
      BY <3>1, <3>2
  <2> QED
    BY <1>8, <2>1, <2>2 DEF LeavesAside
<1>12. Beside(k, D)
  BY <1>8, <1>11 DEF Beside
<1>13. \A p \in D : k.nextLink[p] = g.nextLink[p]
  BY <1>3, <1>8 DEF LeavesAside
<1>14. k.nextLink[a] = c /\ \A p \in C : k.nextLink[p] = h.nextLink[p]
  BY <1>1, <1>13 DEF a, Pushed
<1>15. Enters(h, k, C, c, S)
  BY <1>10, <1>12, <1>14 DEF Enters, a
<1>16. ASSUME NEW p \in Proc \ D, v.myList[p] \in Priorities PROVE Runnable(k, p)
  <2>1. Runnable(v, p) /\ v.myList[p] # Nil /\ p # a
    BY <1>16 DEF Runnable, List, a
  <2>2. KeepsPlace(v, vk, p)
    BY <1>7, <2>1 DEF OnlyMoves
  <2> QED
    BY <1>9, <1>16, <2>1, <2>2 DEF KeepsPlace, Runnable
<1> QED
  BY <1>15, <1>16 DEF k

\* Entering with no handler waiting ...
LEMMA EnterMoves ==
    ASSUME NEW C \in SUBSET Proc, NEW h, Beside(h, C), NEW c \in Proc \union {Nil},
           NEW D, D = C \union {h.active}, NEW g, Pushed(h, g, c, D),
           ReadyPriorities(h) # {}
    PROVE  Enters(h, ReplaceActive(g), C, c, {})
<1> DEFINE u == Unchained(g, D)
<1>1. /\ Apart(g, D) /\ g \in Heap /\ Schedulable(u)
      /\ u.myList = h.myList /\ u.active = h.active
      /\ g.firstLink = h.firstLink
      /\ g.nextLink = [h.nextLink EXCEPT ![h.active] = c]
      /\ D \subseteq g.savedContext
  BY DEF Pushed, Apart
<1>2. ReadyPriorities(u) # {}
  <2>1. ReadyPriorities(g) = ReadyPriorities(h)
    BY <1>1 DEF ReadyPriorities, IsEmptyList
  <2> QED
    BY <1>1, <2>1, UnchainedSlots
<1>3. Mirrors(g, g, u, D) /\ OnlyMoves(h, u, {})
  BY <1>1 DEF Mirrors, LeavesAside, OnlyMoves, KeepsPlace
<1> HIDE DEF u
<1> QED
  BY <1>1, <1>2, <1>3, EntersFrom

\* ... and with one, which becomes runnable.
LEMMA EnterWakes ==
    ASSUME NEW C \in SUBSET Proc, NEW h, Beside(h, C), NEW c \in Proc \union {Nil},
           NEW D, D = C \union {h.active}, NEW g, Pushed(h, g, c, D),
           NEW s \in List \ Priorities, ~IsEmptyList(h, s),
           NEW w, w = h.firstLink[s], Priority[w] <= Priority[h.active]
    PROVE  LET k == ReplaceActive(WakeFirstWaiter(g, s))
           IN  Enters(h, k, C, c, {w}) /\ Runnable(k, w) /\ w \in Proc \ D
<1> DEFINE u == Unchained(g, D)
           m == WakeFirstWaiter(g, s)
           v == WakeFirstWaiter(u, s)
<1>1. D \in SUBSET Proc
  <2>1. Beside(h, C)
    OBVIOUS
  <2>2. h.active \in Proc
    BY ONLY <2>1, BesideSlots
  <2> QED
    BY <2>2
<1>2. /\ Apart(g, D) /\ Schedulable(u)
      /\ u.myList = h.myList /\ u.active = h.active
      /\ g.firstLink = h.firstLink /\ g.active = h.active
      /\ g.nextLink = [h.nextLink EXCEPT ![h.active] = c]
      /\ D \subseteq g.savedContext
  BY DEF Pushed
<1>3. w = g.firstLink[s] /\ ~IsEmptyList(g, s) /\ Priority[w] <= Priority[g.active]
  BY <1>2 DEF IsEmptyList
<1>4. Wakes(g, m, u, v, D, g.firstLink[s])
  BY <1>1, <1>2, <1>3, WakeAside
<1> HIDE DEF u, m, v
<1>5. /\ Mirrors(g, m, v, D) /\ w \in Proc \ D
      /\ OnlyMoves(u, v, {w}) /\ v.myList[w] = Priority[w] /\ v.active = h.active
      /\ D \subseteq m.savedContext
  BY <1>2, <1>3, <1>4 DEF Wakes
<1>6. Priority[w] \in Priorities /\ Priority[w] \in List
  BY <1>5, ReadyPrioritiesAreLists
<1>7. ReadyPriorities(v) # {}
  <2>1. GoodHeap(v)
    BY <1>5 DEF OnlyMoves, Schedulable
  <2>2. ~IsEmptyList(v, Priority[w])
    BY <1>5, <1>6, <2>1, EmptyIffNobody
  <2> QED
    BY <1>6, <2>2 DEF ReadyPriorities
<1>8. /\ Enters(h, ReplaceActive(m), C, c, {w})
      /\ \A p \in Proc \ D : v.myList[p] \in Priorities => Runnable(ReplaceActive(m), p)
  <2>1. {w} \intersect D = {}
    BY <1>5
  <2>2. OnlyMoves(h, v, {w})
    BY <1>2, <1>5 DEF OnlyMoves, KeepsPlace, Runnable
  <2> QED
    BY <1>5, <1>7, <2>1, <2>2, EntersFrom
<1> QED
  BY <1>5, <1>6, <1>8 DEF m

-----------------------------------------------------------------------------
(* Returning: a caller becomes the running process.                          *)

Returns(h, k, C, c) ==
    /\ Beside(k, C \ {c}) /\ k.active = c
    /\ \A p \in C \ {c} : k.nextLink[p] = h.nextLink[p]
    /\ \A p \in Proc : p # c => KeepsPlace(h, k, p)

LEMMA ReturnMoves ==
    ASSUME NEW C \in SUBSET Proc, NEW h, Beside(h, C), NEW c \in C
    PROVE  LET g == SaveAndRequeue(h)
               k == [g EXCEPT !.nextLink[c] = Nil, !.active = c, !.savedContext = @ \ {c}]
           IN  Returns(h, k, C, c) /\ g.nextLink[c] = h.nextLink[c]
<1> DEFINE a == h.active
           j == [h EXCEPT !.savedContext = @ \union {a}]
           g == PutToSleep(j, a)
           k == [g EXCEPT !.nextLink[c] = Nil, !.active = c, !.savedContext = @ \ {c}]
           D == C \ {c}
           v == Unchained(h, C)
           uj == Unchained(j, C)
           ug == PutToSleep(uj, a)
           uk == Unchained(k, D)
<1>1. /\ h \in Heap /\ GoodHeap(v) /\ ListedSaved(v)
      /\ a \in Proc \ C /\ h.myList[a] = Nil
      /\ \A p \in C : h.myList[p] = Nil /\ p # a /\ p \in h.savedContext
  BY BesideSlots DEF Schedulable, Beside
<1>2. /\ v.nextLink = [q \in Proc |-> IF q \in C THEN Nil ELSE h.nextLink[q]]
      /\ v.myList = h.myList /\ v.firstLink = h.firstLink /\ v.lastLink = h.lastLink
      /\ v.savedContext = h.savedContext /\ v.active = a
  BY <1>1, UnchainedSlots
<1>3. /\ j \in Heap /\ j.nextLink = h.nextLink /\ j.myList = h.myList
      /\ j.firstLink = h.firstLink /\ j.lastLink = h.lastLink
      /\ j.savedContext = h.savedContext \union {a} /\ j.active = a
  BY <1>1 DEF Heap
<1>4. SaveAndRequeue(h) = g
  BY DEF SaveAndRequeue
<1> HIDE DEF a, j, v
<1>5. /\ uj \in Heap
      /\ uj.nextLink = [q \in Proc |-> IF q \in C THEN Nil ELSE j.nextLink[q]]
      /\ uj.myList = j.myList /\ uj.firstLink = j.firstLink /\ uj.lastLink = j.lastLink
      /\ uj.savedContext = j.savedContext /\ uj.active = j.active
  BY <1>3, UnchainedSlots
<1>6. GoodHeap(uj)
  BY <1>1, <1>2, <1>3, <1>5, SameLinks
<1>7. Apart(j, C) /\ uj.myList[a] = Nil
  BY <1>1, <1>3, <1>5, <1>6 DEF Apart
<1>8. Mirrors(j, g, ug, C)
  BY <1>1, <1>3, <1>7, SleepAside
<1> HIDE DEF uj
<1>9. /\ GoodHeap(ug) /\ ug.myList = [uj.myList EXCEPT ![a] = Priority[a]]
      /\ ug.savedContext = uj.savedContext
  BY <1>1, <1>6, <1>7, PutToSleepKeepsLinks
<1> HIDE DEF g, ug
<1>10. /\ g \in Heap /\ Unchained(g, C) = ug /\ \A p \in C : g.nextLink[p] = j.nextLink[p]
  BY <1>8 DEF Mirrors, Apart, LeavesAside
<1>11. /\ ug.nextLink = [q \in Proc |-> IF q \in C THEN Nil ELSE g.nextLink[q]]
       /\ ug.myList = g.myList /\ ug.firstLink = g.firstLink /\ ug.lastLink = g.lastLink
       /\ ug.savedContext = g.savedContext
  BY <1>10, UnchainedSlots
<1>12. /\ k \in Heap /\ k.nextLink = [g.nextLink EXCEPT ![c] = Nil]
       /\ k.myList = g.myList /\ k.firstLink = g.firstLink /\ k.lastLink = g.lastLink
       /\ k.savedContext = g.savedContext \ {c} /\ k.active = c
  BY <1>10 DEF Heap
<1> HIDE DEF k
<1>13. D = C \ {c}
  OBVIOUS
<1> HIDE DEF D
<1>14. /\ uk \in Heap
       /\ uk.nextLink = [q \in Proc |-> IF q \in D THEN Nil ELSE k.nextLink[q]]
       /\ uk.myList = k.myList /\ uk.firstLink = k.firstLink /\ uk.lastLink = k.lastLink
       /\ uk.savedContext = k.savedContext /\ uk.active = k.active
  <2>1. k \in Heap
    BY <1>12
  <2> QED
    BY ONLY <2>1, UnchainedSlots
<1> HIDE DEF uk
<1>15. g.nextLink \in [Proc -> Proc \union {Nil}] /\ h.myList \in [Proc -> List \union {Nil}]
       /\ h.savedContext \in SUBSET Proc /\ a \in Proc
  BY <1>1, <1>10, HeapSlots
<1>16. uk.nextLink = ug.nextLink
  BY <1>11, <1>12, <1>13, <1>14, <1>15
<1>17. GoodHeap(uk)
  BY <1>9, <1>11, <1>12, <1>14, <1>16, SameLinks
<1>18. k.myList = [h.myList EXCEPT ![a] = Priority[a]]
  BY <1>3, <1>5, <1>9, <1>11, <1>12
<1>19. k.savedContext = (h.savedContext \union {a}) \ {c}
  BY <1>3, <1>5, <1>9, <1>11, <1>12
<1>20. Schedulable(uk)
  <2>1. k.myList[c] = Nil
    BY <1>1, <1>15, <1>18
  <2>2. ASSUME NEW p \in Proc, p # c, k.myList[p] # Nil PROVE p \in k.savedContext
    <3>1. CASE p = a
      BY <1>19, <2>2, <3>1
    <3>2. CASE p # a
      BY <1>1, <1>2, <1>15, <1>18, <1>19, <2>2, <3>2 DEF ListedSaved
    <3> QED
      BY <3>1, <3>2
  <2> QED
    BY <1>12, <1>14, <1>17, <2>1, <2>2 DEF Schedulable, ListedSaved
<1>21. ASSUME NEW p \in D PROVE k.myList[p] = Nil /\ p # k.active /\ p \in k.savedContext
  BY <1>1, <1>12, <1>13, <1>15, <1>18, <1>19
<1>22. Beside(k, D)
  BY <1>12, <1>20, <1>21 DEF Beside, uk
<1>23. ASSUME NEW p \in Proc, p # c PROVE KeepsPlace(h, k, p)
  <2>1. CASE p = a
    <3>1. k.myList[p] \in Priorities
      BY <1>15, <1>18, <2>1, ReadyPrioritiesAreLists
    <3> QED
      BY <2>1, <3>1 DEF KeepsPlace, Runnable, a
  <2>2. CASE p # a
    BY <1>12, <1>15, <1>18, <1>23, <2>2 DEF KeepsPlace, a
  <2> QED
    BY <2>1, <2>2
<1>24. \A p \in C : g.nextLink[p] = h.nextLink[p]
  BY <1>3, <1>10
<1>25. \A p \in D : k.nextLink[p] = h.nextLink[p]
  BY <1>12, <1>13, <1>15, <1>24
<1>26. Returns(h, k, C, c)
  BY <1>12, <1>13, <1>22, <1>23, <1>25 DEF Returns
<1> QED
  BY <1>4, <1>24, <1>26 DEF k

\* Who keeps its place stays parked, or waiting on its list, or runnable.
LEMMA PlacesStay ==
    ASSUME NEW C \in SUBSET Proc, NEW h, Beside(h, C),
           NEW D \in SUBSET Proc, NEW k, Beside(k, D),
           NEW p \in Proc, KeepsPlace(h, k, p)
    PROVE  /\ \A l \in List \ Priorities : k.myList[p] = l <=> h.myList[p] = l
           /\ (p # k.active /\ k.myList[p] = Nil) <=> (p # h.active /\ h.myList[p] = Nil)
           /\ Runnable(h, p) => Runnable(k, p)
<1>1. h.myList[h.active] = Nil
  BY BesideSlots
<1>2. k.myList[k.active] = Nil
  BY BesideSlots
<1>3. Nil \notin Priorities
  BY DEF List
<1> QED
  BY <1>1, <1>2, <1>3 DEF KeepsPlace, Runnable

-----------------------------------------------------------------------------
(* Where the processes are.                                                  *)

\* The callers are beside the lists, whoever is on no list is suspended or a
\* caller, and only handlers wait for a callback.
PlacesInv ==
    /\ Beside(heap, Callers)
    /\ Runnable(heap, Idle)
    /\ parked \intersect Callers = {}
    /\ \A p \in Proc : p \in parked \union Callers <=> p # heap.active /\ heap.myList[p] = Nil
    /\ \A p \in Proc : heap.myList[p] = CallbackSemaphore => p \in woken

LEMMA CallersAreProcesses == TypeInv => Callers \in SUBSET Proc
<1> SUFFICES ASSUME TypeInv, NEW k \in DOMAIN loops PROVE loops[k].caller \in Proc
  BY DEF Callers
<1>1. loops \in Seq(Loop) /\ k \in 1..Len(loops)
  BY LenProperties DEF TypeInv
<1>2. loops[k] \in Loop
  BY <1>1, ElementOfSeq
<1> QED
  BY <1>2 DEF Loop

LEMMA SemaphoreIsNoQueue == CallbackSemaphore \in List \ Priorities /\ CallbackSemaphore # Nil
BY CallbackAssumption, ListKindsAssumption DEF List

\* Only the processes of S have moved, and the rest follows.
LEMMA PlacesPersist ==
    ASSUME TypeInv, PlacesInv, Callers' \in SUBSET Proc, Beside(heap', Callers'),
           parked' \intersect Callers' = {},
           NEW S, Idle \in Proc, Idle \notin S,
           \A p \in Proc : p \notin S =>
               /\ KeepsPlace(heap, heap', p)
               /\ p \in parked' \union Callers' <=> p \in parked \union Callers
               /\ p \in woken => p \in woken',
           \A p \in Proc : p \in S =>
               /\ p \in parked' \union Callers' <=> p # heap'.active /\ heap'.myList[p] = Nil
               /\ heap'.myList[p] = CallbackSemaphore => p \in woken'
    PROVE  /\ PlacesInv'
           /\ \A p \in Proc : p \notin S =>
                 (heap'.myList[p] = CallbackSemaphore <=> heap.myList[p] = CallbackSemaphore)
<1>1. Callers \in SUBSET Proc /\ Beside(heap, Callers)
  BY CallersAreProcesses DEF PlacesInv
<1>2. ASSUME NEW p \in Proc, p \notin S
      PROVE  /\ \A l \in List \ Priorities : heap'.myList[p] = l <=> heap.myList[p] = l
             /\ (p # heap'.active /\ heap'.myList[p] = Nil)
                  <=> (p # heap.active /\ heap.myList[p] = Nil)
             /\ Runnable(heap, p) => Runnable(heap', p)
  <2>1. KeepsPlace(heap, heap', p)
    BY <1>2
  <2> QED
    BY <1>1, <2>1, PlacesStay
<1>3. Runnable(heap', Idle)
  BY <1>2 DEF PlacesInv
<1>4. \A p \in Proc : p \notin S =>
          (heap'.myList[p] = CallbackSemaphore <=> heap.myList[p] = CallbackSemaphore)
  BY <1>2, SemaphoreIsNoQueue
<1>5. ASSUME NEW p \in Proc
      PROVE  /\ p \in parked' \union Callers' <=> p # heap'.active /\ heap'.myList[p] = Nil
             /\ heap'.myList[p] = CallbackSemaphore => p \in woken'
  <2>1. CASE p \in S
    BY <2>1
  <2>2. CASE p \notin S
    <3>1. p \in parked' \union Callers' <=> p \in parked \union Callers
      BY <2>2
    <3>2. p \in parked \union Callers <=> p # heap.active /\ heap.myList[p] = Nil
      BY DEF PlacesInv
    <3>3. heap.myList[p] = CallbackSemaphore => p \in woken
      BY DEF PlacesInv
    <3>4. p \in woken => p \in woken'
      BY <2>2
    <3> QED
      BY <1>2, <1>4, <2>2, <3>1, <3>2, <3>3, <3>4
  <2> QED
    BY <2>1, <2>2
<1> QED
  BY <1>3, <1>4, <1>5 DEF PlacesInv

\* While any other process runs the idle process is ready.
LEMMA IdleIsReady ==
    ASSUME TypeInv, PlacesInv, Idle \in Proc, active # Idle
    PROVE  /\ ReadyPriorities(heap) # {}
           /\ \A l \in List : ReadyPriorities(AddLastLinkToList(heap, active, l)) # {}
<1> DEFINE u == Unchained(heap, Callers)
           i == heap.myList[Idle]
<1>1. Callers \in SUBSET Proc /\ Beside(heap, Callers) /\ i \in Priorities /\ i \in List
  BY CallersAreProcesses DEF PlacesInv, Runnable, active, List
<1>2. GoodHeap(u) /\ u.myList = heap.myList /\ heap \in Heap /\ active \in Proc
  BY <1>1, BesideSlots, HeapSlots DEF active
<1> HIDE DEF u
<1>3. ~IsEmptyList(u, i)
  BY <1>1, <1>2, EmptyIffNobody
<1>4. ~IsEmptyList(heap, i)
  BY <1>1, <1>2, <1>3, UnchainedSlots DEF u
<1>5. ReadyPriorities(heap) # {}
  BY <1>1, <1>4 DEF ReadyPriorities
<1>6. ASSUME NEW l \in List PROVE ReadyPriorities(AddLastLinkToList(heap, active, l)) # {}
  <2> DEFINE w == AddLastLinkToList(heap, active, l)
  <2>1. w.firstLink = [heap.firstLink EXCEPT ![l] = IF IsEmptyList(heap, l) THEN active ELSE @]
    BY <1>2 DEF AddLastLinkToList
  <2>2. heap.firstLink \in [List -> Proc \union {Nil}]
    BY <1>2, HeapSlots
  <2> HIDE DEF w
  <2>3. ~IsEmptyList(w, i)
    BY <1>1, <1>2, <1>4, <2>1, <2>2 DEF IsEmptyList
  <2>4. i \in ReadyPriorities(w)
    BY <1>1, <2>3 DEF ReadyPriorities
  <2> QED
    BY <2>4 DEF w
<1> QED
  BY <1>5, <1>6

\* A move that touches no callback state, of processes that are not callers.
LEMMA MoveKeepsPlaces ==
    ASSUME TypeInv, PlacesInv, UNCHANGED <<loops, woken>>,
           NEW S, Idle \in Proc, Idle \notin S, Moves(heap, heap', Callers, S),
           \A p \in Proc : p \notin S => (p \in parked' <=> p \in parked),
           parked' \intersect Callers = {},
           \A p \in Proc : p \in S =>
               /\ p \in parked' \union Callers <=> p # heap'.active /\ heap'.myList[p] = Nil
               /\ heap'.myList[p] # CallbackSemaphore /\ heap.myList[p] # CallbackSemaphore
    PROVE  /\ PlacesInv'
           /\ \A p \in Proc :
                 heap'.myList[p] = CallbackSemaphore <=> heap.myList[p] = CallbackSemaphore
           /\ \A p \in Callers : heap'.nextLink[p] = heap.nextLink[p]
<1>1. Callers' = Callers /\ Callers \in SUBSET Proc /\ woken' = woken
  BY CallersAreProcesses DEF Callers
<1>2. /\ Beside(heap', Callers) /\ \A p \in Callers : heap'.nextLink[p] = heap.nextLink[p]
      /\ \A p \in Proc : p \notin S => KeepsPlace(heap, heap', p)
  BY DEF Moves
<1>3. /\ PlacesInv'
      /\ \A p \in Proc : p \notin S =>
            (heap'.myList[p] = CallbackSemaphore <=> heap.myList[p] = CallbackSemaphore)
  BY <1>1, <1>2, PlacesPersist
<1> QED
  BY <1>2, <1>3

\* Scheduling in the nested loop and outside it.
LEMMA SwitchKeepsPlaces ==
    ASSUME TypeInv, PlacesInv, Idle \in Proc, SwitchProcess
    PROVE  /\ PlacesInv'
           /\ \A p \in Handler :
                 heap'.myList[p] = CallbackSemaphore <=> heap.myList[p] = CallbackSemaphore
           /\ \A p \in Callers : heap'.nextLink[p] = heap.nextLink[p]
<1> DEFINE Goal == /\ PlacesInv'
                   /\ \A p \in Proc :
                         heap'.myList[p] = CallbackSemaphore
                           <=> heap.myList[p] = CallbackSemaphore
                   /\ \A p \in Callers : heap'.nextLink[p] = heap.nextLink[p]
<1> SUFFICES Goal
  BY CallbackAssumption
<1>1. /\ Callers \in SUBSET Proc /\ Beside(heap, Callers) /\ heap \in Heap
      /\ active \in Proc \ Callers /\ heap.myList[active] = Nil
      /\ heap.myList \in [Proc -> List \union {Nil}]
      /\ UNCHANGED <<loops, woken>> /\ Idle \in Proc
  BY CallersAreProcesses, BesideSlots
     DEF PlacesInv, active, SwitchProcess, callbackVars, imageVars, Beside
<1>2. ASSUME Moves(heap, heap', Callers, {}), parked' = parked PROVE Goal
  BY <1>1, <1>2, MoveKeepsPlaces DEF PlacesInv
<1>3. CASE active \notin Handler /\ PrimitiveSuspendActive
  <2>1. /\ active # Idle /\ ReadyPriorities(heap) # {}
        /\ heap' = TransferToHighestPriority(heap) /\ parked' = parked \union {active}
    BY <1>3 DEF PrimitiveSuspendActive
  <2>2. /\ Moves(heap, heap', Callers, {active})
        /\ heap'.myList[active] = Nil /\ heap'.active # active
    BY <1>1, <2>1, DropMoves DEF active
  <2>3. parked' \intersect Callers = {}
    BY <1>1, <2>1 DEF PlacesInv
  <2> QED
    BY <1>1, <2>1, <2>2, <2>3, SemaphoreIsNoQueue, MoveKeepsPlaces
<1>4. ASSUME NEW q \in parked, PrimitiveResume(q) PROVE Goal
  <2>1. /\ q \in heap.savedContext /\ heap' = ResumeProcess(heap, q)
        /\ parked' = parked \ {q}
    BY <1>4 DEF PrimitiveResume
  <2>2. /\ q \in Proc \ Callers /\ heap.myList[q] = Nil /\ q # heap.active
        /\ ~Runnable(heap, q)
    BY DEF PlacesInv, TypeInv, Runnable, List
  <2>3. Moves(heap, heap', Callers, {q}) /\ Runnable(heap', q)
    BY <1>1, <2>1, <2>2, ResumeMoves
  <2>4. Beside(heap', Callers)
    BY <2>3 DEF Moves
  <2>5. heap'.myList[heap'.active] = Nil
    BY <1>1, <2>4, BesideSlots
  <2>6. /\ q # heap'.active => heap'.myList[q] # Nil
        /\ heap'.myList[q] # CallbackSemaphore
    BY <2>3, <2>5, SemaphoreIsNoQueue DEF Runnable, List
  <2>7. q \notin parked' \union Callers /\ parked' \intersect Callers = {} /\ Idle \notin {q}
    BY <2>1, <2>2 DEF PlacesInv
  <2> QED
    BY <1>1, <2>1, <2>2, <2>3, <2>6, <2>7, SemaphoreIsNoQueue, MoveKeepsPlaces
<1>5. CASE PrimitiveYield
  <2> DEFINE l == Priority[active]
             w == AddLastLinkToList(heap, active, l)
  <2>1. l \in List /\ l \in Priorities /\ ~IsEmptyList(heap, l)
    BY <1>1, <1>5, ReadyPrioritiesAreLists DEF PrimitiveYield
  <2>2. heap' = TransferToHighestPriority(w) /\ parked' = parked
    BY <1>5 DEF PrimitiveYield, history
  <2> HIDE DEF l
  <2>3. ReadyPriorities(w) # {}
    <3>1. w.firstLink = [heap.firstLink EXCEPT ![l] = IF IsEmptyList(heap, l) THEN active ELSE @]
      BY <1>1 DEF AddLastLinkToList
    <3>2. heap.firstLink \in [List -> Proc \union {Nil}]
      BY <1>1, HeapSlots
    <3>3. w.firstLink[l] # Nil
      BY <1>1, <2>1, <3>1, <3>2 DEF IsEmptyList
    <3> QED
      BY <2>1, <3>3 DEF ReadyPriorities, IsEmptyList
  <2>4. Moves(heap, heap', Callers, {})
    BY <1>1, <2>1, <2>2, <2>3, BlockMoves DEF active
  <2> QED
    BY <1>2, <2>2, <2>4
<1>6. CASE CheckForPreemption
  <2>1. HigherReady(heap) \subseteq ReadyPriorities(heap)
    BY DEF HigherReady
  <2>2. Lowest(HigherReady(heap)) \in ReadyPriorities(heap)
    BY <1>6, <2>1, ReadyPrioritiesAreLists, ExtremesExist DEF CheckForPreemption
  <2>3. Moves(heap, heap', Callers, {}) /\ parked' = parked
    BY <1>1, <1>6, <2>2, PreemptMoves DEF CheckForPreemption, history
  <2> QED
    BY <1>2, <2>3
<1>7. CASE StepForceYield
  <2>1. PICK i \in YieldCandidates(heap) : heap' = PreemptByHeadOf(heap, i)
    BY <1>7 DEF StepForceYield
  <2>2. i \in ReadyPriorities(heap)
    <3>1. CASE HigherReady(heap) # {}
      <4>1. HigherReady(heap) \subseteq ReadyPriorities(heap)
        BY DEF HigherReady
      <4> QED
        BY <2>1, <3>1, <4>1, ReadyPrioritiesAreLists, ExtremesExist DEF YieldCandidates
    <3>2. CASE HigherReady(heap) = {}
      BY <2>1, <3>2 DEF YieldCandidates
    <3> QED
      BY <3>1, <3>2
  <2>3. Moves(heap, heap', Callers, {}) /\ parked' = parked
    BY <1>1, <1>7, <2>1, <2>2, PreemptMoves DEF StepForceYield, history
  <2> QED
    BY <1>2, <2>3
<1> QED
  BY <1>3, <1>4, <1>5, <1>6, <1>7 DEF SwitchProcess

\* A handler that waits takes the pending signal, or goes on the list.
LEMMA WaitKeepsPlaces ==
    ASSUME TypeInv, PlacesInv, Idle \in Proc, WaitForCallback
    PROVE  /\ PlacesInv'
           /\ \A p \in Callers : heap'.nextLink[p] = heap.nextLink[p]
           /\ \A p \in Handler : p # active =>
                 (heap'.myList[p] = CallbackSemaphore <=> heap.myList[p] = CallbackSemaphore)
           /\ \/ /\ excessSignals[CallbackSemaphore] > 0
                 /\ excessSignals'[CallbackSemaphore] = excessSignals[CallbackSemaphore] - 1
              \/ /\ excessSignals' = excessSignals
                 /\ heap'.myList[active] = CallbackSemaphore
<1> DEFINE s == CallbackSemaphore
           w == AddLastLinkToList(heap, active, s)
<1>1. /\ Callers \in SUBSET Proc /\ Beside(heap, Callers) /\ heap \in Heap
      /\ active \in Proc \ Callers /\ heap.myList[active] = Nil
      /\ heap.myList \in [Proc -> List \union {Nil}]
  BY CallersAreProcesses, BesideSlots DEF PlacesInv, active, Beside
<1>2. /\ active \in Handler /\ Handler \subseteq Proc /\ active # Idle /\ Idle \in Proc
      /\ s \in List \ Priorities /\ s \in Semaphore
  BY CallbackAssumption, SemaphoreIsNoQueue DEF WaitForCallback
<1>3. /\ UNCHANGED <<loops, parked>> /\ woken' = woken \union {active}
      /\ Callers' = Callers
  BY DEF WaitForCallback, PrimitiveWait, history, Callers
<1>4. CASE excessSignals[s] > 0
  <2>1. /\ heap' = heap /\ excessSignals' = [excessSignals EXCEPT ![s] = @ - 1]
    BY <1>4 DEF WaitForCallback, PrimitiveWait
  <2>2. excessSignals'[s] = excessSignals[s] - 1
    BY <1>2, <2>1 DEF TypeInv
  <2>3. PlacesInv'
    <3>1. \A p \in Proc : heap'.myList[p] = CallbackSemaphore => p \in woken'
      BY <1>3, <2>1 DEF PlacesInv
    <3>2. Beside(heap', Callers') /\ Runnable(heap', Idle)
      BY <1>3, <2>1 DEF PlacesInv
    <3>3. /\ parked' \intersect Callers' = {}
          /\ \A p \in Proc :
                p \in parked' \union Callers' <=> p # heap'.active /\ heap'.myList[p] = Nil
      BY <1>3, <2>1 DEF PlacesInv
    <3> QED
      BY ONLY <3>1, <3>2, <3>3 DEF PlacesInv
  <2> QED
    BY <1>4, <2>1, <2>2, <2>3
<1>5. CASE ~(excessSignals[s] > 0)
  <2>1. ReadyPriorities(w) # {}
    BY <1>2, IdleIsReady
  <2>2. heap' = TransferToHighestPriority(w) /\ excessSignals' = excessSignals
    BY <1>5, <2>1 DEF WaitForCallback, PrimitiveWait
  <2>3. /\ Moves(heap, heap', Callers, {active})
        /\ heap'.myList[active] = s /\ heap'.active # active
    <3> DEFINE k == TransferToHighestPriority(AddLastLinkToList(heap, heap.active, s))
    <3>1. ReadyPriorities(AddLastLinkToList(heap, heap.active, s)) # {}
      BY <2>1 DEF active
    <3>2. /\ Moves(heap, k, Callers, {heap.active})
          /\ s \notin Priorities => k.myList[heap.active] = s /\ k.active # heap.active
      BY <1>1, <1>2, <3>1, BlockMoves
    <3>3. heap' = k
      BY <2>2 DEF active
    <3> QED
      BY ONLY <1>2, <3>2, <3>3 DEF active
  <2>4. /\ Beside(heap', Callers) /\ \A p \in Callers : heap'.nextLink[p] = heap.nextLink[p]
        /\ \A p \in Proc : p \notin {active} => KeepsPlace(heap, heap', p)
    BY <2>3 DEF Moves
  <2>5. active \notin parked' \union Callers' /\ heap'.myList[active] # Nil
    BY <1>1, <1>3, <2>3, SemaphoreIsNoQueue DEF PlacesInv, active
  <2>6. /\ PlacesInv'
        /\ \A p \in Proc : p \notin {active} => (heap'.myList[p] = s <=> heap.myList[p] = s)
    <3>1. Beside(heap', Callers') /\ parked' \intersect Callers' = {} /\ Callers' \in SUBSET Proc
      BY <1>1, <1>3, <2>4 DEF PlacesInv
    <3>2. Idle \notin {active}
      BY <1>2
    <3>3. \A p \in Proc : p \notin {active} =>
               /\ KeepsPlace(heap, heap', p)
               /\ p \in parked' \union Callers' <=> p \in parked \union Callers
               /\ p \in woken => p \in woken'
      BY <1>3, <2>4
    <3>4. \A p \in Proc : p \in {active} =>
               /\ p \in parked' \union Callers' <=> p # heap'.active /\ heap'.myList[p] = Nil
               /\ heap'.myList[p] = s => p \in woken'
      BY <1>3, <2>5
    <3> QED
      BY <1>2, <3>1, <3>2, <3>3, <3>4, PlacesPersist
  <2> QED
    BY <1>2, <2>2, <2>3, <2>4, <2>6
<1> QED
  BY <1>4, <1>5

LEMMA AppendLoop ==
    ASSUME NEW S, NEW s \in Seq(S), NEW e \in S
    PROVE  /\ Append(s, e) \in Seq(S) /\ Append(s, e) # <<>>
           /\ Len(Append(s, e)) = Len(s) + 1 /\ Len(s) \in Nat
           /\ DOMAIN s = 1..Len(s) /\ DOMAIN Append(s, e) = 1..(Len(s) + 1)
           /\ \A k \in 1..Len(s) : Append(s, e)[k] = s[k]
           /\ Append(s, e)[Len(s) + 1] = e /\ Top(Append(s, e)) = e
<1>1. /\ Append(s, e) \in Seq(S) /\ Len(Append(s, e)) = Len(s) + 1 /\ Len(s) \in Nat
      /\ Append(s, e) # <<>>
      /\ \A k \in 1..Len(s) : Append(s, e)[k] = s[k]
      /\ Append(s, e)[Len(s) + 1] = e
  BY AppendProperties, LenProperties
<1>2. DOMAIN s = 1..Len(s) /\ DOMAIN Append(s, e) = 1..(Len(s) + 1)
  BY <1>1, LenProperties
<1> QED
  BY <1>1, <1>2 DEF Top

\* The process that calls back becomes a caller, and a handler may wake.
LEMMA EnterKeepsPlaces ==
    ASSUME TypeInv, TypeInv', PlacesInv, Idle \in Proc, ~HandlerOutranksCaller,
           EnterInterpreterFromCallback
    PROVE  /\ PlacesInv'
           /\ Callers' = Callers \union {active} /\ active \notin Callers
           /\ heap'.nextLink[active] = callout
           /\ \A p \in Callers : heap'.nextLink[p] = heap.nextLink[p]
           /\ \/ /\ excessSignals'[CallbackSemaphore] = excessSignals[CallbackSemaphore] + 1
                 /\ \A p \in Handler : p # active =>
                       heap'.myList[p] # CallbackSemaphore /\ heap.myList[p] # CallbackSemaphore
              \/ /\ excessSignals' = excessSignals
                 /\ \E w \in Handler : \A p \in Handler : p \notin {w, active} =>
                       (heap'.myList[p] = CallbackSemaphore <=> heap.myList[p] = CallbackSemaphore)
<1> DEFINE s == CallbackSemaphore
           C == Callers
           D == C \union {active}
           g == PushCallout(heap, active)
<1>1. /\ C \in SUBSET Proc /\ Beside(heap, C) /\ heap \in Heap
      /\ active \in Proc \ C /\ heap.myList[active] = Nil
      /\ heap.myList \in [Proc -> List \union {Nil}]
  BY CallersAreProcesses, BesideSlots DEF PlacesInv, active, Beside
<1>2. /\ active # Idle /\ Idle \in Proc /\ s \in List \ Priorities /\ s \in Semaphore
      /\ Handler \subseteq Proc /\ Idle \notin Handler
  BY CallbackAssumption, SemaphoreIsNoQueue
     DEF EnterInterpreterFromCallback, MayCallOut
<1>3. UNCHANGED <<woken, parked>>
  BY DEF EnterInterpreterFromCallback, imageVars, history
<1>4. Callers' = D
  <2> DEFINE e == [callback |-> issued + 1, caller |-> active, answer |-> NoCallback]
  <2>1. loops' = Append(loops, e)
    BY DEF EnterInterpreterFromCallback
  <2>2. loops \in Seq(Loop)
    BY DEF TypeInv
  <2>3. e \in Loop
    <3>1. issued + 1 \in 1..MaxCallbacks
      BY CallbackAssumption DEF EnterInterpreterFromCallback, TypeInv
    <3> QED
      BY <1>1, <3>1 DEF Loop, Callback
  <2>4. e.caller = active
    OBVIOUS
  <2> HIDE DEF e
  <2>5. /\ DOMAIN loops = 1..Len(loops) /\ Len(loops) \in Nat
        /\ DOMAIN loops' = 1..(Len(loops) + 1)
        /\ \A k \in 1..Len(loops) : loops'[k] = loops[k]
        /\ loops'[Len(loops) + 1] = e
    BY <2>1, <2>2, <2>3, AppendLoop
  <2>6. Callers' = {loops'[k].caller : k \in 1..(Len(loops) + 1)}
    BY <2>5 DEF Callers
  <2>7. C = {loops[k].caller : k \in 1..Len(loops)}
    BY <2>5 DEF Callers
  <2> QED
    BY <2>4, <2>5, <2>6, <2>7
<1>5. Pushed(heap, g, callout, D)
  <2>1. callout \in Proc \union {Nil}
    BY DEF TypeInv
  <2>2. g = [heap EXCEPT !.savedContext = @ \union {heap.active}, !.nextLink[heap.active] = callout]
    BY DEF PushCallout, active
  <2>3. D = C \union {heap.active}
    BY DEF active
  <2> QED
    BY <1>1, <2>1, <2>2, <2>3, PushAside
<1> HIDE DEF g, C, D
<1> DEFINE Kept(S) ==
       /\ Enters(heap, heap', C, callout, S)
       /\ S \subseteq Handler
       /\ \A w \in S : Runnable(heap', w) /\ w \notin D /\ heap.myList[w] = s
<1>6. IsEmptyList(g, s) <=> IsEmptyList(heap, s)
  BY <1>5 DEF Pushed, IsEmptyList
<1>a. D = C \union {heap.active} /\ callout \in Proc \union {Nil}
  BY DEF D, active, TypeInv
<1>b. ASSUME NEW S, Kept(S)
      PROVE  /\ PlacesInv'
             /\ Callers' = Callers \union {active} /\ active \notin Callers
             /\ heap'.nextLink[active] = callout
             /\ \A p \in Callers : heap'.nextLink[p] = heap.nextLink[p]
             /\ \A p \in Proc : p \notin S /\ p # active =>
                   (heap'.myList[p] = s <=> heap.myList[p] = s)
  <2> DEFINE T == S \union {active}
  <2>1. /\ Beside(heap', D)
        /\ heap'.nextLink[active] = callout
        /\ \A p \in C : heap'.nextLink[p] = heap.nextLink[p]
        /\ \A p \in Proc : p \notin T => KeepsPlace(heap, heap', p)
    BY <1>b DEF Enters, D, active
  <2>2. \A p \in Proc : p \in parked \union Callers <=> p # heap.active /\ heap.myList[p] = Nil
    BY DEF PlacesInv
  <2>3. active \notin parked
    BY <1>1, <2>2 DEF active
  <2>4. parked' \intersect Callers' = {}
    BY <1>3, <1>4, <2>3 DEF PlacesInv, D, C
  <2>5. /\ heap'.myList[heap'.active] = Nil /\ Callers' \in SUBSET Proc
        /\ heap'.myList[active] = Nil /\ active # heap'.active
    <3>1. D \in SUBSET Proc
      BY <1>1 DEF D
    <3>2. heap'.myList[heap'.active] = Nil
      BY ONLY <2>1, <3>1, BesideSlots
    <3> QED
      BY <1>4, <2>1, <3>1, <3>2 DEF Beside, D
  <2>6. Idle \notin T
    BY <1>2, <1>b
  <2>7. ASSUME NEW w \in S
        PROVE  /\ w \notin parked' \union Callers' /\ ~(w # heap'.active /\ heap'.myList[w] = Nil)
               /\ heap'.myList[w] # s
    <3>1. Runnable(heap', w) /\ w \notin D /\ heap.myList[w] = s /\ w \in Proc
      BY <1>2, <1>b
    <3>2. w \notin parked
      BY <2>2, <3>1, SemaphoreIsNoQueue
    <3> QED
      BY <1>3, <1>4, <2>5, <3>1, <3>2, SemaphoreIsNoQueue DEF Runnable, List
  <2>8. \A p \in Proc : p \notin T =>
             /\ KeepsPlace(heap, heap', p)
             /\ p \in parked' \union Callers' <=> p \in parked \union Callers
             /\ p \in woken => p \in woken'
    BY <1>3, <1>4, <2>1 DEF D, C
  <2>9. \A p \in Proc : p \in T =>
             /\ p \in parked' \union Callers' <=> p # heap'.active /\ heap'.myList[p] = Nil
             /\ heap'.myList[p] = s => p \in woken'
    <3>1. active \in Callers' /\ heap'.myList[active] # s
      BY <1>4, <2>5, SemaphoreIsNoQueue DEF D
    <3> QED
      BY <2>5, <2>7, <3>1
  <2>10. Beside(heap', Callers')
    BY <1>4, <2>1
  <2> HIDE DEF T
  <2>11. /\ PlacesInv'
         /\ \A p \in Proc : p \notin T => (heap'.myList[p] = s <=> heap.myList[p] = s)
    BY <1>2, <2>4, <2>5, <2>6, <2>8, <2>9, <2>10, PlacesPersist
  <2> QED
    BY <1>1, <1>4, <2>1, <2>11 DEF T, D, C
<1>7. CASE IsEmptyList(heap, s)
  <2>1. /\ heap' = ReplaceActive(g)
        /\ excessSignals' = [excessSignals EXCEPT ![s] = @ + 1]
    BY <1>6, <1>7 DEF EnterInterpreterFromCallback, g
  <2>2. excessSignals'[s] = excessSignals[s] + 1
    BY <1>2, <2>1 DEF TypeInv
  <2>3. ReadyPriorities(heap) # {}
    BY <1>2, IdleIsReady
  <2>4. Kept({})
    BY <1>1, <1>5, <1>a, <2>1, <2>3, EnterMoves
  <2>5. \A p \in Proc : heap.myList[p] # s
    <3>1. GoodHeap(Unchained(heap, C)) /\ Unchained(heap, C).myList = heap.myList
      BY <1>1, BesideSlots
    <3>2. IsEmptyList(Unchained(heap, C), s)
      BY <1>1, <1>2, <1>7, UnchainedSlots
    <3> QED
      BY <1>2, <3>1, <3>2, EmptyIffNobody
  <2> QED
    BY <1>2, <1>b, <2>2, <2>4, <2>5
<1>8. CASE ~IsEmptyList(heap, s)
  <2> DEFINE w == heap.firstLink[s]
  <2>1. heap' = ReplaceActive(WakeFirstWaiter(g, s)) /\ excessSignals' = excessSignals
    BY <1>6, <1>8 DEF EnterInterpreterFromCallback, g
  <2>2. w \in Proc /\ heap.myList[w] = s
    <3>1. Apart(heap, C)
      BY <1>1, BesideSlots
    <3>2. /\ heap.firstLink[s] \in Proc \ C /\ heap.myList[heap.firstLink[s]] = s
      BY <1>1, <1>2, <1>8, <3>1, EndsAreNotAside
    <3> QED
      BY <3>2
  <2>3. w \in Handler
    BY <2>2 DEF PlacesInv, TypeInv
  <2>4. Priority[w] <= Priority[heap.active]
    <3>1. w # Nil /\ Priority[w] \in Nat /\ Priority[heap.active] \in Nat
      BY <1>1, <2>2, ProcAssumption, PriorityAssumption DEF active, Priorities
    <3> QED
      BY <3>1 DEF HandlerOutranksCaller, active
  <2> HIDE DEF w
  <2>5. w = heap.firstLink[s]
    BY DEF w
  <2>6. /\ Enters(heap, ReplaceActive(WakeFirstWaiter(g, s)), C, callout, {w})
        /\ Runnable(ReplaceActive(WakeFirstWaiter(g, s)), w) /\ w \in Proc \ D
    BY <1>1, <1>2, <1>5, <1>8, <1>a, <2>4, <2>5, EnterWakes
  <2>7. Kept({w})
    BY <2>1, <2>2, <2>3, <2>6
  <2>8. \A p \in Handler : p \notin {w, active} => (heap'.myList[p] = s <=> heap.myList[p] = s)
    BY <1>2, <1>b, <2>7
  <2> QED
    BY <1>b, <2>1, <2>3, <2>7, <2>8
<1> QED
  BY <1>7, <1>8

-----------------------------------------------------------------------------
(* The C stack, the callback stack and the handlers.                         *)

\* The chain of callers is the C stack, on which each caller is once.
ChainInv ==
    /\ CStackChained
    /\ \A j, k \in DOMAIN loops : loops[j].caller = loops[k].caller => j = k

\* The innermost callback has been answered, in whichever of the two places
\* its answer is.
Done == pending # NoCallback \/ (loops # <<>> /\ Top(loops).answer # NoCallback)

\* Callbacks nest; only the innermost one may be answered, and the callback
\* stack is the C stack less an answered one.
AnswerInv ==
    /\ \A j, k \in DOMAIN loops : j < k =>
          loops[j].callback < loops[k].callback /\ loops[j].answer = NoCallback
    /\ \A k \in DOMAIN loops : loops[k].callback <= issued
    /\ AnswersOwn
    /\ pending # NoCallback =>
          loops # <<>> /\ pending = Top(loops).callback /\ Top(loops).answer = NoCallback
    /\ Len(contexts) = IF Done THEN Len(loops) - 1 ELSE Len(loops)
    /\ \A k \in DOMAIN contexts : k \in DOMAIN loops /\ contexts[k] = loops[k].callback

\* Handler g, which is not a caller itself, has been woken for a callback or
\* works on one.
AtWork(g) ==
    /\ g \notin Callers
    /\ serving[g] # NoCallback \/ (g \in woken /\ heap.myList[g] # CallbackSemaphore)

\* The innermost callback is announced by a signal, or at work is one handler,
\* or it has been answered; the outer ones are those of handlers that called.
HandlerInv ==
    /\ \A k \in DOMAIN loops :
          IF k = 1 THEN loops[k].caller \notin Handler
          ELSE loops[k].caller \in Handler /\ serving[loops[k].caller] = loops[k - 1].callback
    /\ \A h \in woken : serving[h] = NoCallback /\ h \notin Callers
    /\ \A h \in Handler : h \notin Callers /\ serving[h] # NoCallback =>
          serving[h] = Top(loops).callback
    /\ excessSignals[CallbackSemaphore] > 0 =>
          excessSignals[CallbackSemaphore] = 1 /\ loops # <<>> /\ ~Done
    /\ \A g \in Handler : AtWork(g) =>
          /\ loops # <<>> /\ ~Done /\ excessSignals[CallbackSemaphore] = 0
          /\ \A h \in Handler : AtWork(h) => h = g

CallbackInv == TypeInv /\ PlacesInv /\ ChainInv /\ AnswerInv /\ HandlerInv

\* The jump to C ends the innermost loop, and its caller runs again.
LEMMA ReturnKeepsPlaces ==
    ASSUME TypeInv, PlacesInv, ChainInv, AnswerInv, Idle \in Proc, ReturnToC,
           NEW n, n = Len(loops), NEW c, c = loops[n].caller
    PROVE  /\ PlacesInv'
           /\ n \in Nat \ {0} /\ DOMAIN loops = 1..n /\ Top(loops) = loops[n]
           /\ loops' = SubSeq(loops, 1, n - 1) /\ DOMAIN loops' = 1..(n - 1) /\ Len(loops') = n - 1
           /\ \A k \in 1..(n - 1) : loops'[k] = loops[k]
           /\ c \in Callers /\ Callers' = Callers \ {c}
           /\ callout' = heap.nextLink[c]
           /\ \A p \in Callers' : heap'.nextLink[p] = heap.nextLink[p]
           /\ \A p \in Proc : p # c =>
                 (heap'.myList[p] = CallbackSemaphore <=> heap.myList[p] = CallbackSemaphore)
           /\ heap'.myList[c] = Nil
<1> DEFINE C == Callers
           g == SaveAndRequeue(heap)
           k == [g EXCEPT !.nextLink[c] = Nil, !.active = c, !.savedContext = @ \ {c}]
<1>1. /\ loops \in Seq(Loop) /\ loops # <<>> /\ Top(loops).answer # NoCallback
      /\ heap' = PopCallout(g) /\ callout' = NextCallout(g) /\ JumpTo(Top(loops).answer)
      /\ UNCHANGED <<parked, woken>>
  BY DEF ReturnToC, TypeInv, history, imageVars
<1>2. n \in Nat \ {0} /\ DOMAIN loops = 1..n /\ Top(loops) = loops[n]
  BY <1>1, SequenceEnds
<1>3. c \in C /\ callout = c /\ callout # Nil /\ C \in SUBSET Proc /\ Beside(heap, C)
  <2>1. c \in C /\ callout = c
    BY <1>1, <1>2 DEF Callers, ChainInv, CStackChained
  <2> QED
    BY <2>1, CallersAreProcesses DEF PlacesInv
<1>4. loops' = SubSeq(loops, 1, n - 1)
  <2> DEFINE own == {j \in DOMAIN loops : loops[j].callback = Top(loops).answer}
  <2>1. Top(loops).answer = loops[n].callback
    BY <1>1, <1>2 DEF AnswerInv, AnswersOwn
  <2>2. ASSUME NEW j \in 1..n, loops[j].callback = loops[n].callback PROVE j = n
    <3>1. loops[j] \in Loop /\ loops[n] \in Loop
      BY <1>1, <1>2, ElementOfSeq
    <3>2. loops[j].callback \in Int
      BY <3>1 DEF Loop, Callback
    <3>3. j < n => loops[j].callback < loops[n].callback
      BY <1>2 DEF AnswerInv
    <3> QED
      BY <1>2, <2>2, <3>2, <3>3
  <2>3. own = {n}
    BY <1>2, <2>1, <2>2
  <2> QED
    BY <1>1, <2>3 DEF JumpTo
<1>5. /\ DOMAIN loops' = 1..(n - 1) /\ Len(loops') = n - 1
      /\ \A j \in 1..(n - 1) : loops'[j] = loops[j]
  <2>1. n \in 1..Len(loops)
    BY <1>2
  <2>2. /\ SubSeq(loops, 1, n - 1) \in Seq(Loop) /\ Len(SubSeq(loops, 1, n - 1)) = n - 1
        /\ \A i \in 1..(n - 1) : SubSeq(loops, 1, n - 1)[i] = loops[i]
    BY <1>1, <2>1, SequencePrefix
  <2> QED
    BY <1>4, <2>2, LenProperties
<1>6. Callers' = C \ {c}
  <2>1. Callers' = {loops'[j].caller : j \in 1..(n - 1)}
    BY <1>5 DEF Callers
  <2>2. C = {loops[j].caller : j \in 1..n}
    BY <1>2 DEF Callers
  <2>3. \A i, j \in 1..n : loops[i].caller = loops[j].caller => i = j
    BY <1>2 DEF ChainInv
  <2> QED
    BY <1>2, <1>5, <2>1, <2>2, <2>3
<1> HIDE DEF C
<1>7. Returns(heap, k, C, c) /\ g.nextLink[c] = heap.nextLink[c]
  BY <1>3, ReturnMoves
<1>8. heap' = k /\ callout' = heap.nextLink[c]
  BY <1>1, <1>3, <1>7 DEF PopCallout, NextCallout
<1> HIDE DEF k, g
<1>9. /\ Beside(heap', Callers') /\ heap'.active = c
      /\ \A p \in Callers' : heap'.nextLink[p] = heap.nextLink[p]
      /\ \A p \in Proc : p \notin {c} => KeepsPlace(heap, heap', p)
  BY <1>6, <1>7, <1>8 DEF Returns
<1>10. Callers' \in SUBSET Proc
  BY <1>3, <1>6
<1>11. heap'.myList[c] = Nil
  <2>1. heap'.myList[heap'.active] = Nil
    BY <1>9, <1>10, BesideSlots
  <2> QED
    BY <1>9, <2>1
<1>12. c \notin parked' \union Callers' /\ parked' \intersect Callers' = {}
  BY <1>1, <1>3, <1>6 DEF PlacesInv, C
<1>13. Idle \notin {c}
  BY <1>3 DEF PlacesInv, Runnable, Beside, List
<1>14. \A p \in Proc : p \notin {c} =>
           /\ KeepsPlace(heap, heap', p)
           /\ p \in parked' \union Callers' <=> p \in parked \union Callers
           /\ p \in woken => p \in woken'
  BY <1>1, <1>6, <1>9 DEF C
<1>15. \A p \in Proc : p \in {c} =>
           /\ p \in parked' \union Callers' <=> p # heap'.active /\ heap'.myList[p] = Nil
           /\ heap'.myList[p] = CallbackSemaphore => p \in woken'
  BY <1>9, <1>11, <1>12, SemaphoreIsNoQueue
<1>16. /\ PlacesInv'
       /\ \A p \in Proc : p \notin {c} =>
             (heap'.myList[p] = CallbackSemaphore <=> heap.myList[p] = CallbackSemaphore)
  BY <1>9, <1>10, <1>12, <1>13, <1>14, <1>15, PlacesPersist
<1> QED
  BY <1>2, <1>3, <1>4, <1>5, <1>6, <1>8, <1>9, <1>11, <1>16 DEF C

LEMMA StackShapes ==
    ASSUME TypeInv
    PROVE  /\ Len(loops) \in Nat /\ DOMAIN loops = 1..Len(loops)
           /\ \A k \in 1..Len(loops) :
                 loops[k] \in Loop /\ loops[k].callback \in Int /\ loops[k].callback # NoCallback
           /\ loops # <<>> <=> Len(loops) > 0
           /\ Top(loops) = loops[Len(loops)]
           /\ Len(contexts) \in Nat /\ DOMAIN contexts = 1..Len(contexts)
           /\ contexts # <<>> <=> Len(contexts) > 0
           /\ Top(contexts) = contexts[Len(contexts)]
<1>1. loops \in Seq(Loop) /\ contexts \in Seq(Callback)
  BY DEF TypeInv
<1>2. \A k \in 1..Len(loops) : loops[k] \in Loop
  BY <1>1, ElementOfSeq
<1>3. \A e \in Loop : e.callback \in Int /\ e.callback # NoCallback
  BY DEF Loop, Callback, NoCallback
<1>4. Len(loops) \in Nat /\ Len(contexts) \in Nat
  BY <1>1, LenProperties
<1>5. DOMAIN loops = 1..Len(loops) /\ DOMAIN contexts = 1..Len(contexts)
  BY <1>1, LenProperties
<1>6. (loops # <<>> <=> Len(loops) > 0) /\ (contexts # <<>> <=> Len(contexts) > 0)
  BY <1>1, <1>4, EmptySeq
<1> QED
  BY <1>2, <1>3, <1>4, <1>5, <1>6 DEF Top

\* A caller of the stack is a caller, and runs on no loop twice.
LEMMA ChainStays ==
    ASSUME TypeInv, PlacesInv', ChainInv, UNCHANGED <<loops, callout>>,
           \A p \in Callers : heap'.nextLink[p] = heap.nextLink[p]
    PROVE  ChainInv' /\ Callers' = Callers
<1>1. Callers' = Callers /\ loops' = loops /\ callout' = callout
  BY DEF Callers
<1>2. \A p \in Callers : p \in heap'.savedContext
  BY <1>1 DEF PlacesInv, Beside
<1>3. \A k \in DOMAIN loops : loops[k].caller \in Callers
  BY DEF Callers
<1>4. callout = IF loops = <<>> THEN Nil ELSE Top(loops).caller
  BY DEF ChainInv, CStackChained
<1>5. \A k \in DOMAIN loops :
          heap.nextLink[loops[k].caller] = IF k = 1 THEN Nil ELSE loops[k - 1].caller
  BY DEF ChainInv, CStackChained
<1>6. \A j, k \in DOMAIN loops : loops[j].caller = loops[k].caller => j = k
  BY DEF ChainInv
<1>7. CStackChained'
  BY <1>1, <1>2, <1>3, <1>4, <1>5 DEF CStackChained, Top
<1> QED
  BY <1>1, <1>6, <1>7 DEF ChainInv

\* What the answers are, and who is at work, does not depend on the rest.
LEMMA AnswersStay ==
    ASSUME AnswerInv, UNCHANGED <<contexts, pending, loops, issued>>
    PROVE  AnswerInv' /\ (Done' <=> Done)
BY DEF AnswerInv, Done, AnswersOwn, Top

LEMMA SwitchKeepsCallbacks ==
    ASSUME CallbackInv, Idle \in Proc, SwitchProcess PROVE CallbackInv'
<1>1. TypeInv /\ PlacesInv /\ ChainInv /\ AnswerInv /\ HandlerInv
  BY DEF CallbackInv
<1>2. UNCHANGED <<contexts, callout, pending, loops, serving, woken, issued, excessSignals>>
  BY DEF SwitchProcess, callbackVars, PrimitiveSuspendActive, PrimitiveResume, PrimitiveYield,
         CheckForPreemption, StepForceYield
<1>3. TypeInv'
  BY <1>1, SwitchingKeepsTypes
<1>4. /\ PlacesInv'
      /\ \A p \in Handler :
            heap'.myList[p] = CallbackSemaphore <=> heap.myList[p] = CallbackSemaphore
      /\ \A p \in Callers : heap'.nextLink[p] = heap.nextLink[p]
  BY <1>1, SwitchKeepsPlaces
<1>5. ChainInv' /\ Callers' = Callers
  BY <1>1, <1>2, <1>4, ChainStays
<1>6. AnswerInv' /\ (Done' <=> Done)
  BY <1>1, <1>2, AnswersStay
<1>7. \A g \in Handler : AtWork(g)' <=> AtWork(g)
  BY <1>2, <1>4, <1>5 DEF AtWork
<1>8. HandlerInv'
  BY <1>1, <1>2, <1>5, <1>6, <1>7 DEF HandlerInv, Top
<1> QED
  BY <1>3, <1>4, <1>5, <1>6, <1>8 DEF CallbackInv

LEMMA WaitKeepsCallbacks ==
    ASSUME CallbackInv, Idle \in Proc, WaitForCallback PROVE CallbackInv'
<1> DEFINE s == CallbackSemaphore
<1>1. TypeInv /\ PlacesInv /\ ChainInv /\ AnswerInv /\ HandlerInv
  BY DEF CallbackInv
<1>2. /\ UNCHANGED <<contexts, callout, pending, loops, serving, issued>>
      /\ active \in Handler \ woken /\ serving[active] = NoCallback
      /\ woken' = woken \union {active}
  BY DEF WaitForCallback
<1>3. TypeInv'
  BY <1>1, HandlersKeepTypes
<1>4. /\ PlacesInv'
      /\ \A p \in Callers : heap'.nextLink[p] = heap.nextLink[p]
      /\ \A p \in Handler : p # active => (heap'.myList[p] = s <=> heap.myList[p] = s)
      /\ \/ excessSignals[s] > 0 /\ excessSignals'[s] = excessSignals[s] - 1
         \/ excessSignals' = excessSignals /\ heap'.myList[active] = s
  BY <1>1, WaitKeepsPlaces
<1>5. ChainInv' /\ Callers' = Callers
  BY <1>1, <1>2, <1>4, ChainStays
<1>6. AnswerInv' /\ (Done' <=> Done)
  BY <1>1, <1>2, AnswersStay
<1>7. active \notin Callers
  BY <1>1 DEF PlacesInv, Beside, active
<1>8. \A g \in Handler : g # active => (AtWork(g)' <=> AtWork(g))
  BY <1>2, <1>4, <1>5 DEF AtWork
<1>9. /\ excessSignals'[s] > 0 => excessSignals'[s] = 1 /\ loops # <<>> /\ ~Done
      /\ \A g \in Handler : AtWork(g)' =>
            /\ loops # <<>> /\ ~Done /\ excessSignals'[s] = 0
            /\ \A h \in Handler : AtWork(h)' => h = g
  <2>0. /\ excessSignals[s] > 0 => excessSignals[s] = 1 /\ loops # <<>> /\ ~Done
        /\ \A g \in Handler : AtWork(g) =>
              /\ loops # <<>> /\ ~Done /\ excessSignals[s] = 0
              /\ \A h \in Handler : AtWork(h) => h = g
    BY <1>1 DEF HandlerInv
  <2>1. CASE excessSignals[s] > 0 /\ excessSignals'[s] = excessSignals[s] - 1
    <3>1. excessSignals[s] = 1 /\ excessSignals'[s] = 0 /\ loops # <<>> /\ ~Done
      BY <2>0, <2>1
    <3>2. \A g \in Handler : ~AtWork(g)
      BY <2>0, <3>1
    <3>3. \A g \in Handler : AtWork(g)' => g = active
      BY <1>8, <3>2
    <3> QED
      BY <3>1, <3>3
  <2>2. CASE excessSignals' = excessSignals /\ heap'.myList[active] = s
    <3>1. \A g \in Handler : g = active => ~AtWork(g)'
      BY <1>2, <2>2 DEF AtWork
    <3>2. \A g \in Handler : AtWork(g)' => AtWork(g)
      BY <1>8, <3>1
    <3> QED
      BY <2>0, <2>2, <3>2
  <2> QED
    BY <1>4, <2>1, <2>2
<1>10. HandlerInv'
  BY <1>1, <1>2, <1>5, <1>6, <1>7, <1>9 DEF HandlerInv, Top
<1> QED
  BY <1>3, <1>4, <1>5, <1>6, <1>10 DEF CallbackInv

LEMMA ReadKeepsCallbacks ==
    ASSUME CallbackInv, PrimitiveReadNextCallback PROVE CallbackInv'
<1> DEFINE s == CallbackSemaphore
           n == Len(loops)
<1>1. TypeInv /\ PlacesInv /\ ChainInv /\ AnswerInv /\ HandlerInv
  BY DEF CallbackInv
<1>2. /\ UNCHANGED <<vars, contexts, callout, pending, loops, issued>>
      /\ active \in woken /\ woken' = woken \ {active}
      /\ serving' = [serving EXCEPT ![active] = IF contexts = <<>> THEN NoCallback
                                                ELSE Top(contexts)]
  BY DEF PrimitiveReadNextCallback
<1>3. UNCHANGED <<heap, parked, excessSignals>>
  BY <1>2 DEF vars
<1>4. TypeInv'
  BY <1>1, HandlersKeepTypes
<1>5. Callers' = Callers
  BY <1>2 DEF Callers
<1>6. Callers \in SUBSET Proc /\ active \notin Callers /\ heap.myList[active] = Nil
  <2>1. Callers \in SUBSET Proc /\ Beside(heap, Callers)
    BY <1>1, CallersAreProcesses DEF PlacesInv
  <2> QED
    BY <2>1, BesideSlots DEF active
<1>7. PlacesInv'
  BY <1>1, <1>2, <1>3, <1>5, <1>6, SemaphoreIsNoQueue DEF PlacesInv
<1>8. ChainInv'
  BY <1>1, <1>2, <1>3, <1>7, ChainStays
<1>9. AnswerInv' /\ (Done' <=> Done)
  BY <1>1, <1>2, AnswersStay
<1>10. active \in Handler /\ AtWork(active)
  BY <1>1, <1>2, <1>6, SemaphoreIsNoQueue DEF AtWork, TypeInv
<1>11. loops # <<>> /\ ~Done /\ excessSignals[s] = 0 /\ \A h \in Handler : AtWork(h) => h = active
  BY <1>1, <1>10 DEF HandlerInv
<1>12. serving' = [serving EXCEPT ![active] = Top(loops).callback] /\ Top(loops) = loops[n]
       /\ n \in DOMAIN loops
  <2>1. Len(contexts) = n
    BY <1>1, <1>11 DEF AnswerInv
  <2>2. contexts # <<>> /\ n \in DOMAIN contexts /\ Top(contexts) = contexts[n]
        /\ Top(loops) = loops[n] /\ n \in DOMAIN loops
    BY <1>1, <1>11, <2>1, StackShapes
  <2>3. contexts[n] = loops[n].callback
    BY <1>1, <2>2 DEF AnswerInv
  <2> QED
    BY <1>2, <2>2, <2>3
<1>13. /\ serving \in [Handler -> Callback \union {NoCallback}]
       /\ \A h \in Handler : serving'[h] = IF h = active THEN Top(loops).callback ELSE serving[h]
  BY <1>1, <1>12 DEF TypeInv
<1>14. \A g \in Handler : AtWork(g)' => g = active
  BY <1>2, <1>3, <1>5, <1>11, <1>13 DEF AtWork
<1>15. \A k \in DOMAIN loops : loops[k].caller \in Callers
  BY DEF Callers
<1>16. HandlerInv'
  <2>1. \A k \in DOMAIN loops :
            IF k = 1 THEN loops[k].caller \notin Handler
            ELSE loops[k].caller \in Handler /\ serving'[loops[k].caller] = loops[k - 1].callback
    BY <1>1, <1>6, <1>13, <1>15 DEF HandlerInv
  <2>2. \A h \in woken' : serving'[h] = NoCallback /\ h \notin Callers
    BY <1>1, <1>2, <1>13 DEF HandlerInv, TypeInv
  <2>3. \A h \in Handler : h \notin Callers /\ serving'[h] # NoCallback =>
            serving'[h] = Top(loops).callback
    BY <1>1, <1>13 DEF HandlerInv
  <2>4. \A g \in Handler : AtWork(g)' =>
            /\ loops # <<>> /\ ~Done /\ excessSignals[s] = 0
            /\ \A h \in Handler : AtWork(h)' => h = g
    BY <1>11, <1>14
  <2>5. excessSignals[s] > 0 => excessSignals[s] = 1 /\ loops # <<>> /\ ~Done
    BY <1>1 DEF HandlerInv
  <2>6. loops' = loops /\ excessSignals' = excessSignals
    BY <1>2, <1>3
  <2> QED
    BY <1>5, <1>9, <2>1, <2>2, <2>3, <2>4, <2>5, <2>6 DEF HandlerInv, Top
<1> QED
  BY <1>4, <1>7, <1>8, <1>9, <1>16 DEF CallbackInv

LEMMA AnswerKeepsCallbacks ==
    ASSUME CallbackInv, PrimitiveCallbackReturn PROVE CallbackInv'
<1> DEFINE s == CallbackSemaphore
           n == Len(loops)
<1>1. TypeInv /\ PlacesInv /\ ChainInv /\ AnswerInv /\ HandlerInv
  BY DEF CallbackInv
<1>2. /\ UNCHANGED <<vars, callout, loops, woken, issued>>
      /\ active \in Handler /\ serving[active] # NoCallback
      /\ pending' = Top(contexts) /\ contexts' = Below(contexts)
      /\ serving' = [serving EXCEPT ![active] = NoCallback]
  BY DEF PrimitiveCallbackReturn
<1>3. UNCHANGED <<heap, parked, excessSignals>>
  BY <1>2 DEF vars
<1>4. TypeInv'
  BY <1>1, HandlersKeepTypes
<1>5. Callers' = Callers
  BY <1>2 DEF Callers
<1>6. Callers \in SUBSET Proc /\ active \notin Callers
  BY <1>1, CallersAreProcesses DEF PlacesInv, Beside, active
<1>7. PlacesInv'
  BY <1>1, <1>2, <1>3, <1>5 DEF PlacesInv
<1>8. ChainInv'
  BY <1>1, <1>2, <1>3, <1>7, ChainStays
<1>9. /\ loops # <<>> /\ ~Done /\ excessSignals[s] = 0
      /\ \A h \in Handler : AtWork(h) => h = active
  BY <1>1, <1>2, <1>6 DEF HandlerInv, AtWork
<1>10. /\ n \in Nat \ {0} /\ DOMAIN loops = 1..n /\ Top(loops) = loops[n]
       /\ loops[n].callback # NoCallback
  BY <1>1, <1>9, StackShapes
<1>11. /\ pending' = loops[n].callback
       /\ Len(contexts') = n - 1 /\ DOMAIN contexts' = 1..(n - 1)
       /\ \A k \in 1..(n - 1) : contexts'[k] = loops[k].callback
  <2>1. Len(contexts) = n
    BY <1>1, <1>9 DEF AnswerInv
  <2>2. contexts \in Seq(Callback) /\ contexts # <<>> /\ DOMAIN contexts = 1..n
    BY <1>1, <1>10, <2>1, StackShapes DEF TypeInv
  <2>3. /\ Top(contexts) = contexts[n] /\ Below(contexts) \in Seq(Callback)
        /\ Len(Below(contexts)) = n - 1
        /\ \A k \in 1..(n - 1) : Below(contexts)[k] = contexts[k]
    BY <2>1, <2>2, SequenceEnds
  <2>4. DOMAIN Below(contexts) = 1..(n - 1)
    BY <2>3, LenProperties
  <2>5. \A k \in 1..n : contexts[k] = loops[k].callback
    BY <1>1, <2>2 DEF AnswerInv
  <2> QED
    BY <1>2, <1>10, <2>3, <2>4, <2>5
<1>12. Done' /\ loops' = loops /\ issued' = issued /\ Top(loops).answer = NoCallback
  BY <1>2, <1>9, <1>10, <1>11 DEF Done
<1>13. AnswerInv'
  BY <1>1, <1>9, <1>10, <1>11, <1>12 DEF AnswerInv, AnswersOwn, Top
<1>14. /\ serving \in [Handler -> Callback \union {NoCallback}]
       /\ \A h \in Handler : serving'[h] = IF h = active THEN NoCallback ELSE serving[h]
  BY <1>1, <1>2 DEF TypeInv
<1>15. \A g \in Handler : ~AtWork(g)'
  <2>1. active \notin woken
    BY <1>1, <1>2 DEF HandlerInv
  <2> QED
    BY <1>2, <1>3, <1>5, <1>9, <1>14, <2>1 DEF AtWork
<1>16. \A k \in DOMAIN loops : loops[k].caller \in Callers
  BY DEF Callers
<1>17. HandlerInv'
  <2>1. \A k \in DOMAIN loops :
            IF k = 1 THEN loops[k].caller \notin Handler
            ELSE loops[k].caller \in Handler /\ serving'[loops[k].caller] = loops[k - 1].callback
    BY <1>1, <1>6, <1>14, <1>16 DEF HandlerInv
  <2>2. \A h \in woken : serving'[h] = NoCallback /\ h \notin Callers
    BY <1>1, <1>14 DEF HandlerInv, TypeInv
  <2>3. \A h \in Handler : h \notin Callers /\ serving'[h] # NoCallback =>
            serving'[h] = Top(loops).callback
    BY <1>1, <1>14 DEF HandlerInv
  <2> QED
    BY <1>2, <1>3, <1>5, <1>9, <1>12, <1>15, <2>1, <2>2, <2>3 DEF HandlerInv, Top
<1> QED
  BY <1>4, <1>7, <1>8, <1>13, <1>17 DEF CallbackInv

LEMMA CooldownKeepsCallbacks ==
    ASSUME CallbackInv, BeginCooldown PROVE CallbackInv'
<1>0. PICK n : n = Len(loops)
  OBVIOUS
<1>1. TypeInv /\ PlacesInv /\ ChainInv /\ AnswerInv /\ HandlerInv
  BY DEF CallbackInv
<1>2. /\ UNCHANGED <<vars, contexts, callout, serving, woken, issued>>
      /\ loops # <<>> /\ Top(loops).answer = NoCallback
      /\ pending # NoCallback /\ pending' = NoCallback
      /\ loops' = [loops EXCEPT ![n].answer = pending]
  BY <1>0 DEF BeginCooldown, imageVars
<1>3. UNCHANGED <<heap, parked, excessSignals>>
  BY <1>2 DEF vars
<1>4. TypeInv'
  BY <1>1, LoopsKeepTypes
<1>5. /\ n \in Nat \ {0} /\ DOMAIN loops = 1..n /\ Top(loops) = loops[n]
      /\ \A k \in 1..n : loops[k] \in Loop
  BY <1>0, <1>1, <1>2, StackShapes
<1>6. /\ DOMAIN loops' = 1..n /\ Len(loops') = n /\ loops' # <<>> /\ Top(loops') = loops'[n]
      /\ \A k \in 1..n : /\ loops'[k].callback = loops[k].callback
                         /\ loops'[k].caller = loops[k].caller
                         /\ loops'[k].answer = IF k = n THEN pending ELSE loops[k].answer
  <2>1. DOMAIN loops' = 1..n
    BY <1>2, <1>5
  <2>2. Len(loops') = n
    <3>1. Len(loops') \in Nat /\ DOMAIN loops' = 1..Len(loops')
      BY <1>4, LenProperties DEF TypeInv
    <3> QED
      BY <1>5, <2>1, <3>1
  <2>3. ASSUME NEW k \in 1..n
        PROVE  /\ loops'[k].callback = loops[k].callback
               /\ loops'[k].caller = loops[k].caller
               /\ loops'[k].answer = IF k = n THEN pending ELSE loops[k].answer
    BY <1>2, <1>5 DEF Loop
  <2>4. loops' # <<>>
    BY <1>5, <2>1
  <2> QED
    BY <2>1, <2>2, <2>3, <2>4 DEF Top
<1>7. Callers' = Callers
  BY <1>5, <1>6 DEF Callers
<1>8. PlacesInv'
  BY <1>1, <1>2, <1>3, <1>7 DEF PlacesInv
<1>9. ChainInv'
  <2>1. \A k \in 1..n : loops'[k].caller = loops[k].caller
    BY <1>6
  <2>2. callout = loops[n].caller /\ callout' = callout
    BY <1>1, <1>2, <1>5 DEF ChainInv, CStackChained
  <2>3. \A k \in 1..n : /\ heap.nextLink[loops[k].caller] = IF k = 1 THEN Nil
                                                           ELSE loops[k - 1].caller
                        /\ loops[k].caller \in heap.savedContext
    BY <1>1, <1>5 DEF ChainInv, CStackChained
  <2>4. \A j, k \in 1..n : loops[j].caller = loops[k].caller => j = k
    BY <1>1, <1>5 DEF ChainInv
  <2>5. CStackChained'
    BY <1>3, <1>5, <1>6, <2>1, <2>2, <2>3 DEF CStackChained
  <2> QED
    BY <1>6, <2>1, <2>4, <2>5 DEF ChainInv
<1>10. Done /\ pending = loops[n].callback
  BY <1>1, <1>2, <1>5 DEF Done, AnswerInv
<1>11. Done'
  <2>1. n \in 1..n
    BY <1>5
  <2>2. loops'[n].answer = pending
    BY <1>6, <2>1
  <2> QED
    BY <1>2, <1>6, <2>2 DEF Done
<1>12. AnswerInv'
  <2>1. /\ \A j, k \in 1..n : j < k =>
              loops[j].callback < loops[k].callback /\ loops[j].answer = NoCallback
        /\ \A k \in 1..n : loops[k].callback <= issued
        /\ \A k \in 1..n : loops[k].answer \in {NoCallback, loops[k].callback}
        /\ Len(contexts) = n - 1
        /\ \A k \in DOMAIN contexts : k \in 1..n /\ contexts[k] = loops[k].callback
    BY <1>0, <1>1, <1>5, <1>10 DEF AnswerInv, AnswersOwn
  <2>2. \A k \in 1..n : loops'[k].answer \in {NoCallback, loops'[k].callback}
    BY <1>6, <1>10, <2>1
  <2>3. \A j, k \in 1..n : j < k =>
            loops'[j].callback < loops'[k].callback /\ loops'[j].answer = NoCallback
    BY <1>5, <1>6, <2>1
  <2> QED
    BY <1>2, <1>6, <1>11, <2>1, <2>2, <2>3 DEF AnswerInv, AnswersOwn
<1>13. \A g \in Handler : ~AtWork(g) /\ ~AtWork(g)'
  BY <1>1, <1>2, <1>3, <1>7, <1>10 DEF HandlerInv, AtWork
<1>14. HandlerInv'
  <2>1. \A h \in Handler : h \notin Callers => serving[h] = NoCallback
    BY <1>13 DEF AtWork
  <2>2. excessSignals[CallbackSemaphore] > 0 => FALSE
    BY <1>1, <1>10 DEF HandlerInv
  <2>3. \A k \in 1..n :
            IF k = 1 THEN loops[k].caller \notin Handler
            ELSE loops[k].caller \in Handler /\ serving[loops[k].caller] = loops[k - 1].callback
    BY <1>1, <1>5 DEF HandlerInv
  <2>4. \A k \in 1..n :
            IF k = 1 THEN loops'[k].caller \notin Handler
            ELSE loops'[k].caller \in Handler /\ serving[loops'[k].caller] = loops'[k - 1].callback
    BY <1>5, <1>6, <2>3
  <2>5. \A h \in woken : serving[h] = NoCallback /\ h \notin Callers
    BY <1>1 DEF HandlerInv
  <2> QED
    BY <1>2, <1>3, <1>6, <1>7, <1>13, <2>1, <2>2, <2>4, <2>5 DEF HandlerInv
<1> QED
  BY <1>4, <1>8, <1>9, <1>12, <1>14 DEF CallbackInv

\* The loop that ends is the last one, and its caller, if it is a handler, is
\* at work again on the callback from which it called out.
LEMMA ReturnKeepsCallbacks ==
    ASSUME CallbackInv, Idle \in Proc, ReturnToC PROVE CallbackInv'
<1> DEFINE s == CallbackSemaphore
<1>0. PICK n, c : n = Len(loops) /\ c = loops[n].caller
  OBVIOUS
<1>1. TypeInv /\ PlacesInv /\ ChainInv /\ AnswerInv /\ HandlerInv /\ Idle \in Proc
  BY DEF CallbackInv
<1>2. /\ UNCHANGED <<excessSignals, contexts, pending, serving, woken, issued>>
      /\ loops # <<>> /\ Top(loops).answer # NoCallback
  BY DEF ReturnToC, imageVars
<1>3. TypeInv'
  BY <1>1, LoopsKeepTypes
<1>4. /\ PlacesInv'
      /\ n \in Nat \ {0} /\ DOMAIN loops = 1..n /\ Top(loops) = loops[n]
      /\ DOMAIN loops' = 1..(n - 1) /\ Len(loops') = n - 1
      /\ \A k \in 1..(n - 1) : loops'[k] = loops[k]
      /\ c \in Callers /\ Callers' = Callers \ {c}
      /\ callout' = heap.nextLink[c]
      /\ \A p \in Callers' : heap'.nextLink[p] = heap.nextLink[p]
      /\ \A p \in Proc : p # c => (heap'.myList[p] = s <=> heap.myList[p] = s)
      /\ heap'.myList[c] = Nil
  BY <1>0, <1>1, ReturnKeepsPlaces
<1>5. (loops' # <<>> <=> n > 1) /\ Top(loops') = loops'[n - 1]
  <2>1. loops' # <<>> <=> Len(loops') > 0
    BY <1>3, EmptySeq, LenProperties DEF TypeInv
  <2> QED
    BY <1>4, <2>1 DEF Top
<1>6. n \in 1..n /\ \A k \in 1..(n - 1) : k \in 1..n /\ k - 1 \in Int
  BY <1>4
<1>7. ChainInv'
  <2>1. \A k \in 1..n :
            heap.nextLink[loops[k].caller] = IF k = 1 THEN Nil ELSE loops[k - 1].caller
    BY <1>1, <1>4 DEF ChainInv, CStackChained
  <2>2. callout' = IF n = 1 THEN Nil ELSE loops[n - 1].caller
    BY <1>0, <1>4, <1>6, <2>1
  <2>3. callout' = IF loops' = <<>> THEN Nil ELSE Top(loops').caller
    <3>1. CASE n = 1
      BY <1>5, <2>2, <3>1
    <3>2. CASE n # 1
      <4>1. n > 1 /\ n - 1 \in 1..(n - 1)
        BY <1>4, <3>2
      <4> QED
        BY <1>4, <1>5, <2>2, <3>2, <4>1
    <3> QED
      BY <3>1, <3>2
  <2>4. \A k \in 1..(n - 1) : loops'[k].caller \in Callers'
    BY <1>4 DEF Callers
  <2>5. ASSUME NEW k \in 1..(n - 1)
        PROVE  /\ heap'.nextLink[loops'[k].caller] = IF k = 1 THEN Nil ELSE loops'[k - 1].caller
               /\ loops'[k].caller \in heap'.savedContext
    <3>1. heap'.nextLink[loops'[k].caller] = heap.nextLink[loops[k].caller]
      BY <1>4, <2>4
    <3>2. k # 1 => loops'[k - 1] = loops[k - 1]
      <4>1. k # 1 => k - 1 \in 1..(n - 1)
        BY <1>4
      <4> QED
        BY <1>4, <4>1
    <3>3. loops'[k].caller \in heap'.savedContext
      BY <1>4, <2>4 DEF PlacesInv, Beside
    <3> QED
      BY <1>6, <2>1, <3>1, <3>2, <3>3
  <2>6. \A j, k \in 1..(n - 1) : loops'[j].caller = loops'[k].caller => j = k
    BY <1>1, <1>4, <1>6 DEF ChainInv
  <2> QED
    BY <1>4, <2>3, <2>5, <2>6 DEF ChainInv, CStackChained
<1>8. /\ \A j, k \in 1..n : j < k =>
            loops[j].callback < loops[k].callback /\ loops[j].answer = NoCallback
      /\ \A k \in 1..n : loops[k].callback <= issued
      /\ pending = NoCallback /\ Done /\ Len(contexts) = n - 1
      /\ \A k \in DOMAIN contexts : contexts[k] = loops[k].callback
      /\ DOMAIN contexts = 1..(n - 1)
  <2>1. Done
    BY <1>2 DEF Done
  <2> QED
    BY <1>0, <1>1, <1>2, <1>4, <2>1, StackShapes DEF AnswerInv
<1>9. \A k \in 1..(n - 1) : loops'[k].answer = NoCallback
  BY <1>4, <1>6, <1>8
<1>10. ~Done'
  <2>1. n > 1 => n - 1 \in 1..(n - 1)
    BY <1>4
  <2> QED
    BY <1>2, <1>5, <1>8, <1>9, <2>1 DEF Done
<1>11. AnswerInv'
  <2>1. \A j, k \in 1..(n - 1) : j < k =>
            loops'[j].callback < loops'[k].callback /\ loops'[j].answer = NoCallback
    BY <1>4, <1>6, <1>8
  <2>2. \A k \in 1..(n - 1) : loops'[k].callback <= issued
    BY <1>4, <1>6, <1>8
  <2>3. \A k \in DOMAIN contexts : k \in 1..(n - 1) /\ contexts[k] = loops'[k].callback
    BY <1>4, <1>8
  <2> QED
    BY <1>2, <1>4, <1>8, <1>9, <1>10, <2>1, <2>2, <2>3 DEF AnswerInv, AnswersOwn
<1>12. \A g \in Handler : ~AtWork(g)
  BY <1>1, <1>8 DEF HandlerInv
<1>13. \A g \in Handler : AtWork(g)' => g = c
  BY <1>2, <1>4, <1>12, CallbackAssumption DEF AtWork
<1>14. /\ \A k \in 1..n :
             IF k = 1 THEN loops[k].caller \notin Handler
             ELSE loops[k].caller \in Handler /\ serving[loops[k].caller] = loops[k - 1].callback
       /\ \A h \in woken : serving[h] = NoCallback /\ h \notin Callers
       /\ excessSignals[s] > 0 => FALSE
  BY <1>1, <1>4, <1>8 DEF HandlerInv
<1>15. c \in Handler => n > 1 /\ serving[c] = Top(loops').callback
  <2>1. c \in Handler => n # 1 /\ serving[c] = loops[n - 1].callback
    BY <1>0, <1>6, <1>14
  <2>2. n # 1 => n > 1 /\ n - 1 \in 1..(n - 1)
    BY <1>4
  <2> QED
    BY <1>4, <1>5, <2>1, <2>2
<1>16. HandlerInv'
  <2>1. \A k \in 1..(n - 1) :
             IF k = 1 THEN loops'[k].caller \notin Handler
             ELSE loops'[k].caller \in Handler /\ serving[loops'[k].caller] = loops'[k - 1].callback
    <3> SUFFICES ASSUME NEW k \in 1..(n - 1)
                 PROVE  IF k = 1 THEN loops'[k].caller \notin Handler
                        ELSE /\ loops'[k].caller \in Handler
                             /\ serving[loops'[k].caller] = loops'[k - 1].callback
      OBVIOUS
    <3>1. k # 1 => k - 1 \in 1..(n - 1)
      BY <1>4
    <3> QED
      BY <1>4, <1>6, <1>14, <3>1
  <2>2. \A h \in woken : serving[h] = NoCallback /\ h \notin Callers'
    BY <1>4, <1>14
  <2>3. \A h \in Handler : h \notin Callers' /\ serving[h] # NoCallback =>
            serving[h] = Top(loops').callback
    BY <1>4, <1>12, <1>15 DEF AtWork
  <2>4. \A g \in Handler : AtWork(g)' =>
            /\ loops' # <<>> /\ ~Done' /\ excessSignals[s] = 0
            /\ \A h \in Handler : AtWork(h)' => h = g
    <3>1. excessSignals[s] = 0
      BY <1>1, <1>14, CallbackAssumption DEF TypeInv
    <3> QED
      BY <1>5, <1>10, <1>13, <1>15, <3>1
  <2> QED
    BY <1>2, <1>4, <1>14, <2>1, <2>2, <2>3, <2>4 DEF HandlerInv
<1> QED
  BY <1>3, <1>4, <1>7, <1>11, <1>16 DEF CallbackInv

\* Who calls out is outside every C call, or is the one handler at work.
LEMMA EntryFindsPeace ==
    ASSUME TypeInv, PlacesInv, ChainInv, AnswerInv, HandlerInv, ~Disorder,
           EnterInterpreterFromCallback, NEW n, n = Len(loops)
    PROVE  /\ ~Done /\ excessSignals[CallbackSemaphore] = 0
           /\ \A h \in Handler : AtWork(h) => h = active
           /\ active \in Handler =>
                 n > 0 /\ serving[active] = loops[n].callback /\ active \notin woken
           /\ active \notin Handler => n = 0
           /\ n < MaxCallbackDepth
<1>1. /\ active # Idle
      /\ active \in Handler => serving[active] # NoCallback
      /\ loops = <<>> \/ active \in Handler
  BY DEF EnterInterpreterFromCallback, MayCallOut, Disorder, CallsOverlap
<1>2. /\ n \in Nat /\ (loops # <<>> <=> n > 0) /\ Top(loops) = loops[n]
      /\ active \notin Callers
  BY StackShapes DEF PlacesInv, Beside, active
<1>3. CASE active \in Handler
  <2>1. AtWork(active)
    BY <1>1, <1>2, <1>3 DEF AtWork
  <2>2. /\ loops # <<>> /\ ~Done /\ excessSignals[CallbackSemaphore] = 0
        /\ \A h \in Handler : AtWork(h) => h = active
    BY <1>3, <2>1 DEF HandlerInv
  <2>3. serving[active] = loops[n].callback /\ active \notin woken
    BY <1>1, <1>2, <1>3 DEF HandlerInv
  <2>4. Len(contexts) = n
    BY <2>2 DEF AnswerInv
  <2>5. n < MaxCallbackDepth
    BY <1>2, <2>4, CallbackAssumption DEF Disorder, StackIsFull
  <2> QED
    BY <1>2, <1>3, <2>2, <2>3, <2>5
<1>4. CASE active \notin Handler
  <2>1. loops = <<>> /\ n = 0
    BY <1>1, <1>2, <1>4
  <2>2. ~Done
    BY <2>1 DEF Done, AnswerInv
  <2>3. excessSignals[CallbackSemaphore] = 0
    BY <2>1, CallbackAssumption DEF HandlerInv, TypeInv
  <2>4. \A h \in Handler : ~AtWork(h)
    BY <2>1 DEF HandlerInv
  <2> QED
    BY <1>4, <2>1, <2>2, <2>3, <2>4, CallbackAssumption
<1> QED
  BY <1>3, <1>4

LEMMA EnterKeepsCallbacks ==
    ASSUME CallbackInv, Idle \in Proc, ~Disorder, EnterInterpreterFromCallback
    PROVE  CallbackInv'
<1> DEFINE s == CallbackSemaphore
<1>0. PICK n, a : n = Len(loops) /\ a = active
  OBVIOUS
<1>1. TypeInv /\ PlacesInv /\ ChainInv /\ AnswerInv /\ HandlerInv
  BY DEF CallbackInv
<1>2. TypeInv'
  BY <1>1, EnterKeepsTypes
<1>3. /\ PlacesInv'
      /\ Callers' = Callers \union {a} /\ a \notin Callers
      /\ heap'.nextLink[a] = callout
      /\ \A p \in Callers : heap'.nextLink[p] = heap.nextLink[p]
      /\ \/ /\ excessSignals'[s] = excessSignals[s] + 1
            /\ \A p \in Handler : p # a => heap'.myList[p] # s /\ heap.myList[p] # s
         \/ /\ excessSignals' = excessSignals
            /\ \E w \in Handler : \A p \in Handler : p \notin {w, a} =>
                  (heap'.myList[p] = s <=> heap.myList[p] = s)
  BY <1>0, <1>1, <1>2, EnterKeepsPlaces DEF Disorder
<1>4. /\ ~Done /\ excessSignals[s] = 0
      /\ \A h \in Handler : AtWork(h) => h = a
      /\ a \in Handler => n > 0 /\ serving[a] = loops[n].callback /\ a \notin woken
      /\ a \notin Handler => n = 0
      /\ n < MaxCallbackDepth
  BY <1>0, <1>1, EntryFindsPeace
<1>5. PICK e : e = [callback |-> issued + 1, caller |-> a, answer |-> NoCallback]
  OBVIOUS
<1>6. /\ UNCHANGED <<pending, serving, woken>>
      /\ issued' = issued + 1 /\ callout' = a /\ loops' = Append(loops, e)
      /\ Len(contexts) < MaxCallbackDepth => contexts' = Append(contexts, issued + 1)
  BY <1>0, <1>5 DEF EnterInterpreterFromCallback, imageVars
<1>7. /\ e \in Loop /\ e.callback = issued + 1 /\ e.caller = a /\ e.answer = NoCallback
      /\ issued + 1 \in Callback /\ issued \in Nat
  <2>1. a \in Proc
    BY <1>0, <1>1 DEF TypeInv, Heap, active
  <2>2. issued \in Nat /\ issued + 1 \in Callback
    BY <1>1, CallbackAssumption DEF TypeInv, EnterInterpreterFromCallback, Callback
  <2> QED
    BY <1>5, <2>1, <2>2 DEF Loop
<1>8. /\ n \in Nat /\ (loops # <<>> <=> n > 0) /\ Top(loops) = loops[n]
      /\ loops' # <<>> /\ Len(loops') = n + 1
      /\ DOMAIN loops = 1..n /\ DOMAIN loops' = 1..(n + 1)
      /\ \A k \in 1..n : loops'[k] = loops[k]
      /\ loops'[n + 1] = e /\ Top(loops') = e
  BY <1>0, <1>1, <1>6, <1>7, StackShapes, AppendLoop DEF TypeInv
<1>9. \A k \in 1..(n + 1) : k \in 1..n \/ k = n + 1
  BY <1>8
<1>10. ~Done' /\ pending = NoCallback
  BY <1>4, <1>6, <1>7, <1>8 DEF Done
<1>11. ChainInv'
  <2>1. callout = IF n = 0 THEN Nil ELSE loops[n].caller
    BY <1>1, <1>8 DEF ChainInv, CStackChained
  <2>2. \A k \in 1..n :
            heap.nextLink[loops[k].caller] = IF k = 1 THEN Nil ELSE loops[k - 1].caller
    BY <1>1, <1>8 DEF ChainInv, CStackChained
  <2>3. \A k \in 1..(n + 1) : loops'[k].caller \in Callers'
    BY <1>8 DEF Callers
  <2>4. ASSUME NEW k \in 1..(n + 1)
        PROVE  /\ heap'.nextLink[loops'[k].caller] = IF k = 1 THEN Nil ELSE loops'[k - 1].caller
               /\ loops'[k].caller \in heap'.savedContext
    <3>1. loops'[k].caller \in heap'.savedContext
      BY <1>3, <2>3 DEF PlacesInv, Beside
    <3>2. k # 1 => k - 1 \in 1..n /\ loops'[k - 1] = loops[k - 1]
      BY <1>8
    <3>3. CASE k \in 1..n
      <4>1. loops'[k] = loops[k] /\ loops[k].caller \in Callers
        BY <1>8, <3>3 DEF Callers
      <4> QED
        BY <1>3, <2>2, <3>1, <3>2, <3>3, <4>1
    <3>4. CASE k = n + 1
      <4>1. heap'.nextLink[loops'[k].caller] = callout
        BY <1>3, <1>7, <1>8, <3>4
      <4>2. k = 1 <=> n = 0
        BY <1>8, <3>4
      <4>3. k - 1 = n
        BY <1>8, <3>4
      <4> QED
        BY <2>1, <3>1, <3>2, <4>1, <4>2, <4>3
    <3> QED
      BY <1>9, <3>3, <3>4
  <2>5. \A j, k \in 1..(n + 1) : loops'[j].caller = loops'[k].caller => j = k
    <3>1. \A k \in 1..n : loops'[k].caller \in Callers
      BY <1>8 DEF Callers
    <3>2. \A j, k \in 1..n : loops'[j].caller = loops'[k].caller => j = k
      BY <1>1, <1>8 DEF ChainInv
    <3> QED
      BY <1>3, <1>7, <1>8, <1>9, <3>1, <3>2
  <2> QED
    BY <1>6, <1>7, <1>8, <2>4, <2>5 DEF ChainInv, CStackChained
<1>12. AnswerInv'
  <2>1. /\ \A j, k \in 1..n : j < k =>
              loops[j].callback < loops[k].callback /\ loops[j].answer = NoCallback
        /\ \A k \in 1..n : loops[k].callback <= issued
        /\ \A k \in 1..n : loops[k].answer \in {NoCallback, loops[k].callback}
        /\ Len(contexts) = n
        /\ \A k \in 1..n : contexts[k] = loops[k].callback
    BY <1>0, <1>1, <1>4, <1>8, StackShapes DEF AnswerInv, AnswersOwn
  <2>2. \A k \in 1..n : loops[k].callback \in Int /\ loops[k].answer = NoCallback
    <3>1. \A k \in 1..n : loops[k].callback \in Int
      BY <1>0, <1>1, StackShapes
    <3>2. n > 0 => loops[n].answer = NoCallback
      BY <1>4, <1>8 DEF Done
    <3>3. \A k \in 1..n : k < n \/ (k = n /\ n > 0)
      BY <1>8
    <3>4. \A k \in 1..n : n \in 1..n
      BY <1>8
    <3> QED
      BY <2>1, <3>1, <3>2, <3>3, <3>4
  <2>3. \A k \in 1..(n + 1) : loops'[k].callback <= issued' /\ loops'[k].answer = NoCallback
    BY <1>6, <1>7, <1>8, <1>9, <2>1, <2>2
  <2>4. \A j, k \in 1..(n + 1) : j < k => loops'[j].callback < loops'[k].callback
    <3> SUFFICES ASSUME NEW j \in 1..(n + 1), NEW k \in 1..(n + 1), j < k
                 PROVE  loops'[j].callback < loops'[k].callback
      OBVIOUS
    <3>1. j \in 1..n /\ loops'[j] = loops[j]
      BY <1>8
    <3>2. CASE k \in 1..n
      BY <1>8, <2>1, <3>1, <3>2
    <3>3. CASE k = n + 1
      <4>1. loops[j].callback <= issued /\ loops[j].callback \in Int
        BY <2>1, <2>2, <3>1
      <4>2. loops'[k].callback = issued + 1
        BY <1>7, <1>8, <3>3
      <4> QED
        BY <1>7, <3>1, <4>1, <4>2
    <3> QED
      BY <1>9, <3>2, <3>3
  <2>5. /\ Len(contexts') = n + 1 /\ DOMAIN contexts' = 1..(n + 1)
        /\ \A k \in 1..(n + 1) : contexts'[k] = loops'[k].callback
    <3>1. contexts \in Seq(Callback) /\ contexts' = Append(contexts, issued + 1)
      BY <1>1, <1>4, <1>6, <2>1 DEF TypeInv
    <3>2. /\ Len(contexts') = n + 1 /\ DOMAIN contexts' = 1..(n + 1)
          /\ \A k \in 1..n : contexts'[k] = contexts[k]
          /\ contexts'[n + 1] = issued + 1
      BY <1>7, <2>1, <3>1, AppendLoop
    <3> QED
      BY <1>7, <1>8, <1>9, <2>1, <3>2
  <2> QED
    BY <1>6, <1>8, <1>10, <2>3, <2>4, <2>5 DEF AnswerInv, AnswersOwn
<1>13. \A h \in Handler : h \notin Callers' => ~AtWork(h)
  BY <1>3, <1>4
<1>14. HandlerInv'
  <2>1. /\ \A k \in 1..n :
              IF k = 1 THEN loops[k].caller \notin Handler
              ELSE loops[k].caller \in Handler /\ serving[loops[k].caller] = loops[k - 1].callback
        /\ \A h \in woken : serving[h] = NoCallback /\ h \notin Callers
    BY <1>1, <1>8 DEF HandlerInv
  <2>2. \A k \in 1..(n + 1) :
            IF k = 1 THEN loops'[k].caller \notin Handler
            ELSE loops'[k].caller \in Handler /\ serving[loops'[k].caller] = loops'[k - 1].callback
    <3> SUFFICES ASSUME NEW k \in 1..(n + 1)
                 PROVE  IF k = 1 THEN loops'[k].caller \notin Handler
                        ELSE /\ loops'[k].caller \in Handler
                             /\ serving[loops'[k].caller] = loops'[k - 1].callback
      OBVIOUS
    <3>1. k # 1 => loops'[k - 1] = loops[k - 1]
      BY <1>8
    <3>2. CASE k \in 1..n
      BY <1>8, <2>1, <3>1, <3>2
    <3>3. CASE k = n + 1
      <4>1. k - 1 = n /\ loops'[k].caller = a /\ (k = 1 <=> n = 0) /\ (n > 0 <=> n # 0)
        BY <1>7, <1>8, <3>3
      <4> QED
        BY <1>4, <3>1, <4>1
    <3> QED
      BY <1>9, <3>2, <3>3
  <2>3. \A h \in woken : serving[h] = NoCallback /\ h \notin Callers'
    BY <1>1, <1>3, <1>4, <2>1 DEF TypeInv
  <2>4. \A h \in Handler : h \notin Callers' => serving[h] = NoCallback
    BY <1>3, <1>13 DEF AtWork
  <2>5. /\ excessSignals'[s] > 0 => excessSignals'[s] = 1
        /\ \A g \in Handler : AtWork(g)' =>
              /\ excessSignals'[s] = 0
              /\ \A h \in Handler : AtWork(h)' => h = g
    <3>1. CASE /\ excessSignals'[s] = excessSignals[s] + 1
               /\ \A p \in Handler : p # a => heap'.myList[p] # s /\ heap.myList[p] # s
      <4>1. \A h \in Handler : ~AtWork(h)'
        BY <1>3, <1>6, <1>13, <3>1 DEF AtWork
      <4> QED
        BY <1>4, <3>1, <4>1
    <3>2. CASE /\ excessSignals' = excessSignals
               /\ \E w \in Handler : \A p \in Handler : p \notin {w, a} =>
                     (heap'.myList[p] = s <=> heap.myList[p] = s)
      <4>1. PICK w \in Handler : \A p \in Handler : p \notin {w, a} =>
                (heap'.myList[p] = s <=> heap.myList[p] = s)
        BY <3>2
      <4>2. \A h \in Handler : AtWork(h)' => h = w
        BY <1>3, <1>6, <1>13, <4>1 DEF AtWork
      <4> QED
        BY <1>4, <3>2, <4>2
    <3> QED
      BY <1>3, <3>1, <3>2
  <2> QED
    BY <1>6, <1>8, <1>10, <2>2, <2>3, <2>4, <2>5 DEF HandlerInv
<1> QED
  BY <1>2, <1>3, <1>11, <1>12, <1>14 DEF CallbackInv

LEMMA InitEstablishesCallbackInv ==
    ASSUME CallbackInit, Idle \in Proc
    PROVE  CallbackInv
<1>1. /\ heap = [nextLink     |-> [q \in Proc |-> Nil],
                 myList       |-> [q \in Proc |-> Nil],
                 firstLink    |-> [l \in List |-> Nil],
                 lastLink     |-> [l \in List |-> Nil],
                 savedContext |-> Proc \ {Idle},
                 active       |-> Idle]
      /\ parked = Proc \ {Idle}
      /\ excessSignals[CallbackSemaphore] = 0
  BY CallbackAssumption DEF CallbackInit, Init
<1>2. /\ contexts = <<>> /\ callout = Nil /\ pending = NoCallback /\ loops = <<>>
      /\ serving = [h \in Handler |-> NoCallback] /\ woken = {}
  BY DEF CallbackInit
<1>3. TypeInv
  BY InitIsTyped
<1>4. Callers = {} /\ Len(loops) = 0 /\ DOMAIN loops = {} /\ DOMAIN contexts = {}
  BY <1>2 DEF Callers
<1>5. Beside(heap, Callers)
  <2>1. Unchained(heap, Callers) = heap /\ heap \in Heap
    <3>1. heap \in Heap /\ heap.nextLink = [q \in Proc |-> Nil]
      BY <1>3, <1>1 DEF TypeInv
    <3> QED
      BY <1>4, <3>1 DEF Unchained, Heap
  <2>2. LinksOK(heap)
    BY <1>1 DEF LinksOK, EmptyListsAgree, EndsAreOnTheList, OffListUnlinked,
                LinksStayOnTheList, NoSharedLinks, OnlyLastEnds, NonfirstIsLinked
  <2>3. Ranks(heap, [q \in Proc |-> 0])
    BY <1>1 DEF Ranks
  <2>4. Schedulable(heap)
    BY <1>1, <2>1, <2>2, <2>3 DEF Schedulable, GoodHeap, ListedSaved, Acyclic
  <2> QED
    BY <1>4, <2>1, <2>4 DEF Beside
<1>6. PlacesInv
  BY <1>1, <1>4, <1>5, SemaphoreIsNoQueue DEF PlacesInv, Runnable
<1>7. ChainInv
  BY <1>2, <1>4 DEF ChainInv, CStackChained
<1>8. AnswerInv
  BY <1>2, <1>4 DEF AnswerInv, Done, AnswersOwn
<1>9. HandlerInv
  BY <1>1, <1>2, <1>4 DEF HandlerInv, AtWork
<1> QED
  BY <1>3, <1>6, <1>7, <1>8, <1>9 DEF CallbackInv

\* What has been done in disorder stays done.
LEMMA HistoryGrows ==
    ASSUME TypeInv, [CallbackNext]_<<vars, callbackVars>>, ~disorderly'
    PROVE  ~disorderly /\ (EnterInterpreterFromCallback => ~Disorder)
<1>1. EnterInterpreterFromCallback => ~disorderly /\ ~Disorder
  BY DEF EnterInterpreterFromCallback
<1>2. CASE SwitchProcess
  BY <1>1, <1>2 DEF SwitchProcess, callbackVars
<1>3. CASE CallbackStep
  BY <1>1, <1>3 DEF CallbackStep, WaitForCallback, PrimitiveReadNextCallback,
                    PrimitiveCallbackReturn, BeginCooldown, ReturnToC
<1>4. CASE UNCHANGED <<vars, callbackVars>>
  BY <1>1, <1>4 DEF callbackVars
<1> QED
  BY <1>2, <1>3, <1>4 DEF CallbackNext

\* Up to the first callback made in disorder, of which the history tells.
OrderInv == TypeInv /\ (~disorderly => CallbackInv)

LEMMA CallbackInvariantHolds == ASSUME Idle \in Proc PROVE CallbackSpec => []OrderInv
<1>1. CallbackInit => OrderInv
  BY InitEstablishesCallbackInv, InitIsTyped DEF OrderInv
<1>2. OrderInv /\ [CallbackNext]_<<vars, callbackVars>> => OrderInv'
  <2>a. OrderInv /\ [CallbackNext]_<<vars, callbackVars>> => TypeInv'
    BY TypesStay DEF OrderInv
  <2> SUFFICES ASSUME OrderInv, [CallbackNext]_<<vars, callbackVars>>, ~disorderly'
               PROVE  CallbackInv'
    BY <2>a DEF OrderInv
  <2>b. /\ ~disorderly
        /\ EnterInterpreterFromCallback => ~Disorder
    BY HistoryGrows DEF OrderInv
  <2>c. CallbackInv
    BY <2>b DEF OrderInv
  <2>1. CASE SwitchProcess
    BY <2>1, <2>c, SwitchKeepsCallbacks
  <2>2. CASE CallbackStep
    <3>1. EnterInterpreterFromCallback => CallbackInv'
      BY <2>b, <2>c, EnterKeepsCallbacks
    <3> QED
      BY <2>2, <2>c, <3>1, WaitKeepsCallbacks, ReadKeepsCallbacks, AnswerKeepsCallbacks,
         CooldownKeepsCallbacks, ReturnKeepsCallbacks DEF CallbackStep
  <2>3. CASE UNCHANGED <<vars, callbackVars>>
    <3>1. UNCHANGED <<heap, excessSignals, parked, contexts, callout, pending, loops,
                      serving, woken, issued, disorderly>>
      BY <2>3 DEF vars, callbackVars
    <3>2. TypeInv' /\ Callers' = Callers
      BY <3>1, <2>c DEF CallbackInv, TypeInv, Callers
    <3>3. PlacesInv'
      BY <3>1, <3>2, <2>c DEF CallbackInv, PlacesInv
    <3>4. ChainInv' /\ AnswerInv' /\ (Done' <=> Done)
      BY <3>1, <3>3, <2>c, ChainStays, AnswersStay DEF CallbackInv
    <3>5. HandlerInv'
      BY <3>1, <3>2, <3>4, <2>c DEF CallbackInv, HandlerInv, AtWork, Top
    <3> QED
      BY <3>2, <3>3, <3>4, <3>5 DEF CallbackInv
  <2> QED
    BY <2>1, <2>2, <2>3 DEF CallbackNext
<1> QED
  BY <1>1, <1>2, PTL DEF CallbackSpec

-----------------------------------------------------------------------------
(* What the invariant says up to disorder.                                   *)

\* Whoever neither runs nor is on a list has been suspended, or is a caller
\* that the return to C puts back: SaveAndRequeue loses nobody.
THEOREM CallbacksLoseNoProcess == ASSUME Idle \in Proc PROVE CallbackSpec => []NoProcessLost
<1>1. OrderInv => NoProcessLost
  <2> SUFFICES ASSUME CallbackInv, ~disorderly PROVE NoProcessLost
    BY DEF OrderInv, NoProcessLost
  <2>1. /\ Callers \in SUBSET Proc /\ parked \in SUBSET Proc
        /\ \A p \in Proc : p \in parked \union Callers <=> p # active /\ MyList(p) = Nil
    BY CallersAreProcesses DEF CallbackInv, TypeInv, PlacesInv, active, MyList
  <2>2. \A p \in Proc : Place(p) = "parked" <=> p # active /\ MyList(p) = Nil
    BY DEF Place
  <2> QED
    BY <2>1, <2>2 DEF NoProcessLost
<1> QED
  BY <1>1, CallbackInvariantHolds, PTL

\* The callers linked from SuspendedProcessInCallout are those of the C frames,
\* innermost first, each with a context to go on with.
THEOREM ChainStaysCStack == ASSUME Idle \in Proc PROVE CallbackSpec => []ChainIsCStack
<1>1. OrderInv => ChainIsCStack
  BY DEF OrderInv, CallbackInv, ChainInv, ChainIsCStack
<1> QED
  BY <1>1, CallbackInvariantHolds, PTL

\* A loop only ever takes the answer of the callback it was entered for, so
\* the siglongjmp goes to a C frame that has not returned.
THEOREM AnswersReachTheirLoop == ASSUME Idle \in Proc PROVE CallbackSpec => []ReturnsToOwner
<1>1. OrderInv => ReturnsToOwner
  BY DEF OrderInv, CallbackInv, AnswerInv, ReturnsToOwner
<1> QED
  BY <1>1, CallbackInvariantHolds, PTL

\* Two handlers never read the same context from the callback stack, though
\* primitiveReadNextCallback leaves it there, and none works on after the answer.
THEOREM HandlersServeOnce == ASSUME Idle \in Proc PROVE CallbackSpec => []ServedOnce
<1>1. OrderInv => ServedOnce
  <2> SUFFICES ASSUME CallbackInv, ~disorderly PROVE ServedOnce
    BY DEF OrderInv, ServedOnce
  <2>0. PICK n : n = Len(loops)
    OBVIOUS
  <2>1. TypeInv /\ AnswerInv /\ HandlerInv
    BY DEF CallbackInv
  <2>2. /\ n \in Nat /\ DOMAIN loops = 1..n /\ (loops # <<>> <=> n > 0) /\ Top(loops) = loops[n]
        /\ \A k \in 1..n : loops[k].callback \in Int
    BY <2>0, <2>1, StackShapes
  <2>3. /\ \A j, k \in 1..n : j < k =>
              loops[j].callback < loops[k].callback /\ loops[j].answer = NoCallback
        /\ \A k \in 1..n :
              IF k = 1 THEN loops[k].caller \notin Handler
              ELSE loops[k].caller \in Handler /\ serving[loops[k].caller] = loops[k - 1].callback
    BY <2>1, <2>2 DEF AnswerInv, HandlerInv
  <2>4. \A j, k \in 1..n : loops[j].callback = loops[k].callback => j = k
    <3> SUFFICES ASSUME NEW j \in 1..n, NEW k \in 1..n, j < k
                 PROVE  loops[j].callback # loops[k].callback
      BY <2>2
    <3> QED
      BY <2>2, <2>3
  <2>5. ASSUME NEW h \in Handler, h \in Callers
        PROVE  \E k \in 1..n : /\ k - 1 \in 1..n /\ loops[k].caller = h
                               /\ serving[h] = loops[k - 1].callback
                               /\ loops[k - 1].answer = NoCallback
    <3>1. PICK k \in 1..n : loops[k].caller = h
      BY <2>2, <2>5 DEF Callers
    <3>2. k # 1 /\ serving[h] = loops[k - 1].callback
      BY <2>3, <3>1
    <3>3. k - 1 \in 1..n /\ k - 1 < k
      BY <2>2, <3>2
    <3> QED
      BY <2>3, <3>1, <3>2, <3>3
  <2>6. ASSUME NEW h \in Handler, h \notin Callers, serving[h] # NoCallback
        PROVE  /\ n \in 1..n /\ serving[h] = loops[n].callback /\ loops[n].answer = NoCallback
               /\ \A g \in Handler : g \notin Callers /\ serving[g] # NoCallback => g = h
    <3>1. AtWork(h)
      BY <2>6 DEF AtWork
    <3>2. /\ loops # <<>> /\ ~Done /\ serving[h] = loops[n].callback
          /\ \A g \in Handler : AtWork(g) => g = h
      BY <2>1, <2>2, <2>6, <3>1 DEF HandlerInv
    <3> QED
      BY <2>2, <3>2 DEF AtWork, Done
  <2>7. ASSUME NEW g \in Handler, NEW h \in Handler, serving[g] = serving[h],
               serving[g] # NoCallback
        PROVE  g = h
    <3>1. CASE g \in Callers /\ h \in Callers
      BY <2>2, <2>4, <2>5, <2>7, <3>1
    <3>2. CASE g \notin Callers /\ h \notin Callers
      BY <2>6, <2>7, <3>2
    <3>3. ASSUME NEW c \in Handler, c \in Callers, NEW f \in Handler, f \notin Callers,
                 serving[c] = serving[f], serving[f] # NoCallback
          PROVE  FALSE
      <4>1. PICK k \in 1..n : k - 1 \in 1..n /\ serving[c] = loops[k - 1].callback
        BY <2>5, <3>3
      <4>2. n \in 1..n /\ serving[f] = loops[n].callback
        BY <2>6, <3>3
      <4>3. k - 1 = n
        BY <2>4, <3>3, <4>1, <4>2
      <4> QED
        BY <2>2, <4>1, <4>3
    <3> QED
      BY <2>7, <3>1, <3>2, <3>3
  <2>8. \A h \in Handler : serving[h] # NoCallback =>
            \E k \in DOMAIN loops : loops[k].callback = serving[h] /\ loops[k].answer = NoCallback
    BY <2>2, <2>5, <2>6
  <2> QED
    BY <2>7, <2>8 DEF ServedOnce
<1> QED
  BY <1>1, CallbackInvariantHolds, PTL

=============================================================================
