------------------------ MODULE ProcessSchedulerProofs ------------------------
(* The scheduler's safety invariants, for every number of processes,         *)
(* semaphores, critical sections and priorities, under OrdinaryImage.        *)
EXTENDS ProcessSchedulerRefinement, ProcessListsProofs

\* TypeOK without the heap.
SmallTypes ==
    /\ excessSignals \in [Semaphore -> 0..MaxExcessSignals]
    /\ owner \in [CriticalSection -> Proc \union {Nil}]
    /\ inGrace \in BOOLEAN
    /\ agingProcess \in Proc \union {Nil}
    /\ running \in BOOLEAN
    /\ entered \in [CriticalSection -> SUBSET Proc]
    /\ parked \in SUBSET Proc
    /\ terminations \in 0..MaxTerminations

\* NoLostProcess, process by process.
ParkedExactly ==
    \A p \in Proc : p \in parked <=> p # active /\ MyList(p) = Nil

\* NoLostWakeup, process by process.
WaitersSeeNoExcess ==
    \A s \in Semaphore : \A p \in Proc : MyList(p) = s => excessSignals[s] = 0

\* A process inside a section owns it; a waiter is in its entry protocol, and
\* the section it waits for has an owner to pass it on.
SectionsAreOwned ==
    \A m \in CriticalSection : \A p \in Proc :
        /\ p \in entered[m] /\ MyList(p) # m => owner[m] = p
        /\ MyList(p) = m => p \in entered[m] /\ owner[m] # Nil

\* The inductive invariant.  Each safety property needs Schedulable(heap) to
\* know what a helper returns, and a runnable idle process to know that
\* primitiveWait and primitiveEnterCriticalSection never give up.
IInv ==
    /\ SmallTypes
    /\ Schedulable(heap)
    /\ Runnable(heap, Idle)
    /\ ParkedExactly
    /\ WaitersSeeNoExcess
    /\ SectionsAreOwned

-----------------------------------------------------------------------------
(* Steps by what they move *)

\* Semaphores and critical sections are no ready queues.
LEMMA WaitLists ==
    /\ \A s \in Semaphore : s \in List \ Priorities /\ s \in List /\ s # Nil
    /\ \A m \in CriticalSection : m \in List \ Priorities /\ m \in List /\ m # Nil
    /\ \A m \in CriticalSection : m \notin Semaphore
    /\ Nil \notin Priorities
BY ListKindsAssumption, NilAssumption DEF List

\* A step that only rearranges the runnable processes keeps the invariant.
LEMMA Rearranged ==
    ASSUME IInv, OrdinaryImage, OnlyMoves(heap, heap', {}), SmallTypes',
           UNCHANGED <<excessSignals, owner, entered, parked>>
    PROVE  IInv'
<1> USE DEF IInv
<1>1. \A p \in Proc :
         /\ \A l \in List \ Priorities : heap'.myList[p] = l <=> heap.myList[p] = l
         /\ (p # heap'.active /\ heap'.myList[p] = Nil)
               <=> (p # heap.active /\ heap.myList[p] = Nil)
         /\ Runnable(heap', p) <=> Runnable(heap, p)
  BY PlacesKept
<1>2. Schedulable(heap)'
  BY DEF OnlyMoves
<1>3. Runnable(heap, Idle)'
  BY <1>1 DEF OrdinaryImage
<1>4. ParkedExactly'
  BY <1>1 DEF ParkedExactly, active, MyList
<1>5. WaitersSeeNoExcess'
  BY <1>1, WaitLists DEF WaitersSeeNoExcess, MyList
<1>6. SectionsAreOwned'
  BY <1>1, WaitLists DEF SectionsAreOwned, MyList
<1> QED
  BY <1>2, <1>3, <1>4, <1>5, <1>6

\* A step that moves one process on or off a semaphore, makes it runnable or
\* parks it keeps the invariant if parked and the excess agree.
LEMMA OneMoved ==
    ASSUME IInv, OrdinaryImage, SmallTypes', UNCHANGED <<owner, entered>>,
           NEW p \in Proc, OnlyMoves(heap, heap', {p}),
           p = Idle => Runnable(heap, p)',
           \A q \in Proc : q # p => (q \in parked' <=> q \in parked),
           p \in parked' <=> p # active' /\ heap'.myList[p] = Nil,
           \A s \in Semaphore : excessSignals'[s] = excessSignals[s],
           \A s \in Semaphore : heap'.myList[p] = s => excessSignals[s] = 0,
           heap.myList[p] \notin CriticalSection,
           heap'.myList[p] \notin CriticalSection
    PROVE  IInv'
<1> USE DEF IInv
<1>1. \A q \in Proc \ {p} :
         /\ \A l \in List \ Priorities : heap'.myList[q] = l <=> heap.myList[q] = l
         /\ (q # heap'.active /\ heap'.myList[q] = Nil)
               <=> (q # heap.active /\ heap.myList[q] = Nil)
         /\ Runnable(heap', q) <=> Runnable(heap, q)
  BY PlacesKept
<1>2. Schedulable(heap)'
  BY DEF OnlyMoves
<1>3. Runnable(heap, Idle)'
  BY <1>1 DEF OrdinaryImage
<1>4. ParkedExactly'
  BY <1>1 DEF ParkedExactly, active, MyList
<1>5. WaitersSeeNoExcess'
  BY <1>1, WaitLists DEF WaitersSeeNoExcess, MyList
<1>6. SectionsAreOwned'
  BY <1>1, WaitLists DEF SectionsAreOwned, MyList
<1> QED
  BY <1>2, <1>3, <1>4, <1>5, <1>6

-----------------------------------------------------------------------------
(* The idle process is ready whenever it does not run, so somebody else can. *)

\* wakeHighestPriority finds a process when the idle process does not run ...
LEMMA SomebodyIsReady ==
    ASSUME IInv, OrdinaryImage, active # Idle
    PROVE  ReadyPriorities(heap) # {}
<1>1. MyList(Idle) \in Priorities /\ GoodHeap(heap)
  BY SchedulableTypes DEF IInv, Runnable, active, MyList
<1>2. ~IsEmptyList(heap, MyList(Idle))
  BY <1>1, EmptyIffNobody DEF OrdinaryImage, List, MyList
<1> QED
  BY <1>1, <1>2 DEF ReadyPriorities

\* ... also when the running process has just joined a wait list.
LEMMA SomebodyIsReadyBehind ==
    ASSUME IInv, OrdinaryImage, active # Idle, NEW l \in List
    PROVE  ReadyPriorities(AddLastLinkToList(heap, active, l)) # {}
<1> DEFINE w == AddLastLinkToList(heap, active, l)
<1>1. /\ MyList(Idle) \in Priorities /\ GoodHeap(heap)
      /\ active \in Proc /\ heap.myList[active] = Nil
      /\ heap.myList \in [Proc -> List \union {Nil}]
  BY SchedulableTypes DEF IInv, Runnable, active, MyList
<1>2. GoodHeap(w) /\ w.myList = [heap.myList EXCEPT ![active] = l]
  BY <1>1, AddLastKeepsLinks
<1> HIDE DEF w
<1>3. w.myList[Idle] = MyList(Idle)
  BY <1>1, <1>2 DEF OrdinaryImage, MyList
<1>4. ~IsEmptyList(w, MyList(Idle))
  BY <1>1, <1>2, <1>3, EmptyIffNobody DEF OrdinaryImage, List
<1> QED
  BY <1>1, <1>4 DEF ReadyPriorities, w

-----------------------------------------------------------------------------
(* The running process's context is in the registers.  This needs nothing   *)
(* of the image: every switch but tryReschedule's goes through transferTo.   *)

\* The slots of a heap, whatever they hold, and none holds the context of the
\* running process.
Slots == {"nextLink", "myList", "firstLink", "lastLink", "savedContext", "active"}
ContextInRegisters(h) == DOMAIN h = Slots /\ h.active \notin h.savedContext

\* Linking and unlinking do not touch contexts.
LEMMA LinkingKeepsContexts ==
    ASSUME NEW h, ContextInRegisters(h), NEW p, NEW l
    PROVE  /\ ContextInRegisters(AddLastLinkToList(h, p, l))
           /\ ContextInRegisters(RemoveFirstLinkOfList(h, l))
           /\ ContextInRegisters(RemoveProcessFromList(h, p, l))
<1> USE DEF ContextInRegisters, Slots
<1>1. ContextInRegisters(AddLastLinkToList(h, p, l))
  BY DEF AddLastLinkToList
<1>2. ContextInRegisters(RemoveFirstLinkOfList(h, l))
  BY DEF RemoveFirstLinkOfList
<1>3. ContextInRegisters(RemoveProcessFromList(h, p, l))
  BY <1>2 DEF RemoveProcessFromList
<1> QED
  BY <1>1, <1>2, <1>3

\* transferTo clears the slot of the process it runs.
LEMMA TransferringKeepsContexts ==
    ASSUME NEW h, ContextInRegisters(h), NEW p
    PROVE  ContextInRegisters(TransferTo(h, p))
BY DEF ContextInRegisters, Slots, TransferTo

\* So do the helpers that end in it.
LEMMA SwitchingKeepsContexts ==
    ASSUME NEW h, ContextInRegisters(h), NEW p, NEW i
    PROVE  /\ ContextInRegisters(SwitchToHeadOf(h, i))
           /\ ContextInRegisters(PreemptByHeadOf(h, i))
           /\ ContextInRegisters(TransferToHighestPriority(h))
           /\ ContextInRegisters(ResumeProcess(h, p))
           /\ ContextInRegisters(WakeFirstWaiter(h, i))
           /\ ContextInRegisters(LeaveProcessor(h))
           /\ ContextInRegisters(PassOwnership(h, i))
           /\ ContextInRegisters(RotateQueue(h, i))
<1>1. ASSUME NEW g, ContextInRegisters(g), NEW q, NEW l
      PROVE  /\ ContextInRegisters(RemoveFirstLinkOfList(g, l))
             /\ ContextInRegisters(PutToSleep(g, q))
             /\ ContextInRegisters(AddLastLinkToList(g, q, l))
             /\ ContextInRegisters(TransferTo(g, q))
  BY <1>1, LinkingKeepsContexts, TransferringKeepsContexts DEF PutToSleep
<1>2. ASSUME NEW g, ContextInRegisters(g), NEW q, NEW l
      PROVE  /\ ContextInRegisters(SwitchToHeadOf(g, l))
             /\ ContextInRegisters(PreemptByHeadOf(g, l))
             /\ ContextInRegisters(ResumeProcess(g, q))
  BY <1>1, <1>2 DEF SwitchToHeadOf, PreemptByHeadOf, ResumeProcess
<1>3. ASSUME NEW g, ContextInRegisters(g)
      PROVE  ContextInRegisters(TransferToHighestPriority(g))
  BY <1>2, <1>3 DEF TransferToHighestPriority
<1>4. /\ ContextInRegisters(WakeFirstWaiter(h, i))
      /\ ContextInRegisters(LeaveProcessor(h))
  BY <1>1, <1>2 DEF WakeFirstWaiter, LeaveProcessor
<1>5. ContextInRegisters(PassOwnership(h, i)) /\ ContextInRegisters(RotateQueue(h, i))
  BY <1>1, <1>3 DEF PassOwnership, RotateQueue
<1> QED
  BY <1>2, <1>3, <1>4, <1>5

\* Every step but a termination keeps the context in the registers.
LEMMA StepsKeepContexts ==
    ASSUME ContextInRegisters(heap), [SemaphoreStep \/ ProcessStep \/ CriticalSectionStep
                                      \/ PreemptionStep]_vars
    PROVE  ContextInRegisters(heap')
<1>1. CASE SemaphoreStep
  BY <1>1, LinkingKeepsContexts, SwitchingKeepsContexts
     DEF SemaphoreStep, SynchronousSignal, PrimitiveWait
<1>2. CASE ProcessStep
  <2>1. CASE PrimitiveSuspendActive
    BY <2>1, SwitchingKeepsContexts DEF PrimitiveSuspendActive
  <2>2. ASSUME NEW p \in Proc, PrimitiveSuspendOther(p) PROVE ContextInRegisters(heap')
    BY <2>2, LinkingKeepsContexts DEF PrimitiveSuspendOther, ContextInRegisters, Slots
  <2>3. ASSUME NEW p \in Proc, PrimitiveResume(p) PROVE ContextInRegisters(heap')
    BY <2>3, SwitchingKeepsContexts DEF PrimitiveResume
  <2>4. CASE PrimitiveYield
    BY <2>4, LinkingKeepsContexts, SwitchingKeepsContexts DEF PrimitiveYield
  <2>5. CASE PrimitiveRelinquishProcessor
    BY <2>5, SwitchingKeepsContexts DEF PrimitiveRelinquishProcessor
  <2> QED
    BY <1>2, <2>1, <2>2, <2>3, <2>4, <2>5 DEF ProcessStep
<1>3. CASE CriticalSectionStep
  BY <1>3, LinkingKeepsContexts, SwitchingKeepsContexts
     DEF CriticalSectionStep, PrimitiveEnterCriticalSection, Claim,
         PrimitiveTestAndSetOwnershipOfCriticalSection, PrimitiveExitCriticalSection
<1>4. CASE PreemptionStep
  <2>1. CASE CheckForPreemption \/ StepForceYield
    BY <2>1, SwitchingKeepsContexts DEF CheckForPreemption, StepForceYield
  <2>2. ASSUME NEW expired, NEW aged, HandleForceYield(expired, aged)
        PROVE  ContextInRegisters(heap')
    <3>1. ContextInRegisters(AfterGrace(expired))
      BY SwitchingKeepsContexts DEF AfterGrace
    <3> QED
      BY <2>2, <3>1, SwitchingKeepsContexts DEF HandleForceYield
  <2> QED
    BY <1>4, <2>1, <2>2 DEF PreemptionStep
<1>5. CASE UNCHANGED vars
  BY <1>5 DEF vars
<1> QED
  BY <1>1, <1>2, <1>3, <1>4, <1>5

\* Before the VM first gets rid of a process, no process runs whose
\* suspendedContext slot is set as well.
ContextsInOrder ==
    terminations \in Nat /\ (terminations = 0 => ContextInRegisters(heap))

LEMMA ContextsStayInOrder == Spec => []ContextsInOrder
<1>1. Init => ContextsInOrder
  BY DEF Init, ContextsInOrder, ContextInRegisters, Slots
<1>2. ContextsInOrder /\ [Next]_vars => ContextsInOrder'
  <2> SUFFICES ASSUME ContextsInOrder, [Next]_vars PROVE ContextsInOrder'
    OBVIOUS
  <2>1. CASE TerminationStep
    BY <2>1 DEF ContextsInOrder, TerminationStep, MayTerminate, TerminateAndSwitchProcess,
       TerminateAndReschedule, StuckProcessTimeout, RecursiveDoesNotUnderstand
  <2>2. CASE [SemaphoreStep \/ ProcessStep \/ CriticalSectionStep \/ PreemptionStep]_vars
    <3>1. terminations' = terminations
      BY <2>2 DEF vars, history, SemaphoreStep, SynchronousSignal, PrimitiveWait, ProcessStep,
         PrimitiveSuspendActive, PrimitiveSuspendOther, PrimitiveResume, PrimitiveYield,
         PrimitiveRelinquishProcessor, CriticalSectionStep, PrimitiveEnterCriticalSection,
         PrimitiveTestAndSetOwnershipOfCriticalSection, PrimitiveExitCriticalSection,
         PreemptionStep, CheckForPreemption, StepForceYield, HandleForceYield
    <3> QED
      BY <2>2, <3>1, StepsKeepContexts DEF ContextsInOrder
  <2> QED
    BY <2>1, <2>2 DEF Next
<1> QED
  BY <1>1, <1>2, PTL DEF Spec

\* The running process's context is in the interpreter's registers and not in
\* its suspendedContext slot as well, until the VM itself terminates a process
\* (tryReschedule leaves the slot of the process it runs set): primitiveResume
\* refuses the running process.
THEOREM RunningContextIsInRegisters == Spec => [](terminations = 0 => ActiveHasNoContext)
<1>1. ContextsInOrder => (terminations = 0 => ActiveHasNoContext)
  BY DEF ContextsInOrder, ContextInRegisters, ActiveHasNoContext, active
<1> QED
  BY <1>1, ContextsStayInOrder, PTL

-----------------------------------------------------------------------------
(* One lemma per action *)

\* Waking the first waiter makes it runnable and moves nobody else.
LEMMA WakeMovesOne ==
    ASSUME NEW h, Schedulable(h), NEW s \in Semaphore, ~IsEmptyList(h, s)
    PROVE  LET p == h.firstLink[s]
               g == WakeFirstWaiter(h, s)
           IN  p \in Proc /\ h.myList[p] = s /\ OnlyMoves(h, g, {p}) /\ Runnable(g, p)
<1> DEFINE r == RemoveFirstLinkOfList(h, s)
           p == h.firstLink[s]
           g == ResumeProcess(r, p)
<1>1. /\ Schedulable(r) /\ p \in Proc /\ h.myList[p] = s
      /\ p \in r.savedContext /\ p # r.active /\ r.active = h.active
      /\ r.myList = [h.myList EXCEPT ![p] = Nil]
  BY WaitLists, FirstWaiterLeaves
<1>2. h.myList \in [Proc -> List \union {Nil}]
  BY SchedulableTypes
<1> HIDE DEF r, p
<1>3. r.myList[p] = Nil
  BY <1>1, <1>2
<1>4. OnlyMoves(r, g, {p}) /\ Runnable(g, p)
  BY <1>1, <1>3, ResumeMakesRunnable
<1> HIDE DEF g
<1>5. OnlyMoves(h, g, {p})
  BY <1>1, <1>2, <1>4 DEF OnlyMoves, KeepsPlace, Runnable
<1> QED
  BY <1>1, <1>4, <1>5 DEF WakeFirstWaiter, g, r, p

\* A step that wakes the first waiter of a semaphore.
LEMMA WakeKeepsIInv ==
    ASSUME IInv, OrdinaryImage, NEW p \in Proc, MyList(p) \in Semaphore,
           OnlyMoves(heap, heap', {p}), Runnable(heap', p),
           SmallTypes', UNCHANGED <<excessSignals, owner, entered, parked>>
    PROVE  IInv'
<1>1. p \notin parked /\ MyList(p) \notin CriticalSection
  BY WaitLists DEF IInv, ParkedExactly
<1>2. /\ heap'.myList[p] \notin CriticalSection
      /\ \A t \in Semaphore : heap'.myList[p] # t
      /\ ~(p # heap'.active /\ heap'.myList[p] = Nil)
  BY WaitLists, SchedulableTypes DEF Runnable, OnlyMoves
<1> QED
  BY <1>1, <1>2, OneMoved DEF active, MyList

\* primitiveSignal: the first waiter becomes runnable, or the excess grows.
LEMMA SignalKeepsIInv ==
    ASSUME IInv, OrdinaryImage, NEW s \in Semaphore, SynchronousSignal(s)
    PROVE  IInv'
<1> USE DEF SynchronousSignal
<1>0. Schedulable(heap) /\ s \in List \ Priorities
  BY WaitLists DEF IInv
<1>1. CASE IsEmptyList(heap, s)
  <2>1. heap' = heap /\ SmallTypes'
    BY <1>1, EnvironmentAssumption DEF IInv, SmallTypes, aging, history
  <2>2. \A p \in Proc : MyList(p) # s
    BY <1>0, <1>1, EmptyIffNobody, SchedulableTypes DEF MyList
  <2>3. \A t \in Semaphore : t # s => excessSignals'[t] = excessSignals[t]
    BY <1>1 DEF IInv, SmallTypes
  <2>4. WaitersSeeNoExcess'
    BY <2>1, <2>2, <2>3 DEF IInv, WaitersSeeNoExcess, MyList
  <2>5. ParkedExactly' /\ SectionsAreOwned' /\ Schedulable(heap)' /\ Runnable(heap, Idle)'
    BY <2>1, <1>1 DEF IInv, ParkedExactly, SectionsAreOwned, MyList, active, history
  <2> QED
    BY <2>1, <2>4, <2>5 DEF IInv
<1>2. CASE ~IsEmptyList(heap, s)
  <2>1. heap' = WakeFirstWaiter(heap, s) /\ UNCHANGED <<excessSignals, owner, entered, parked>>
    BY <1>2 DEF history
  <2>2. SmallTypes'
    BY <1>2 DEF IInv, SmallTypes, aging, history
  <2>3. PICK p \in Proc : heap.myList[p] = s /\ OnlyMoves(heap, heap', {p}) /\ Runnable(heap', p)
    BY <1>0, <1>2, <2>1, WakeMovesOne
  <2> QED
    BY <2>1, <2>2, <2>3, WakeKeepsIInv DEF MyList
<1> QED
  BY <1>1, <1>2

\* primitiveWait: an excess signal is consumed, or the running process joins
\* the wait list and another one runs.
LEMMA WaitKeepsIInv ==
    ASSUME IInv, OrdinaryImage, NEW s \in Semaphore, PrimitiveWait(s)
    PROVE  IInv'
<1> USE DEF PrimitiveWait
<1>0. /\ Schedulable(heap) /\ s \in List \ Priorities /\ s \in List /\ active \in Proc
      /\ heap.myList[active] = Nil
  BY WaitLists, SchedulableTypes DEF IInv, active
<1>1. CASE excessSignals[s] > 0
  <2>1. heap' = heap /\ SmallTypes'
    BY <1>1, EnvironmentAssumption DEF IInv, SmallTypes, aging, history
  <2>2. \A p \in Proc : MyList(p) # s
    BY <1>1 DEF IInv, WaitersSeeNoExcess
  <2>3. \A t \in Semaphore : t # s => excessSignals'[t] = excessSignals[t]
    BY <1>1 DEF IInv, SmallTypes
  <2>4. WaitersSeeNoExcess'
    BY <2>1, <2>2, <2>3 DEF IInv, WaitersSeeNoExcess, MyList
  <2>5. ParkedExactly' /\ SectionsAreOwned' /\ Schedulable(heap)' /\ Runnable(heap, Idle)'
    BY <2>1, <1>1 DEF IInv, ParkedExactly, SectionsAreOwned, MyList, active, history
  <2> QED
    BY <2>1, <2>4, <2>5 DEF IInv
<1>2. CASE ~(excessSignals[s] > 0)
  <2> DEFINE w == AddLastLinkToList(heap, active, s)
             g == TransferToHighestPriority(w)
  <2>1. active # Idle /\ ReadyPriorities(w) # {}
    BY <1>0, <1>2, SomebodyIsReadyBehind
  <2>2. heap' = g /\ excessSignals[s] = 0
    BY <1>2, <2>1 DEF IInv, SmallTypes
  <2>3. OnlyMoves(heap, g, {active}) /\ g.myList[active] = s /\ g.active # active
    BY <1>0, <2>1, LeaveForList DEF active
  <2> HIDE DEF w, g
  <2>6. SmallTypes' /\ UNCHANGED <<excessSignals, owner, entered, parked>>
    BY <1>2 DEF IInv, SmallTypes, aging, history
  <2>7. active \notin parked
    BY <1>0 DEF IInv, ParkedExactly
  <2>8. s \notin CriticalSection /\ Nil \notin CriticalSection /\ s # Nil
    BY WaitLists
  <2> QED
    BY <1>0, <2>1, <2>2, <2>3, <2>6, <2>7, <2>8, OneMoved
<1> QED
  BY <1>1, <1>2

\* The running process leaves for nowhere: a suspend or a termination.
LEMMA DropKeepsIInv ==
    ASSUME IInv, OrdinaryImage, active # Idle,
           OnlyMoves(heap, heap', {active}),
           heap'.myList[active] = Nil, heap'.active # active,
           parked' = parked \union {active}, SmallTypes',
           UNCHANGED <<excessSignals, owner, entered>>
    PROVE  IInv'
<1>1. active \in Proc /\ heap.myList[active] = Nil
  BY SchedulableTypes DEF IInv, active
<1>2. Nil \notin CriticalSection /\ \A s \in Semaphore : s # Nil
  BY WaitLists
<1>3. heap'.active = active'
  BY DEF active
<1> QED
  BY <1>1, <1>2, <1>3, OneMoved

\* primitiveSuspend of the running process.
LEMMA SuspendActiveKeepsIInv ==
    ASSUME IInv, OrdinaryImage, PrimitiveSuspendActive
    PROVE  IInv'
<1> USE DEF PrimitiveSuspendActive
<1>1. active \in Proc /\ Schedulable(heap)
  BY SchedulableTypes DEF IInv, active
<1>2. SmallTypes'
  BY <1>1 DEF IInv, SmallTypes, aging
<1>3. OnlyMoves(heap, heap', {active}) /\ heap'.myList[active] = Nil /\ heap'.active # active
  BY <1>1, LeaveForNothing DEF active
<1> QED
  BY <1>2, <1>3, DropKeepsIInv

\* primitiveSuspend of another process: it leaves its list.
LEMMA SuspendOtherKeepsIInv ==
    ASSUME IInv, OrdinaryImage, NEW p \in Proc, PrimitiveSuspendOther(p)
    PROVE  IInv'
<1> USE DEF PrimitiveSuspendOther
<1> DEFINE g == RemoveProcessFromList(heap, p, heap.myList[p])
           k == [g EXCEPT !.myList[p] = Nil]
<1>1. Schedulable(heap) /\ heap.myList[p] \in SuspendFrom /\ SuspendFrom \subseteq List
  BY EnvironmentAssumption DEF IInv, MyList
<1>2. heap.myList[p] # Nil /\ heap.myList[p] \notin CriticalSection
  BY <1>1, NilAssumption DEF OrdinaryImage
<1>3. /\ OnlyMoves(heap, g, {p}) /\ g.myList[p] = Nil /\ g.active = heap.active
  BY <1>1, <1>2, SuspensionMovesOne
<1>4. g \in Heap
  BY <1>3 DEF OnlyMoves, Schedulable, GoodHeap
<1>5. heap' = k
  BY DEF MyList
<1> HIDE DEF g
<1>6. k = g
  BY <1>3, <1>4 DEF Heap
<1>7. SmallTypes' /\ UNCHANGED <<excessSignals, owner, entered>>
  BY DEF IInv, SmallTypes, aging
<1>8. active' = active /\ p # active /\ p # Idle
  BY <1>3, <1>5, <1>6 DEF active
<1>9. Nil \notin CriticalSection /\ \A s \in Semaphore : s # Nil
  BY WaitLists
<1>10. OnlyMoves(heap, heap', {p}) /\ heap'.myList[p] = Nil
  BY <1>3, <1>5, <1>6
<1> HIDE DEF k
<1>11. parked' = parked \union {p}
  OBVIOUS
<1> HIDE DEF PrimitiveSuspendOther
<1> QED
  BY <1>2, <1>7, <1>8, <1>9, <1>10, <1>11, OneMoved

\* primitiveResume refuses the running process, so it resumes one that is on
\* no list.
LEMMA ResumedIsParked ==
    ASSUME IInv, OrdinaryImage, ContextsInOrder, NEW p \in Proc, PrimitiveResume(p)
    PROVE  p # heap.active /\ heap.myList[p] = Nil /\ p \in heap.savedContext
<1>1. p # heap.active
  <2> SUFFICES ASSUME p = heap.active PROVE FALSE
    OBVIOUS
  <2>1. "active" \in ResumeFrom /\ heap.active \in heap.savedContext
    BY DEF PrimitiveResume, Place, active
  <2>2. terminations = 0
    BY <2>1 DEF OrdinaryImage, IInv, SmallTypes
  <2> QED
    BY <2>1, <2>2 DEF ContextsInOrder, ContextInRegisters
<1>2. Place(p) \in {"parked", "active"} /\ p \in heap.savedContext
  BY DEF PrimitiveResume, OrdinaryImage
<1> QED
  BY <1>1, <1>2 DEF Place, active, MyList

\* primitiveResume of a process that is on no list.
LEMMA ResumeKeepsIInv ==
    ASSUME IInv, OrdinaryImage, ContextsInOrder, NEW p \in Proc, PrimitiveResume(p)
    PROVE  IInv'
<1>1. Schedulable(heap) /\ p # heap.active /\ heap.myList[p] = Nil /\ p \in heap.savedContext
  BY ResumedIsParked DEF IInv
<1> USE DEF PrimitiveResume
<1>2. OnlyMoves(heap, heap', {p}) /\ Runnable(heap', p)
  BY <1>1, ResumeMakesRunnable
<1>3. SmallTypes' /\ UNCHANGED <<excessSignals, owner, entered>>
  BY DEF IInv, SmallTypes, aging
<1>4. /\ heap'.myList[p] \notin CriticalSection /\ Nil \notin CriticalSection
      /\ \A t \in Semaphore : heap'.myList[p] # t
      /\ ~(p # heap'.active /\ heap'.myList[p] = Nil)
  BY <1>2, WaitLists, SchedulableTypes DEF Runnable, OnlyMoves
<1>5. parked' = parked \ {p} /\ active' = heap'.active
  BY DEF active
<1> HIDE DEF PrimitiveResume
<1> QED
  BY <1>1, <1>2, <1>3, <1>4, <1>5, OneMoved

\* primitiveYield: the running process goes to the back of its own queue.
LEMMA YieldKeepsIInv ==
    ASSUME IInv, OrdinaryImage, PrimitiveYield
    PROVE  IInv'
<1> USE DEF PrimitiveYield
<1> DEFINE q == Priority[active]
           w == AddLastLinkToList(heap, active, q)
<1>1. /\ Schedulable(heap) /\ GoodHeap(heap) /\ active \in Proc /\ heap.myList[active] = Nil
      /\ heap.myList \in [Proc -> List \union {Nil}]
  BY SchedulableTypes DEF IInv, active
<1>2. q \in Priorities /\ q \in List /\ ~IsEmptyList(heap, q)
  BY <1>1, ReadyPrioritiesAreLists
<1>3. heap' = TransferToHighestPriority(w)
  OBVIOUS
<1> HIDE DEF q
<1>4. GoodHeap(w) /\ w.myList = [heap.myList EXCEPT ![active] = q]
  BY <1>1, <1>2, AddLastKeepsLinks
<1>5. ~IsEmptyList(w, q)
  BY <1>1, <1>2, <1>4, EmptyIffNobody
<1>6. ReadyPriorities(w) # {}
  BY <1>2, <1>5 DEF ReadyPriorities
<1>7. OnlyMoves(heap, heap', {})
  BY <1>1, <1>2, <1>3, <1>6, LeaveForList DEF active
<1>8. SmallTypes' /\ UNCHANGED <<excessSignals, owner, entered, parked>>
  BY DEF IInv, SmallTypes, aging, history
<1> QED
  BY <1>7, <1>8, Rearranged

\* The running process makes way for another priority's head, if any.
LEMMA LeavingRearranges ==
    ASSUME NEW h, Schedulable(h)
    PROVE  OnlyMoves(h, LeaveProcessor(h), {})
<1> DEFINE others == ReadyPriorities(h) \ {Priority[h.active]}
<1>1. CASE others = {}
  BY <1>1 DEF LeaveProcessor, OnlyMoves, KeepsPlace
<1>2. CASE others # {}
  <2>1. Highest(others) \in ReadyPriorities(h)
    BY <1>2, ReadyPrioritiesAreLists, ExtremesExist
  <2> QED
    BY <1>2, <2>1, PreemptionRearranges DEF LeaveProcessor
<1> QED
  BY <1>1, <1>2

\* primitiveRelinquishProcessor: after the pending signals, another priority.
LEMMA RelinquishKeepsIInv ==
    ASSUME IInv, OrdinaryImage, PrimitiveRelinquishProcessor
    PROVE  IInv'
<1> USE DEF PrimitiveRelinquishProcessor
<1>1. SmallTypes' /\ UNCHANGED <<excessSignals, owner, entered, parked>>
  BY DEF IInv, SmallTypes, aging, history
<1>2. Schedulable(heap)
  BY DEF IInv
<1>3. CASE heap' = LeaveProcessor(heap)
  BY <1>1, <1>2, <1>3, LeavingRearranges, Rearranged
<1>4. ASSUME NEW s \in Semaphore, ~IsEmptyList(heap, s),
             heap' = LeaveProcessor(WakeFirstWaiter(heap, s))
      PROVE  IInv'
  <2> DEFINE g == WakeFirstWaiter(heap, s)
  <2>1. PICK p \in Proc : heap.myList[p] = s /\ OnlyMoves(heap, g, {p}) /\ Runnable(g, p)
    BY <1>2, <1>4, WakeMovesOne
  <2> HIDE DEF g
  <2>2. Schedulable(g)
    BY <2>1 DEF OnlyMoves
  <2>3. OnlyMoves(g, heap', {})
    BY <2>2, <1>4, LeavingRearranges DEF g
  <2>4. OnlyMoves(heap, heap', {p})
    BY <2>1, <2>3, OnlyMovesComposes
  <2>5. Runnable(heap', p)
    BY <2>1, <2>2, <2>3, PlacesKept
  <2> QED
    BY <1>1, <2>1, <2>4, <2>5, WakeKeepsIInv DEF MyList
<1> QED
  BY <1>3, <1>4

\* What both primitives that claim a free section do.
LEMMA ClaimKeepsIInv ==
    ASSUME IInv, OrdinaryImage, NEW m \in CriticalSection, Claim(m), SmallTypes',
           UNCHANGED <<excessSignals, parked>>
    PROVE  IInv'
<1> USE DEF Claim
<1>1. heap' = heap
  OBVIOUS
<1>2. active \in Proc
  BY SchedulableTypes DEF IInv, active
<1>3. /\ \A n \in CriticalSection : n # m => owner'[n] = owner[n] /\ entered'[n] = entered[n]
      /\ owner'[m] = active /\ entered'[m] = entered[m] \union {active}
  BY DEF IInv, SmallTypes
<1>4. \A p \in Proc : MyList(p) # m /\ p \notin entered[m]
  BY <1>2, NilAssumption DEF IInv, SectionsAreOwned
<1>5. SectionsAreOwned'
  BY <1>1, <1>2, <1>3, <1>4, NilAssumption DEF IInv, SectionsAreOwned, MyList
<1>6. /\ ParkedExactly' /\ WaitersSeeNoExcess' /\ Schedulable(heap)'
      /\ Runnable(heap, Idle)'
  BY <1>1 DEF IInv, ParkedExactly, WaitersSeeNoExcess, MyList, active
<1> QED
  BY <1>5, <1>6 DEF IInv

\* primitiveTestAndSetOwnershipOfCriticalSection.
LEMMA TestAndSetKeepsIInv ==
    ASSUME IInv, OrdinaryImage, NEW m \in CriticalSection,
           PrimitiveTestAndSetOwnershipOfCriticalSection(m)
    PROVE  IInv'
<1>1. active \in Proc
  BY SchedulableTypes DEF IInv, active
<1>2. SmallTypes' /\ UNCHANGED <<excessSignals, parked>> /\ Claim(m)
  BY <1>1 DEF IInv, SmallTypes, aging, Claim, PrimitiveTestAndSetOwnershipOfCriticalSection
<1> QED
  BY <1>2, ClaimKeepsIInv

\* primitiveEnterCriticalSection: claim it, or wait behind its owner.
LEMMA EnterKeepsIInv ==
    ASSUME IInv, OrdinaryImage, NEW m \in CriticalSection, PrimitiveEnterCriticalSection(m)
    PROVE  IInv'
<1> USE DEF PrimitiveEnterCriticalSection
<1>1. /\ Schedulable(heap) /\ active \in Proc /\ heap.myList[active] = Nil
      /\ m \in List /\ m \notin Priorities /\ m \notin Semaphore /\ m # Nil
  BY SchedulableTypes, WaitLists DEF IInv, active
<1>2. SmallTypes' /\ UNCHANGED <<excessSignals, parked>>
  BY <1>1 DEF IInv, SmallTypes, aging, Claim
<1>3. CASE Claim(m)
  BY <1>2, <1>3, ClaimKeepsIInv
<1>4. CASE ~Claim(m)
  <2> DEFINE w == AddLastLinkToList(heap, active, m)
  <2>0. /\ owner[m] # Nil /\ owner[m] # active /\ owner' = owner /\ active # Idle
        /\ heap' = TransferToHighestPriority(w)
        /\ entered' = [entered EXCEPT ![m] = @ \union {active}]
    BY <1>4
  <2>1. ReadyPriorities(w) # {}
    BY <1>1, <2>0, SomebodyIsReadyBehind
  <2>2. OnlyMoves(heap, heap', {active}) /\ heap'.myList[active] = m /\ heap'.active # active
    BY <1>1, <2>0, <2>1, LeaveForList DEF active
  <2> HIDE DEF w, PrimitiveEnterCriticalSection
  <2>3. \A q \in Proc \ {active} :
           /\ \A l \in List \ Priorities : heap'.myList[q] = l <=> heap.myList[q] = l
           /\ (q # heap'.active /\ heap'.myList[q] = Nil)
                 <=> (q # heap.active /\ heap.myList[q] = Nil)
           /\ Runnable(heap', q) <=> Runnable(heap, q)
    BY <1>1, <2>2, PlacesKept
  <2>4. /\ entered'[m] = entered[m] \union {active}
        /\ \A n \in CriticalSection : n # m => entered'[n] = entered[n]
    BY <2>0 DEF IInv, SmallTypes
  <2>5. Schedulable(heap)' /\ Runnable(heap, Idle)'
    BY <2>0, <2>2, <2>3 DEF IInv, OnlyMoves, OrdinaryImage
  <2>6. ParkedExactly'
    BY <1>1, <1>2, <2>2, <2>3 DEF IInv, ParkedExactly, active, MyList
  <2>7. WaitersSeeNoExcess'
    BY <1>1, <1>2, <2>2, <2>3, WaitLists DEF IInv, WaitersSeeNoExcess, MyList
  <2>8. SectionsAreOwned'
    BY <1>1, <2>0, <2>2, <2>3, <2>4, WaitLists DEF IInv, SectionsAreOwned, MyList
  <2> QED
    BY <1>2, <2>5, <2>6, <2>7, <2>8 DEF IInv
<1> QED
  BY <1>3, <1>4

\* The first waiter of a section becomes runnable, whoever runs afterwards.
LEMMA PassingMovesOne ==
    ASSUME NEW h, Schedulable(h), NEW m \in CriticalSection, ~IsEmptyList(h, m)
    PROVE  LET p == h.firstLink[m]
               g == PassOwnership(h, m)
           IN  /\ p \in Proc /\ h.myList[p] = m
               /\ OnlyMoves(h, g, {p}) /\ Runnable(g, p)
<1> DEFINE p == h.firstLink[m]
           r == RemoveFirstLinkOfList(h, m)
           k == PutToSleep(r, p)
           l == Priority[h.active]
           w == AddLastLinkToList(k, k.active, l)
           g == TransferToHighestPriority(w)
<1>1. /\ Schedulable(r) /\ p \in Proc /\ h.myList[p] = m /\ p # r.active
      /\ p \in r.savedContext /\ r.active = h.active
      /\ r.myList = [h.myList EXCEPT ![p] = Nil]
  BY WaitLists, FirstWaiterLeaves
<1>2. h.myList \in [Proc -> List \union {Nil}] /\ h.active \in Proc
      /\ l \in Priorities /\ l \in List /\ Priority[p] \in Priorities
  BY <1>1, SchedulableTypes, ReadyPrioritiesAreLists
<1> HIDE DEF r, p
<1>3. GoodHeap(r) /\ ListedSaved(r) /\ r.myList[p] = Nil /\ r.myList[r.active] = Nil
  BY <1>1, <1>2 DEF Schedulable
<1>4. /\ GoodHeap(k) /\ k.myList = [r.myList EXCEPT ![p] = Priority[p]]
      /\ k.savedContext = r.savedContext /\ k.active = r.active
  BY <1>1, <1>3, PutToSleepKeepsLinks
<1> HIDE DEF k
<1>5. Schedulable(k) /\ OnlyMoves(h, k, {p}) /\ Runnable(k, p)
  BY <1>1, <1>2, <1>3, <1>4 DEF Schedulable, ListedSaved, OnlyMoves, KeepsPlace, Runnable
<1>6. GoodHeap(w) /\ w.myList = [k.myList EXCEPT ![k.active] = l]
  <2> HIDE DEF l
  <2> QED
    BY <1>2, <1>5, AddLastKeepsLinks, SchedulableTypes
<1>7. ReadyPriorities(w) # {}
  <2> HIDE DEF w, l
  <2>1. k.active \in Proc /\ w.myList[k.active] = l
    BY <1>5, <1>6, SchedulableTypes
  <2>a. l \in List /\ GoodHeap(w) /\ ~(\A q \in Proc : w.myList[q] # l)
    BY <1>2, <1>6, <2>1
  <2>2. ~IsEmptyList(w, l)
    BY <2>a, EmptyIffNobody
  <2> QED
    BY <1>2, <2>2 DEF ReadyPriorities
<1>8. OnlyMoves(k, g, {})
  <2> HIDE DEF l
  <2> QED
    BY <1>2, <1>5, <1>7, LeaveForList
<1>9. OnlyMoves(h, g, {p}) /\ Runnable(g, p)
  <2> HIDE DEF g
  <2>1. OnlyMoves(h, g, {p})
    BY <1>5, <1>8, OnlyMovesComposes
  <2>2. Runnable(g, p)
    BY <1>1, <1>5, <1>8, PlacesKept
  <2> QED
    BY <2>1, <2>2
<1>10. PassOwnership(h, m) = IF Priority[p] >= Priority[h.active] THEN g ELSE k
  BY <1>1, <1>4 DEF PassOwnership, PutToSleep, g, w, k, r, p
<1> HIDE DEF g
<1> QED
  BY <1>1, <1>5, <1>9, <1>10 DEF p

\* primitiveExitCriticalSection: only the owner exits, so the first waiter, or
\* nobody, can be made the owner.
LEMMA ExitKeepsIInv ==
    ASSUME IInv, OrdinaryImage, NEW m \in CriticalSection, PrimitiveExitCriticalSection(m)
    PROVE  IInv'
<1> USE DEF PrimitiveExitCriticalSection
<1>1. /\ Schedulable(heap) /\ active \in Proc /\ heap.myList[active] = Nil
      /\ m \in List /\ m \notin Priorities /\ m \notin Semaphore /\ m # Nil
  BY SchedulableTypes, WaitLists DEF IInv, active
<1>2. heap.firstLink[m] \in Proc \union {Nil}
  BY <1>1 DEF Schedulable, GoodHeap, Heap
<1>3. SmallTypes' /\ UNCHANGED <<excessSignals, parked>>
  BY <1>2 DEF IInv, SmallTypes, aging
<1>4. /\ \A n \in CriticalSection : n # m => owner'[n] = owner[n] /\ entered'[n] = entered[n]
      /\ owner'[m] = heap.firstLink[m] /\ entered'[m] = entered[m] \ {active}
  BY DEF IInv, SmallTypes
<1>5. active \in entered[m] /\ owner[m] = active
  BY <1>1 DEF IInv, SectionsAreOwned, MyList
<1>6. CASE IsEmptyList(heap, m)
  <2>1. heap' = heap
    BY <1>6
  <2>2. \A p \in Proc : heap.myList[p] # m
    BY <1>1, <1>6, EmptyIffNobody, SchedulableTypes
  <2> HIDE DEF PrimitiveExitCriticalSection
  <2>3. SectionsAreOwned'
    BY <1>1, <1>4, <1>5, <2>1, <2>2 DEF IInv, SectionsAreOwned, MyList
  <2>4. /\ ParkedExactly' /\ WaitersSeeNoExcess' /\ Schedulable(heap)'
        /\ Runnable(heap, Idle)'
    BY <1>3, <2>1 DEF IInv, ParkedExactly, WaitersSeeNoExcess, MyList, active
  <2> QED
    BY <1>3, <2>3, <2>4 DEF IInv
<1>7. CASE ~IsEmptyList(heap, m)
  <2> DEFINE p == heap.firstLink[m]
  <2>1. heap' = PassOwnership(heap, m)
    BY <1>7
  <2>2. p \in Proc /\ heap.myList[p] = m /\ OnlyMoves(heap, heap', {p}) /\ Runnable(heap', p)
    BY <1>1, <1>7, <2>1, PassingMovesOne
  <2>3. owner'[m] = p
    BY <1>4
  <2> HIDE DEF p, PrimitiveExitCriticalSection
  <2>4. \A q \in Proc \ {p} :
           /\ \A l \in List \ Priorities : heap'.myList[q] = l <=> heap.myList[q] = l
           /\ (q # heap'.active /\ heap'.myList[q] = Nil)
                 <=> (q # heap.active /\ heap.myList[q] = Nil)
           /\ Runnable(heap', q) <=> Runnable(heap, q)
    BY <1>1, <2>2, PlacesKept
  <2>5. /\ heap'.myList[p] \notin Semaphore /\ heap'.myList[p] \notin CriticalSection
        /\ ~(p # heap'.active /\ heap'.myList[p] = Nil)
    BY <2>2, WaitLists, SchedulableTypes DEF Runnable, OnlyMoves
  <2>6. Schedulable(heap)' /\ Runnable(heap, Idle)'
    BY <2>2, <2>4 DEF IInv, OnlyMoves, OrdinaryImage
  <2>7. ParkedExactly'
    BY <1>1, <1>3, <2>2, <2>4, <2>5 DEF IInv, ParkedExactly, active, MyList
  <2>8. WaitersSeeNoExcess'
    BY <1>3, <2>4, <2>5, WaitLists DEF IInv, WaitersSeeNoExcess, MyList
  <2>9. p \in entered[m] /\ p # active
    BY <1>1, <2>2 DEF IInv, SectionsAreOwned, MyList
  <2>10. SectionsAreOwned'
    <3> SUFFICES ASSUME NEW n \in CriticalSection, NEW q \in Proc
                 PROVE  /\ q \in entered'[n] /\ heap'.myList[q] # n => owner'[n] = q
                        /\ heap'.myList[q] = n => q \in entered'[n] /\ owner'[n] # Nil
      BY DEF SectionsAreOwned, MyList
    <3>1. /\ q \in entered[n] /\ heap.myList[q] # n => owner[n] = q
          /\ heap.myList[q] = n => q \in entered[n] /\ owner[n] # Nil
      BY DEF IInv, SectionsAreOwned, MyList
    <3>2. CASE q = p
      BY <1>1, <1>4, <2>2, <2>3, <2>5, <2>9, <3>1, <3>2
    <3>3. CASE q # p
      BY <1>1, <1>4, <1>5, <2>2, <2>3, <2>4, <3>1, <3>3, WaitLists, NilAssumption
    <3> QED
      BY <3>2, <3>3
  <2> QED
    BY <1>3, <2>6, <2>7, <2>8, <2>10 DEF IInv
<1> QED
  BY <1>6, <1>7

\* The queues the preemption checks choose from are ready queues.
LEMMA ChoicesAreReady ==
    ASSUME NEW h
    PROVE  /\ HigherReady(h) # {} => /\ Lowest(HigherReady(h)) \in ReadyPriorities(h)
                                     /\ Highest(HigherReady(h)) \in ReadyPriorities(h)
           /\ LowerReady(h) # {} => Highest(LowerReady(h)) \in ReadyPriorities(h)
           /\ YieldCandidates(h) \subseteq ReadyPriorities(h)
           /\ YieldCandidates(h) # {} => Highest(YieldCandidates(h)) \in ReadyPriorities(h)
<1>1. /\ HigherReady(h) \subseteq ReadyPriorities(h)
      /\ LowerReady(h) \subseteq ReadyPriorities(h)
      /\ ReadyPriorities(h) \subseteq Priorities
  BY ReadyPrioritiesAreLists DEF HigherReady, LowerReady
<1>2. HigherReady(h) # {} => /\ Lowest(HigherReady(h)) \in HigherReady(h)
                            /\ Highest(HigherReady(h)) \in HigherReady(h)
  BY <1>1, ExtremesExist
<1>3. LowerReady(h) # {} => Highest(LowerReady(h)) \in LowerReady(h)
  BY <1>1, ExtremesExist
<1>4. YieldCandidates(h) \subseteq ReadyPriorities(h)
  BY <1>1, <1>2 DEF YieldCandidates
<1>5. YieldCandidates(h) # {} => Highest(YieldCandidates(h)) \in YieldCandidates(h)
  BY <1>1, <1>4, ExtremesExist
<1> QED
  BY <1>1, <1>2, <1>3, <1>4, <1>5

\* checkForPreemption and step()'s forced yield.
LEMMA PreemptionKeepsIInv ==
    ASSUME IInv, OrdinaryImage, CheckForPreemption \/ StepForceYield
    PROVE  IInv'
<1>1. SmallTypes' /\ UNCHANGED <<excessSignals, owner, entered, parked>>
  BY DEF IInv, SmallTypes, aging, history, CheckForPreemption, StepForceYield
<1>2. PICK i \in ReadyPriorities(heap) : heap' = PreemptByHeadOf(heap, i)
  BY ChoicesAreReady DEF CheckForPreemption, StepForceYield
<1>3. OnlyMoves(heap, heap', {})
  BY <1>2, PreemptionRearranges DEF IInv
<1> QED
  BY <1>1, <1>3, Rearranged

\* handleForceYield: rotate a queue, switch, age out, or several of these.
LEMMA HandleForceYieldKeepsIInv ==
    ASSUME IInv, OrdinaryImage, NEW expired \in BOOLEAN, NEW aged \in BOOLEAN,
           HandleForceYield(expired, aged)
    PROVE  IInv'
<1> DEFINE h         == AfterGrace(expired)
           switching == YieldCandidates(heap) # {} /\ ~GraceApplies(expired)
           mayAge    == ~switching /\ Priority[active] \in AgingPriorities
           agesOut   == mayAge /\ AgesOut(h, aged)
<1>0. /\ heap' = IF switching
                  THEN PreemptByHeadOf(h, Highest(YieldCandidates(heap)))
                  ELSE IF agesOut
                  THEN PreemptByHeadOf(h, Highest(LowerReady(h)))
                  ELSE h
      /\ inGrace' = (agesOut \/ (inGrace /\ ~expired))
      /\ agingProcess' = IF mayAge /\ TrackActive THEN active ELSE agingProcess
      /\ UNCHANGED <<excessSignals, owner, running, history>>
  BY DEF HandleForceYield
<1>1. Schedulable(heap) /\ active \in Proc
  BY SchedulableTypes DEF IInv, active
<1>2. OnlyMoves(heap, h, {})
  <2>1. CASE GraceApplies(expired)
    <3>1. Highest(HigherReady(heap)) \in ReadyPriorities(heap)
      BY <2>1, ChoicesAreReady DEF GraceApplies
    <3> QED
      BY <1>1, <2>1, <3>1, RotationRearranges DEF AfterGrace, RotateQueue
  <2>2. CASE ~GraceApplies(expired)
    BY <1>1, <2>2 DEF AfterGrace, OnlyMoves, KeepsPlace
  <2> QED
    BY <2>1, <2>2
<1>3. switching => h = heap
  BY DEF AfterGrace
<1>4. agesOut => LowerReady(h) # {}
  BY DEF AgesOut
<1>5. SmallTypes' /\ UNCHANGED <<excessSignals, owner, entered, parked>>
  <2>1. agingProcess' \in Proc \union {Nil}
    BY <1>0, <1>1 DEF IInv, SmallTypes
  <2>2. inGrace' \in BOOLEAN
    BY <1>0
  <2> QED
    BY <1>0, <2>1, <2>2 DEF IInv, SmallTypes, history
<1> HIDE DEF h, switching, agesOut, mayAge
<1>6. Schedulable(h)
  BY <1>2 DEF OnlyMoves
<1>7. OnlyMoves(h, heap', {}) \/ heap' = h
  <2>1. CASE switching
    <3>1. Highest(YieldCandidates(heap)) \in ReadyPriorities(heap)
      BY <2>1, ChoicesAreReady DEF switching
    <3> QED
      BY <1>0, <1>1, <1>3, <2>1, <3>1, PreemptionRearranges
  <2>2. CASE ~switching /\ agesOut
    <3>1. Highest(LowerReady(h)) \in ReadyPriorities(h)
      BY <1>4, <2>2, ChoicesAreReady
    <3> QED
      BY <1>0, <1>6, <2>2, <3>1, PreemptionRearranges
  <2> QED
    BY <1>0, <2>1, <2>2
<1>8. OnlyMoves(heap, heap', {})
  BY <1>2, <1>7, OnlyMovesComposes
<1> QED
  BY <1>5, <1>8, Rearranged

\* A heap in which the running process has no saved context.
LEMMA DroppingContext ==
    ASSUME NEW h, Schedulable(h), NEW g,
           g = [h EXCEPT !.savedContext = @ \ {h.active}]
    PROVE  /\ Schedulable(g)
           /\ g.active = h.active /\ g.myList = h.myList /\ g.firstLink = h.firstLink
           /\ g.savedContext = h.savedContext \ {h.active}
           /\ ReadyPriorities(g) = ReadyPriorities(h)
<1>1. h \in Heap
  BY DEF Schedulable, GoodHeap
<1>2. /\ g \in Heap /\ g.active = h.active
      /\ g.nextLink = h.nextLink /\ g.myList = h.myList
      /\ g.firstLink = h.firstLink /\ g.lastLink = h.lastLink
      /\ g.savedContext = h.savedContext \ {h.active}
  BY <1>1 DEF Heap
<1>3. GoodHeap(g)
  BY <1>2, SameLinks DEF Schedulable
<1>4. Schedulable(g)
  BY <1>2, <1>3 DEF Schedulable, ListedSaved
<1> QED
  BY <1>2, <1>4 DEF ReadyPriorities, IsEmptyList

\* terminateCurrentProcess of a process that is on no list clears its slots.
LEMMA TerminatedHeap ==
    ASSUME NEW h, Schedulable(h)
    PROVE  TerminateCurrentProcess(h) = [h EXCEPT !.savedContext = @ \ {h.active}]
<1> DEFINE g == [h EXCEPT !.savedContext = @ \ {h.active},
                          !.nextLink[h.active] = Nil, !.myList[h.active] = Nil]
<1>1. h \in Heap /\ h.active \in Proc /\ h.myList[h.active] = Nil
      /\ h.nextLink[h.active] = Nil
  BY SchedulableTypes DEF Schedulable, GoodHeap, Heap, LinksOK, OffListUnlinked
<1>2. TerminateCurrentProcess(h) = g
  BY <1>1 DEF TerminateCurrentProcess
<1>3. g = [h EXCEPT !.savedContext = @ \ {h.active}]
  BY <1>1 DEF Heap
<1> QED
  BY <1>2, <1>3

\* A termination step that leaves the processor to a ready process.
LEMMA TerminationKeepsIInv ==
    ASSUME IInv, OrdinaryImage, MayTerminate, running' \in BOOLEAN,
           NEW h, Schedulable(h), h.myList = heap.myList, h.active = heap.active,
           OnlyMoves(h, heap', {heap.active}),
           heap'.myList[heap.active] = Nil, heap'.active # heap.active,
           parked' = parked \union {active},
           UNCHANGED <<excessSignals, owner, aging, entered>>
    PROVE  IInv'
<1>1. active \in Proc /\ active # Idle
  BY SchedulableTypes DEF IInv, active, MayTerminate
<1>2. SmallTypes'
  BY <1>1, EnvironmentAssumption DEF IInv, SmallTypes, aging, MayTerminate
<1>3. OnlyMoves(heap, heap', {active})
  BY DEF OnlyMoves, KeepsPlace, Runnable, active
<1> QED
  BY <1>1, <1>2, <1>3, DropKeepsIInv DEF active

\* terminateAndSwitchProcess.
LEMMA SwitchingKeepsIInv ==
    ASSUME IInv, OrdinaryImage, TerminateAndSwitchProcess
    PROVE  IInv'
<1> DEFINE h    == TerminateCurrentProcess(heap)
           i    == Highest(ReadyPriorities(h))
           next == h.firstLink[i]
           C    == RemoveFirstLinkOfList(h, i).savedContext \ {next}
<1>1. Schedulable(heap) /\ ReadyPriorities(heap) # {} /\ MayTerminate
  BY SomebodyIsReady DEF IInv, TerminateAndSwitchProcess, MayTerminate
<1>2. h = [heap EXCEPT !.savedContext = @ \ {heap.active}]
  BY <1>1, TerminatedHeap
<1>3. /\ Schedulable(h) /\ h.active = heap.active /\ h.myList = heap.myList
      /\ ReadyPriorities(h) = ReadyPriorities(heap)
  <2> HIDE DEF h
  <2> QED
    BY <1>1, <1>2, DroppingContext
<1>4. /\ heap' = [RemoveFirstLinkOfList(h, i) EXCEPT !.active = next, !.savedContext = C]
      /\ running' = running /\ parked' = parked \union {active}
      /\ UNCHANGED <<excessSignals, owner, aging, entered>>
  BY <1>1, <1>3 DEF TerminateAndSwitchProcess
<1> HIDE DEF h
<1>5. i \in ReadyPriorities(h) /\ i \in List /\ ~IsEmptyList(h, i)
  BY <1>1, <1>3, ReadyPrioritiesAreLists, ExtremesExist
<1> HIDE DEF i
<1>6. RemoveFirstLinkOfList(h, i).savedContext = h.savedContext /\ h.savedContext \subseteq Proc
  BY <1>3, <1>5, SchedulableTypes, RemoveFirstKeepsLinks
<1>7. C \in SUBSET Proc /\ h.savedContext \ {h.firstLink[i]} \subseteq C
  BY <1>6
<1> HIDE DEF C
<1>8. /\ OnlyMoves(h, heap', {h.active}) /\ heap'.myList[h.active] = Nil
      /\ heap'.active # h.active
  BY <1>3, <1>4, <1>5, <1>7, HeadTakesOver
<1>9. running' \in BOOLEAN
  BY <1>4 DEF IInv, SmallTypes
<1> QED
  BY <1>1, <1>3, <1>4, <1>8, <1>9, TerminationKeepsIInv

\* terminateCurrentProcess and tryReschedule: every head has a context.
LEMMA ReschedulingKeepsIInv ==
    ASSUME IInv, OrdinaryImage, TerminateAndReschedule
    PROVE  IInv'
<1> DEFINE h    == TerminateCurrentProcess(heap)
           able == {i \in ReadyPriorities(h) :
                       h.firstLink[i] # active /\ h.firstLink[i] \in h.savedContext}
           i    == Highest(able)
           r    == RemoveFirstLinkOfList(h, i)
           C    == r.savedContext
<1>1. Schedulable(heap) /\ ReadyPriorities(heap) # {} /\ MayTerminate
  BY SomebodyIsReady DEF IInv, TerminateAndReschedule, MayTerminate
<1>2. h = [heap EXCEPT !.savedContext = @ \ {heap.active}]
  BY <1>1, TerminatedHeap
<1>3. /\ Schedulable(h) /\ h.active = heap.active /\ h.myList = heap.myList
      /\ ReadyPriorities(h) = ReadyPriorities(heap)
  <2> HIDE DEF h
  <2> QED
    BY <1>1, <1>2, DroppingContext
<1>4. /\ heap' = IF able = {} THEN h ELSE [r EXCEPT !.active = h.firstLink[i]]
      /\ running' = IF able = {} THEN FALSE ELSE running
      /\ parked' = parked \union {active}
      /\ UNCHANGED <<excessSignals, owner, aging, entered>>
  BY DEF TerminateAndReschedule
<1> HIDE DEF h
<1>5. ASSUME NEW j \in ReadyPriorities(h)
      PROVE  /\ j \in List /\ ~IsEmptyList(h, j) /\ j # Nil
             /\ h.firstLink[j] \in Proc /\ h.myList[h.firstLink[j]] = j
  <2>1. j \in List /\ ~IsEmptyList(h, j) /\ j # Nil /\ GoodHeap(h)
    BY <1>3, <1>5, ReadyPrioritiesAreLists, SchedulableTypes
  <2>2. h.firstLink[j] \in Proc /\ h.myList[h.firstLink[j]] = j
    BY <2>1, RemoveFirstKeepsLinks
  <2> QED
    BY <2>1, <2>2
<1>6. able = ReadyPriorities(h)
  BY <1>3, <1>5, SchedulableTypes DEF ListedSaved, active
<1> HIDE DEF able
<1>7. i \in ReadyPriorities(h)
  BY <1>1, <1>3, <1>6, ReadyPrioritiesAreLists, ExtremesExist
<1> HIDE DEF i
<1>8. r.savedContext = h.savedContext /\ h.savedContext \subseteq Proc /\ r \in Heap
  BY <1>3, <1>5, <1>7, SchedulableTypes, RemoveFirstKeepsLinks DEF GoodHeap
<1> HIDE DEF r
<1>9. heap' = [r EXCEPT !.active = h.firstLink[i], !.savedContext = C]
  BY <1>1, <1>3, <1>4, <1>6, <1>8 DEF Heap
<1>10. C \in SUBSET Proc /\ h.savedContext \ {h.firstLink[i]} \subseteq C
  BY <1>8
<1> HIDE DEF C
<1>11. /\ OnlyMoves(h, heap', {h.active}) /\ heap'.myList[h.active] = Nil
       /\ heap'.active # h.active
  BY <1>3, <1>7, <1>9, <1>10, HeadTakesOver DEF r
<1>12. running' \in BOOLEAN
  BY <1>4 DEF IInv, SmallTypes
<1> QED
  BY <1>1, <1>3, <1>4, <1>11, <1>12, TerminationKeepsIInv

\* The stuck-process timeout, and doesNotUnderstand: not understood.
LEMMA DroppingKeepsIInv ==
    ASSUME IInv, OrdinaryImage, StuckProcessTimeout \/ RecursiveDoesNotUnderstand
    PROVE  IInv'
<1>1. Schedulable(heap) /\ ReadyPriorities(heap) # {} /\ MayTerminate
  BY SomebodyIsReady DEF IInv, StuckProcessTimeout, RecursiveDoesNotUnderstand, MayTerminate
<1>2. CASE RecursiveDoesNotUnderstand
  <2>1. /\ heap' = TransferToHighestPriority(heap) /\ running' = running
        /\ parked' = parked \union {active}
        /\ UNCHANGED <<excessSignals, owner, aging, entered>>
    BY <1>1, <1>2 DEF RecursiveDoesNotUnderstand
  <2>2. /\ OnlyMoves(heap, heap', {heap.active})
        /\ heap'.myList[heap.active] = Nil /\ heap'.active # heap.active
    BY <1>1, <2>1, LeaveForNothing
  <2>3. running' \in BOOLEAN
    BY <2>1 DEF IInv, SmallTypes
  <2> QED
    BY <1>1, <2>1, <2>2, <2>3, TerminationKeepsIInv
<1>3. CASE StuckProcessTimeout
  <2> DEFINE h == [heap EXCEPT !.savedContext = @ \ {heap.active}]
  <2>1. /\ Schedulable(h) /\ h.active = heap.active /\ h.myList = heap.myList
        /\ ReadyPriorities(h) = ReadyPriorities(heap)
    BY <1>1, DroppingContext
  <2>2. /\ heap' = TransferToHighestPriority(h) /\ running' = running
        /\ parked' = IF ReadyPriorities(h) = {} THEN parked ELSE parked \union {active}
        /\ UNCHANGED <<excessSignals, owner, aging, entered>>
    BY <1>3 DEF StuckProcessTimeout, active
  <2> HIDE DEF h
  <2>3. /\ OnlyMoves(h, heap', {h.active})
        /\ heap'.myList[h.active] = Nil /\ heap'.active # h.active
    BY <1>1, <2>1, <2>2, LeaveForNothing
  <2>4. running' \in BOOLEAN
    BY <2>2 DEF IInv, SmallTypes
  <2> QED
    BY <1>1, <2>1, <2>2, <2>3, <2>4, TerminationKeepsIInv
<1> QED
  BY <1>2, <1>3

-----------------------------------------------------------------------------
(* The theorems *)

\* Init: every process but the first one is parked, with its context.
LEMMA InitEstablishesIInv ==
    ASSUME Init, OrdinaryImage
    PROVE  IInv
<1>1. PICK p \in Proc :
         /\ p = Idle
         /\ heap = [nextLink     |-> [q \in Proc |-> Nil],
                    myList       |-> [q \in Proc |-> Nil],
                    firstLink    |-> [l \in List |-> Nil],
                    lastLink     |-> [l \in List |-> Nil],
                    savedContext |-> Proc \ {p},
                    active       |-> p]
         /\ parked = Proc \ {p}
  BY NilAssumption DEF Init, OrdinaryImage
<1>2. SmallTypes
  <2>1. 0 \in 0..MaxExcessSignals /\ 0 \in 0..MaxTerminations
    BY EnvironmentAssumption
  <2>2. excessSignals \in [Semaphore -> 0..MaxExcessSignals]
    BY <2>1 DEF Init
  <2>3. owner \in [CriticalSection -> Proc \union {Nil}]
    BY DEF Init
  <2>4. entered \in [CriticalSection -> SUBSET Proc]
    BY DEF Init
  <2> QED
    BY <1>1, <2>1, <2>2, <2>3, <2>4 DEF Init, SmallTypes
<1>3. heap \in Heap
  BY <1>1 DEF Heap
<1>4. LinksOK(heap)
  BY <1>1 DEF LinksOK, EmptyListsAgree, EndsAreOnTheList, OffListUnlinked,
              LinksStayOnTheList, NoSharedLinks, OnlyLastEnds, NonfirstIsLinked
<1>5. Acyclic(heap)
  <2>1. Ranks(heap, [q \in Proc |-> 0])
    BY <1>1 DEF Ranks
  <2> QED
    BY <2>1 DEF Acyclic
<1>6. Schedulable(heap)
  BY <1>1, <1>3, <1>4, <1>5 DEF Schedulable, GoodHeap, ListedSaved
<1>7. Runnable(heap, Idle) /\ ParkedExactly
  BY <1>1 DEF Runnable, ParkedExactly, active, MyList
<1>8. WaitersSeeNoExcess /\ SectionsAreOwned
  BY <1>1, WaitLists DEF Init, WaitersSeeNoExcess, SectionsAreOwned, MyList
<1> QED
  BY <1>2, <1>6, <1>7, <1>8 DEF IInv

\* Every step keeps the invariant.
LEMMA NextKeepsIInv ==
    ASSUME IInv, OrdinaryImage, ContextsInOrder, [Next]_vars
    PROVE  IInv'
<1>1. CASE SemaphoreStep
  BY <1>1, SignalKeepsIInv, WaitKeepsIInv DEF SemaphoreStep
<1>2. CASE ProcessStep
  BY <1>2, SuspendActiveKeepsIInv, SuspendOtherKeepsIInv, ResumeKeepsIInv,
     YieldKeepsIInv, RelinquishKeepsIInv DEF ProcessStep
<1>3. CASE CriticalSectionStep
  BY <1>3, EnterKeepsIInv, TestAndSetKeepsIInv, ExitKeepsIInv DEF CriticalSectionStep
<1>4. CASE PreemptionStep
  BY <1>4, PreemptionKeepsIInv, HandleForceYieldKeepsIInv DEF PreemptionStep
<1>5. CASE TerminationStep
  BY <1>5, SwitchingKeepsIInv, ReschedulingKeepsIInv, DroppingKeepsIInv DEF TerminationStep
<1>6. CASE UNCHANGED vars
  BY <1>6 DEF vars, aging, history, IInv, SmallTypes, ParkedExactly, WaitersSeeNoExcess,
              SectionsAreOwned, active, MyList
<1> QED
  BY <1>1, <1>2, <1>3, <1>4, <1>5, <1>6 DEF Next

\* The invariant holds throughout every run of an ordinary image.
LEMMA InvariantHolds ==
    ASSUME OrdinaryImage
    PROVE  Spec => []IInv
<1>1. Init => IInv
  BY InitEstablishesIInv
<1>2. IInv /\ ContextsInOrder /\ [Next]_vars => IInv'
  BY NextKeepsIInv
<1> QED
  BY <1>1, <1>2, ContextsStayInOrder, PTL DEF Spec

\* The slots keep the types the image format gives them.
THEOREM TypeCorrect == ASSUME OrdinaryImage PROVE Spec => []TypeOK
<1>1. IInv => TypeOK
  BY DEF IInv, SmallTypes, TypeOK, Schedulable, GoodHeap
<1> QED
  BY <1>1, InvariantHolds, PTL

\* Every list stays linked, link by link: what WellFormedLists says of the
\* walk from firstLink to lastLink.
THEOREM ListsStayLinked == ASSUME OrdinaryImage PROVE Spec => [](LinksOK(heap) /\ Acyclic(heap))
<1>1. IInv => LinksOK(heap) /\ Acyclic(heap)
  BY DEF IInv, Schedulable, GoodHeap
<1> QED
  BY <1>1, InvariantHolds, PTL

\* Walking the links of any list from firstLink meets exactly the processes
\* whose myList it is, each once, and ends at lastLink.
THEOREM ListsAreChains == ASSUME OrdinaryImage PROVE Spec => []WellFormedLists
<1>1. IInv => WellFormedLists
  <2> SUFFICES ASSUME IInv, NEW l \in List
               PROVE  LET links == LinksOf(heap, l)
                      IN  /\ \A i, j \in DOMAIN links : links[i] = links[j] => i = j
                          /\ {links[i] : i \in DOMAIN links} = {p \in Proc : MyList(p) = l}
                          /\ heap.lastLink[l] = IF links = <<>> THEN Nil ELSE links[Len(links)]
    BY DEF WellFormedLists
  <2> DEFINE links == LinksOf(heap, l)
  <2>1. GoodHeap(heap)
    BY SchedulableTypes DEF IInv
  <2>2. Chain(heap, l, links)
    BY <2>1, LinksAreChain
  <2> HIDE DEF links
  <2>3. links \in Seq(Proc) /\ DOMAIN links = 1..Len(links)
    BY <2>2 DEF Chain
  <2>4. {links[i] : i \in DOMAIN links} = {p \in Proc : MyList(p) = l}
    <3>1. ASSUME NEW i \in DOMAIN links PROVE links[i] \in Proc /\ heap.myList[links[i]] = l
      <4>1. links[i] \in Proc
        BY <2>3, <3>1, ElementOfSeq
      <4> QED
        BY <2>2, <2>3, <3>1, <4>1 DEF Chain
    <3>2. ASSUME NEW p \in Proc, heap.myList[p] = l PROVE \E i \in DOMAIN links : p = links[i]
      BY <2>2, <2>3, <3>2 DEF Chain
    <3> QED
      BY <3>1, <3>2 DEF MyList
  <2>5. heap.lastLink[l] = IF links = <<>> THEN Nil ELSE links[Len(links)]
    <3>1. CASE links = <<>>
      <4>1. \A p \in Proc : heap.myList[p] # l
        BY <2>2, <2>3, <3>1, EmptySeq DEF Chain
      <4>2. heap.firstLink[l] = Nil
        BY <2>1, <4>1, EmptyIffNobody DEF IsEmptyList
      <4> QED
        BY <2>1, <3>1, <4>2 DEF GoodHeap, LinksOK, EmptyListsAgree
    <3>2. CASE links # <<>>
      BY <2>2, <3>2 DEF Chain
    <3> QED
      BY <3>1, <3>2
  <2>6. \A i, j \in DOMAIN links : links[i] = links[j] => i = j
    BY <2>2, <2>3 DEF Chain
  <2> QED
    BY <2>4, <2>5, <2>6 DEF links
<1> QED
  BY <1>1, InvariantHolds, PTL

\* The running process is never on a wait list or a ready queue.
THEOREM ActiveIsOffLists == ASSUME OrdinaryImage PROVE Spec => []ActiveOffLists
<1>1. IInv => ActiveOffLists
  BY DEF IInv, Schedulable, ActiveOffLists, MyList, active
<1> QED
  BY <1>1, InvariantHolds, PTL

\* A process that neither runs nor is on a list was taken off on purpose.
THEOREM NobodyIsLost == ASSUME OrdinaryImage PROVE Spec => []NoLostProcess
<1>1. IInv => NoLostProcess
  <2> SUFFICES ASSUME IInv PROVE NoLostProcess
    OBVIOUS
  <2>1. \A p \in Proc : Place(p) = "parked" <=> p # active /\ MyList(p) = Nil
    BY DEF Place
  <2>2. parked \subseteq Proc
    BY DEF IInv, SmallTypes
  <2> QED
    BY <2>1, <2>2 DEF IInv, ParkedExactly, NoLostProcess
<1> QED
  BY <1>1, InvariantHolds, PTL

\* Whoever is on a list can be run.
THEOREM ListedCanRun == ASSUME OrdinaryImage PROVE Spec => []ListedHaveContext
<1>1. IInv => ListedHaveContext
  BY DEF IInv, Schedulable, ListedSaved, ListedHaveContext, MyList, active
<1> QED
  BY <1>1, InvariantHolds, PTL

\* No process waits on a semaphore that has signals to spare.
THEOREM NoWakeupIsLost == ASSUME OrdinaryImage PROVE Spec => []NoLostWakeup
<1>1. IInv => NoLostWakeup
  <2> SUFFICES ASSUME IInv, NEW s \in Semaphore, ~IsEmptyList(heap, s)
               PROVE  excessSignals[s] = 0
    BY DEF NoLostWakeup
  <2>1. s \in List /\ GoodHeap(heap)
    BY SchedulableTypes, WaitLists DEF IInv
  <2>2. PICK p \in Proc : MyList(p) = s
    BY <2>1, EmptyIffNobody DEF MyList
  <2> QED
    BY <2>2 DEF IInv, WaitersSeeNoExcess
<1> QED
  BY <1>1, InvariantHolds, PTL

\* At most one process is inside a critical section.
THEOREM SectionsExclude == ASSUME OrdinaryImage PROVE Spec => []MutualExclusion
<1>1. IInv => MutualExclusion
  <2> SUFFICES ASSUME IInv, NEW m \in CriticalSection, NEW p \in Proc, NEW q \in Proc,
                      Inside(p, m), Inside(q, m)
               PROVE  p = q
    BY DEF MutualExclusion
  <2>1. MyList(active) # m
    BY SchedulableTypes, WaitLists DEF IInv, MyList, active
  <2> QED
    BY <2>1 DEF IInv, SectionsAreOwned, Inside
<1> QED
  BY <1>1, InvariantHolds, PTL

\* The process inside is the owner, and a section with waiters has an owner.
THEOREM OwnersAreInside == ASSUME OrdinaryImage PROVE Spec => []OwnerIsInside
<1>1. IInv => OwnerIsInside
  <2> SUFFICES ASSUME IInv, NEW m \in CriticalSection
               PROVE  /\ \A p \in Proc : Inside(p, m) => owner[m] = p
                      /\ ~IsEmptyList(heap, m) => owner[m] # Nil
    BY DEF OwnerIsInside
  <2>1. MyList(active) # m /\ m \in List /\ GoodHeap(heap)
    BY SchedulableTypes, WaitLists DEF IInv, MyList, active
  <2>2. \A p \in Proc : Inside(p, m) => owner[m] = p
    BY <2>1 DEF IInv, SectionsAreOwned, Inside
  <2>3. ASSUME ~IsEmptyList(heap, m) PROVE owner[m] # Nil
    <3>1. PICK p \in Proc : MyList(p) = m
      BY <2>1, <2>3, EmptyIffNobody DEF MyList
    <3> QED
      BY <3>1 DEF IInv, SectionsAreOwned
  <2> QED
    BY <2>2, <2>3
<1> QED
  BY <1>1, InvariantHolds, PTL


-----------------------------------------------------------------------------
(* Priorities: whom a step may leave waiting *)

\* Ready processes are in the queues of their priorities.
OwnQueues(h) ==
    \A p \in Proc : h.myList[p] \in Priorities => h.myList[p] = Priority[p]

\* HighestRuns, process by process.
Tops(h) ==
    \A p \in Proc : h.myList[p] \in Priorities => h.myList[p] <= Priority[h.active]

LEMMA PrioritiesAreNaturals ==
    /\ Priorities \subseteq Nat
    /\ \A p \in Proc : Priority[p] \in Priorities /\ Priority[p] \in Nat /\ Priority[p] \in List
BY PriorityAssumption DEF Priorities, List

\* The highest of some priorities is the highest.
LEMMA HighestIsHighest ==
    ASSUME NEW S, S \subseteq Priorities, S # {}
    PROVE  Highest(S) \in S /\ \A j \in S : j <= Highest(S)
<1>0. NumPriorities \in Nat /\ S \subseteq Nat /\ \A i \in S : i <= NumPriorities
  BY PriorityAssumption DEF Priorities
<1> DEFINE T == {NumPriorities - i : i \in S}
<1>a. \A i \in S : NumPriorities - i \in Nat
  BY <1>0
<1>1. T \subseteq Nat /\ T # {}
  BY <1>a
<1>2. PICK n \in T : \A m \in T : n <= m
  BY <1>1, NaturalsHaveMinimum
<1>3. PICK i \in S : n = NumPriorities - i
  BY <1>2
<1>4. \A j \in S : j <= i
  BY <1>0, <1>2, <1>3
<1> QED
  BY <1>3, <1>4 DEF Highest

\* Nobody of higher priority is ready: seen from the queues and from the
\* processes.
LEMMA TopsMeansHighest ==
    ASSUME NEW h, Schedulable(h)
    PROVE  Tops(h) <=> HigherReady(h) = {}
<1>1. GoodHeap(h) /\ h.active \in Proc /\ Priorities \subseteq List
  BY SchedulableTypes DEF List
<1>2. \A l \in Priorities : l \in ReadyPriorities(h) <=> \E p \in Proc : h.myList[p] = l
  BY <1>1, EmptyIffNobody DEF ReadyPriorities
<1>3. Priority[h.active] \in Nat /\ Priorities \subseteq Nat /\ ReadyPriorities(h) \subseteq Priorities
  BY <1>1, PrioritiesAreNaturals, ReadyPrioritiesAreLists
<1>4. HigherReady(h) = {} <=> \A l \in ReadyPriorities(h) : l <= Priority[h.active]
  <2> DEFINE top == Priority[h.active]
  <2>1. \A l \in Nat : l <= top <=> ~(l > top)
    <3> HIDE DEF top
    <3>1. top \in Nat
      BY <1>3 DEF top
    <3> QED
      BY <3>1
  <2> QED
    BY <1>3, <2>1, Zenon DEF HigherReady
<1>5. Tops(h) <=> \A l \in ReadyPriorities(h) : l <= Priority[h.active]
  BY <1>2, <1>3 DEF Tops
<1> QED
  BY <1>4, <1>5

\* The head of a ready queue has the queue's priority.
LEMMA HeadHasPriority ==
    ASSUME NEW h, GoodHeap(h), OwnQueues(h), NEW i \in ReadyPriorities(h)
    PROVE  LET r == RemoveFirstLinkOfList(h, i)
               f == h.firstLink[i]
           IN  /\ f \in Proc /\ h.myList[f] = i /\ Priority[f] = i
               /\ r.myList = [h.myList EXCEPT ![f] = Nil]
               /\ r.active = h.active
<1>1. i \in List /\ ~IsEmptyList(h, i) /\ i \in Priorities
  BY ReadyPrioritiesAreLists
<1> QED
  BY <1>1, RemoveFirstKeepsLinks DEF OwnQueues

\* When the head of the highest queue runs, nobody outranks it, whoever was
\* running before.
LEMMA HighestHeadTops ==
    ASSUME NEW h, GoodHeap(h), OwnQueues(h), ReadyPriorities(h) # {}, NEW g,
           LET f == h.firstLink[Highest(ReadyPriorities(h))]
           IN  g.active = f /\ g.myList = [h.myList EXCEPT ![f] = Nil]
    PROVE  OwnQueues(g) /\ Tops(g)
<1> DEFINE i == Highest(ReadyPriorities(h))
           f == h.firstLink[i]
<1>1. i \in ReadyPriorities(h) /\ \A j \in ReadyPriorities(h) : j <= i
  BY ReadyPrioritiesAreLists, HighestIsHighest
<1> HIDE DEF i
<1>2. f \in Proc /\ Priority[f] = i
  BY <1>1, HeadHasPriority
<1>3. h.myList \in [Proc -> List \union {Nil}] /\ Nil \notin Priorities
  BY NilAssumption DEF GoodHeap, Heap, List
<1>4. g.active = f /\ g.myList = [h.myList EXCEPT ![f] = Nil]
  BY DEF i
<1> HIDE DEF f
<1>5. ASSUME NEW p \in Proc, g.myList[p] \in Priorities
      PROVE  p # f /\ g.myList[p] = h.myList[p] /\ h.myList[p] \in ReadyPriorities(h)
  <2>1. p # f /\ g.myList[p] = h.myList[p]
    BY <1>2, <1>3, <1>4, <1>5
  <2>2. ~IsEmptyList(h, h.myList[p])
    BY <1>5, <2>1, EmptyIffNobody DEF List
  <2> QED
    BY <1>5, <2>1, <2>2 DEF ReadyPriorities
<1>6. OwnQueues(g)
  BY <1>5, ReadyPrioritiesAreLists DEF OwnQueues
<1>7. Tops(g)
  BY <1>1, <1>2, <1>4, <1>5 DEF Tops
<1> QED
  BY <1>6, <1>7

\* transferTo(wakeHighestPriority()).
LEMMA TransferringTops ==
    ASSUME NEW h, GoodHeap(h), ListedSaved(h), OwnQueues(h), ReadyPriorities(h) # {}
    PROVE  LET g == TransferToHighestPriority(h) IN OwnQueues(g) /\ Tops(g)
<1> DEFINE i == Highest(ReadyPriorities(h))
           g == SwitchToHeadOf(h, i)
<1>1. i \in ReadyPriorities(h)
  BY ReadyPrioritiesAreLists, HighestIsHighest
<1>2. g.active = h.firstLink[i] /\ g.myList = [h.myList EXCEPT ![h.firstLink[i]] = Nil]
  <2> HIDE DEF i
  <2> QED
    BY <1>1, SwitchToHead
<1>3. TransferToHighestPriority(h) = g
  BY DEF TransferToHighestPriority
<1> HIDE DEF g
<1> QED
  BY <1>2, <1>3, HighestHeadTops

\* Preemption by a head of at least the running priority.
LEMMA PreemptingTops ==
    ASSUME NEW h, Schedulable(h), OwnQueues(h), NEW i \in ReadyPriorities(h)
    PROVE  LET g == PreemptByHeadOf(h, i)
           IN  /\ OwnQueues(g)
               /\ Tops(h) /\ i >= Priority[h.active] => Tops(g)
<1> DEFINE f == h.firstLink[i]
           g == PreemptByHeadOf(h, i)
           a == h.active
<1>0. f \in Proc /\ Priority[f] = i
  BY HeadHasPriority, SchedulableTypes
<1>1. /\ f \in Proc /\ Priority[f] = i /\ g.active = f
      /\ g.myList = [h.myList EXCEPT ![f] = Nil, ![a] = Priority[a]]
  BY <1>0, PreemptByHead
<1>2. /\ h.myList \in [Proc -> List \union {Nil}] /\ a \in Proc /\ Nil \notin Priorities
  BY SchedulableTypes
<1>3. Priority[a] \in Nat /\ i \in Nat /\ Priorities \subseteq Nat
  BY <1>1, <1>2, PrioritiesAreNaturals
<1> HIDE DEF f, g, a
<1>4. ASSUME NEW p \in Proc, g.myList[p] \in Priorities
      PROVE  \/ p = a /\ g.myList[p] = Priority[a]
             \/ g.myList[p] = h.myList[p]
  BY <1>1, <1>2, <1>4
<1>5. OwnQueues(g)
  BY <1>4 DEF OwnQueues
<1>6. ASSUME Tops(h), i >= Priority[a] PROVE Tops(g)
  <2> SUFFICES ASSUME NEW p \in Proc, g.myList[p] \in Priorities PROVE g.myList[p] <= i
    BY <1>1 DEF Tops
  <2>1. h.myList[p] \in Priorities => h.myList[p] <= Priority[a]
    BY <1>6 DEF Tops, a
  <2>2. CASE g.myList[p] = Priority[a]
    BY <1>6, <2>2
  <2>3. CASE g.myList[p] = h.myList[p]
    <3>1. h.myList[p] <= Priority[a] /\ h.myList[p] \in Nat
      BY <1>3, <2>1, <2>3
    <3> QED
      BY <1>3, <1>6, <2>3, <3>1
  <2> QED
    BY <1>4, <2>2, <2>3
<1> QED
  BY <1>5, <1>6 DEF g, a

\* Resuming runs the resumed process if it outranks the running one.
LEMMA ResumingTops ==
    ASSUME NEW h, Schedulable(h), OwnQueues(h), NEW p \in Proc, h.myList[p] = Nil
    PROVE  LET g == ResumeProcess(h, p)
           IN  OwnQueues(g) /\ (Tops(h) => Tops(g))
<1> DEFINE a == h.active
           g == ResumeProcess(h, p)
<1>1. /\ h.myList \in [Proc -> List \union {Nil}] /\ a \in Proc /\ GoodHeap(h)
      /\ h.myList[a] = Nil
  BY SchedulableTypes
<1>2. Priority[a] \in Nat /\ Priority[p] \in Nat /\ Priorities \subseteq Nat
  BY <1>1, PrioritiesAreNaturals
<1>3. \/ /\ Priority[p] > Priority[a] /\ g.active = p
         /\ g.myList = [h.myList EXCEPT ![a] = Priority[a]]
      \/ /\ Priority[p] <= Priority[a] /\ g.active = a
         /\ g.myList = [h.myList EXCEPT ![p] = Priority[p]]
  <2>1. CASE Priority[p] > Priority[a]
    <3> DEFINE s == PutToSleep(h, a)
    <3>1. GoodHeap(s) /\ s.myList = [h.myList EXCEPT ![a] = Priority[a]]
      BY <1>1, PutToSleepKeepsLinks
    <3> HIDE DEF s
    <3>2. TransferTo(s, p).active = p /\ TransferTo(s, p).myList = s.myList
      BY <3>1, TransferKeepsLists
    <3> QED
      BY <2>1, <3>1, <3>2 DEF ResumeProcess, s
  <2>2. CASE ~(Priority[p] > Priority[a])
    BY <1>1, <1>2, <2>2, PutToSleepKeepsLinks DEF ResumeProcess
  <2> QED
    BY <2>1, <2>2
<1> HIDE DEF g
<1>4. OwnQueues(g)
  BY <1>1, <1>3 DEF OwnQueues
<1>5. ASSUME Tops(h) PROVE Tops(g)
  <2> SUFFICES ASSUME NEW q \in Proc, g.myList[q] \in Priorities
               PROVE  g.myList[q] <= Priority[g.active]
    BY DEF Tops
  <2>1. h.myList[q] \in Priorities => h.myList[q] <= Priority[a]
    BY <1>5 DEF Tops
  <2>2. \/ g.myList[q] = h.myList[q]
        \/ g.myList[q] = Priority[a] /\ g.active = p /\ Priority[p] > Priority[a]
        \/ g.myList[q] = Priority[p] /\ Priority[p] <= Priority[a] /\ g.active = a
    BY <1>1, <1>3
  <2>3. Priority[g.active] >= Priority[a] /\ Priority[g.active] \in Nat
    BY <1>2, <1>3
  <2>4. CASE g.myList[q] = h.myList[q]
    <3>1. h.myList[q] <= Priority[a] /\ h.myList[q] \in Nat
      BY <1>2, <2>1, <2>4
    <3> QED
      BY <1>2, <2>3, <2>4, <3>1
  <2>5. CASE g.myList[q] # h.myList[q]
    BY <1>2, <2>2, <2>5
  <2> QED
    BY <2>4, <2>5
<1> QED
  BY <1>4, <1>5 DEF g

\* The same for the first waiter of a semaphore.
LEMMA WakingTops ==
    ASSUME NEW h, Schedulable(h), OwnQueues(h), NEW s \in Semaphore, ~IsEmptyList(h, s)
    PROVE  LET g == WakeFirstWaiter(h, s)
           IN  OwnQueues(g) /\ (Tops(h) => Tops(g))
<1> DEFINE r == RemoveFirstLinkOfList(h, s)
           p == h.firstLink[s]
<1>1. /\ Schedulable(r) /\ p \in Proc /\ r.active = h.active
      /\ r.myList = [h.myList EXCEPT ![p] = Nil]
  BY WaitLists, FirstWaiterLeaves
<1>2. h.myList \in [Proc -> List \union {Nil}] /\ Nil \notin Priorities
  BY SchedulableTypes
<1> HIDE DEF r, p
<1>3. r.myList[p] = Nil /\ OwnQueues(r) /\ (Tops(h) => Tops(r))
  BY <1>1, <1>2 DEF OwnQueues, Tops
<1> QED
  BY <1>1, <1>3, ResumingTops DEF WakeFirstWaiter, r, p

\* ... and of a critical section.
LEMMA PassingTops ==
    ASSUME NEW h, Schedulable(h), OwnQueues(h), NEW m \in CriticalSection, ~IsEmptyList(h, m)
    PROVE  LET g == PassOwnership(h, m)
           IN  OwnQueues(g) /\ (Tops(h) => Tops(g))
<1> DEFINE p == h.firstLink[m]
           r == RemoveFirstLinkOfList(h, m)
           k == PutToSleep(r, p)
           a == h.active
           w == PutToSleep(k, a)
           g == TransferToHighestPriority(w)
<1>1. /\ Schedulable(r) /\ p \in Proc /\ p # a /\ p \in r.savedContext
      /\ r.active = a /\ r.myList = [h.myList EXCEPT ![p] = Nil]
  BY WaitLists, FirstWaiterLeaves
<1>2. /\ h.myList \in [Proc -> List \union {Nil}] /\ a \in Proc /\ h.myList[a] = Nil
      /\ Nil \notin Priorities /\ Nil \notin List
      /\ Priority[p] \in Priorities /\ Priority[a] \in Priorities
      /\ Priority[p] \in Nat /\ Priority[a] \in Nat /\ Priorities \subseteq Nat
      /\ Priority[p] \in List /\ Priority[a] \in List
  BY <1>1, SchedulableTypes, PrioritiesAreNaturals, NilAssumption
<1> HIDE DEF r, p, a
<1>3. GoodHeap(r) /\ ListedSaved(r) /\ r.myList[p] = Nil /\ r.myList[a] = Nil
  BY <1>1, <1>2 DEF Schedulable
<1>4. /\ GoodHeap(k) /\ k.myList = [r.myList EXCEPT ![p] = Priority[p]]
      /\ k.savedContext = r.savedContext /\ k.active = a
  BY <1>1, <1>3, PutToSleepKeepsLinks
<1> HIDE DEF k
<1>5. /\ GoodHeap(w) /\ w.myList = [k.myList EXCEPT ![a] = Priority[a]]
      /\ w.savedContext = k.savedContext /\ w.active = a
  BY <1>1, <1>2, <1>3, <1>4, PutToSleepKeepsLinks
<1> HIDE DEF w
<1>6. OwnQueues(r) /\ OwnQueues(k) /\ OwnQueues(w)
  BY <1>1, <1>2, <1>4, <1>5 DEF OwnQueues
<1>7. ASSUME Tops(h), Priority[p] < Priority[a] PROVE Tops(k)
  <2> SUFFICES ASSUME NEW q \in Proc, k.myList[q] \in Priorities
               PROVE  k.myList[q] <= Priority[a]
    BY <1>4 DEF Tops
  <2>1. CASE q = p
    BY <1>1, <1>2, <1>4, <1>7, <2>1
  <2>2. CASE q # p
    BY <1>1, <1>2, <1>4, <1>7, <2>2 DEF Tops, a
  <2> QED
    BY <2>1, <2>2
<1>8. OwnQueues(g) /\ Tops(g)
  <2>1. w.myList[a] = Priority[a]
    BY <1>1, <1>2, <1>4, <1>5
  <2>2. ~IsEmptyList(w, Priority[a])
    BY <1>2, <1>5, <2>1, EmptyIffNobody
  <2>3. ReadyPriorities(w) # {}
    BY <1>2, <2>2 DEF ReadyPriorities
  <2>4. ListedSaved(w)
    BY <1>1, <1>2, <1>3, <1>4, <1>5 DEF ListedSaved
  <2> QED
    BY <1>5, <1>6, <2>3, <2>4, TransferringTops
<1> HIDE DEF g
<1>9. PassOwnership(h, m) = IF Priority[p] >= Priority[a] THEN g ELSE k
  BY DEF PassOwnership, g, w, k, r, p, a
<1> QED
  BY <1>2, <1>6, <1>7, <1>8, <1>9

\* A forced yield goes to a head of at least the running priority.
LEMMA YieldsToEqual ==
    ASSUME NEW h, Schedulable(h), Tops(h), NEW i \in YieldCandidates(h)
    PROVE  i >= Priority[h.active]
<1>1. i = Priority[h.active]
  BY TopsMeansHighest DEF YieldCandidates
<1>2. Priority[h.active] \in Nat
  BY SchedulableTypes, PrioritiesAreNaturals
<1> QED
  BY <1>1, <1>2

-----------------------------------------------------------------------------
\* A step from a heap whose ready processes are in their own queues leads to
\* one, and if nobody outranked the running process nobody does afterwards.
KeepsOrder == OwnQueues(heap') /\ (Tops(heap) => Tops(heap'))

\* The running process joins a list and the highest ready one takes over.
LEMMA JoiningKeepsOrder ==
    ASSUME IInv, OwnQueues(heap), NEW l \in List,
           l \in Priorities => l = Priority[active],
           ReadyPriorities(AddLastLinkToList(heap, active, l)) # {},
           heap' = TransferToHighestPriority(AddLastLinkToList(heap, active, l))
    PROVE  KeepsOrder
<1> DEFINE w == AddLastLinkToList(heap, active, l)
<1>1. /\ GoodHeap(heap) /\ ListedSaved(heap) /\ active \in Proc /\ heap.myList[active] = Nil
      /\ heap.active = active /\ heap.myList \in [Proc -> List \union {Nil}]
  BY SchedulableTypes DEF IInv, active
<1>2. /\ GoodHeap(w) /\ w.myList = [heap.myList EXCEPT ![active] = l]
      /\ w.savedContext = heap.savedContext /\ w.active = heap.active
  BY <1>1, AddLastKeepsLinks
<1> HIDE DEF w
<1>3. ListedSaved(w) /\ OwnQueues(w)
  BY <1>1, <1>2 DEF ListedSaved, OwnQueues
<1>4. ReadyPriorities(w) # {} /\ heap' = TransferToHighestPriority(w)
  BY DEF w
<1> QED
  BY <1>2, <1>3, <1>4, TransferringTops DEF KeepsOrder

LEMMA SignalAndWaitKeepOrder ==
    ASSUME IInv, OrdinaryImage, OwnQueues(heap), NEW s \in Semaphore,
           SynchronousSignal(s) \/ PrimitiveWait(s)
    PROVE  KeepsOrder
<1>0. /\ Schedulable(heap) /\ active \in Proc /\ heap.myList[active] = Nil /\ GoodHeap(heap)
      /\ s \in List /\ s \notin Priorities
      /\ heap.myList \in [Proc -> List \union {Nil}]
  BY SchedulableTypes, WaitLists DEF IInv, active
<1>1. CASE heap' = heap
  BY <1>1 DEF KeepsOrder
<1>2. CASE SynchronousSignal(s) /\ heap' # heap
  BY <1>0, <1>2, WakingTops DEF SynchronousSignal, KeepsOrder
<1>3. CASE PrimitiveWait(s) /\ heap' # heap
  <2> DEFINE w == AddLastLinkToList(heap, active, s)
  <2>1. active # Idle /\ heap' = IF ReadyPriorities(w) = {} THEN RemoveFirstLinkOfList(w, s)
                                 ELSE TransferToHighestPriority(w)
    BY <1>3 DEF PrimitiveWait
  <2>2. ReadyPriorities(w) # {}
    BY <1>0, <2>1, SomebodyIsReadyBehind
  <2> QED
    BY <1>0, <2>1, <2>2, JoiningKeepsOrder
<1> QED
  BY <1>1, <1>2, <1>3

\* primitiveSuspend: the highest ready process takes over, or one that is
\* ready or waits leaves its list.
LEMMA SuspendKeepsOrder ==
    ASSUME IInv, OrdinaryImage, OwnQueues(heap), NEW p \in Proc,
           PrimitiveSuspendActive \/ PrimitiveSuspendOther(p)
    PROVE  KeepsOrder
<1>0. GoodHeap(heap) /\ ListedSaved(heap)
      /\ heap.myList \in [Proc -> List \union {Nil}] /\ Nil \notin Priorities
  BY SchedulableTypes DEF IInv
<1>1. CASE PrimitiveSuspendActive
  BY <1>0, <1>1, TransferringTops DEF PrimitiveSuspendActive, KeepsOrder
<1>2. CASE PrimitiveSuspendOther(p)
  <2> DEFINE g == RemoveProcessFromList(heap, p, heap.myList[p])
  <2>1. heap.myList[p] # Nil /\ heap' = [g EXCEPT !.myList[p] = Nil]
    BY <1>2, EnvironmentAssumption, NilAssumption DEF PrimitiveSuspendOther, MyList
  <2>2. /\ g \in Heap /\ g.active = heap.active
        /\ g.myList = [heap.myList EXCEPT ![p] = Nil]
    BY <1>0, <2>1, RemoveProcessKeepsLinks DEF GoodHeap
  <2> HIDE DEF g
  <2>3. heap'.active = heap.active /\ heap'.myList = [heap.myList EXCEPT ![p] = Nil]
    BY <1>0, <2>1, <2>2 DEF Heap
  <2> QED
    BY <1>0, <2>3 DEF KeepsOrder, OwnQueues, Tops
<1> QED
  BY <1>1, <1>2

\* primitiveResume and primitiveYield.
LEMMA ResumeAndYieldKeepOrder ==
    ASSUME IInv, OrdinaryImage, ContextsInOrder, OwnQueues(heap), NEW p \in Proc,
           PrimitiveResume(p) \/ PrimitiveYield
    PROVE  KeepsOrder
<1>0. Schedulable(heap) /\ GoodHeap(heap) /\ active \in Proc /\ heap.myList[active] = Nil
      /\ heap.myList \in [Proc -> List \union {Nil}]
  BY SchedulableTypes DEF IInv, active
<1>1. CASE PrimitiveResume(p)
  <2>1. heap.myList[p] = Nil /\ heap' = ResumeProcess(heap, p)
    BY <1>1, ResumedIsParked DEF PrimitiveResume
  <2> QED
    BY <1>0, <2>1, ResumingTops DEF KeepsOrder
<1>2. CASE PrimitiveYield
  <2> DEFINE q == Priority[active]
             w == AddLastLinkToList(heap, active, q)
  <2>1. q \in Priorities /\ q \in List
    BY <1>0, ReadyPrioritiesAreLists
  <2>2. heap' = TransferToHighestPriority(w)
    BY <1>2 DEF PrimitiveYield
  <2>3. GoodHeap(w) /\ w.myList = [heap.myList EXCEPT ![active] = q]
    <3> HIDE DEF q
    <3> QED
      BY <1>0, <2>1, AddLastKeepsLinks
  <2>4. ReadyPriorities(w) # {}
    <3> HIDE DEF w, q
    <3>1. w.myList[active] = q
      BY <1>0, <2>3
    <3>2. ~IsEmptyList(w, q)
      BY <1>0, <2>1, <2>3, <3>1, EmptyIffNobody
    <3> QED
      BY <2>1, <3>2 DEF ReadyPriorities
  <2> QED
    BY <2>1, <2>2, <2>4, JoiningKeepsOrder
<1> QED
  BY <1>1, <1>2

\* primitiveRelinquishProcessor may leave anybody waiting, in his own queue.
LEMMA RelinquishKeepsQueues ==
    ASSUME IInv, OrdinaryImage, OwnQueues(heap), PrimitiveRelinquishProcessor
    PROVE  OwnQueues(heap')
<1>1. ASSUME NEW h, Schedulable(h), OwnQueues(h) PROVE OwnQueues(LeaveProcessor(h))
  <2> DEFINE others == ReadyPriorities(h) \ {Priority[h.active]}
  <2>1. CASE others = {}
    BY <1>1, <2>1 DEF LeaveProcessor
  <2>2. CASE others # {}
    <3>1. Highest(others) \in ReadyPriorities(h)
      BY <2>2, ReadyPrioritiesAreLists, ExtremesExist
    <3> QED
      BY <1>1, <2>2, <3>1, PreemptingTops DEF LeaveProcessor
  <2> QED
    BY <2>1, <2>2
<1>2. Schedulable(heap)
  BY DEF IInv
<1>3. ASSUME NEW s \in Semaphore, ~IsEmptyList(heap, s)
      PROVE  Schedulable(WakeFirstWaiter(heap, s)) /\ OwnQueues(WakeFirstWaiter(heap, s))
  BY <1>2, <1>3, WakeMovesOne, WakingTops DEF OnlyMoves
<1> QED
  BY <1>1, <1>2, <1>3 DEF PrimitiveRelinquishProcessor

\* Entering a section, or leaving it to the first waiter, which runs at once if
\* it is of the same priority or higher.
LEMMA SectionsKeepOrder ==
    ASSUME IInv, OrdinaryImage, OwnQueues(heap), NEW m \in CriticalSection,
           \/ PrimitiveEnterCriticalSection(m)
           \/ PrimitiveTestAndSetOwnershipOfCriticalSection(m)
           \/ PrimitiveExitCriticalSection(m)
    PROVE  KeepsOrder
<1>0. Schedulable(heap) /\ active \in Proc /\ m \in List /\ m \notin Priorities
  BY SchedulableTypes, WaitLists DEF IInv, active
<1>1. CASE heap' = heap
  BY <1>1 DEF KeepsOrder
<1>2. CASE PrimitiveEnterCriticalSection(m) /\ heap' # heap
  <2> DEFINE w == AddLastLinkToList(heap, active, m)
  <2>1. active # Idle /\ heap' = TransferToHighestPriority(w)
    BY <1>2 DEF PrimitiveEnterCriticalSection, Claim
  <2>2. ReadyPriorities(w) # {}
    BY <1>0, <2>1, SomebodyIsReadyBehind
  <2> QED
    BY <1>0, <2>1, <2>2, JoiningKeepsOrder
<1>3. CASE PrimitiveTestAndSetOwnershipOfCriticalSection(m)
  BY <1>1, <1>3 DEF PrimitiveTestAndSetOwnershipOfCriticalSection, Claim
<1>4. CASE PrimitiveExitCriticalSection(m) /\ heap' # heap
  BY <1>0, <1>4, PassingTops DEF PrimitiveExitCriticalSection, KeepsOrder
<1> QED
  BY <1>1, <1>2, <1>3, <1>4

\* checkForPreemption runs the lowest of the higher ones, step()'s forced
\* yield the highest, or an equal.
LEMMA PreemptionKeepsOrder ==
    ASSUME IInv, OwnQueues(heap), CheckForPreemption \/ StepForceYield
    PROVE  KeepsOrder
<1>1. Schedulable(heap)
  BY DEF IInv
<1>2. CASE CheckForPreemption
  <2>1. ~Tops(heap)
    BY <1>1, <1>2, TopsMeansHighest DEF CheckForPreemption
  <2>2. /\ heap' = PreemptByHeadOf(heap, Lowest(HigherReady(heap)))
        /\ Lowest(HigherReady(heap)) \in ReadyPriorities(heap)
    BY <1>2, ChoicesAreReady DEF CheckForPreemption
  <2> QED
    BY <1>1, <2>1, <2>2, PreemptingTops DEF KeepsOrder
<1>3. CASE StepForceYield
  <2>1. PICK i \in YieldCandidates(heap) : heap' = PreemptByHeadOf(heap, i)
    BY <1>3 DEF StepForceYield
  <2>2. i \in ReadyPriorities(heap) /\ (Tops(heap) => i >= Priority[heap.active])
    BY <1>1, YieldsToEqual, ChoicesAreReady
  <2> QED
    BY <1>1, <2>1, <2>2, PreemptingTops DEF KeepsOrder
<1> QED
  BY <1>2, <1>3

\* handleForceYield: either grace has begun, or the queues were only rotated,
\* or one of equal or highest priority has taken over.
LEMMA HandleForceYieldKeepsOrder ==
    ASSUME IInv, OwnQueues(heap), NEW expired \in BOOLEAN, NEW aged \in BOOLEAN,
           HandleForceYield(expired, aged)
    PROVE  OwnQueues(heap') /\ (Tops(heap) => Tops(heap') \/ inGrace')
<1> DEFINE h         == AfterGrace(expired)
           switching == YieldCandidates(heap) # {} /\ ~GraceApplies(expired)
           agesOut   == ~switching /\ Priority[active] \in AgingPriorities /\ AgesOut(h, aged)
<1>0. /\ heap' = IF switching THEN PreemptByHeadOf(h, Highest(YieldCandidates(heap)))
                  ELSE IF agesOut THEN PreemptByHeadOf(h, Highest(LowerReady(h)))
                  ELSE h
      /\ agesOut => inGrace'
  BY DEF HandleForceYield
<1>1. Schedulable(heap) /\ heap.myList \in [Proc -> List \union {Nil}]
  BY SchedulableTypes DEF IInv
<1>2. Schedulable(h) /\ OwnQueues(h) /\ (Tops(heap) => h = heap)
  <2>1. CASE GraceApplies(expired)
    <3> DEFINE i == Highest(HigherReady(heap))
               f == heap.firstLink[i]
               r == RemoveFirstLinkOfList(heap, i)
               g == AddLastLinkToList(r, f, i)
    <3>1. h = g
      BY <2>1 DEF AfterGrace, RotateQueue
    <3>2. i \in ReadyPriorities(heap) /\ ~Tops(heap)
      BY <1>1, <2>1, ChoicesAreReady, TopsMeansHighest DEF GraceApplies
    <3> HIDE DEF i
    <3>3. OnlyMoves(heap, g, {})
      BY <1>1, <3>2, RotationRearranges
    <3>4. i \in List /\ ~IsEmptyList(heap, i) /\ GoodHeap(heap)
      BY <1>1, <3>2, ReadyPrioritiesAreLists, SchedulableTypes
    <3>5. GoodHeap(r) /\ f \in Proc /\ heap.myList[f] = i /\ r.myList = [heap.myList EXCEPT ![f] = Nil]
      BY <3>4, RemoveFirstKeepsLinks
    <3> HIDE DEF r, f
    <3>6. g.myList = [r.myList EXCEPT ![f] = i]
      BY <1>1, <3>4, <3>5, AddLastKeepsLinks
    <3> HIDE DEF g
    <3>7. g.myList = heap.myList
      BY <1>1, <3>5, <3>6
    <3> QED
      BY <3>1, <3>2, <3>3, <3>7 DEF OnlyMoves, OwnQueues
  <2>2. CASE ~GraceApplies(expired)
    BY <1>1, <2>2 DEF AfterGrace
  <2> QED
    BY <2>1, <2>2
<1>3. switching => h = heap
  BY DEF AfterGrace
<1> HIDE DEF h, switching, agesOut
<1>4. CASE switching
  <2> DEFINE i == Highest(YieldCandidates(heap))
  <2>1. i \in ReadyPriorities(heap) /\ i \in YieldCandidates(heap)
    <3>1. YieldCandidates(heap) # {} /\ YieldCandidates(heap) \subseteq Priorities
      BY <1>4, ChoicesAreReady, ReadyPrioritiesAreLists DEF switching
    <3> QED
      BY <3>1, ExtremesExist, ChoicesAreReady
  <2>2. heap' = PreemptByHeadOf(heap, i)
    BY <1>0, <1>3, <1>4
  <2> HIDE DEF i
  <2>3. Tops(heap) => i >= Priority[heap.active]
    BY <1>1, <2>1, YieldsToEqual
  <2> QED
    BY <1>1, <2>1, <2>2, <2>3, PreemptingTops
<1>5. CASE ~switching /\ agesOut
  <2>1. Highest(LowerReady(h)) \in ReadyPriorities(h)
    BY <1>5, ChoicesAreReady DEF agesOut, AgesOut
  <2> QED
    BY <1>0, <1>2, <1>5, <2>1, PreemptingTops
<1>6. CASE ~switching /\ ~agesOut
  BY <1>0, <1>2, <1>6
<1> QED
  BY <1>4, <1>5, <1>6

\* Every termination path runs the head of the highest ready queue.
LEMMA TerminationsKeepOrder ==
    ASSUME IInv, OrdinaryImage, OwnQueues(heap), TerminationStep
    PROVE  KeepsOrder
<1>1. Schedulable(heap) /\ ReadyPriorities(heap) # {}
  BY SomebodyIsReady DEF IInv, TerminationStep, TerminateAndSwitchProcess,
     TerminateAndReschedule, StuckProcessTimeout, RecursiveDoesNotUnderstand, MayTerminate
<1> DEFINE h == [heap EXCEPT !.savedContext = @ \ {heap.active}]
           i == Highest(ReadyPriorities(h))
           r == RemoveFirstLinkOfList(h, i)
           f == h.firstLink[i]
<1>2. /\ Schedulable(h) /\ h.active = heap.active /\ h.myList = heap.myList
      /\ ReadyPriorities(h) = ReadyPriorities(heap)
  BY <1>1, DroppingContext
<1>3. TerminateCurrentProcess(heap) = h
  BY <1>1, TerminatedHeap
<1> HIDE DEF h
<1>4. OwnQueues(h) /\ GoodHeap(h) /\ ListedSaved(h) /\ GoodHeap(heap) /\ ListedSaved(heap)
  BY <1>1, <1>2, SchedulableTypes DEF OwnQueues
<1>5. i \in ReadyPriorities(h) /\ i \in List /\ ~IsEmptyList(h, i)
  BY <1>1, <1>2, ReadyPrioritiesAreLists, ExtremesExist
<1>6. r \in Heap /\ r.myList = [h.myList EXCEPT ![f] = Nil]
  <2> HIDE DEF i
  <2> QED
    BY <1>4, <1>5, RemoveFirstKeepsLinks DEF GoodHeap
<1>7. ASSUME NEW C, heap' = [r EXCEPT !.active = f, !.savedContext = C]
      PROVE  KeepsOrder
  <2>1. heap'.active = f /\ heap'.myList = [h.myList EXCEPT ![f] = Nil]
    BY <1>6, <1>7 DEF Heap
  <2> QED
    BY <1>1, <1>2, <1>4, <2>1, HighestHeadTops DEF KeepsOrder
<1>8. CASE TerminateAndSwitchProcess
  <2>1. heap' = [r EXCEPT !.active = f, !.savedContext = @ \ {f}]
    BY <1>1, <1>2, <1>3, <1>8 DEF TerminateAndSwitchProcess
  <2> QED
    BY <1>7, <2>1
<1>9. CASE TerminateAndReschedule
  <2> DEFINE able == {j \in ReadyPriorities(h) :
                         h.firstLink[j] # active /\ h.firstLink[j] \in h.savedContext}
  <2>1. able = ReadyPriorities(h)
    <3> SUFFICES ASSUME NEW j \in ReadyPriorities(h)
                 PROVE  h.firstLink[j] # active /\ h.firstLink[j] \in h.savedContext
      OBVIOUS
    <3>a. j \in List /\ j \in Priorities /\ j # Nil
      BY ReadyPrioritiesAreLists, WaitLists
    <3>b. h.firstLink[j] \in Proc /\ h.myList[h.firstLink[j]] = j
      BY <1>4, HeadHasPriority
    <3>1. j # Nil /\ h.firstLink[j] \in Proc /\ h.myList[h.firstLink[j]] = j
      BY <3>a, <3>b
    <3> QED
      BY <1>2, <1>4, <3>1, SchedulableTypes DEF ListedSaved, active
  <2>2. heap' = IF able = {} THEN h
                ELSE [RemoveFirstLinkOfList(h, Highest(able)) EXCEPT
                         !.active = h.firstLink[Highest(able)]]
    BY <1>3, <1>9 DEF TerminateAndReschedule
  <2>3. heap' = [r EXCEPT !.active = f]
    <3> HIDE DEF able
    <3> QED
      BY <1>1, <1>2, <2>1, <2>2
  <2>4. heap' = [r EXCEPT !.active = f, !.savedContext = r.savedContext]
    <3> HIDE DEF r, f
    <3> QED
      BY <1>6, <2>3 DEF Heap
  <2> HIDE DEF r, f
  <2> QED
    BY <1>7, <2>4
<1>10. CASE StuckProcessTimeout
  <2>1. heap' = TransferToHighestPriority(h)
    BY <1>10 DEF StuckProcessTimeout, h, active
  <2> QED
    BY <1>1, <1>2, <1>4, <2>1, TransferringTops DEF KeepsOrder
<1>11. CASE RecursiveDoesNotUnderstand
  <2>1. heap' = TransferToHighestPriority(heap)
    BY <1>1, <1>11 DEF RecursiveDoesNotUnderstand
  <2> QED
    BY <1>1, <1>4, <2>1, TransferringTops DEF KeepsOrder
<1> QED
  BY <1>8, <1>9, <1>10, <1>11 DEF TerminationStep

\* What InversionsAreDeliberate says of each step.
LEMMA NextKeepsOrder ==
    ASSUME IInv, OrdinaryImage, ContextsInOrder, OwnQueues(heap), [Next]_vars
    PROVE  /\ OwnQueues(heap')
           /\ Tops(heap) => Tops(heap') \/ inGrace' \/ PrimitiveRelinquishProcessor
<1>1. CASE SemaphoreStep
  BY <1>1, SignalAndWaitKeepOrder DEF SemaphoreStep, KeepsOrder
<1>2. CASE ProcessStep
  <2>1. CASE PrimitiveRelinquishProcessor
    BY <2>1, RelinquishKeepsQueues
  <2>2. CASE ~PrimitiveRelinquishProcessor
    BY <1>2, <2>2, SuspendKeepsOrder, ResumeAndYieldKeepOrder
       DEF ProcessStep, KeepsOrder, OrdinaryImage
  <2> QED
    BY <2>1, <2>2
<1>3. CASE CriticalSectionStep
  BY <1>3, SectionsKeepOrder DEF CriticalSectionStep, KeepsOrder
<1>4. CASE PreemptionStep
  BY <1>4, PreemptionKeepsOrder, HandleForceYieldKeepsOrder DEF PreemptionStep, KeepsOrder
<1>5. CASE TerminationStep
  BY <1>5, TerminationsKeepOrder DEF KeepsOrder
<1>6. CASE UNCHANGED vars
  BY <1>6 DEF vars
<1> QED
  BY <1>1, <1>2, <1>3, <1>4, <1>5, <1>6 DEF Next

\* Only aging and a process that relinquishes the processor leave a process of
\* higher priority than the running one waiting in its ready queue.
THEOREM NoAccidentalInversion == ASSUME OrdinaryImage PROVE Spec => InversionsAreDeliberate
<1>1. Init => OwnQueues(heap)
  BY NilAssumption DEF Init, OwnQueues, List
<1>2. IInv /\ ContextsInOrder /\ OwnQueues(heap) /\ [Next]_vars => OwnQueues(heap)'
  BY NextKeepsOrder
<1>3. IInv /\ IInv' /\ ContextsInOrder /\ OwnQueues(heap) /\ [Next]_vars
      => [HighestRuns => HighestRuns' \/ inGrace' \/ PrimitiveRelinquishProcessor]_vars
  BY NextKeepsOrder, TopsMeansHighest DEF HighestRuns, IInv
<1>4. Spec => []OwnQueues(heap)
  BY <1>1, <1>2, InvariantHolds, ContextsStayInOrder, PTL DEF Spec
<1> QED
  BY <1>3, <1>4, InvariantHolds, ContextsStayInOrder, PTL DEF Spec, InversionsAreDeliberate

-----------------------------------------------------------------------------
(* The refinement: the heap's lists behave as the queues of ProcessQueues. *)

\* Queues are named alike.
LEMMA QueueNames ==
    /\ Abstract!Queues = List
    /\ \A h : DOMAIN QueuesOf(h) = List
    /\ \A h : \A l \in List : QueuesOf(h)[l] = LinksOf(h, l)
BY DEF Abstract!Queues, List, QueuesOf

\* addLastLinkToList is Back ...
LEMMA AddLastIsBack ==
    ASSUME NEW h, GoodHeap(h), NEW p \in Proc, NEW l \in List, h.myList[p] = Nil
    PROVE  QueuesOf(AddLastLinkToList(h, p, l)) = Abstract!Back(QueuesOf(h), p, l)
<1> DEFINE g == AddLastLinkToList(h, p, l)
<1>1. \A k \in List : LinksOf(g, k) = IF k = l THEN Append(LinksOf(h, k), p) ELSE LinksOf(h, k)
  BY AddLastAppends
<1> HIDE DEF g
<1>2. QueuesOf(g) = [k \in List |-> IF k = l THEN Append(QueuesOf(h)[k], p) ELSE QueuesOf(h)[k]]
  BY <1>1 DEF QueuesOf
<1> QED
  BY <1>2, QueueNames DEF g, Abstract!Back

\* ... removeFirstLinkOfList is WithoutHead ...
LEMMA RemoveFirstIsWithoutHead ==
    ASSUME NEW h, GoodHeap(h), NEW l \in List, ~IsEmptyList(h, l)
    PROVE  /\ QueuesOf(RemoveFirstLinkOfList(h, l)) = Abstract!WithoutHead(QueuesOf(h), l)
           /\ Abstract!Nonempty(QueuesOf(h), l)
           /\ h.firstLink[l] = Head(QueuesOf(h)[l])
<1> DEFINE g == RemoveFirstLinkOfList(h, l)
<1>1. \A k \in List : LinksOf(g, k) = IF k = l THEN Tail(LinksOf(h, k)) ELSE LinksOf(h, k)
  BY RemoveFirstTakesHead
<1> HIDE DEF g
<1>2. QueuesOf(g) = [k \in List |-> IF k = l THEN Tail(QueuesOf(h)[k]) ELSE QueuesOf(h)[k]]
  BY <1>1 DEF QueuesOf
<1>3. LinksOf(h, l) # <<>> /\ h.firstLink[l] = Head(LinksOf(h, l))
  BY FirstLinkIsHead
<1>4. QueuesOf(h)[l] = LinksOf(h, l)
  BY QueueNames
<1> QED
  BY <1>2, <1>3, <1>4, QueueNames DEF g, Abstract!WithoutHead, Abstract!Nonempty

\* ... putToSleep is Resting ...
LEMMA PutToSleepIsResting ==
    ASSUME NEW h, GoodHeap(h), NEW p \in Proc, h.myList[p] = Nil
    PROVE  QueuesOf(PutToSleep(h, p)) = Abstract!Resting(QueuesOf(h), p)
BY AddLastIsBack, ReadyPrioritiesAreLists DEF PutToSleep, Abstract!Resting

\* ... and transferTo touches no queue.
LEMMA TransferKeepsQueues ==
    ASSUME NEW h, GoodHeap(h), NEW p \in Proc
    PROVE  QueuesOf(TransferTo(h, p)) = QueuesOf(h)
<1> DEFINE g == TransferTo(h, p)
<1>1. h \in Heap
  BY DEF GoodHeap
<1>2. /\ g.nextLink = h.nextLink /\ g.myList = h.myList
      /\ g.firstLink = h.firstLink /\ g.lastLink = h.lastLink
  BY <1>1 DEF TransferTo, Heap
<1>3. GoodHeap(g)
  BY TransferKeepsLists
<1> HIDE DEF g
<1>4. \A k \in List : LinksOf(g, k) = LinksOf(h, k)
  BY <1>2, <1>3, SameLinksSameChains
<1> QED
  BY <1>4 DEF g, QueuesOf

\* The ready priorities are those of the nonempty queues.
LEMMA ReadyIsNonempty ==
    ASSUME NEW h, GoodHeap(h)
    PROVE  /\ \A l \in List : Abstract!Nonempty(QueuesOf(h), l) <=> ~IsEmptyList(h, l)
           /\ \A i \in Priorities : i \in ReadyPriorities(h) <=> Abstract!Nonempty(QueuesOf(h), i)
<1>1. \A l \in List : Abstract!Nonempty(QueuesOf(h), l) <=> ~IsEmptyList(h, l)
  BY FirstLinkIsHead, QueueNames DEF Abstract!Nonempty
<1> QED
  BY <1>1 DEF ReadyPriorities, List

-----------------------------------------------------------------------------
(* The composites as the abstract steps that run another process *)

\* The highest ready process runs.
LEMMA TransferIsRunHighest ==
    ASSUME NEW h, GoodHeap(h), ListedSaved(h), ReadyPriorities(h) # {},
           heap' = TransferToHighestPriority(h)
    PROVE  Abstract!RunHighest(QueuesOf(h))
<1> DEFINE i == Highest(ReadyPriorities(h))
           r == RemoveFirstLinkOfList(h, i)
           f == h.firstLink[i]
<1>1. /\ i \in ReadyPriorities(h) /\ i \in Priorities
      /\ \A j \in ReadyPriorities(h) : j <= i
  BY HighestIsHighest, ReadyPrioritiesAreLists
<1>2. heap' = TransferTo(r, f)
  BY DEF TransferToHighestPriority, SwitchToHeadOf
<1> HIDE DEF i
<1>3. i \in List /\ ~IsEmptyList(h, i)
  BY <1>1, ReadyPrioritiesAreLists
<1>4. GoodHeap(r) /\ f \in Proc
  BY <1>3, RemoveFirstKeepsLinks
<1>5. QueuesOf(r) = Abstract!WithoutHead(QueuesOf(h), i) /\ f = Head(QueuesOf(h)[i])
      /\ Abstract!Nonempty(QueuesOf(h), i)
  BY <1>3, RemoveFirstIsWithoutHead
<1> HIDE DEF r, f
<1>6. QueuesOf(heap') = QueuesOf(r) /\ heap'.active = f
  <2>1. QueuesOf(TransferTo(r, f)) = QueuesOf(r)
    BY <1>4, TransferKeepsQueues
  <2>2. TransferTo(r, f).active = f
    BY <1>4, TransferKeepsLists
  <2> QED
    BY <1>2, <2>1, <2>2
<1>7. \A j \in Priorities : Abstract!Nonempty(QueuesOf(h), j) => j <= i
  BY <1>1, ReadyIsNonempty
<1> QED
  BY <1>1, <1>5, <1>6, <1>7 DEF Abstract!RunHighest, active

\* The head of a queue and the running process change places.
LEMMA PreemptByHeadQueues ==
    ASSUME NEW h, Schedulable(h), NEW i \in ReadyPriorities(h)
    PROVE  LET g == PreemptByHeadOf(h, i)
               q == QueuesOf(h)
           IN  /\ QueuesOf(g) = Abstract!Resting(Abstract!WithoutHead(q, i), h.active)
               /\ g.active = Head(q[i])
               /\ i \in Priorities /\ Abstract!Nonempty(q, i)
<1> DEFINE r == RemoveFirstLinkOfList(h, i)
           f == h.firstLink[i]
           s == PutToSleep(r, h.active)
           g == TransferTo(s, f)
<1>1. i \in List /\ ~IsEmptyList(h, i) /\ i \in Priorities /\ Nil # i
  BY ReadyPrioritiesAreLists, NilAssumption
<1>2. /\ GoodHeap(h) /\ h.active \in Proc /\ h.myList[h.active] = Nil
      /\ h.myList \in [Proc -> List \union {Nil}]
  BY SchedulableTypes
<1>3. GoodHeap(r) /\ f \in Proc /\ r.myList = [h.myList EXCEPT ![f] = Nil]
  BY <1>1, <1>2, RemoveFirstKeepsLinks
<1>4. /\ QueuesOf(r) = Abstract!WithoutHead(QueuesOf(h), i) /\ f = Head(QueuesOf(h)[i])
      /\ Abstract!Nonempty(QueuesOf(h), i)
  BY <1>1, <1>2, RemoveFirstIsWithoutHead
<1> HIDE DEF r, f
<1>5. r.myList[h.active] = Nil
  BY <1>2, <1>3
<1>6. GoodHeap(s) /\ QueuesOf(s) = Abstract!Resting(QueuesOf(r), h.active)
  BY <1>2, <1>3, <1>5, PutToSleepKeepsLinks, PutToSleepIsResting
<1> HIDE DEF s
<1>7. QueuesOf(g) = QueuesOf(s) /\ g.active = f
  BY <1>3, <1>6, TransferKeepsQueues, TransferKeepsLists
<1> QED
  BY <1>1, <1>4, <1>6, <1>7 DEF g, s, r, f, PreemptByHeadOf

\* A process that is on no list runs at once or becomes ready.
LEMMA ResumeQueues ==
    ASSUME NEW h, Schedulable(h), NEW p \in Proc, h.myList[p] = Nil
    PROVE  LET g == ResumeProcess(h, p)
               q == QueuesOf(h)
           IN  IF Priority[p] > Priority[h.active]
               THEN QueuesOf(g) = Abstract!Resting(q, h.active) /\ g.active = p
               ELSE QueuesOf(g) = Abstract!Resting(q, p) /\ g.active = h.active
<1> DEFINE g == ResumeProcess(h, p)
           s == PutToSleep(h, h.active)
<1>1. GoodHeap(h) /\ h.active \in Proc /\ h.myList[h.active] = Nil
  BY SchedulableTypes
<1>2. CASE Priority[p] > Priority[h.active]
  <2>1. g = TransferTo(s, p)
    BY <1>2 DEF ResumeProcess
  <2>2. GoodHeap(s) /\ QueuesOf(s) = Abstract!Resting(QueuesOf(h), h.active)
    BY <1>1, PutToSleepKeepsLinks, PutToSleepIsResting
  <2> HIDE DEF s, g
  <2>3. QueuesOf(TransferTo(s, p)) = QueuesOf(s) /\ TransferTo(s, p).active = p
    BY <2>2, TransferKeepsQueues, TransferKeepsLists
  <2>4. QueuesOf(g) = Abstract!Resting(QueuesOf(h), h.active) /\ g.active = p
    BY <2>1, <2>2, <2>3
  <2> QED
    BY <1>2, <2>4 DEF g
<1>3. CASE ~(Priority[p] > Priority[h.active])
  <2>1. g = PutToSleep(h, p)
    BY <1>3 DEF ResumeProcess
  <2> HIDE DEF g
  <2>2. /\ QueuesOf(PutToSleep(h, p)) = Abstract!Resting(QueuesOf(h), p)
        /\ PutToSleep(h, p).active = h.active
    BY <1>1, PutToSleepKeepsLinks, PutToSleepIsResting
  <2>3. QueuesOf(g) = Abstract!Resting(QueuesOf(h), p) /\ g.active = h.active
    BY <2>1, <2>2
  <2> QED
    BY <1>3, <2>3 DEF g
<1> QED
  BY <1>2, <1>3

\* The first waiter of a wait list does so when it is woken.
LEMMA WakeQueues ==
    ASSUME NEW h, Schedulable(h), NEW l \in List \ Priorities, ~IsEmptyList(h, l)
    PROVE  LET g == WakeFirstWaiter(h, l)
               q == QueuesOf(h)
               p == Head(q[l])
               r == Abstract!WithoutHead(q, l)
           IN  /\ p \in Proc /\ Abstract!Nonempty(q, l) /\ Schedulable(g)
               /\ IF Priority[p] > Priority[h.active]
                  THEN QueuesOf(g) = Abstract!Resting(r, h.active) /\ g.active = p
                  ELSE QueuesOf(g) = Abstract!Resting(r, p) /\ g.active = h.active
<1> DEFINE p == h.firstLink[l]
           r == RemoveFirstLinkOfList(h, l)
<1>1. /\ Schedulable(r) /\ p \in Proc /\ r.active = h.active /\ p # r.active
      /\ p \in r.savedContext /\ r.myList = [h.myList EXCEPT ![p] = Nil]
  BY FirstWaiterLeaves
<1>2. /\ QueuesOf(r) = Abstract!WithoutHead(QueuesOf(h), l) /\ p = Head(QueuesOf(h)[l])
      /\ Abstract!Nonempty(QueuesOf(h), l)
  BY SchedulableTypes, RemoveFirstIsWithoutHead
<1>3. h.myList \in [Proc -> List \union {Nil}]
  BY SchedulableTypes
<1> HIDE DEF p, r
<1>4. r.myList[p] = Nil
  BY <1>1, <1>3
<1>5. Schedulable(ResumeProcess(r, p))
  BY <1>1, <1>4, ResumeOffList
<1>6. IF Priority[p] > Priority[r.active]
      THEN /\ QueuesOf(ResumeProcess(r, p)) = Abstract!Resting(QueuesOf(r), r.active)
           /\ ResumeProcess(r, p).active = p
      ELSE /\ QueuesOf(ResumeProcess(r, p)) = Abstract!Resting(QueuesOf(r), p)
           /\ ResumeProcess(r, p).active = r.active
  BY <1>1, <1>4, ResumeQueues
<1>7. WakeFirstWaiter(h, l) = ResumeProcess(r, p)
  BY DEF WakeFirstWaiter, r, p
<1> QED
  BY <1>1, <1>2, <1>5, <1>6, <1>7

-----------------------------------------------------------------------------
(* Each step of the scheduler is a step of the queues, or changes neither   *)
(* them nor who runs.                                                        *)

AbstractStep == [Abstract!AbstractNext]_(Abstract!abstractVars)

LEMMA NothingMoves ==
    ASSUME QueuesOf(heap') = QueuesOf(heap), heap'.active = heap.active
    PROVE  AbstractStep
BY DEF AbstractStep, Abstract!abstractVars, active

\* A wake-up.
LEMMA WakesAreShown ==
    ASSUME Schedulable(heap), NEW l \in Semaphore \union CriticalSection,
           ~IsEmptyList(heap, l), heap' = WakeFirstWaiter(heap, l)
    PROVE  Abstract!Wake
<1>1. l \in List \ Priorities
  BY WaitLists
<1> DEFINE q == QueuesOf(heap)
           p == Head(q[l])
           r == Abstract!WithoutHead(q, l)
<1>2. /\ Abstract!Nonempty(q, l)
      /\ IF Priority[p] > Priority[heap.active]
         THEN QueuesOf(heap') = Abstract!Resting(r, heap.active) /\ heap'.active = p
         ELSE QueuesOf(heap') = Abstract!Resting(r, p) /\ heap'.active = heap.active
  BY <1>1, WakeQueues
<1>3. Abstract!Admit(r, p)
  BY <1>2 DEF Abstract!Admit, active
<1> QED
  BY <1>2, <1>3 DEF Abstract!Wake

\* The running process joins a wait list.
LEMMA BlocksAreShown ==
    ASSUME IInv, OrdinaryImage, active # Idle, NEW l \in List,
           heap' = TransferToHighestPriority(AddLastLinkToList(heap, active, l))
    PROVE  Abstract!RunHighest(Abstract!Back(QueuesOf(heap), active, l))
<1> DEFINE w == AddLastLinkToList(heap, active, l)
<1>1. /\ GoodHeap(heap) /\ ListedSaved(heap) /\ active \in Proc /\ heap.myList[active] = Nil
      /\ heap.myList \in [Proc -> List \union {Nil}] /\ active = heap.active
  BY SchedulableTypes DEF IInv, active
<1>2. /\ GoodHeap(w) /\ w.myList = [heap.myList EXCEPT ![active] = l]
      /\ w.savedContext = heap.savedContext /\ w.active = heap.active
  BY <1>1, AddLastKeepsLinks
<1>3. QueuesOf(w) = Abstract!Back(QueuesOf(heap), active, l)
  BY <1>1, AddLastIsBack
<1>4. ReadyPriorities(w) # {}
  BY SomebodyIsReadyBehind
<1> HIDE DEF w
<1>5. ListedSaved(w)
  BY <1>1, <1>2 DEF ListedSaved
<1>6. heap' = TransferToHighestPriority(w)
  BY DEF w
<1> QED
  BY <1>2, <1>3, <1>4, <1>5, <1>6, TransferIsRunHighest

LEMMA SemaphoreStepsAreShown ==
    ASSUME IInv, OrdinaryImage, SemaphoreStep
    PROVE  AbstractStep
<1> PICK s \in Semaphore : SynchronousSignal(s) \/ PrimitiveWait(s)
  BY DEF SemaphoreStep
<1>1. CASE SynchronousSignal(s)
  <2>1. CASE IsEmptyList(heap, s)
    BY <1>1, <2>1, NothingMoves DEF SynchronousSignal
  <2>2. CASE ~IsEmptyList(heap, s)
    <3>1. Abstract!Wake
      BY <1>1, <2>2, WakesAreShown DEF IInv, SynchronousSignal
    <3> QED
      BY <3>1 DEF AbstractStep, Abstract!AbstractNext
  <2> QED
    BY <2>1, <2>2
<1>2. CASE PrimitiveWait(s)
  <2>1. CASE excessSignals[s] > 0
    BY <1>2, <2>1, NothingMoves DEF PrimitiveWait
  <2>2. CASE ~(excessSignals[s] > 0)
    <3>1. active # Idle /\ s \in List
      BY <1>2, <2>2, WaitLists DEF PrimitiveWait
    <3>2. ReadyPriorities(AddLastLinkToList(heap, active, s)) # {}
      BY <3>1, SomebodyIsReadyBehind
    <3>3. heap' = TransferToHighestPriority(AddLastLinkToList(heap, active, s))
      BY <1>2, <2>2, <3>2 DEF PrimitiveWait
    <3>4. Abstract!RunHighest(Abstract!Back(QueuesOf(heap), active, s))
      BY <3>1, <3>3, BlocksAreShown
    <3>5. Abstract!Block
      BY <3>4 DEF Abstract!Block
    <3> QED
      BY <3>5 DEF AbstractStep, Abstract!AbstractNext
  <2> QED
    BY <2>1, <2>2
<1> QED
  BY <1>1, <1>2

\* suspend, resume and yield.
LEMMA SuspensionsAreShown ==
    ASSUME IInv, OrdinaryImage, NEW p \in Proc,
           PrimitiveSuspendActive \/ PrimitiveSuspendOther(p)
    PROVE  AbstractStep
<1>1. GoodHeap(heap) /\ ListedSaved(heap) /\ Schedulable(heap)
  BY SchedulableTypes DEF IInv
<1>2. CASE PrimitiveSuspendActive
  <2>1. Abstract!RunHighest(QueuesOf(heap))
    BY <1>1, <1>2, TransferIsRunHighest DEF PrimitiveSuspendActive
  <2> QED
    BY <2>1 DEF AbstractStep, Abstract!AbstractNext, Abstract!Drop
<1>3. CASE PrimitiveSuspendOther(p)
  <2> DEFINE l == heap.myList[p]
             g == RemoveProcessFromList(heap, p, l)
             s == LinksOf(heap, l)
  <2>1. l \in List /\ l # Nil
    BY <1>3, EnvironmentAssumption, NilAssumption DEF PrimitiveSuspendOther, MyList
  <2>2. /\ GoodHeap(g) /\ g.myList = [heap.myList EXCEPT ![p] = Nil] /\ g.active = heap.active
    BY <1>1, <2>1, RemoveProcessKeepsLinks
  <2>3. heap' = g
    <3>1. heap' = [g EXCEPT !.myList[p] = Nil]
      BY <1>3 DEF PrimitiveSuspendOther, MyList
    <3>2. g \in Heap /\ g.myList[p] = Nil
      <4>1. heap.myList \in [Proc -> List \union {Nil}]
        BY <1>1, SchedulableTypes
      <4> HIDE DEF g
      <4> QED
        BY <2>2, <4>1 DEF GoodHeap
    <3> HIDE DEF g
    <3> QED
      BY <3>1, <3>2 DEF Heap
  <2>4. PICK i \in DOMAIN s : LinksOf(g, l) = SubSeq(s, 1, i - 1) \o SubSeq(s, i + 1, Len(s))
    BY <1>1, <2>1, RemoveProcessTakesOut
  <2>5. \A k \in List : k # l => LinksOf(g, k) = LinksOf(heap, k)
    BY <1>1, <2>1, RemoveProcessTakesOut
  <2> HIDE DEF g, l
  <2>6. QueuesOf(g) = [QueuesOf(heap) EXCEPT ![l] = Abstract!RemoveAt(@, i)]
    BY <2>1, <2>4, <2>5 DEF QueuesOf, Abstract!RemoveAt
  <2>7. QueuesOf(heap)[l] = s /\ l \in Abstract!Queues
    BY <2>1, QueueNames
  <2>8. QueuesOf(heap') = [QueuesOf(heap) EXCEPT ![l] = Abstract!RemoveAt(@, i)]
        /\ heap'.active = heap.active
    BY <2>2, <2>3, <2>6
  <2>9. Abstract!Suspend
    BY <2>7, <2>8 DEF Abstract!Suspend, active
  <2> QED
    BY <2>9 DEF AbstractStep, Abstract!AbstractNext
<1> QED
  BY <1>2, <1>3

LEMMA ResumesAreShown ==
    ASSUME IInv, OrdinaryImage, ContextsInOrder, NEW p \in Proc,
           PrimitiveResume(p) \/ PrimitiveYield
    PROVE  AbstractStep
<1>1. GoodHeap(heap) /\ Schedulable(heap) /\ active \in Proc /\ active = heap.active
  BY SchedulableTypes DEF IInv, active
<1>2. CASE PrimitiveResume(p)
  <2>1. p # active /\ heap.myList[p] = Nil /\ heap' = ResumeProcess(heap, p)
    BY <1>2, ResumedIsParked DEF PrimitiveResume, active
  <2>2. ASSUME NEW l \in List PROVE ~Abstract!Contains(QueuesOf(heap)[l], p)
    <3>1. Chain(heap, l, LinksOf(heap, l))
      BY <1>1, LinksAreChain
    <3>2. \A i \in 1..Len(LinksOf(heap, l)) : LinksOf(heap, l)[i] # p
      BY <2>1, <3>1, NilAssumption DEF Chain
    <3> QED
      BY <3>2, QueueNames DEF Abstract!Contains
  <2>3. Abstract!Off(p)
    BY <2>1, <2>2, QueueNames DEF Abstract!Off
  <2>4. Abstract!Admit(QueuesOf(heap), p)
    <3>1. IF Priority[p] > Priority[heap.active]
          THEN QueuesOf(heap') = Abstract!Resting(QueuesOf(heap), heap.active) /\ heap'.active = p
          ELSE QueuesOf(heap') = Abstract!Resting(QueuesOf(heap), p) /\ heap'.active = heap.active
      BY <1>1, <2>1, ResumeQueues
    <3> QED
      BY <3>1 DEF Abstract!Admit, active
  <2>5. Abstract!Start
    BY <2>3, <2>4 DEF Abstract!Start
  <2> QED
    BY <2>5 DEF AbstractStep, Abstract!AbstractNext
<1>3. CASE PrimitiveYield
  <2> DEFINE l == Priority[active]
             w == AddLastLinkToList(heap, active, l)
  <2>1. l \in List /\ l \in Priorities /\ heap.myList[active] = Nil /\ ListedSaved(heap)
        /\ heap.myList \in [Proc -> List \union {Nil}]
    BY <1>1, SchedulableTypes, ReadyPrioritiesAreLists
  <2>2. heap' = TransferToHighestPriority(w)
    BY <1>3 DEF PrimitiveYield
  <2>3. QueuesOf(w) = Abstract!Resting(QueuesOf(heap), active)
    BY <1>1, <2>1, AddLastIsBack DEF Abstract!Resting
  <2>4. /\ GoodHeap(w) /\ w.myList = [heap.myList EXCEPT ![active] = l]
        /\ w.savedContext = heap.savedContext /\ w.active = heap.active
    <3> HIDE DEF l
    <3> QED
      BY <1>1, <2>1, AddLastKeepsLinks
  <2> HIDE DEF w, l
  <2>5. ReadyPriorities(w) # {}
    <3>1. w.myList[active] = l
      BY <1>1, <2>1, <2>4
    <3>2. ~IsEmptyList(w, l)
      BY <1>1, <2>1, <2>4, <3>1, EmptyIffNobody
    <3> QED
      BY <2>1, <3>2 DEF ReadyPriorities
  <2>6. ListedSaved(w)
    BY <1>1, <2>1, <2>4 DEF ListedSaved
  <2>7. Abstract!RunHighest(QueuesOf(w))
    BY <2>2, <2>4, <2>5, <2>6, TransferIsRunHighest
  <2>8. Abstract!YieldTurn
    BY <2>3, <2>7 DEF Abstract!YieldTurn
  <2> QED
    BY <2>8 DEF AbstractStep, Abstract!AbstractNext
<1> QED
  BY <1>2, <1>3

\* Preemption by the head of a ready queue.
LEMMA PreemptionsAreShown ==
    ASSUME Schedulable(heap), NEW i \in ReadyPriorities(heap),
           heap' = PreemptByHeadOf(heap, i)
    PROVE  AbstractStep
<1>1. /\ QueuesOf(heap') = Abstract!Resting(Abstract!WithoutHead(QueuesOf(heap), i), active)
      /\ active' = Head(QueuesOf(heap)[i])
      /\ i \in Priorities /\ Abstract!Nonempty(QueuesOf(heap), i)
  BY PreemptByHeadQueues DEF active
<1>2. Abstract!Preempt
  BY <1>1 DEF Abstract!Preempt
<1> QED
  BY <1>2 DEF AbstractStep, Abstract!AbstractNext

\* relinquishProcessor leaves for another ready queue or stays.
LEMMA LeavingPreempts ==
    ASSUME NEW h
    PROVE  \/ LeaveProcessor(h) = h
           \/ \E i \in ReadyPriorities(h) : LeaveProcessor(h) = PreemptByHeadOf(h, i)
<1> DEFINE others == ReadyPriorities(h) \ {Priority[h.active]}
<1>1. CASE others = {}
  BY <1>1 DEF LeaveProcessor
<1>2. CASE others # {}
  <2>1. Highest(others) \in others
    BY <1>2, ReadyPrioritiesAreLists, ExtremesExist
  <2>2. LeaveProcessor(h) = PreemptByHeadOf(h, Highest(others))
    BY <1>2 DEF LeaveProcessor
  <2> QED
    BY <2>1, <2>2
<1> QED
  BY <1>1, <1>2

LEMMA RelinquishIsShown ==
    ASSUME IInv, PrimitiveRelinquishProcessor
    PROVE  AbstractStep
<1>1. Schedulable(heap)
  BY DEF IInv
<1>2. CASE heap' = LeaveProcessor(heap)
  <2>1. CASE heap' = heap
    BY <2>1, NothingMoves
  <2>2. CASE \E i \in ReadyPriorities(heap) : heap' = PreemptByHeadOf(heap, i)
    BY <1>1, <2>2, PreemptionsAreShown
  <2> QED
    BY <1>2, <2>1, <2>2, LeavingPreempts
<1>3. ASSUME NEW s \in Semaphore, ~IsEmptyList(heap, s),
             heap' = LeaveProcessor(WakeFirstWaiter(heap, s))
      PROVE  AbstractStep
  <2> DEFINE h == WakeFirstWaiter(heap, s)
  <2>1. CASE heap' = h
    <3>1. Abstract!Wake
      BY <1>1, <1>3, <2>1, WakesAreShown
    <3> QED
      BY <3>1 DEF AbstractStep, Abstract!AbstractNext
  <2>2. CASE \E i \in ReadyPriorities(h) : heap' = PreemptByHeadOf(h, i)
    <3> DEFINE p == Head(QueuesOf(heap)[s])
               w == Abstract!WithoutHead(QueuesOf(heap), s)
    <3>1. /\ Abstract!Nonempty(QueuesOf(heap), s) /\ Schedulable(h)
          /\ IF Priority[p] > Priority[heap.active]
             THEN QueuesOf(h) = Abstract!Resting(w, heap.active) /\ h.active = p
             ELSE QueuesOf(h) = Abstract!Resting(w, p) /\ h.active = heap.active
      BY <1>1, <1>3, WaitLists, WakeQueues
    <3>2. PICK i \in ReadyPriorities(h) : heap' = PreemptByHeadOf(h, i)
      BY <2>2
    <3> HIDE DEF h
    <3>3. /\ QueuesOf(heap') = Abstract!Resting(Abstract!WithoutHead(QueuesOf(h), i), h.active)
          /\ heap'.active = Head(QueuesOf(h)[i])
          /\ i \in Priorities /\ Abstract!Nonempty(QueuesOf(h), i)
      BY <3>1, <3>2, PreemptByHeadQueues
    <3>4. Abstract!WakeAndPreempt
      BY <3>1, <3>3, Zenon DEF Abstract!WakeAndPreempt, active
    <3> QED
      BY <3>4 DEF AbstractStep, Abstract!AbstractNext
  <2> QED
    BY <1>3, <2>1, <2>2, LeavingPreempts
<1> QED
  BY <1>2, <1>3 DEF PrimitiveRelinquishProcessor

\* Ownership is handed over.
LEMMA HandOversAreShown ==
    ASSUME Schedulable(heap), NEW m \in CriticalSection, ~IsEmptyList(heap, m),
           heap' = PassOwnership(heap, m)
    PROVE  Abstract!HandOver
<1> DEFINE p == heap.firstLink[m]
           r == RemoveFirstLinkOfList(heap, m)
           k == PutToSleep(r, p)
           w == PutToSleep(k, heap.active)
           l == Priority[heap.active]
           q == Abstract!Resting(Abstract!WithoutHead(QueuesOf(heap), m), p)
<1>1. /\ Schedulable(r) /\ p \in Proc /\ heap.myList[p] = m /\ p # r.active
      /\ p \in r.savedContext /\ r.active = heap.active
      /\ r.myList = [heap.myList EXCEPT ![p] = Nil]
  BY WaitLists, FirstWaiterLeaves
<1>2. /\ QueuesOf(r) = Abstract!WithoutHead(QueuesOf(heap), m) /\ p = Head(QueuesOf(heap)[m])
      /\ Abstract!Nonempty(QueuesOf(heap), m)
  BY SchedulableTypes, WaitLists, RemoveFirstIsWithoutHead
<1>3. /\ heap.myList \in [Proc -> List \union {Nil}] /\ heap.active \in Proc
      /\ l \in Priorities /\ l \in List
  BY SchedulableTypes, ReadyPrioritiesAreLists
<1>4. heap' = IF Priority[p] >= Priority[heap.active] THEN TransferToHighestPriority(w) ELSE k
  BY DEF PassOwnership
<1> HIDE DEF p, r
<1>5. GoodHeap(r) /\ ListedSaved(r) /\ r.myList[p] = Nil /\ r.myList[r.active] = Nil
  BY <1>1, <1>3 DEF Schedulable
<1>6. /\ GoodHeap(k) /\ k.myList = [r.myList EXCEPT ![p] = Priority[p]]
      /\ k.savedContext = r.savedContext /\ k.active = r.active /\ QueuesOf(k) = q
  <2>1. /\ GoodHeap(k) /\ k.myList = [r.myList EXCEPT ![p] = Priority[p]]
        /\ k.savedContext = r.savedContext /\ k.active = r.active
    BY <1>1, <1>5, PutToSleepKeepsLinks
  <2>2. QueuesOf(k) = Abstract!Resting(QueuesOf(r), p)
    BY <1>1, <1>5, PutToSleepIsResting
  <2> QED
    BY <1>2, <2>1, <2>2
<1> HIDE DEF k, q
<1>7. k.myList[heap.active] = Nil
  BY <1>1, <1>3, <1>5, <1>6
<1>8. /\ GoodHeap(w) /\ w.myList = [k.myList EXCEPT ![heap.active] = l]
      /\ w.savedContext = k.savedContext /\ w.active = k.active
      /\ QueuesOf(w) = Abstract!Resting(q, heap.active)
  <2>1. /\ GoodHeap(w) /\ w.myList = [k.myList EXCEPT ![heap.active] = l]
        /\ w.savedContext = k.savedContext /\ w.active = k.active
    BY <1>3, <1>6, <1>7, PutToSleepKeepsLinks
  <2>2. QueuesOf(w) = Abstract!Resting(QueuesOf(k), heap.active)
    BY <1>3, <1>6, <1>7, PutToSleepIsResting
  <2> QED
    BY <1>6, <2>1, <2>2
<1> HIDE DEF w, l
<1>9. ListedSaved(w)
  BY <1>1, <1>3, <1>5, <1>6, <1>8 DEF ListedSaved
<1>10. ReadyPriorities(w) # {}
  <2>1. w.myList[heap.active] = l
    BY <1>1, <1>3, <1>6, <1>8
  <2>a. l \in List /\ GoodHeap(w) /\ ~(\A x \in Proc : w.myList[x] # l)
    BY <1>3, <1>8, <2>1
  <2>2. ~IsEmptyList(w, l)
    BY <2>a, EmptyIffNobody
  <2> QED
    BY <1>3, <2>2 DEF ReadyPriorities
<1>11. IF Priority[p] >= Priority[active]
       THEN Abstract!RunHighest(Abstract!Resting(q, active))
       ELSE QueuesOf(heap') = q /\ active' = active
  <2>1. CASE Priority[p] >= Priority[active]
    <3>1. heap' = TransferToHighestPriority(w)
      BY <1>4, <2>1 DEF active
    <3>2. Abstract!RunHighest(QueuesOf(w))
      BY <1>8, <1>9, <1>10, <3>1, TransferIsRunHighest
    <3> QED
      BY <1>8, <2>1, <3>2 DEF active
  <2>2. CASE ~(Priority[p] >= Priority[active])
    BY <1>1, <1>4, <1>6, <2>2 DEF active
  <2> QED
    BY <2>1, <2>2
<1> QED
  BY <1>2, <1>11 DEF Abstract!HandOver, q

LEMMA SectionStepsAreShown ==
    ASSUME IInv, OrdinaryImage, CriticalSectionStep
    PROVE  AbstractStep
<1> PICK m \in CriticalSection :
        \/ PrimitiveEnterCriticalSection(m)
        \/ PrimitiveTestAndSetOwnershipOfCriticalSection(m)
        \/ PrimitiveExitCriticalSection(m)
  BY DEF CriticalSectionStep
<1>1. CASE heap' = heap
  BY <1>1, NothingMoves
<1>2. CASE PrimitiveEnterCriticalSection(m) /\ heap' # heap
  <2>1. /\ active # Idle /\ m \in List
        /\ heap' = TransferToHighestPriority(AddLastLinkToList(heap, active, m))
    BY <1>2, WaitLists DEF PrimitiveEnterCriticalSection, Claim
  <2>2. Abstract!RunHighest(Abstract!Back(QueuesOf(heap), active, m))
    BY <2>1, BlocksAreShown
  <2>3. Abstract!Block
    BY <2>2 DEF Abstract!Block
  <2> QED
    BY <2>3 DEF AbstractStep, Abstract!AbstractNext
<1>3. CASE PrimitiveExitCriticalSection(m) /\ heap' # heap
  <2>1. ~IsEmptyList(heap, m) /\ heap' = PassOwnership(heap, m) /\ Schedulable(heap)
    BY <1>3 DEF PrimitiveExitCriticalSection, IInv
  <2>2. Abstract!HandOver
    BY <2>1, HandOversAreShown
  <2> QED
    BY <2>2 DEF AbstractStep, Abstract!AbstractNext
<1>4. CASE PrimitiveTestAndSetOwnershipOfCriticalSection(m)
  BY <1>1, <1>4 DEF PrimitiveTestAndSetOwnershipOfCriticalSection, Claim
<1> QED
  BY <1>1, <1>2, <1>3, <1>4

\* A queue is rotated, in grace.
LEMMA RotateQueues ==
    ASSUME NEW h, Schedulable(h), NEW i \in ReadyPriorities(h)
    PROVE  LET g == RotateQueue(h, i)
               q == QueuesOf(h)
           IN  /\ QueuesOf(g) = Abstract!Back(Abstract!WithoutHead(q, i), Head(q[i]), i)
               /\ g.active = h.active /\ Schedulable(g)
               /\ i \in Priorities /\ Abstract!Nonempty(q, i)
<1> DEFINE r == RemoveFirstLinkOfList(h, i)
           f == h.firstLink[i]
           g == AddLastLinkToList(r, f, i)
<1>1. i \in List /\ ~IsEmptyList(h, i) /\ i \in Priorities
  BY ReadyPrioritiesAreLists
<1>2. GoodHeap(h) /\ h.myList \in [Proc -> List \union {Nil}]
  BY SchedulableTypes
<1>3. GoodHeap(r) /\ f \in Proc /\ r.myList = [h.myList EXCEPT ![f] = Nil]
  BY <1>1, <1>2, RemoveFirstKeepsLinks
<1>4. /\ QueuesOf(r) = Abstract!WithoutHead(QueuesOf(h), i) /\ f = Head(QueuesOf(h)[i])
      /\ Abstract!Nonempty(QueuesOf(h), i)
  BY <1>1, <1>2, RemoveFirstIsWithoutHead
<1>5. g.active = h.active /\ Schedulable(g)
  BY RotationRearranges DEF OnlyMoves
<1> HIDE DEF r, f
<1>6. r.myList[f] = Nil
  BY <1>2, <1>3
<1>7. QueuesOf(g) = Abstract!Back(QueuesOf(r), f, i)
  BY <1>1, <1>3, <1>6, AddLastIsBack
<1>8. RotateQueue(h, i) = g
  BY DEF RotateQueue, r, f
<1> HIDE DEF g
<1> QED
  BY <1>1, <1>4, <1>5, <1>7, <1>8

LEMMA PreemptionStepsAreShown ==
    ASSUME IInv, OrdinaryImage, CheckForPreemption \/ StepForceYield
    PROVE  AbstractStep
<1>1. PICK i \in ReadyPriorities(heap) : heap' = PreemptByHeadOf(heap, i)
  BY ChoicesAreReady DEF CheckForPreemption, StepForceYield
<1> QED
  BY <1>1, PreemptionsAreShown DEF IInv

\* A forced yield switches, rotates, ages out, or rotates and ages out.
LEMMA ForcedYieldsAreShown ==
    ASSUME IInv, OrdinaryImage, NEW expired \in BOOLEAN, NEW aged \in BOOLEAN,
           HandleForceYield(expired, aged)
    PROVE  AbstractStep
<1> DEFINE h         == AfterGrace(expired)
           switching == YieldCandidates(heap) # {} /\ ~GraceApplies(expired)
           agesOut   == ~switching /\ Priority[active] \in AgingPriorities /\ AgesOut(h, aged)
           i         == Highest(HigherReady(heap))
           q         == Abstract!Back(Abstract!WithoutHead(QueuesOf(heap), i),
                                      Head(QueuesOf(heap)[i]), i)
<1>0. heap' = IF switching THEN PreemptByHeadOf(h, Highest(YieldCandidates(heap)))
              ELSE IF agesOut THEN PreemptByHeadOf(h, Highest(LowerReady(h)))
              ELSE h
  BY DEF HandleForceYield
<1>1. Schedulable(heap) /\ active \in Proc
  BY SchedulableTypes DEF IInv, active
<1>2. GraceApplies(expired) =>
         /\ QueuesOf(h) = q /\ h.active = heap.active /\ Schedulable(h)
         /\ i \in Priorities /\ i > Priority[active] /\ Abstract!Nonempty(QueuesOf(heap), i)
  <2> SUFFICES ASSUME GraceApplies(expired)
               PROVE  /\ QueuesOf(h) = q /\ h.active = heap.active /\ Schedulable(h)
                      /\ i \in Priorities /\ i > Priority[active]
                      /\ Abstract!Nonempty(QueuesOf(heap), i)
    OBVIOUS
  <2>1. h = RotateQueue(heap, i)
    BY DEF AfterGrace
  <2>2. HigherReady(heap) # {} /\ HigherReady(heap) \subseteq Priorities
    BY ReadyPrioritiesAreLists DEF GraceApplies, HigherReady
  <2>3. i \in HigherReady(heap)
    BY <2>2, ExtremesExist
  <2>4. i \in ReadyPriorities(heap) /\ i > Priority[active]
    BY <2>3 DEF HigherReady, active
  <2> HIDE DEF i, h
  <2>5. /\ QueuesOf(RotateQueue(heap, i)) = q
        /\ RotateQueue(heap, i).active = heap.active /\ Schedulable(RotateQueue(heap, i))
        /\ i \in Priorities /\ Abstract!Nonempty(QueuesOf(heap), i)
    BY <1>1, <2>4, RotateQueues
  <2> QED
    BY <2>1, <2>4, <2>5
<1>3. ~GraceApplies(expired) => h = heap
  BY DEF AfterGrace
<1> HIDE DEF h, i, q
<1>4. CASE switching
  <2>1. Highest(YieldCandidates(heap)) \in ReadyPriorities(heap)
    BY <1>4, ChoicesAreReady
  <2> QED
    BY <1>0, <1>1, <1>3, <1>4, <2>1, PreemptionsAreShown
<1>5. CASE ~switching /\ agesOut
  <2> DEFINE j == Highest(LowerReady(h))
  <2>1. LowerReady(h) # {} /\ LowerReady(h) \subseteq Priorities
    BY <1>5, ReadyPrioritiesAreLists DEF AgesOut, LowerReady
  <2>2. j \in LowerReady(h)
    BY <2>1, ExtremesExist
  <2>3. j \in ReadyPriorities(h) /\ j < Priority[h.active] /\ heap' = PreemptByHeadOf(h, j)
        /\ j \in Priorities
    BY <1>0, <1>5, <2>1, <2>2 DEF LowerReady
  <2> HIDE DEF j
  <2>4. CASE ~GraceApplies(expired)
    BY <1>1, <1>3, <2>3, <2>4, PreemptionsAreShown
  <2>5. CASE GraceApplies(expired)
    <3>1. i # j
      <4>1. Priority[active] \in Nat /\ i \in Nat /\ j \in Nat /\ h.active = active
        BY <1>1, <1>2, <2>3, <2>5, PrioritiesAreNaturals DEF active
      <4> QED
        BY <1>2, <2>3, <2>5, <4>1
    <3>2. /\ QueuesOf(heap') = Abstract!Resting(Abstract!WithoutHead(q, j), active)
          /\ active' = Head(q[j]) /\ Abstract!Nonempty(q, j)
      BY <1>2, <2>3, <2>5, PreemptByHeadQueues DEF active
    <3>3. Abstract!Nonempty(QueuesOf(heap), j)
      <4>1. j \in List /\ DOMAIN QueuesOf(heap) = List /\ Abstract!Queues = List
        BY <2>3, QueueNames DEF List
      <4>2. q[j] = QueuesOf(heap)[j]
        BY <3>1, <4>1 DEF q, Abstract!Back, Abstract!WithoutHead
      <4> QED
        BY <3>2, <4>2 DEF Abstract!Nonempty
    <3>4. Abstract!RotateAndPreempt
      BY <1>2, <2>3, <2>5, <3>1, <3>2, <3>3, Zenon DEF Abstract!RotateAndPreempt, q
    <3> QED
      BY <3>4 DEF AbstractStep, Abstract!AbstractNext
  <2> QED
    BY <2>4, <2>5
<1>6. CASE ~switching /\ ~agesOut
  <2>1. heap' = h
    BY <1>0, <1>6
  <2>2. CASE ~GraceApplies(expired)
    BY <1>3, <2>1, <2>2, NothingMoves
  <2>3. CASE GraceApplies(expired)
    <3>1. Abstract!Rotate
      BY <1>2, <2>1, <2>3 DEF Abstract!Rotate, q, active
    <3> QED
      BY <3>1 DEF AbstractStep, Abstract!AbstractNext
  <2> QED
    BY <2>2, <2>3
<1> QED
  BY <1>4, <1>5, <1>6

\* Every termination path drops the running process for the highest head.
LEMMA TerminationsAreShown ==
    ASSUME IInv, OrdinaryImage, TerminationStep
    PROVE  AbstractStep
<1>1. Schedulable(heap) /\ GoodHeap(heap) /\ ListedSaved(heap) /\ ReadyPriorities(heap) # {}
  BY SomebodyIsReady, SchedulableTypes DEF IInv, TerminationStep, TerminateAndSwitchProcess,
     TerminateAndReschedule, StuckProcessTimeout, RecursiveDoesNotUnderstand, MayTerminate
<1> DEFINE h == [heap EXCEPT !.savedContext = @ \ {heap.active}]
           i == Highest(ReadyPriorities(h))
           r == RemoveFirstLinkOfList(h, i)
           f == h.firstLink[i]
<1>2. /\ Schedulable(h) /\ h.active = heap.active /\ h.myList = heap.myList
      /\ ReadyPriorities(h) = ReadyPriorities(heap)
  BY <1>1, DroppingContext
<1>3. TerminateCurrentProcess(heap) = h
  BY <1>1, TerminatedHeap
<1>4. QueuesOf(h) = QueuesOf(heap) /\ GoodHeap(h) /\ ListedSaved(h)
  <2>1. /\ h.nextLink = heap.nextLink /\ h.myList = heap.myList
        /\ h.firstLink = heap.firstLink /\ h.lastLink = heap.lastLink
    BY <1>1 DEF GoodHeap, Heap
  <2> HIDE DEF h
  <2>2. GoodHeap(h) /\ ListedSaved(h)
    BY <1>2, SchedulableTypes
  <2>3. \A k \in List : LinksOf(h, k) = LinksOf(heap, k)
    BY <1>1, <2>1, <2>2, SameLinksSameChains
  <2> QED
    BY <2>2, <2>3 DEF QueuesOf
<1> HIDE DEF h
<1>5. /\ i \in ReadyPriorities(h) /\ i \in Priorities /\ i \in List /\ ~IsEmptyList(h, i)
      /\ \A j \in ReadyPriorities(h) : j <= i
  BY <1>1, <1>2, HighestIsHighest, ReadyPrioritiesAreLists
<1>6. /\ QueuesOf(r) = Abstract!WithoutHead(QueuesOf(h), i)
      /\ Abstract!Nonempty(QueuesOf(h), i) /\ f = Head(QueuesOf(h)[i])
      /\ GoodHeap(r) /\ f \in Proc /\ r.savedContext = h.savedContext
  <2> HIDE DEF i
  <2> QED
    BY <1>4, <1>5, RemoveFirstKeepsLinks, RemoveFirstIsWithoutHead
<1>7. ASSUME NEW C \in SUBSET Proc, heap' = [r EXCEPT !.active = f, !.savedContext = C]
      PROVE  AbstractStep
  <2>1. /\ heap'.active = f /\ heap' \in Heap
        /\ heap'.nextLink = r.nextLink /\ heap'.myList = r.myList
        /\ heap'.firstLink = r.firstLink /\ heap'.lastLink = r.lastLink
    <3> HIDE DEF r, f
    <3>1. r \in Heap
      BY <1>6 DEF GoodHeap
    <3> QED
      BY <1>6, <1>7, <3>1 DEF Heap
  <2> HIDE DEF r, f, i
  <2>2. GoodHeap(heap')
    BY <1>6, <2>1, SameLinks
  <2>3. \A k \in List : LinksOf(heap', k) = LinksOf(r, k)
    BY <1>6, <2>1, <2>2, SameLinksSameChains
  <2>4. QueuesOf(heap') = Abstract!WithoutHead(QueuesOf(heap), i)
    BY <1>4, <1>6, <2>3 DEF QueuesOf
  <2>5. \A j \in Priorities : Abstract!Nonempty(QueuesOf(heap), j) => j <= i
    BY <1>4, <1>5, ReadyIsNonempty
  <2>6. Abstract!Drop
    BY <1>4, <1>5, <1>6, <2>1, <2>4, <2>5 DEF Abstract!Drop, Abstract!RunHighest, active
  <2> QED
    BY <2>6 DEF AbstractStep, Abstract!AbstractNext
<1>8. CASE TerminateAndSwitchProcess
  <2>1. heap' = [r EXCEPT !.active = f, !.savedContext = @ \ {f}]
    BY <1>1, <1>2, <1>3, <1>8 DEF TerminateAndSwitchProcess
  <2>2. r.savedContext \ {f} \in SUBSET Proc
    BY <1>4, <1>6 DEF GoodHeap, Heap
  <2> HIDE DEF r, f
  <2> QED
    BY <1>7, <2>1, <2>2
<1>9. CASE TerminateAndReschedule
  <2> DEFINE able == {j \in ReadyPriorities(h) :
                         h.firstLink[j] # active /\ h.firstLink[j] \in h.savedContext}
  <2>1. able = ReadyPriorities(h)
    <3> SUFFICES ASSUME NEW j \in ReadyPriorities(h)
                 PROVE  h.firstLink[j] # active /\ h.firstLink[j] \in h.savedContext
      OBVIOUS
    <3>1. j \in List /\ j # Nil /\ ~IsEmptyList(h, j)
      BY ReadyPrioritiesAreLists, NilAssumption
    <3>2. h.firstLink[j] \in Proc /\ h.myList[h.firstLink[j]] = j
      BY <1>4, <3>1, RemoveFirstKeepsLinks
    <3> QED
      BY <1>2, <1>4, <3>1, <3>2, SchedulableTypes DEF ListedSaved, active
  <2>2. heap' = IF able = {} THEN h
                ELSE [RemoveFirstLinkOfList(h, Highest(able)) EXCEPT
                         !.active = h.firstLink[Highest(able)]]
    BY <1>3, <1>9 DEF TerminateAndReschedule
  <2>3. heap' = [r EXCEPT !.active = f]
    <3> HIDE DEF able
    <3> QED
      BY <1>1, <1>2, <2>1, <2>2
  <2>4. r.savedContext \in SUBSET Proc /\ r \in Heap
    BY <1>4, <1>6 DEF GoodHeap, Heap
  <2> HIDE DEF r, f
  <2>5. heap' = [r EXCEPT !.active = f, !.savedContext = r.savedContext]
    BY <2>3, <2>4 DEF Heap
  <2> QED
    BY <1>7, <2>4, <2>5
<1>10. CASE StuckProcessTimeout \/ RecursiveDoesNotUnderstand
  <2>1. heap' = TransferToHighestPriority(h) \/ heap' = TransferToHighestPriority(heap)
    BY <1>1, <1>10 DEF StuckProcessTimeout, RecursiveDoesNotUnderstand, h, active
  <2>2. Abstract!RunHighest(QueuesOf(heap))
    <3>1. CASE heap' = TransferToHighestPriority(h)
      <4>1. Abstract!RunHighest(QueuesOf(h))
        BY <1>1, <1>2, <1>4, <3>1, TransferIsRunHighest
      <4> QED
        BY <1>4, <4>1
    <3>2. CASE heap' = TransferToHighestPriority(heap)
      BY <1>1, <3>2, TransferIsRunHighest
    <3> QED
      BY <2>1, <3>1, <3>2
  <2> QED
    BY <2>2 DEF AbstractStep, Abstract!AbstractNext, Abstract!Drop
<1> QED
  BY <1>8, <1>9, <1>10 DEF TerminationStep

\* The linked lists behave as FIFO queues: every primitive, and every switch
\* the VM makes on its own, does to the slots what a queue would do.
THEOREM ListsImplementQueues == ASSUME OrdinaryImage PROVE Spec => FifoScheduling
<1>1. Init => Abstract!AbstractInit
  <2> SUFFICES ASSUME Init PROVE Abstract!AbstractInit
    OBVIOUS
  <2>1. GoodHeap(heap) /\ active \in Proc
    BY InitEstablishesIInv, SchedulableTypes DEF IInv, active
  <2>2. ASSUME NEW l \in List PROVE LinksOf(heap, l) = <<>>
    <3>1. IsEmptyList(heap, l)
      BY DEF Init, IsEmptyList
    <3> QED
      BY <2>1, <3>1, FirstLinkIsHead
  <2>3. QueuesOf(heap) = [l \in List |-> <<>>]
    BY <2>2 DEF QueuesOf
  <2> QED
    BY <2>1, <2>3, QueueNames DEF Abstract!AbstractInit
<1>2. IInv /\ ContextsInOrder /\ [Next]_vars => AbstractStep
  <2> SUFFICES ASSUME IInv, ContextsInOrder, [Next]_vars PROVE AbstractStep
    OBVIOUS
  <2>1. CASE UNCHANGED vars
    BY <2>1, NothingMoves DEF vars
  <2>2. CASE SemaphoreStep
    BY <2>2, SemaphoreStepsAreShown
  <2>3. CASE ProcessStep
    BY <2>3, SuspensionsAreShown, ResumesAreShown, RelinquishIsShown, SchedulableTypes
       DEF ProcessStep, IInv
  <2>4. CASE CriticalSectionStep
    BY <2>4, SectionStepsAreShown
  <2>5. CASE PreemptionStep
    BY <2>5, PreemptionStepsAreShown, ForcedYieldsAreShown DEF PreemptionStep
  <2>6. CASE TerminationStep
    BY <2>6, TerminationsAreShown
  <2> QED
    BY <2>1, <2>2, <2>3, <2>4, <2>5, <2>6 DEF Next
<1> QED
  BY <1>1, <1>2, InvariantHolds, ContextsStayInOrder, PTL
     DEF Spec, FifoScheduling, Abstract!AbstractSpec, AbstractStep

=============================================================================
