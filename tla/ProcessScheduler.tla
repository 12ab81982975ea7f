-------------------------- MODULE ProcessScheduler --------------------------
(***************************************************************************)
(* Scheduling of Smalltalk processes by the interpreter thread: the        *)
(* process, semaphore and critical-section primitives, the preemption and  *)
(* forced-yield checks between bytecodes, and the VM's own ways of getting *)
(* rid of a process.  Every action is one call the interpreter thread      *)
(* completes before it fetches the next bytecode, so actions are atomic;   *)
(* the interleaving is that of the Smalltalk processes.                    *)
(***************************************************************************)
EXTENDS ProcessLists

CONSTANTS
    Idle,              \* the image's idle process, or Nil: it never blocks
    ResumeFrom,        \* places from which the image resumes a process
    SuspendFrom,       \* lists off which the image suspends a process
    AgingPriorities,   \* agingMinPri..agingMaxPri of handleForceYield
    MaxExcessSignals,  \* bound on excessSignals
    MaxTerminations    \* bound on processes the VM itself gets rid of

ASSUME IdleAssumption == Idle \in Proc \union {Nil}
ASSUME EnvironmentAssumption ==
    /\ ResumeFrom \subseteq {"parked", "active", "waiting"}
    /\ SuspendFrom \subseteq List
    /\ AgingPriorities \subseteq Priorities
    /\ MaxExcessSignals \in Nat /\ MaxTerminations \in Nat

VARIABLES
    heap,           \* the scheduling slots (module ProcessLists)
    excessSignals,  \* excessSignals[s], slot 2 of a Semaphore
    owner,          \* owner[m], slot 2 of a CriticalSection
    inGrace,        \* agingInGrace
    agingProcess,   \* agingProcBits, Nil for 0
    running,        \* running_; FALSE after stopVM
    entered,        \* history: processes that entered m and have not exited
    parked,         \* history: processes somebody took off the processor
    terminations    \* history: how often the VM got rid of a process

vars == <<heap, excessSignals, owner, inGrace, agingProcess, running,
          entered, parked, terminations>>

aging == <<inGrace, agingProcess>>
history == <<entered, parked, terminations>>

active == heap.active
MyList(p) == heap.myList[p]

Init ==
    /\ \E p \in Proc :
          /\ Idle # Nil => p = Idle
          /\ heap = [nextLink     |-> [q \in Proc |-> Nil],
                     myList       |-> [q \in Proc |-> Nil],
                     firstLink    |-> [l \in List |-> Nil],
                     lastLink     |-> [l \in List |-> Nil],
                     savedContext |-> Proc \ {p},
                     active       |-> p]
          /\ parked = Proc \ {p}
    /\ excessSignals = [s \in Semaphore |-> 0]
    /\ owner = [m \in CriticalSection |-> Nil]
    /\ inGrace = FALSE
    /\ agingProcess = Nil
    /\ running = TRUE
    /\ entered = [m \in CriticalSection |-> {}]
    /\ terminations = 0

-----------------------------------------------------------------------------
(* Semaphores *)

\* A signal wakes the first waiter or is remembered.
WakeFirstWaiter(h, s) ==
    ResumeProcess(RemoveFirstLinkOfList(h, s), h.firstLink[s])

SynchronousSignal(s) ==
    /\ running
    /\ IF IsEmptyList(heap, s)
       THEN /\ excessSignals[s] < MaxExcessSignals
            /\ excessSignals' = [excessSignals EXCEPT ![s] = @ + 1]
            /\ UNCHANGED heap
       ELSE /\ heap' = WakeFirstWaiter(heap, s)
            /\ UNCHANGED excessSignals
    /\ UNCHANGED <<owner, aging, running, history>>

FaultyWaitOffByOne(s) ==
    /\ running
    /\ excessSignals[s] >= 0
    /\ excessSignals' = [excessSignals EXCEPT ![s] = @ - 1]
    /\ UNCHANGED <<heap, owner, aging, running, history>>

FaultyWaitIgnoresExcess(s) ==
    /\ running
    /\ active # Idle
    /\ heap' = TransferToHighestPriority(AddLastLinkToList(heap, active, s))
    /\ UNCHANGED <<excessSignals, owner, aging, running, history>>

\* When nobody can run the primitive takes the first waiter off the list
\* again and fails.
PrimitiveWait(s) ==
    LET waiting == AddLastLinkToList(heap, active, s)
    IN  /\ running
        /\ IF excessSignals[s] > 0
           THEN /\ excessSignals' = [excessSignals EXCEPT ![s] = @ - 1]
                /\ UNCHANGED heap
           ELSE /\ active # Idle
                /\ heap' = IF ReadyPriorities(waiting) = {}
                           THEN RemoveFirstLinkOfList(waiting, s)
                           ELSE TransferToHighestPriority(waiting)
                /\ UNCHANGED excessSignals
        /\ UNCHANGED <<owner, aging, running, history>>

-----------------------------------------------------------------------------
(* Suspend, resume, yield, relinquish *)

\* Suspending the running process fails when no other can run.
PrimitiveSuspendActive ==
    /\ running
    /\ active # Idle
    /\ ReadyPriorities(heap) # {}
    /\ heap' = TransferToHighestPriority(heap)
    /\ parked' = parked \union {active}
    /\ UNCHANGED <<excessSignals, owner, aging, running, entered, terminations>>

PrimitiveSuspendOther(p) ==
    /\ running
    /\ p \notin {active, Idle}
    /\ MyList(p) \in SuspendFrom
    /\ heap' = [RemoveProcessFromList(heap, p, MyList(p)) EXCEPT !.myList[p] = Nil]
    /\ parked' = parked \union {p}
    /\ UNCHANGED <<excessSignals, owner, aging, running, entered, terminations>>

Place(p) == IF p = active THEN "active"
            ELSE IF MyList(p) = Nil THEN "parked" ELSE "waiting"

\* The only check is for a valid suspendedContext.
PrimitiveResume(p) ==
    /\ running
    /\ Place(p) \in ResumeFrom
    /\ p \in heap.savedContext
    /\ heap' = ResumeProcess(heap, p)
    /\ parked' = parked \ {p}
    /\ UNCHANGED <<excessSignals, owner, aging, running, entered, terminations>>

PrimitiveYield ==
    LET queue   == Priority[active]
        yielded == AddLastLinkToList(heap, active, queue)
    IN  /\ running
        /\ ~IsEmptyList(heap, queue)
        /\ heap' = TransferToHighestPriority(yielded)
        /\ UNCHANGED <<excessSignals, owner, aging, running, history>>

\* Any other priority will do, a lower one too.
LeaveProcessor(h) ==
    LET others == ReadyPriorities(h) \ {Priority[h.active]}
    IN  IF others = {} THEN h ELSE PreemptByHeadOf(h, Highest(others))

\* The pending signals of one semaphore with a waiter, or of none, are
\* processed first; the process that leaves is the one active after that.
PrimitiveRelinquishProcessor ==
    /\ running
    /\ \/ heap' = LeaveProcessor(heap)
       \/ \E s \in Semaphore :
             /\ ~IsEmptyList(heap, s)
             /\ heap' = LeaveProcessor(WakeFirstWaiter(heap, s))
    /\ UNCHANGED <<excessSignals, owner, aging, running, history>>

-----------------------------------------------------------------------------
(* Critical sections *)

Claim(m) ==
    /\ owner[m] = Nil
    /\ owner' = [owner EXCEPT ![m] = active]
    /\ entered' = [entered EXCEPT ![m] = @ \union {active}]
    /\ UNCHANGED heap

\* A process that finds itself the owner is told so and does not enter again.
PrimitiveEnterCriticalSection(m) ==
    /\ running
    /\ active # Idle
    /\ \/ Claim(m)
       \/ /\ owner[m] \notin {Nil, active}
          /\ heap' = TransferToHighestPriority(AddLastLinkToList(heap, active, m))
          /\ entered' = [entered EXCEPT ![m] = @ \union {active}]
          /\ UNCHANGED owner
    /\ UNCHANGED <<excessSignals, aging, running, parked, terminations>>

PrimitiveTestAndSetOwnershipOfCriticalSection(m) ==
    /\ running
    /\ active # Idle
    /\ Claim(m)
    /\ UNCHANGED <<excessSignals, aging, running, parked, terminations>>

\* Ownership passes to the first waiter, which becomes ready and runs now if
\* its priority is at least that of the process that exits.
PassOwnership(h, m) ==
    LET new   == h.firstLink[m]
        ready == PutToSleep(RemoveFirstLinkOfList(h, m), new)
    IN  IF Priority[new] >= Priority[h.active]
        THEN TransferToHighestPriority(PutToSleep(ready, h.active))
        ELSE ready

FaultyExitFreesSection(m) ==
    /\ running
    /\ active \in entered[m]
    /\ owner' = [owner EXCEPT ![m] = Nil]
    /\ heap' = IF IsEmptyList(heap, m) THEN heap ELSE PassOwnership(heap, m)
    /\ entered' = [entered EXCEPT ![m] = @ \ {active}]
    /\ UNCHANGED <<excessSignals, aging, running, parked, terminations>>

FaultyExitWakesSecondWaiter(m) ==
    /\ running
    /\ active \in entered[m]
    /\ owner' = [owner EXCEPT ![m] = IF heap.lastLink[m] = heap.firstLink[m] THEN Nil
                                     ELSE heap.firstLink[m]]
    /\ heap' = IF IsEmptyList(heap, m) THEN heap ELSE PassOwnership(heap, m)
    /\ entered' = [entered EXCEPT ![m] = @ \ {active}]
    /\ UNCHANGED <<excessSignals, aging, running, parked, terminations>>

\* The image exits only a section it entered (Mutex>>critical:).
PrimitiveExitCriticalSection(m) ==
    /\ running
    /\ active \in entered[m]
    /\ owner' = [owner EXCEPT ![m] = heap.firstLink[m]]
    /\ heap' = IF IsEmptyList(heap, m) THEN heap ELSE PassOwnership(heap, m)
    /\ entered' = [entered EXCEPT ![m] = @ \ {active}]
    /\ UNCHANGED <<excessSignals, aging, running, parked, terminations>>

-----------------------------------------------------------------------------
(* Preemption and forced yields, between bytecodes *)

HigherReady(h) == {i \in ReadyPriorities(h) : i > Priority[h.active]}
LowerReady(h)  == {i \in ReadyPriorities(h) : i < Priority[h.active]}

\* The scan goes upwards from the active priority, so the lowest one wins.
CheckForPreemption ==
    /\ running
    /\ HigherReady(heap) # {}
    /\ heap' = PreemptByHeadOf(heap, Lowest(HigherReady(heap)))
    /\ UNCHANGED <<excessSignals, owner, aging, running, history>>

FaultyYieldOnlyToHigher(h) ==
    IF HigherReady(h) # {} THEN {Highest(HigherReady(h))} ELSE {}
FaultyYieldOnlyToEqual(h) == ReadyPriorities(h) \intersect {Priority[h.active]}

\* The queue a forced yield takes the next process from.
YieldCandidates(h) ==
    IF HigherReady(h) # {} THEN {Highest(HigherReady(h))}
    ELSE ReadyPriorities(h) \intersect {Priority[h.active]}

\* step()'s forced yield, which the nested loop of a callback runs; its comment
\* announces aging too, and no code follows.
StepForceYield ==
    /\ running
    /\ \E i \in YieldCandidates(heap) : heap' = PreemptByHeadOf(heap, i)
    /\ UNCHANGED <<excessSignals, owner, aging, running, history>>

\* During the grace period a higher-priority head goes to the back of its
\* own queue instead of running.
GraceApplies(expired) == inGrace /\ ~expired /\ HigherReady(heap) # {}

RotateQueue(h, i) ==
    AddLastLinkToList(RemoveFirstLinkOfList(h, i), h.firstLink[i], i)

AfterGrace(expired) ==
    IF GraceApplies(expired) THEN RotateQueue(heap, Highest(HigherReady(heap)))
    ELSE heap

\* A process that keeps the processor past the threshold loses it to the
\* highest lower-priority one, and a grace period begins.
AgesOut(h, aged) ==
    /\ agingProcess = active
    /\ aged
    /\ LowerReady(h) # {}

TrackActive ==
    \/ agingProcess = Nil
    \/ agingProcess # active /\ Priority[active] <= Priority[agingProcess]

\* `expired' and `aged' are the two clock tests; time is not modelled.
HandleForceYield(expired, aged) ==
    LET h         == AfterGrace(expired)
        switching == YieldCandidates(heap) # {} /\ ~GraceApplies(expired)
        mayAge    == ~switching /\ Priority[active] \in AgingPriorities
        agesOut   == mayAge /\ AgesOut(h, aged)
    IN  /\ running
        /\ heap' = IF switching
                   THEN PreemptByHeadOf(h, Highest(YieldCandidates(heap)))
                   ELSE IF agesOut
                   THEN PreemptByHeadOf(h, Highest(LowerReady(h)))
                   ELSE h
        /\ inGrace' = (agesOut \/ (inGrace /\ ~expired))
        /\ agingProcess' = IF mayAge /\ TrackActive THEN active ELSE agingProcess
        /\ UNCHANGED <<excessSignals, owner, running, history>>

-----------------------------------------------------------------------------
(* The VM gets rid of the running process *)

MayTerminate ==
    /\ running
    /\ active # Idle
    /\ terminations < MaxTerminations
    /\ terminations' = terminations + 1

\* The active process has its context in the registers, and nil in the slot.
TerminateCurrentProcess(h) ==
    LET off == IF h.myList[h.active] = Nil THEN h
               ELSE RemoveProcessFromList(h, h.active, h.myList[h.active])
    IN  [off EXCEPT !.savedContext = @ \ {h.active},
                    !.nextLink[h.active] = Nil,
                    !.myList[h.active] = Nil]

\* Stack overflow and the watchdog: nothing of the dead process is saved.
TerminateAndSwitchProcess ==
    LET h    == TerminateCurrentProcess(heap)
        i    == Highest(ReadyPriorities(h))
        next == h.firstLink[i]
    IN  /\ MayTerminate
        /\ IF ReadyPriorities(h) = {}
           THEN heap' = h /\ running' = FALSE
           ELSE /\ heap' = [RemoveFirstLinkOfList(h, i) EXCEPT
                               !.active = next, !.savedContext = @ \ {next}]
                /\ UNCHANGED running
        /\ parked' = parked \union {active}
        /\ UNCHANGED <<excessSignals, owner, aging, entered>>

\* A return with no sender, cannotReturn:.  tryReschedule looks at the head
\* of each queue only, and leaves its suspendedContext slot as it was.
TerminateAndReschedule ==
    LET h    == TerminateCurrentProcess(heap)
        able == {i \in ReadyPriorities(h) :
                    /\ h.firstLink[i] # active
                    /\ h.firstLink[i] \in h.savedContext}
        next == Highest(able)
    IN  /\ MayTerminate
        /\ IF able = {}
           THEN heap' = h /\ running' = FALSE
           ELSE /\ heap' = [RemoveFirstLinkOfList(h, next) EXCEPT
                               !.active = h.firstLink[next]]
                /\ UNCHANGED running
        /\ parked' = parked \union {active}
        /\ UNCHANGED <<excessSignals, owner, aging, entered>>

\* The stuck-process timeout clears suspendedContext, but transferTo then
\* saves the running context in it again.
StuckProcessTimeout ==
    LET h == [heap EXCEPT !.savedContext = @ \ {active}]
    IN  /\ MayTerminate
        /\ heap' = TransferToHighestPriority(h)
        /\ parked' = IF ReadyPriorities(h) = {} THEN parked
                     ELSE parked \union {active}
        /\ UNCHANGED <<excessSignals, owner, aging, running, entered>>

\* doesNotUnderstand: is not understood: the process is dropped as it is.
RecursiveDoesNotUnderstand ==
    /\ MayTerminate
    /\ IF ReadyPriorities(heap) = {}
       THEN running' = FALSE /\ UNCHANGED <<heap, parked>>
       ELSE /\ heap' = TransferToHighestPriority(heap)
            /\ parked' = parked \union {active}
            /\ UNCHANGED running
    /\ UNCHANGED <<excessSignals, owner, aging, entered>>

-----------------------------------------------------------------------------

SemaphoreStep == \E s \in Semaphore : SynchronousSignal(s) \/ PrimitiveWait(s)

ProcessStep ==
    \/ PrimitiveSuspendActive
    \/ \E p \in Proc : PrimitiveSuspendOther(p) \/ PrimitiveResume(p)
    \/ PrimitiveYield
    \/ PrimitiveRelinquishProcessor

CriticalSectionStep ==
    \E m \in CriticalSection :
        \/ PrimitiveEnterCriticalSection(m)
        \/ PrimitiveTestAndSetOwnershipOfCriticalSection(m)
        \/ PrimitiveExitCriticalSection(m)

PreemptionStep ==
    \/ CheckForPreemption
    \/ StepForceYield
    \/ \E expired, aged \in BOOLEAN : HandleForceYield(expired, aged)

TerminationStep ==
    \/ TerminateAndSwitchProcess
    \/ TerminateAndReschedule
    \/ StuckProcessTimeout
    \/ RecursiveDoesNotUnderstand

Next ==
    \/ SemaphoreStep
    \/ ProcessStep
    \/ CriticalSectionStep
    \/ PreemptionStep
    \/ TerminationStep

Spec == Init /\ [][Next]_vars

-----------------------------------------------------------------------------
(* Properties *)

\* The slots hold what the image format says they hold.
TypeOK ==
    /\ heap \in Heap
    /\ excessSignals \in [Semaphore -> 0..MaxExcessSignals]
    /\ owner \in [CriticalSection -> Proc \union {Nil}]
    /\ inGrace \in BOOLEAN
    /\ agingProcess \in Proc \union {Nil}
    /\ running \in BOOLEAN
    /\ entered \in [CriticalSection -> SUBSET Proc]
    /\ parked \subseteq Proc
    /\ terminations \in 0..MaxTerminations

\* Every linked list is a chain without repetition from firstLink to lastLink,
\* of exactly the processes whose myList is that list.  (addLastLinkToList
\* does not check that a process is off its list, and removeFirstLinkOfList
\* does not check that there is a first link: their callers have to.)
WellFormedLists ==
    \A l \in List :
        LET links == LinksOf(heap, l)
        IN  /\ \A i, j \in DOMAIN links : links[i] = links[j] => i = j
            /\ {links[i] : i \in DOMAIN links} = {p \in Proc : MyList(p) = l}
            /\ heap.lastLink[l] = IF links = <<>> THEN Nil ELSE links[Len(links)]

\* The running process is on no list: a process that is on a wait list or a
\* ready queue AND active would be scheduled twice (primitiveWait's comment).
ActiveOffLists == MyList(active) = Nil

\* No process gets lost: one that neither runs nor is on a list was taken off
\* by a suspend primitive or by the VM's termination, or never resumed.
NoLostProcess == {p \in Proc : Place(p) = "parked"} = parked

\* Whoever is on a list can be resumed: transferTo will find its context.
ListedHaveContext ==
    \A p \in Proc : p # active /\ MyList(p) # Nil => p \in heap.savedContext

\* "For the ACTIVE process, suspendedContext is always nil because the context
\* is in the interpreter's registers" (terminateCurrentProcess): if it is not,
\* primitiveResume accepts the running process and makes it ready as well.
ActiveHasNoContext == active \notin heap.savedContext

\* No signal is lost on a semaphore somebody waits on: synchronousSignal wakes
\* the waiter, and primitiveWait does not wait while signals are in excess.
NoLostWakeup ==
    \A s \in Semaphore : ~IsEmptyList(heap, s) => excessSignals[s] = 0

\* p's call of primitiveEnterCriticalSection has returned and it has not yet
\* made the matching exit: a process on the wait list is not inside, unless it
\* runs all the same.
Inside(p, m) == p \in entered[m] /\ (MyList(p) = m => p = active)

\* One process at a time is inside a critical section ...
MutualExclusion ==
    \A m \in CriticalSection : \A p, q \in Proc :
        Inside(p, m) /\ Inside(q, m) => p = q

\* ... and it is the one in the owner slot; so a section with waiters has an
\* owner that will pass it on.
OwnerIsInside ==
    \A m \in CriticalSection :
        /\ \A p \in Proc : Inside(p, m) => owner[m] = p
        /\ ~IsEmptyList(heap, m) => owner[m] # Nil

\* No ready process outranks the running one.
HighestRuns == HigherReady(heap) = {}

\* Only aging, and a process that relinquishes the processor, may leave a
\* process of higher priority waiting in its ready queue: signal, resume,
\* exit, suspend, wait, yield and every termination path run the highest.
InversionsAreDeliberate ==
    [][HighestRuns => HighestRuns' \/ inGrace' \/ PrimitiveRelinquishProcessor]_vars

\* What the theorems assume of the image: it resumes only what is off every
\* list (the running process too, where the VM terminates nobody), takes nobody
\* off the wait list of a critical section, and has an idle process (the
\* actions' guards keep it from blocking or being terminated).
OrdinaryImage ==
    /\ Idle \in Proc
    /\ ResumeFrom \subseteq {"parked", "active"}
    /\ "active" \in ResumeFrom => MaxTerminations = 0
    /\ SuspendFrom \intersect CriticalSection = {}

-----------------------------------------------------------------------------
(* Liveness.  The heartbeat thread sets forceYield_ every 2 ms, and a grace *)
(* period is 100 or 500 ms long, so a forced yield after its end recurs.    *)

Fairness == WF_vars(HandleForceYield(TRUE, FALSE))

FairSpec == Spec /\ Fairness

\* A priority inversion that aging, grace or a relinquish brought about ends.
InversionsEnd == ~HighestRuns ~> HighestRuns

\* A ready process gets the processor, unless higher ones take it again and
\* again: equals take turns, and grace periods do not rotate it back forever.
NoStarvation ==
    \A p \in Proc :
        []<>(MyList(p) # Priority[p] \/ Priority[active] > Priority[p])

=============================================================================
