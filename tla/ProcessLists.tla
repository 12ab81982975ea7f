---------------------------- MODULE ProcessLists ----------------------------
(***************************************************************************)
(* The object slots through which the VM schedules Smalltalk processes,    *)
(* and the interpreter's helpers that read and write them.                 *)
(*                                                                         *)
(* A LinkedList (a ready queue, a Semaphore or a CriticalSection) has the  *)
(* slots firstLink and lastLink; a Process has nextLink, suspendedContext, *)
(* priority and myList; the ProcessorScheduler has activeProcess.  `heap'  *)
(* below is one record of all these slots, so that a helper is a function  *)
(* from heaps to heaps and a primitive composes them as the C++ code does. *)
(***************************************************************************)
EXTENDS Naturals, FiniteSets, Sequences

CONSTANTS
    Proc,             \* the Process objects of the image
    Semaphore,        \* the Semaphore objects
    CriticalSection,  \* the CriticalSection (Mutex) objects
    NumPriorities,    \* slots of ProcessorScheduler>>quiescentProcessLists
    Priority,         \* Priority[p] is the priority slot of process p
    Nil               \* the nil object

Priorities == 1..NumPriorities

\* A ready queue is named by its priority.
List == Priorities \union Semaphore \union CriticalSection

\* An image holds finitely many objects.
ASSUME ProcAssumption == IsFiniteSet(Proc)
ASSUME NilAssumption == Nil \notin Proc /\ Nil \notin List
ASSUME PriorityAssumption ==
    NumPriorities \in Nat \ {0} /\ Priority \in [Proc -> Priorities]
ASSUME ListKindsAssumption ==
    /\ Priorities \intersect Semaphore = {}
    /\ Priorities \intersect CriticalSection = {}
    /\ Semaphore \intersect CriticalSection = {}

\* savedContext is the set of processes whose suspendedContext slot holds a
\* Context; every other process has nil there.
Heap == [nextLink     : [Proc -> Proc \union {Nil}],
         myList       : [Proc -> List \union {Nil}],
         firstLink    : [List -> Proc \union {Nil}],
         lastLink     : [List -> Proc \union {Nil}],
         savedContext : SUBSET Proc,
         active       : Proc]

-----------------------------------------------------------------------------
(* Linked lists.  A definition called Faulty... is a plausible mistake in   *)
(* the helper or the action after it, which some property has to reveal.    *)

IsEmptyList(h, l) == h.firstLink[l] = Nil

FaultyAddLastLinkAtFront(h, p, l) ==
    [h EXCEPT !.nextLink[p] = h.firstLink[l],
              !.myList[p] = l,
              !.firstLink[l] = p,
              !.lastLink[l] = IF @ = Nil THEN p ELSE @]

\* The process becomes the last link, whatever list it may still be on.
AddLastLinkToList(h, p, l) ==
    [h EXCEPT !.nextLink = IF IsEmptyList(h, l)
                           THEN [@ EXCEPT ![p] = Nil]
                           ELSE [@ EXCEPT ![p] = Nil, ![h.lastLink[l]] = p],
              !.myList[p] = l,
              !.firstLink[l] = IF IsEmptyList(h, l) THEN p ELSE @,
              !.lastLink[l] = p]

FaultyRemoveFirstKeepsLast(h, l) ==
    LET first == h.firstLink[l]
    IN  IF first = Nil
        THEN h
        ELSE [h EXCEPT !.firstLink[l] = h.nextLink[first],
                       !.nextLink[first] = Nil,
                       !.myList[first] = Nil]

\* On an empty list the stores go to nil, which has no slots.
RemoveFirstLinkOfList(h, l) ==
    LET first == h.firstLink[l]
        only  == first = h.lastLink[l]
    IN  IF first = Nil
        THEN h
        ELSE [h EXCEPT !.firstLink[l] = IF only THEN Nil ELSE h.nextLink[first],
                       !.lastLink[l]  = IF only THEN Nil ELSE @,
                       !.nextLink[first] = Nil,
                       !.myList[first] = Nil]

\* The C++ code finds the predecessor by walking from firstLink.
RemoveProcessFromList(h, p, l) ==
    IF h.firstLink[l] = p
    THEN RemoveFirstLinkOfList(h, l)
    ELSE IF \E q \in Proc : h.nextLink[q] = p
    THEN LET prev == CHOOSE q \in Proc : h.nextLink[q] = p
         IN  [h EXCEPT !.nextLink = [@ EXCEPT ![prev] = h.nextLink[p], ![p] = Nil],
                       !.lastLink[l] = IF @ = p THEN prev ELSE @,
                       !.myList[p] = Nil]
    ELSE h

\* The links met on the way from firstLink, at most one more than there are
\* processes (a cycle shows as a repetition).
LinksOf(h, l) ==
    LET bound == Cardinality(Proc) + 1
        link[n \in 1..bound] ==
            IF n = 1 THEN h.firstLink[l]
            ELSE IF link[n - 1] = Nil THEN Nil ELSE h.nextLink[link[n - 1]]
        met == Cardinality({n \in 1..bound : link[n] # Nil})
    IN  SubSeq(link, 1, met)

-----------------------------------------------------------------------------
(* Ready queues *)

ReadyPriorities(h) == {i \in Priorities : ~IsEmptyList(h, i)}

Highest(S) == CHOOSE i \in S : \A j \in S : j <= i
Lowest(S)  == CHOOSE i \in S : \A j \in S : i <= j

\* Make p a ready process: the last one of its priority's queue.
PutToSleep(h, p) == AddLastLinkToList(h, p, Priority[p])

FaultyTransferDropsContext(h, p) ==
    IF p = h.active THEN h ELSE [h EXCEPT !.savedContext = @ \ {p}, !.active = p]

FaultyTransferKeepsContext(h, p) ==
    IF p = h.active
    THEN h
    ELSE [h EXCEPT !.savedContext = @ \union {h.active}, !.active = p]

\* Save the running process's context, then run p from its own.
TransferTo(h, p) ==
    IF p = h.active
    THEN h
    ELSE [h EXCEPT !.savedContext = (@ \union {h.active}) \ {p},
                   !.active = p]

\* Take the head of ready queue i off its list and run it; the process that
\* was running goes nowhere.
SwitchToHeadOf(h, i) ==
    TransferTo(RemoveFirstLinkOfList(h, i), h.firstLink[i])

FaultyPreemptKeepsHead(h, i) == TransferTo(PutToSleep(h, h.active), h.firstLink[i])
FaultyPreemptLosesActive(h, i) == SwitchToHeadOf(h, i)

\* ... or to the back of its own ready queue.
PreemptByHeadOf(h, i) ==
    TransferTo(PutToSleep(RemoveFirstLinkOfList(h, i), h.active), h.firstLink[i])

\* transferTo(wakeHighestPriority()): with no ready process, nil is the
\* argument and transferTo returns without effect.
TransferToHighestPriority(h) ==
    IF ReadyPriorities(h) = {}
    THEN h
    ELSE SwitchToHeadOf(h, Highest(ReadyPriorities(h)))

FaultyResumeNeverPreempts(h, p) == PutToSleep(h, p)

\* Make p ready, or run it at once if it outranks the running process.
ResumeProcess(h, p) ==
    IF Priority[p] > Priority[h.active]
    THEN TransferTo(PutToSleep(h, h.active), p)
    ELSE PutToSleep(h, p)

-----------------------------------------------------------------------------
(* What the helpers keep true of the slots, stated link by link *)

EmptyListsAgree(h) ==
    \A l \in List : h.firstLink[l] = Nil <=> h.lastLink[l] = Nil

EndsAreOnTheList(h) ==
    \A l \in List : h.firstLink[l] # Nil =>
        /\ h.myList[h.firstLink[l]] = l
        /\ h.myList[h.lastLink[l]] = l
        /\ h.nextLink[h.lastLink[l]] = Nil

OffListUnlinked(h) ==
    \A p \in Proc : h.myList[p] = Nil => h.nextLink[p] = Nil

LinksStayOnTheList(h) ==
    \A p \in Proc : h.nextLink[p] # Nil =>
        /\ h.myList[h.nextLink[p]] = h.myList[p]
        /\ h.nextLink[p] # h.firstLink[h.myList[p]]

NoSharedLinks(h) ==
    \A p, q \in Proc : h.nextLink[p] = h.nextLink[q] /\ h.nextLink[p] # Nil => p = q

OnlyLastEnds(h) ==
    \A p \in Proc : h.myList[p] # Nil /\ h.nextLink[p] = Nil => p = h.lastLink[h.myList[p]]

NonfirstIsLinked(h) ==
    \A p \in Proc : h.myList[p] # Nil /\ p # h.firstLink[h.myList[p]] =>
        \E q \in Proc : h.nextLink[q] = p

LinksOK(h) ==
    /\ EmptyListsAgree(h)
    /\ EndsAreOnTheList(h)
    /\ OffListUnlinked(h)
    /\ LinksStayOnTheList(h)
    /\ NoSharedLinks(h)
    /\ OnlyLastEnds(h)
    /\ NonfirstIsLinked(h)

=============================================================================
