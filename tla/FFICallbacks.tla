---------------------------- MODULE FFICallbacks ----------------------------
(***************************************************************************)
(* C functions called by a Smalltalk process that call back into the       *)
(* image.  enterInterpreterFromCallback suspends the calling process,      *)
(* signals a semaphore on which the image's handler processes wait, and    *)
(* runs a nested interpreter loop on the C stack; primitiveCallbackReturn  *)
(* asks that loop to put the caller back and to jump to the C code.        *)
(* What runs in the nested loop is the scheduler of ProcessScheduler.      *)
(***************************************************************************)
EXTENDS ProcessScheduler

CONSTANTS
    Handler,            \* the processes that answer callbacks
    CallbackSemaphore,  \* the one at g_callbackSemaphoreIndex
    MaxCallbackDepth,   \* MaxCallbackDepth
    MaxCallbacks        \* bound on the callbacks made

ASSUME CallbackAssumption ==
    /\ Handler \subseteq Proc /\ Idle \notin Handler
    /\ CallbackSemaphore \in Semaphore
    /\ MaxCallbackDepth \in Nat \ {0} /\ MaxCallbacks \in Nat

Callback == 1..MaxCallbacks
NoCallback == 0

VARIABLES
    contexts,  \* callbackContextStack_[0..callbackDepth_ - 1]
    callout,   \* special object SuspendedProcessInCallout
    pending,   \* pendingCallbackReturn_
    loops,     \* the nested loops on the C stack, the innermost last
    serving,   \* image: serving[h] is the callback that handler h works on
    woken,     \* image: the handlers whose wait has been called, not yet read
    issued,    \* how many callbacks C code has made
    disorderly \* history: one of them was made in disorder

callbackVars == <<contexts, callout, pending, loops, serving, woken, issued, disorderly>>
imageVars == <<serving, woken>>

CallbackInit ==
    /\ Init
    /\ contexts = <<>> /\ callout = Nil /\ pending = NoCallback /\ loops = <<>>
    /\ serving = [h \in Handler |-> NoCallback]
    /\ woken = {}
    /\ issued = 0
    /\ disorderly = FALSE

-----------------------------------------------------------------------------
(* Entry *)

Top(s) == s[Len(s)]
Below(s) == SubSeq(s, 1, Len(s) - 1)

FaultyPushWithoutLink(h, p) == [h EXCEPT !.savedContext = @ \union {p}]

\* The calling process is saved and linked in front of those that wait for
\* an outer C call.
PushCallout(h, p) ==
    [h EXCEPT !.savedContext = @ \union {p}, !.nextLink[p] = callout]

\* The head of the highest ready queue runs; nothing of the active process is
\* saved any more.
ReplaceActive(h) ==
    IF ReadyPriorities(h) = {} THEN h
    ELSE LET i == Highest(ReadyPriorities(h))
         IN  [RemoveFirstLinkOfList(h, i) EXCEPT
                 !.active = h.firstLink[i],
                 !.savedContext = @ \ {h.firstLink[i]}]

\* A handler calls out only from the block of the callback it serves.
MayCallOut(p) ==
    /\ p # Idle
    /\ p \in Handler => serving[p] # NoCallback

\* While a C call has not returned, another process calls out than the handler
\* that works on its callback.
CallsOverlap ==
    loops # <<>> /\ ~(active \in Handler /\ serving[active] = Top(loops).callback)

\* The handler that the callback wakes has a higher priority than its caller.
HandlerOutranksCaller ==
    LET w == heap.firstLink[CallbackSemaphore]
    IN  w # Nil /\ Priority[w] > Priority[active]

\* There is no room for the callback's context, and nobody looks.
StackIsFull == Len(contexts) >= MaxCallbackDepth

Disorder == CallsOverlap \/ HandlerOutranksCaller \/ StackIsFull

EnterInterpreterFromCallback ==
    LET h  == PushCallout(heap, active)
        id == issued + 1
        s  == CallbackSemaphore
    IN  /\ MayCallOut(active)
        /\ issued < MaxCallbacks
        /\ issued' = id
        /\ callout' = active
        /\ contexts' = IF Len(contexts) < MaxCallbackDepth THEN Append(contexts, id)
                       ELSE contexts
        /\ IF IsEmptyList(h, s)
           THEN /\ excessSignals' = [excessSignals EXCEPT ![s] = @ + 1]
                /\ heap' = ReplaceActive(h)
           ELSE /\ heap' = ReplaceActive(WakeFirstWaiter(h, s))
                /\ UNCHANGED excessSignals
        /\ loops' = Append(loops, [callback |-> id, caller |-> active,
                                   answer |-> NoCallback])
        /\ disorderly' = (disorderly \/ Disorder)
        /\ UNCHANGED <<owner, aging, running, history, pending, imageVars>>

-----------------------------------------------------------------------------
(* The image's handlers *)

\* semaphore wait
WaitForCallback ==
    /\ active \in Handler \ woken
    /\ serving[active] = NoCallback
    /\ PrimitiveWait(CallbackSemaphore)
    /\ woken' = woken \union {active}
    /\ UNCHANGED <<contexts, callout, pending, loops, serving, issued, disorderly>>

FaultyReadOldest ==
    /\ active \in woken
    /\ woken' = woken \ {active}
    /\ serving' = [serving EXCEPT ![active] = IF contexts = <<>> THEN NoCallback
                                              ELSE contexts[1]]
    /\ UNCHANGED <<vars, contexts, callout, pending, loops, issued, disorderly>>

\* The innermost context is read, not removed.
PrimitiveReadNextCallback ==
    /\ active \in woken
    /\ woken' = woken \ {active}
    /\ serving' = [serving EXCEPT ![active] = IF contexts = <<>> THEN NoCallback
                                              ELSE Top(contexts)]
    /\ UNCHANGED <<vars, contexts, callout, pending, loops, issued, disorderly>>

FaultyReturnOldest ==
    /\ active \in Handler
    /\ serving[active] # NoCallback
    /\ contexts # <<>>
    /\ pending' = contexts[1]
    /\ contexts' = Tail(contexts)
    /\ serving' = [serving EXCEPT ![active] = NoCallback]
    /\ UNCHANGED <<vars, callout, loops, woken, issued, disorderly>>

\* The image answers callbacks in LIFO order (TFRunner>>returnCallback:).
PrimitiveCallbackReturn ==
    /\ active \in Handler
    /\ serving[active] # NoCallback
    /\ \A h \in Handler : serving[h] <= serving[active]
    /\ contexts # <<>>
    /\ pending' = Top(contexts)
    /\ contexts' = Below(contexts)
    /\ serving' = [serving EXCEPT ![active] = NoCallback]
    /\ UNCHANGED <<vars, callout, loops, woken, issued, disorderly>>

-----------------------------------------------------------------------------
(* The nested loop *)

\* At the end of a batch of steps the innermost loop takes the answer, and
\* runs on for some steps more.
BeginCooldown ==
    /\ loops # <<>>
    /\ Top(loops).answer = NoCallback
    /\ pending # NoCallback
    /\ pending' = NoCallback
    /\ loops' = [loops EXCEPT ![Len(loops)].answer = pending]
    /\ UNCHANGED <<vars, contexts, callout, imageVars, issued, disorderly>>

\* The last process to be suspended in a callout runs again.
PopCallout(h) ==
    IF callout = Nil THEN h
    ELSE [h EXCEPT !.nextLink[callout] = Nil,
                   !.active = callout,
                   !.savedContext = @ \ {callout}]

SaveAndRequeue(h) ==
    PutToSleep([h EXCEPT !.savedContext = @ \union {h.active}], h.active)

NextCallout(h) == IF callout = Nil THEN Nil ELSE h.nextLink[callout]

\* siglongjmp to the C frame of callback id unwinds every loop from its own on.
\* A jump to a frame that has returned already is undefined.
JumpTo(id) ==
    LET own == {k \in DOMAIN loops : loops[k].callback = id}
    IN  \E k \in IF own = {} THEN DOMAIN loops ELSE own : loops' = SubSeq(loops, 1, k - 1)

FaultyReturnDropsProcess ==
    /\ loops # <<>>
    /\ Top(loops).answer # NoCallback
    /\ heap' = PopCallout(heap)
    /\ callout' = NextCallout(heap)
    /\ JumpTo(Top(loops).answer)
    /\ UNCHANGED <<excessSignals, owner, aging, running, history,
                   contexts, pending, imageVars, issued, disorderly>>

ReturnToC ==
    /\ loops # <<>>
    /\ Top(loops).answer # NoCallback
    /\ heap' = PopCallout(SaveAndRequeue(heap))
    /\ callout' = NextCallout(SaveAndRequeue(heap))
    /\ JumpTo(Top(loops).answer)
    /\ UNCHANGED <<excessSignals, owner, aging, running, history,
                   contexts, pending, imageVars, issued, disorderly>>

-----------------------------------------------------------------------------
(* Scheduling goes on in the nested loop as outside it. *)

SwitchProcess ==
    /\ \/ active \notin Handler /\ PrimitiveSuspendActive
       \/ \E p \in parked : PrimitiveResume(p)
       \/ PrimitiveYield
       \/ CheckForPreemption
       \/ StepForceYield
    /\ UNCHANGED callbackVars

CallbackStep ==
    \/ EnterInterpreterFromCallback
    \/ WaitForCallback
    \/ PrimitiveReadNextCallback
    \/ PrimitiveCallbackReturn
    \/ BeginCooldown
    \/ ReturnToC

CallbackNext == SwitchProcess \/ CallbackStep

CallbackSpec == CallbackInit /\ [][CallbackNext]_<<vars, callbackVars>>

-----------------------------------------------------------------------------
(* Properties *)

\* The callback stack, the C stack and the image's view of them are typed, and
\* no more signals than callbacks are outstanding.
CallbackTypeOK ==
    /\ heap \in Heap
    /\ excessSignals \in [Semaphore -> 0..MaxCallbacks]
    /\ contexts \in Seq(Callback) /\ Len(contexts) <= MaxCallbackDepth
    /\ callout \in Proc \union {Nil}
    /\ pending \in Callback \union {NoCallback}
    /\ loops \in Seq([callback : Callback, caller : Proc,
                      answer : Callback \union {NoCallback}])
    /\ serving \in [Handler -> Callback \union {NoCallback}]
    /\ woken \subseteq Handler
    /\ issued \in 0..MaxCallbacks
    /\ disorderly \in BOOLEAN

\* The other properties hold of every behaviour up to the first callback made
\* in disorder: the code checks none of the three conditions, and after each
\* of them it may lose processes and answers.

Callers == {loops[k].caller : k \in DOMAIN loops}

\* No process gets lost round a callback: whoever does not run and is on no
\* list either has been suspended or waits for its C call to return.
\* ("Without re-queuing, this process becomes permanently lost from the
\* scheduler, causing deadlocks on subsequent callbacks.")
NoProcessLost ==
    ~disorderly => {p \in Proc : Place(p) = "parked"} = parked \union Callers

CStackChained ==
    /\ callout = IF loops = <<>> THEN Nil ELSE Top(loops).caller
    /\ \A k \in DOMAIN loops :
          /\ heap.nextLink[loops[k].caller] = IF k = 1 THEN Nil ELSE loops[k - 1].caller
          /\ loops[k].caller \in heap.savedContext

\* The chain of suspended callers in the image is the C stack read from its
\* innermost frame: so a return finds the process whose C code it jumps to.
ChainIsCStack == ~disorderly => CStackChained

AnswersOwn ==
    \A k \in DOMAIN loops : loops[k].answer \in {NoCallback, loops[k].callback}

\* The loop that takes an answer is the one that was entered for the callback
\* answered: it "restores the original process, and siglongjmps back to C".
ReturnsToOwner == ~disorderly => AnswersOwn

\* Two handlers never work on one callback, and none on one already answered.
ServedOnce ==
    ~disorderly =>
    /\ \A g, h \in Handler :
          serving[g] = serving[h] /\ serving[g] # NoCallback => g = h
    /\ \A h \in Handler : serving[h] # NoCallback =>
          \E k \in DOMAIN loops : loops[k].callback = serving[h] /\ loops[k].answer = NoCallback

=============================================================================
