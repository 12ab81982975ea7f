--------------------------- MODULE ExternalSignals ---------------------------
(* The ring through which other threads signal semaphores of the image:      *)
(* signalExternalSemaphore, called by the heartbeat, UI, socket and sound    *)
(* threads and by the interpreter itself, and processPendingSignals, which   *)
(* the interpreter thread runs between bytecodes.  Every access to an atomic *)
(* is a step of its own.  Accesses are sequentially consistent here: where   *)
(* a store shows to all threads at once (ARMv8, x86) the acquire and release *)
(* of head and tail give that to callers that follow one another.  For calls *)
(* that overlap the code's order allows more.                                *)
EXTENDS Naturals, Sequences

CONSTANTS
    Producer,     \* the threads that call signalExternalSemaphore
    Interpreter,  \* the interpreter thread, when it is one of them
    Index,        \* positions of semaphores in the external objects array
    Capacity,     \* kPendingSignalCapacity
    MaxCalls      \* bound on the calls of signalExternalSemaphore

ASSUME RingAssumption ==
    /\ Capacity \in Nat /\ Capacity >= 2
    /\ Index \subseteq Nat \ {0} /\ MaxCalls \in Nat

VARIABLES
    slot,       \* pendingSignals_
    head,       \* pendingSignalHead_
    tail,       \* pendingSignalTail_
    pc,         \* pc[p]: what p did last in signalExternalSemaphore
    myHead,     \* its local `head'
    myIndex,    \* its argument
    draining,   \* the interpreter thread is in processPendingSignals,
    cur,        \*   with its local `tail'
    end,        \*   and its local `head'
    published,  \* history: the signals whose callers advanced the head
    delivered,  \* history: the indices processPendingSignals signalled
    dropped,    \* history: how often a caller found the ring full
    raced,      \* history: a caller advanced the head while another one held
                \*   the value of the head that it had loaded
    calls       \* how often signalExternalSemaphore was called

producerVars == <<pc, myHead, myIndex>>
consumerVars == <<draining, cur, end, delivered>>
vars == <<slot, head, tail, producerVars, consumerVars, published, dropped, raced, calls>>

After(position) == (position + 1) % Capacity
Distance(from, to) == (to + Capacity - from) % Capacity

Init ==
    /\ slot = [k \in 0..(Capacity - 1) |-> 0]
    /\ head = 0 /\ tail = 0
    /\ pc = [p \in Producer |-> "idle"]
    /\ myHead = [p \in Producer |-> 0]
    /\ myIndex = [p \in Producer |-> 0]
    /\ draining = FALSE /\ cur = 0 /\ end = 0
    /\ published = <<>> /\ delivered = <<>>
    /\ dropped = 0 /\ raced = FALSE /\ calls = 0

-----------------------------------------------------------------------------
(* signalExternalSemaphore *)

LoadHead(p, i) ==
    /\ pc[p] = "idle"
    /\ p = Interpreter => ~draining
    /\ calls < MaxCalls
    /\ calls' = calls + 1
    /\ myHead' = [myHead EXCEPT ![p] = head]
    /\ myIndex' = [myIndex EXCEPT ![p] = i]
    /\ pc' = [pc EXCEPT ![p] = "head loaded"]
    /\ UNCHANGED <<slot, head, tail, consumerVars, published, dropped, raced>>

FaultyLoadTail(p) ==
    /\ pc[p] = "head loaded"
    /\ pc' = [pc EXCEPT ![p] = "room found"]
    /\ UNCHANGED <<slot, head, tail, myHead, myIndex, consumerVars,
                   published, dropped, raced, calls>>

\* A full ring drops the signal: one slot always stays empty.
LoadTail(p) ==
    LET full == After(myHead[p]) = tail
    IN  /\ pc[p] = "head loaded"
        /\ pc' = [pc EXCEPT ![p] = IF full THEN "idle" ELSE "room found"]
        /\ dropped' = IF full THEN dropped + 1 ELSE dropped
        /\ UNCHANGED <<slot, head, tail, myHead, myIndex, consumerVars, published,
                       raced, calls>>

StoreSlot(p) ==
    /\ pc[p] = "room found"
    /\ slot' = [slot EXCEPT ![myHead[p]] = myIndex[p]]
    /\ pc' = [pc EXCEPT ![p] = "slot stored"]
    /\ UNCHANGED <<head, tail, myHead, myIndex, consumerVars, published, dropped,
                   raced, calls>>

FaultyStoreHeadUnwrapped(p) ==
    /\ pc[p] = "slot stored"
    /\ head' = myHead[p] + 1
    /\ published' = Append(published, myIndex[p])
    /\ pc' = [pc EXCEPT ![p] = "idle"]
    /\ raced' = (raced \/ \E q \in Producer \ {p} : pc[q] # "idle")
    /\ UNCHANGED <<slot, tail, myHead, myIndex, consumerVars, dropped, calls>>

StoreHead(p) ==
    /\ pc[p] = "slot stored"
    /\ head' = After(myHead[p])
    /\ published' = Append(published, myIndex[p])
    /\ pc' = [pc EXCEPT ![p] = "idle"]
    /\ raced' = (raced \/ \E q \in Producer \ {p} : pc[q] # "idle")
    /\ UNCHANGED <<slot, tail, myHead, myIndex, consumerVars, dropped, calls>>

-----------------------------------------------------------------------------
(* processPendingSignals *)

\* hasPendingSignals() first.  The interpreter thread is in one call at a time.
BeginDrain ==
    /\ ~draining
    /\ Interpreter \in Producer => pc[Interpreter] = "idle"
    /\ head # tail
    /\ draining' = TRUE
    /\ cur' = tail
    /\ end' = head
    /\ UNCHANGED <<slot, head, tail, producerVars, delivered, published, dropped,
                   raced, calls>>

\* One iteration; an index without a semaphore is skipped.
Deliver ==
    /\ draining
    /\ cur # end
    /\ delivered' = IF slot[cur] \in Index THEN Append(delivered, slot[cur])
                    ELSE delivered
    /\ cur' = After(cur)
    /\ UNCHANGED <<slot, head, tail, producerVars, draining, end, published, dropped,
                   raced, calls>>

FaultyEndDrainAtHead ==
    /\ draining
    /\ cur = end
    /\ tail' = head
    /\ draining' = FALSE
    /\ UNCHANGED <<slot, head, producerVars, cur, end, delivered, published, dropped,
                   raced, calls>>

\* The room of the whole batch is given back at once.
EndDrain ==
    /\ draining
    /\ cur = end
    /\ tail' = cur
    /\ draining' = FALSE
    /\ UNCHANGED <<slot, head, producerVars, cur, end, delivered, published, dropped,
                   raced, calls>>

Call(p) == \E i \in Index : LoadHead(p, i)
Continue(p) == LoadTail(p) \/ StoreSlot(p) \/ StoreHead(p)
Drain == BeginDrain \/ Deliver \/ EndDrain

Next == Drain \/ \E p \in Producer : Call(p) \/ Continue(p)

Spec == Init /\ [][Next]_vars

\* The interpreter thread polls between bytecodes, and no thread stops inside
\* signalExternalSemaphore, which does not block.
FairSpec == Spec /\ WF_vars(Drain) /\ \A p \in Producer : WF_vars(Continue(p))

-----------------------------------------------------------------------------
(* Properties *)

TypeOK ==
    /\ slot \in [0..(Capacity - 1) -> Index \union {0}]
    /\ head \in 0..(Capacity - 1) /\ tail \in 0..(Capacity - 1)
    /\ pc \in [Producer -> {"idle", "head loaded", "room found", "slot stored"}]
    /\ myHead \in [Producer -> 0..(Capacity - 1)]
    /\ myIndex \in [Producer -> Index \union {0}]
    /\ draining \in BOOLEAN
    /\ cur \in 0..(Capacity - 1) /\ end \in 0..(Capacity - 1)
    /\ published \in Seq(Index) /\ delivered \in Seq(Index)
    /\ dropped \in Nat /\ raced \in BOOLEAN /\ calls \in 0..MaxCalls

\* The next slot to deliver, and how many wait from there to the head.
First == IF draining THEN cur ELSE tail
Waiting == [k \in 1..Distance(First, head) |-> slot[(First + k - 1) % Capacity]]

\* Until callers race, a signal is lost only by one that finds the ring full:
\* what was published has been delivered or waits in the ring, in that order.
\* Calls may overlap as long as the head does not move under one of them: two
\* that load the same head write one slot and advance the head once.
NoSilentLoss == ~raced => published = delivered \o Waiting

\* The ring implements the bounded queue, until callers race.
Queue == INSTANCE SignalQueue
    WITH Limit      <- Capacity - 1,
         queue      <- Waiting,
         unreleased <- IF draining THEN Distance(tail, cur) ELSE 0,
         received   <- delivered

RingIsQueue == Queue!Init /\ [][~raced' => Queue!Next]_(Queue!vars)

\* A published signal reaches its semaphore, though the interpreter thread
\* only polls, and a batch in progress does not see what arrives meanwhile;
\* unless callers race.
SignalsArrive ==
    \A n \in 1..MaxCalls :
        ~raced /\ Len(published) = n ~> raced \/ Len(delivered) >= n

=============================================================================
