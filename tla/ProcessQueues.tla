---------------------------- MODULE ProcessQueues ----------------------------
(***************************************************************************)
(* What the scheduler promises, without slots and pointers: one process    *)
(* runs; every list is a FIFO queue; whoever gives up or loses the         *)
(* processor goes to the back of a queue, and whoever gets it, or is       *)
(* woken, comes from the head of one.  Only suspension takes a process out *)
(* of the middle.  Nothing is said of when the VM does which of these.     *)
(***************************************************************************)
EXTENDS Naturals, SequencesExt

CONSTANTS Proc, Ready, Wait, Priority

VARIABLES queue,  \* queue[l] is the sequence of processes on list l
          runs    \* the running process

abstractVars == <<queue, runs>>

Queues == Ready \union Wait

Off(p) == p # runs /\ \A l \in Queues : ~Contains(queue[l], p)

Back(q, p, l) == [k \in Queues |-> IF k = l THEN Append(q[k], p) ELSE q[k]]
WithoutHead(q, l) == [k \in Queues |-> IF k = l THEN Tail(q[k]) ELSE q[k]]
Nonempty(q, l) == q[l] # <<>>
Resting(q, p) == Back(q, p, Priority[p])
NoOneReady(q) == \A i \in Ready : ~Nonempty(q, i)

\* The head of the highest nonempty ready queue of q runs, if there is one.
RunHighest(q) ==
    \E i \in Ready :
        /\ Nonempty(q, i)
        /\ \A j \in Ready : Nonempty(q, j) => j <= i
        /\ runs' = Head(q[i])
        /\ queue' = WithoutHead(q, i)

\* p runs now, or it is made ready.
Admit(q, p) ==
    IF Priority[p] > Priority[runs]
    THEN queue' = Resting(q, runs) /\ runs' = p
    ELSE queue' = Resting(q, p) /\ UNCHANGED runs

Start == \E p \in Proc : Off(p) /\ Admit(queue, p)

Wake == \E l \in Wait : Nonempty(queue, l) /\ Admit(WithoutHead(queue, l), Head(queue[l]))

Block == \E l \in Wait : RunHighest(Back(queue, runs, l))

Drop == RunHighest(queue)

YieldTurn == RunHighest(Resting(queue, runs))

\* Any queue's head may be given the processor.
Preempt ==
    \E i \in Ready :
        /\ Nonempty(queue, i)
        /\ runs' = Head(queue[i])
        /\ queue' = Resting(WithoutHead(queue, i), runs)

Rotate ==
    \E i \in Ready :
        /\ Nonempty(queue, i)
        /\ queue' = Back(WithoutHead(queue, i), Head(queue[i]), i)
        /\ UNCHANGED runs

\* Grace for a queue while the running process ages out to a lower one.
RotateAndPreempt ==
    \E i, j \in Ready :
        LET q == Back(WithoutHead(queue, i), Head(queue[i]), i)
        IN  /\ Nonempty(queue, i) /\ Nonempty(queue, j) /\ i # j
            /\ runs' = Head(q[j])
            /\ queue' = Resting(WithoutHead(q, j), runs)

\* A waiter is made ready although it outranks nobody who runs, and the
\* running process competes with it for the processor.
HandOver ==
    \E l \in Wait :
        LET p == Head(queue[l])
            q == Resting(WithoutHead(queue, l), p)
        IN  /\ Nonempty(queue, l)
            /\ IF Priority[p] >= Priority[runs]
               THEN RunHighest(Resting(q, runs))
               ELSE queue' = q /\ UNCHANGED runs

\* A wake-up, and at once another process in place of the one that runs then.
WakeAndPreempt ==
    \E l \in Wait, i \in Ready :
        LET p     == Head(queue[l])
            takes == Priority[p] > Priority[runs]
            r     == IF takes THEN p ELSE runs
            q     == IF takes THEN Resting(WithoutHead(queue, l), runs)
                     ELSE Resting(WithoutHead(queue, l), p)
        IN  /\ Nonempty(queue, l) /\ Nonempty(q, i)
            /\ runs' = Head(q[i])
            /\ queue' = Resting(WithoutHead(q, i), r)

Suspend ==
    \E l \in Queues : \E i \in DOMAIN queue[l] :
        /\ queue' = [queue EXCEPT ![l] = RemoveAt(@, i)]
        /\ UNCHANGED runs

AbstractInit ==
    /\ queue = [l \in Queues |-> <<>>]
    /\ runs \in Proc

AbstractNext ==
    \/ Start \/ Wake \/ Block \/ Drop \/ YieldTurn \/ Preempt
    \/ Rotate \/ RotateAndPreempt \/ HandOver \/ WakeAndPreempt \/ Suspend

AbstractSpec == AbstractInit /\ [][AbstractNext]_abstractVars

=============================================================================
