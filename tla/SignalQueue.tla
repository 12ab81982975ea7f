----------------------------- MODULE SignalQueue -----------------------------
(* What the VM's threads expect of signalExternalSemaphore: a FIFO queue of  *)
(* bounded length that drops a signal only when it is full.  Signals taken   *)
(* by the interpreter keep their room until it releases the whole batch.     *)
EXTENDS Naturals, Sequences

CONSTANTS Index, Limit

VARIABLES queue, unreleased, received, dropped

vars == <<queue, unreleased, received, dropped>>

Init ==
    /\ queue = <<>> /\ received = <<>>
    /\ unreleased = 0 /\ dropped = 0

Room == Len(queue) + unreleased < Limit

Offer(i) ==
    /\ Room
    /\ queue' = Append(queue, i)
    /\ UNCHANGED <<unreleased, received, dropped>>

Drop ==
    /\ ~Room
    /\ dropped' = dropped + 1
    /\ UNCHANGED <<queue, unreleased, received>>

Receive ==
    /\ queue # <<>>
    /\ received' = Append(received, Head(queue))
    /\ queue' = Tail(queue)
    /\ unreleased' = unreleased + 1
    /\ UNCHANGED dropped

Release ==
    /\ unreleased' = 0
    /\ UNCHANGED <<queue, received, dropped>>

Next == (\E i \in Index : Offer(i)) \/ Drop \/ Receive \/ Release

QueueSpec == Init /\ [][Next]_vars

=============================================================================
