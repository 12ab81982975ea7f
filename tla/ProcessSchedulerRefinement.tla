--------------------- MODULE ProcessSchedulerRefinement ---------------------
(* ProcessScheduler implements ProcessQueues: walking the links of the heap  *)
(* gives the FIFO queues.                                                    *)
EXTENDS ProcessScheduler

\* The queues that walking the links of h shows.
QueuesOf(h) == [l \in List |-> LinksOf(h, l)]

Abstract == INSTANCE ProcessQueues
    WITH Ready <- Priorities,
         Wait  <- Semaphore \union CriticalSection,
         queue <- QueuesOf(heap),
         runs  <- active

\* The linked lists implement FIFO queues: what addLastLinkToList,
\* removeFirstLinkOfList and removeProcessFromList do to the slots, in the
\* order the primitives call them, is what a queue would do.
FifoScheduling == Abstract!AbstractSpec

=============================================================================
