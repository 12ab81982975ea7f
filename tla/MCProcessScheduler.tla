------------------------- MODULE MCProcessScheduler -------------------------
(* The small images on which TLC checks ProcessScheduler: an idle process   *)
(* (where there is one), two workers of one priority and one above them.    *)
EXTENDS ProcessSchedulerRefinement

CONSTANTS idle, a, b, c, s1, m1

MCPriority == [p \in Proc |-> CASE p = idle -> 1 [] p = c -> 3 [] OTHER -> 2]

\* Off every list but those of critical sections.
MCSuspendFrom == Priorities \union Semaphore
=============================================================================
