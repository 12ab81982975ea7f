SPECIFICATION FairSpec
CONSTANTS
    idle = idle  a = a  b = b  c = c  s1 = s1  m1 = m1  Nil = Nil
    Proc = {idle, a, b, c}
    Semaphore = {s1}
    CriticalSection = {m1}
    NumPriorities = 3
    Priority <- MCPriority
    Idle = idle
    ResumeFrom = {"parked", "active"}
    SuspendFrom <- MCSuspendFrom
    AgingPriorities = {2}
    MaxExcessSignals = 2
    MaxTerminations = 0
INVARIANTS TypeOK WellFormedLists ActiveOffLists NoLostProcess ListedHaveContext
    ActiveHasNoContext NoLostWakeup MutualExclusion OwnerIsInside
PROPERTIES InversionsAreDeliberate InversionsEnd NoStarvation
