SPECIFICATION Spec
CONSTANTS
    idle = idle  a = a  b = b  c = c  s1 = s1  m1 = m1  Nil = Nil
    Proc = {idle, a, b, c}
    Semaphore = {s1}
    CriticalSection = {m1}
    NumPriorities = 3
    Priority <- MCPriority
    Idle = idle
    ResumeFrom = {"parked"}
    SuspendFrom <- MCSuspendFrom
    AgingPriorities = {2}
    MaxExcessSignals = 2
    MaxTerminations = 2
PROPERTY FifoScheduling
