SPECIFICATION CallbackSpec
CONSTANTS
    idle = idle  a = a  b = b  c = c  h1 = h1  h2 = h2  h3 = h3  h4 = h4  s1 = s1  Nil = Nil
    Proc = {idle, a, b, c, h1, h2, h3, h4}
    Semaphore = {s1}
    CriticalSection = {}
    NumPriorities = 4
    Priority <- MCPriority
    Idle = idle
    ResumeFrom = {"parked"}
    SuspendFrom = {}
    AgingPriorities = {}
    MaxExcessSignals = 3
    MaxTerminations = 0
    Handler = {h1, h2, h3, h4}
    CallbackSemaphore = s1
    MaxCallbackDepth = 3
    MaxCallbacks = 4
INVARIANTS CallbackTypeOK NoProcessLost ChainIsCStack ReturnsToOwner ServedOnce
CHECK_DEADLOCK FALSE
SYMMETRY HandlerSymmetry
