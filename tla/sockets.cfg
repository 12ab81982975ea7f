SPECIFICATION Spec
CONSTANTS
    MaxSockets = 2
    Fd <- MCFd
    MaxData = 1
    MaxSessions = 2
    MaxCalls = 4
INVARIANTS
    SocketsTypeOK
    NoUseAfterFree
PROPERTIES
    ConnectsAreAnswered
    ReadersAreWoken
