SPECIFICATION Spec
CONSTANTS
    MaxSockets = 1
    Fd <- MCFd
    MaxData = 1
    MaxSessions = 1
    MaxCalls = 7
PROPERTY
    WritersAreWoken
