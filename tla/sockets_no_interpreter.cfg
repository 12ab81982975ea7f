SPECIFICATION Spec
CONSTANTS
    MaxSockets = 1
    Fd <- MCFd
    MaxData = 1
    MaxSessions = 2
    MaxCalls = 3
PROPERTY
    SignalsReachInterpreter
