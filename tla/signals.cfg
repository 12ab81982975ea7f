SPECIFICATION FairSpec
CONSTANTS
    heartbeat = heartbeat  interpreter = interpreter
    Producer = {heartbeat, interpreter}
    Interpreter = interpreter
    Index = {1, 2}
    Capacity = 3
    MaxCalls = 5
CHECK_DEADLOCK FALSE
INVARIANTS TypeOK NoSilentLoss
PROPERTIES RingIsQueue SignalsArrive
