SPECIFICATION Spec
CONSTANTS
    c1 = c1
    c2 = c2
    Clients = {c1, c2}
    Streamed = {c1}
    Modes = {"batch", "native"}
    QueueCap = 1
    EventCap = 1
    MaxSequences = 1
    MaxQueued = 1
    Tokens = {"text", "held", "stop", "bad", "eos"}
    MaxNew = 2
    MaxFaults = 2
INVARIANTS
    EngineMatchesActive
PROPERTIES
    EveryHandlerEnds
CHECK_DEADLOCK FALSE
