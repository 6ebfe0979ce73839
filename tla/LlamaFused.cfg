SPECIFICATION Spec
CONSTANTS
    Layers = 2
    MaxSequence = 3
    InitialCapacity = 2
    FlashMin = 3
    Window = 2
    MaxAppend = 2
    Paths = {"fused"}
    ForkedPaths = {"fused"}
INVARIANTS ContentExact
CHECK_DEADLOCK FALSE
