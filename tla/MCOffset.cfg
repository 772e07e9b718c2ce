\* The cycles an offset triggers on.
SPECIFICATION Spec
CONSTANTS
    PaymentInterval = 3
    IntervalTriggerOffset = 1
    IncludePreviousCycles = 0
    InitialCycle = 0
    EndCycle = 0
    IgnoreProtocolChanges = TRUE
    Windows <- OpenWindow
    StartCycle = 3
    MaxCycle = 8
    CycleBlocks = 3
    Protocols = 1
    NoPair = NoPair
    Faults = {}
INVARIANT TriggersAsDocumented
CHECK_DEADLOCK FALSE
