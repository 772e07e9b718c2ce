\* Safe mode, periods of two cycles, an end cycle inside one, every fault.
SPECIFICATION Spec
CONSTANTS
    PaymentInterval = 2
    IntervalTriggerOffset = 1
    IncludePreviousCycles = 0
    InitialCycle = 2
    EndCycle = 4
    IgnoreProtocolChanges = FALSE
    Windows <- AnyWindow
    StartCycle = 4
    MaxCycle = 8
    CycleBlocks = 3
    Protocols = 3
    NoPair = NoPair
    Faults = {"retry", "prepare", "signal"}
INVARIANTS TypeOK OnlySettledCycles NoCycleSkipped NoNoticeTwice StopsAtEndCycle
PROPERTY SafeModeStops
CHECK_DEADLOCK FALSE
