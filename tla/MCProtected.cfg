\* A signal while payouts are executed.
SPECIFICATION Spec
CONSTANTS
    PaymentInterval = 1
    IntervalTriggerOffset = 0
    IncludePreviousCycles = 0
    InitialCycle = 0
    EndCycle = 0
    IgnoreProtocolChanges = TRUE
    Windows <- OpenWindow
    StartCycle = 3
    MaxCycle = 5
    CycleBlocks = 3
    Protocols = 1
    NoPair = NoPair
    Faults = {"signal"}
PROPERTY ProtectedFromSignals
CHECK_DEADLOCK FALSE
