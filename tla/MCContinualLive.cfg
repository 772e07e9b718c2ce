\* Every cycle is processed; a signal ends the mode.
SPECIFICATION FairSpec
CONSTANTS
    PaymentInterval = 2
    IntervalTriggerOffset = 0
    IncludePreviousCycles = 0
    InitialCycle = 0
    EndCycle = 0
    IgnoreProtocolChanges = TRUE
    Windows <- OpenWindow
    StartCycle = 3
    MaxCycle = 6
    CycleBlocks = 3
    Protocols = 2
    NoPair = NoPair
    Faults = {"retry", "signal"}
PROPERTIES EveryCycleProcessed SignalEndsLoop
CHECK_DEADLOCK FALSE
