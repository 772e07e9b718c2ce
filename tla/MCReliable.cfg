\* Only faults that lose no outcome.
SPECIFICATION FairSpec
CONSTANTS
    a1 = a1
    a2 = a2
    b1 = b1
    Recipes = {a1, a2, b1}
    Cycles = {1, 2}
    OpIds = {o1, o2}
    NoOp = NoOp
    CycleOf <- MCCycleOf
    DestOf <- MCDestOf
    Faults = {"tear", "recordError", "receiptError"}
INVARIANTS
    PaidAtMostOnce
PROPERTIES
    ImplementsLedger
    RunsEnd
CHECK_DEADLOCK FALSE
