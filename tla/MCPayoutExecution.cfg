\* Every fault the environment can produce.
SPECIFICATION Spec
CONSTANTS
    a1 = a1
    a2 = a2
    b1 = b1
    Recipes = {a1, a2, b1}
    Cycles = {1, 2}
    OpIds = {o1, o2}
    NoOp = NoOp
    CycleOf <- MCCycleOf
    DestOf <- MCDestOf
    Faults = {"crash", "tear", "recordError", "reportError", "cancel", "receiptError", "lostResponse", "lag"}
SYMMETRY OpSymmetry
INVARIANTS
    TypeOK
    ReportedSuccessIsApplied
    OnlyExposedPaidTwice
PROPERTIES
    SuccessRowsSurvive
    RecordedNeverSent
    ImplementsLedger
CHECK_DEADLOCK FALSE
