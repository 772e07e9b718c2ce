\* The process may be killed, nothing else goes wrong.
SPECIFICATION Spec
CONSTANTS
    a1 = a1
    a2 = a2
    b1 = b1
    Recipes = {a1, a2, b1}
    Cycles = {1, 2}
    OpIds = {o1, o2}
    NoOp = NoOp
    CycleOf <- MCCycleOf
    DestOf <- MCDestOf
    Faults = {"crash"}
SYMMETRY OpSymmetry
INVARIANTS
    PaidAtMostOnce
CHECK_DEADLOCK FALSE
