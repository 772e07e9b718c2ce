\* Three runs of two processes on two cycles, every fault.
SPECIFICATION Spec
CONSTANTS
    r1 = r1
    r2 = r2
    r3 = r3
    Runs = {r1, r2, r3}
    Procs = {"p", "q"}
    ProcOf <- MCProcOf
    Cycles = {1, 2}
    Files = {f1, f2, f3, f4}
    NoFile = NoFile
    Faults = {"error", "timeout", "exit"}
SYMMETRY FileSymmetry
INVARIANTS
    TypeOK
    OverlapNeedsThirdRun
    NothingLeftBehind
CHECK_DEADLOCK FALSE
