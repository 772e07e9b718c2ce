\* Three runs on one cycle, any of which may give up.
SPECIFICATION FairSpec
CONSTANTS
    r1 = r1
    r2 = r2
    r3 = r3
    Runs = {r1, r2, r3}
    Procs = {"p", "q"}
    ProcOf <- MCProcOf
    Cycles = {1}
    Files = {f1, f2, f3}
    NoFile = NoFile
    Faults = {"timeout"}
PROPERTIES
    EveryRunGetsItsTurn
CHECK_DEADLOCK FALSE
