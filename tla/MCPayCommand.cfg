SPECIFICATION FairSpec
CONSTANTS
    Fixer = Fixer
    Tokens = Tokens
    Absent = Absent
    Store <- MCStore
    Definition <- MCDefinition
    BatchCount = 2
    MaxAlerts = 1
    MaxSignals = 1
INVARIANTS
    TypeOK
    UninitializedOnlyAfterFailure
    OutcomeIffAlerted
    SuccessIsApplied
PROPERTIES
    PaysOnlyApproved
    ProtectedOutsideWaits
    WaitEnds
    StuckIsAlerted
