SPECIFICATION Spec
CONSTANTS
    Alice = Alice
    Bob = Bob
    Vault = Vault
    Baker = Baker
    Other = Other
    Url = Url
    Gold = Gold
    OpA = OpA
    OpB = OpB
    NoAddress = NoAddress
    NoToken = NoToken
    NoOpHash = NoOpHash
    NotSet = NotSet
    Unparsable = Unparsable
    TezCapital = TezCapital
    DefaultPool <- MCPool
    Sources <- MCSources
    Cycles <- MCCycles
    CycleData <- MCCycleData
    PayoutKey = Baker
    Contracts <- MCContracts
    PayOnly <- MCPayOnly
    Token = Gold
    TokenPrice = 100
    MinimumToken = 3
    Options <- MCOptions
    EarlierRuns = {"applied", "unknown", "reported", "other baker"}
    OtherBaker = Other
    EarlierOp = OpA
    Balances = {400, 5000, 100000}
    Costs <- MCCosts
    MetadataGas = 10
    FeeBuffer = 300
    NotifyEvery = 3
    HardGasLimit = 1600
    HardStorageLimit = 800
    MaxDataLength = 500
    DataBuffer = 100
    PaidOp = OpB
INVARIANTS
    TypeOK
    RewardsNotExceeded
    ErrorStopsPayment
    EveryRecipeAccountedFor
    FeesChargedExactly
    BalanceCoversPayouts
    SilentWaitsBounded
    BatchesPartition
    OperationsFit
    SummaryWithinEarnings
    ConfirmedIsReported
