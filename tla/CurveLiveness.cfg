\* One pool, fee changes and strangers: what the parties keep asking for happens.
SPECIFICATION FairSpec
CONSTANTS
    Pools = {m1}
    AgentFirst = {}
    Creators = {c1}
    Admins = {a1}
    Treasuries = {t1}
    Default = nobody
    CreatorFees = {400}
    PlatformFees = {0, 600}
    Thresholds = {20}
    Supplies = {6}
    Decimals = {1}
    VirtualSols = {30}
    Switches = {FALSE}
    SolAmounts = {10, 30}
    TokenAmounts = {7, 20}
    QuotedAmounts = {}
    RentReimbursement = 5
    RentExempt = 2
    MaxU64 = 40000
    MaxTrades = 3
    MaxBatch = 1
    MaxStray = 1
PROPERTIES
    GraduationReached
    FeesReachOwners
    CurveSolvent
    CurveStaysOpen
