\* Each party is owed less than the rent-exempt balance.
SPECIFICATION Spec
CONSTANTS
    Pools = {m1}
    AgentFirst = {}
    Creators = {c1}
    Admins = {a1}
    Treasuries = {t1}
    Default = nobody
    CreatorFees = {400}
    PlatformFees = {0, 600}
    Thresholds = {40}
    Supplies = {6}
    Decimals = {1}
    VirtualSols = {30}
    Switches = {FALSE}
    SolAmounts = {10, 30}
    TokenAmounts = {1, 15}
    QuotedAmounts = {}
    RentReimbursement = 6
    RentExempt = 6
    MaxU64 = 40000
    MaxTrades = 4
    MaxBatch = 1
    MaxStray = 0
INVARIANTS
    FeesClaimable
