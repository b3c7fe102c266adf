\* Whom graduation names as the creator on Raydium.
SPECIFICATION Spec
CONSTANTS
    Pools = {m1}
    AgentFirst = {m1}
    Creators = {c1}
    Admins = {a1}
    Treasuries = {t1}
    Default = nobody
    CreatorFees = {400}
    PlatformFees = {0, 600}
    Thresholds = {40}
    Supplies = {6}
    Decimals = {1}
    VirtualSols = {30}
    Switches = {TRUE, FALSE}
    SolAmounts = {10, 30}
    TokenAmounts = {1, 15}
    QuotedAmounts = {}
    RentReimbursement = 5
    RentExempt = 2
    MaxU64 = 40000
    MaxTrades = 4
    MaxBatch = 1
    MaxStray = 0
INVARIANTS
    PoolCreatedOnRaydium
