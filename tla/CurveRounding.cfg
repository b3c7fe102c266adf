\* Dust sold back on a pool with no fee due costs the fees of the next.
SPECIFICATION Spec
CONSTANTS
    Pools = {m1}
    AgentFirst = {m1}
    Creators = {c1}
    Admins = {a1}
    Treasuries = {t1}
    Default = nobody
    CreatorFees = {400}
    PlatformFees = {600}
    Thresholds = {40}
    Supplies = {6}
    Decimals = {1}
    VirtualSols = {30}
    Switches = {FALSE}
    SolAmounts = {10, 30}
    TokenAmounts = {1, 14, 23}
    QuotedAmounts = {}
    RentReimbursement = 5
    RentExempt = 2
    MaxU64 = 40000
    MaxTrades = 5
    MaxBatch = 1
    MaxStray = 0
INVARIANTS
    FeesCovered
