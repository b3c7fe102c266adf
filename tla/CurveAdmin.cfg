\* Two pools, two administrators, the three switches, batched claims.
SPECIFICATION Spec
CONSTANTS
    Pools = {m1, m2}
    AgentFirst = {m1, m2}
    Creators = {c1}
    Admins = {a1, a2}
    Treasuries = {t1}
    Default = nobody
    CreatorFees = {400}
    PlatformFees = {600, 700}
    Thresholds = {40}
    Supplies = {6}
    Decimals = {1}
    VirtualSols = {30}
    Switches = {TRUE, FALSE}
    SolAmounts = {20, 60}
    TokenAmounts = {15}
    QuotedAmounts = {}
    RentReimbursement = 5
    RentExempt = 2
    MaxU64 = 100000
    MaxTrades = 1
    MaxBatch = 3
    MaxStray = 0
SYMMETRY PoolSymmetry
INVARIANTS
    FeesPaidOnce
PROPERTIES
    ImplementsHandoff
