\* One pool that graduates after one purchase; an odd fee in either token, of
\* which three exceed MaxU64.
SPECIFICATION FairRaydiumSpec
CONSTANTS
    Pools = {m1}
    AgentFirst = {m1}
    Creators = {c1}
    Admins = {a1}
    Treasuries = {t1}
    Default = nobody
    CreatorFees = {400}
    PlatformFees = {600}
    Thresholds = {20}
    Supplies = {6}
    Decimals = {1}
    VirtualSols = {30}
    Switches = {FALSE}
    SolAmounts = {30}
    TokenAmounts = {}
    QuotedAmounts = {}
    RentReimbursement = 5
    RentExempt = 1
    MaxU64 = 40000
    MaxTrades = 1
    MaxBatch = 1
    MaxStray = 0
    Accruals = {13337}
    MaxAccrued = 40011
    MaxGifts = 1
INVARIANTS
    RaydiumTypeOK
    RaydiumFeesAccounted
    RaydiumSplitFair
PROPERTIES
    RaydiumFeesCollected
