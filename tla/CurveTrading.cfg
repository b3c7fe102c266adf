\* One pool through its life: trades signed and landed late, claims, graduation,
\* closing; a supply of 6 * 10^4 does not fit MaxU64.
SPECIFICATION Spec
CONSTANTS
    Pools = {m1}
    AgentFirst = {}
    Creators = {c1}
    Admins = {a1}
    Treasuries = {t1}
    Default = nobody
    CreatorFees = {400}
    PlatformFees = {0, 600}
    Thresholds = {40}
    Supplies = {6}
    Decimals = {1, 4}
    VirtualSols = {30}
    Switches = {FALSE}
    SolAmounts = {10, 30}
    TokenAmounts = {1, 14}
    QuotedAmounts = {10}
    RentReimbursement = 5
    RentExempt = 2
    MaxU64 = 40000
    MaxTrades = 3
    MaxBatch = 2
    MaxStray = 1
INVARIANTS
    TypeOK
    BooksMatch
    VaultsBacked
    FeesPaidOnce
    PriceContinues
    GraduationOpen
    SupplyConserved
    RoundTripCosts
    FeesClaimOpen
    ClosingOpen
PROPERTIES
    RoundingBounded
    CurveLeftForGood
    QuoteHonoured
    ImplementsLedger
