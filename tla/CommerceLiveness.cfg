\* One mint for good: every deposit leaves escrow, and no id is used twice.
SPECIFICATION FairSpec
CONSTANTS
    Clients = {c1}
    Providers = {p1}
    Evaluators = {e1}
    Admins = {a1}
    Treasuries = {t1}
    Mints = {m1}
    Default = nobody
    Amounts = {15, 30}
    FeeRates = {0, 1000}
    MaxU64 = 20000
    MaxJobs = 2
    MaxTime = 2
    MaxStray = 0
INVARIANTS
    JobIdsSequential
PROPERTIES
    EscrowResolved
