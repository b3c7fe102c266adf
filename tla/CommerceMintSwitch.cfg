\* Two mints: the switch reaches the refund of an expired deposit.
SPECIFICATION Spec
CONSTANTS
    Clients = {c1}
    Providers = {p1}
    Evaluators = {e1}
    Admins = {a1}
    Treasuries = {t1}
    Mints = {m1, m2}
    Default = nobody
    Amounts = {15}
    FeeRates = {1000}
    MaxU64 = 20000
    MaxJobs = 1
    MaxTime = 1
    MaxStray = 0
INVARIANTS
    RefundAlwaysAvailable
