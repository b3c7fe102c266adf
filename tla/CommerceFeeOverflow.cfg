\* One mint; a budget of 30 times a fee of 1000 bps exceeds MaxU64.
SPECIFICATION Spec
CONSTANTS
    Clients = {c1}
    Providers = {p1}
    Evaluators = {e1}
    Admins = {a1}
    Treasuries = {t1}
    Mints = {m1}
    Default = nobody
    Amounts = {30}
    FeeRates = {1000}
    MaxU64 = 20000
    MaxJobs = 1
    MaxTime = 1
    MaxStray = 0
INVARIANTS
    SubmittedMayComplete
