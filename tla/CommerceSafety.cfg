\* One job, two admins, two mints, overflow of the fee within reach.
SPECIFICATION Spec
CONSTANTS
    Clients = {c1}
    Providers = {p1}
    Evaluators = {e1}
    Admins = {a1, a2}
    Treasuries = {t1}
    Mints = {m1, m2}
    Default = nobody
    Amounts = {0, 15, 30}
    FeeRates = {0, 1000, 3000}
    MaxU64 = 20000
    MaxJobs = 1
    MaxTime = 2
    MaxStray = 1
INVARIANTS
    TypeOK
    EscrowBacked
    SettlementExact
    AccountsConsistent
    RefundOpen
    DecisionOpen
    ClosingOpen
PROPERTIES
    ChargedAsSigned
    TermsFrozen
    ImplementsContract
    ImplementsHandoff
