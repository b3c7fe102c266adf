------------------------ MODULE AgenticCommerceProofs ------------------------
(***************************************************************************)
(* Theorems about AgenticCommerce for every number of jobs, every set of  *)
(* parties, mints, budgets and fees.                                       *)
(***************************************************************************)
EXTENDS AgenticCommerce, TLAPS

\* The invariant that is inductive: each of its parts needs the others.
IndInv ==
    /\ TypeOK
    /\ AccountsConsistent
    /\ JobIdsSequential
    /\ EscrowBacked
    /\ SettlementExact

\* What IndInv says of one job, its vault and the history of its vault.
JobSound(job, v, l) ==
    /\ job.status \notin JobStatus => v = NoVault
    /\ job.status \in Escrowed => job.budget > 0
    /\ v.amount = l.stray + (IF job.status \in Escrowed THEN job.budget ELSE 0)
    /\ SettledInFull(job, l)

AllJobsSound == \A j \in JobIds : JobSound(jobs[j], vault[j], ledger[j])

\* IndInv, job by job.
LEMMA IndInvByJob ==
    IndInv <=> TypeOK /\ ConfigConsistent /\ JobIdsSequential /\ AllJobsSound
BY DEF IndInv, AccountsConsistent, EscrowBacked, SettlementExact, AllJobsSound, JobSound, Exists

----------------------------------------------------------------------------
(* The fee *)

\* At a fee the protocol allows, the house's share of a budget is a tenth of it
\* at most, so what is left for the provider is not negative.
LEMMA CompletionFeeBound ==
    ASSUME NEW budget \in Nat, NEW bps \in 0..MaxFeeBps
    PROVE  /\ CompletionFee(budget, bps) \in Nat
           /\ 10 * CompletionFee(budget, bps) <= budget
<1> DEFINE product == budget * bps
           fee == product \div 10000
<1>1. product \in Nat /\ product <= 1000 * budget
  BY DEF MaxFeeBps
<1>2. fee \in Nat /\ 10000 * fee <= product
  <2> HIDE DEF product
  <2> QED
    BY <1>1
<1>3. 10 * fee <= budget
  BY <1>1, <1>2
<1> QED
  BY <1>2, <1>3 DEF CompletionFee, BpsDenominator

\* A higher fee makes a product no smaller.
LEMMA FactorOrder ==
    ASSUME NEW n \in Nat, NEW f \in Nat, NEW g \in Nat, f <= g
    PROVE  n * f \in Nat /\ n * g \in Nat /\ n * f <= n * g
BY Z3

----------------------------------------------------------------------------
(* The inductive invariant *)

LEMMA InitIndInv == Init => IndInv
<1> SUFFICES ASSUME Init PROVE IndInv
  OBVIOUS
<1> USE DefaultAssumption, BoundAssumption DEF Init, JobIds
<1>1. /\ config \in PlatformConfig
      /\ config.jobCounter = 0 /\ config.pendingAdmin = Default
      /\ config.layout # "current"
      /\ config.layout = "absent" <=> config.admin = Default
  <2>1. CASE config = NoConfig
    BY <2>1 DEF NoConfig, PlatformConfig, MaxFeeBps
  <2>2. ASSUME NEW a \in Admins, NEW f \in FeeRates, NEW t \in Treasuries, NEW m \in Mints,
               f <= MaxFeeBps, config = NewConfig("legacy", a, f, t, m)
        PROVE  <1>1
    BY <2>2 DEF NewConfig, PlatformConfig, MaxFeeBps
  <2> QED
    BY <2>1, <2>2
<1>2. TypeOK
  <2>1. config \in PlatformConfig
    BY <1>1
  <2>2. NoJob \in Job /\ NoVault \in Vault /\ EmptyLedger \in Ledger
    BY DEF NoJob, Job, NoVault, Vault, EmptyLedger, Ledger
  <2> QED
    BY <2>1, <2>2 DEF TypeOK
<1>3. AccountsConsistent
  BY <1>1 DEF AccountsConsistent, ConfigConsistent, NoJob, Escrowed
<1>4. JobIdsSequential
  BY <1>1 DEF JobIdsSequential, NoJob
<1>5. EscrowBacked
  BY DEF EscrowBacked, NoJob, NoVault, EmptyLedger, Escrowed
<1>6. SettlementExact
  BY DEF SettlementExact, SettledInFull, NoJob, EmptyLedger, Escrowed
<1> QED
  BY <1>2, <1>3, <1>4, <1>5, <1>6 DEF IndInv

\* A migrated account has the fields it had, and one with another mint too.
LEMMA MigratedConfig ==
    ASSUME NEW c \in PlatformConfig, NEW new, new = [c EXCEPT !.layout = "current"]
    PROVE  /\ new \in PlatformConfig /\ new.layout = "current"
           /\ new.admin = c.admin /\ new.jobCounter = c.jobCounter
BY DEF PlatformConfig

LEMMA RemintedConfig ==
    ASSUME NEW c \in PlatformConfig, NEW m \in Mints, NEW new, new = [c EXCEPT !.paymentMint = m]
    PROVE  /\ new \in PlatformConfig /\ new.layout = c.layout
           /\ new.admin = c.admin /\ new.jobCounter = c.jobCounter
BY DEF PlatformConfig

\* One in which an update, or the acceptance of a proposal, has written fields.
LEMMA WrittenConfig ==
    ASSUME NEW c \in PlatformConfig, NEW admin \in Admins, NEW f \in 0..MaxFeeBps,
           NEW t \in Treasuries \cup {Default}, NEW p \in BOOLEAN,
           NEW b \in Admins \cup {Default}, NEW new,
           new = [layout |-> c.layout, admin |-> admin, feeBps |-> f, treasury |-> t,
                  paymentMint |-> c.paymentMint, jobCounter |-> c.jobCounter,
                  paused |-> p, pendingAdmin |-> b]
    PROVE  /\ new \in PlatformConfig /\ new.layout = c.layout
           /\ new.admin = admin /\ new.jobCounter = c.jobCounter
BY DEF PlatformConfig

\* What the administration may do to the config account.
ConfigWritten ==
    /\ config' \in PlatformConfig
    /\ config'.jobCounter = config.jobCounter
    /\ config.layout = "current" => config'.layout = "current"
    /\ config'.layout # "absent" /\ config'.admin \in Admins

LEMMA AdminWrites ==
    ASSUME config \in PlatformConfig, ConfigConsistent, AdminStep
    PROVE  ConfigWritten
<1> PICK a \in Admins :
        \/ \E f \in FeeRates, t \in Treasuries, m \in Mints : Initialize(a, f, t, m)
        \/ MigrateConfig(a)
        \/ \E f \in FeeRates, t \in Treasuries, p \in BOOLEAN, b \in Admins \cup {Default} :
             UpdateConfig(a, f, t, p, b)
        \/ AcceptAdmin(a)
        \/ \E m \in Mints : SetPaymentMint(a, m)
  BY DEF AdminStep
<1>1. ASSUME NEW f \in FeeRates, FeeAllowed(f) PROVE f \in 0..MaxFeeBps
  BY <1>1, BoundAssumption DEF FeeAllowed, MaxFeeBps
<1>2. /\ config.feeBps \in 0..MaxFeeBps /\ config.treasury \in Treasuries \cup {Default}
      /\ config.paused \in BOOLEAN
  BY DEF PlatformConfig
<1>3. ASSUME NEW f \in FeeRates, NEW t \in Treasuries, NEW m \in Mints, Initialize(a, f, t, m)
      PROVE  ConfigWritten
  <2>1. /\ config.layout = "absent" /\ f \in 0..MaxFeeBps
        /\ config' = [layout |-> "current", admin |-> a, feeBps |-> f, treasury |-> t,
                      paymentMint |-> m, jobCounter |-> 0, paused |-> FALSE,
                      pendingAdmin |-> Default]
    BY <1>1, <1>3 DEF Initialize, NewConfig
  <2>2. config.jobCounter = 0
    BY <2>1 DEF ConfigConsistent
  <2>3. config' \in PlatformConfig
    BY <2>1, BoundAssumption DEF PlatformConfig
  <2>4. config'.jobCounter = 0 /\ config'.layout = "current" /\ config'.admin = a
    BY <2>1
  <2> QED
    BY <2>2, <2>3, <2>4 DEF ConfigWritten
<1>4. CASE MigrateConfig(a)
  <2>1. a = config.admin /\ config' = [config EXCEPT !.layout = "current"]
    BY <1>4 DEF MigrateConfig
  <2>2. /\ config' \in PlatformConfig /\ config'.layout = "current"
        /\ config'.admin = config.admin /\ config'.jobCounter = config.jobCounter
    BY <2>1, MigratedConfig
  <2> QED
    BY <2>1, <2>2 DEF ConfigWritten
<1>5. ASSUME NEW f \in FeeRates, NEW t \in Treasuries, NEW p \in BOOLEAN,
             NEW b \in Admins \cup {Default}, UpdateConfig(a, f, t, p, b)
      PROVE  ConfigWritten
  <2>1. config.layout = "current" /\ config.admin = a /\ f \in 0..MaxFeeBps
    BY <1>1, <1>5 DEF UpdateConfig, AdminSigns, ConfigLoads
  <2>2. config' = [config EXCEPT !.feeBps = f, !.treasury = t, !.paused = p,
                                 !.pendingAdmin = b]
    BY <1>5 DEF UpdateConfig
  <2>3. config' = [layout |-> config.layout, admin |-> config.admin, feeBps |-> f,
                   treasury |-> t, paymentMint |-> config.paymentMint,
                   jobCounter |-> config.jobCounter, paused |-> p, pendingAdmin |-> b]
    BY <2>2 DEF PlatformConfig
  <2>4. /\ config' \in PlatformConfig /\ config'.layout = config.layout
        /\ config'.admin = config.admin /\ config'.jobCounter = config.jobCounter
    BY <2>1, <2>3, WrittenConfig
  <2> QED
    BY <2>1, <2>4 DEF ConfigWritten
<1>6. CASE AcceptAdmin(a)
  <2>1. /\ config.layout = "current" /\ config.pendingAdmin = a
        /\ config' = [config EXCEPT !.admin = config.pendingAdmin, !.pendingAdmin = Default]
    BY <1>6 DEF AcceptAdmin, ConfigLoads, Handover
  <2>2. config' = [layout |-> config.layout, admin |-> a, feeBps |-> config.feeBps,
                   treasury |-> config.treasury, paymentMint |-> config.paymentMint,
                   jobCounter |-> config.jobCounter, paused |-> config.paused,
                   pendingAdmin |-> Default]
    BY <2>1 DEF PlatformConfig
  <2>3. /\ config' \in PlatformConfig /\ config'.layout = config.layout
        /\ config'.admin = a /\ config'.jobCounter = config.jobCounter
    BY <1>2, <2>2, WrittenConfig, SMTT(30)
  <2> QED
    BY <2>1, <2>3 DEF ConfigWritten
<1>7. ASSUME NEW m \in Mints, SetPaymentMint(a, m) PROVE ConfigWritten
  <2>1. /\ config' = [config EXCEPT !.paymentMint = m]
        /\ config.layout = "current" /\ config.admin = a
    BY <1>7 DEF SetPaymentMint, AdminSigns, ConfigLoads
  <2>2. /\ config' \in PlatformConfig /\ config'.layout = config.layout
        /\ config'.admin = config.admin /\ config'.jobCounter = config.jobCounter
    BY <2>1, RemintedConfig
  <2> QED
    BY <2>1, <2>2 DEF ConfigWritten
<1> QED
  BY <1>3, <1>4, <1>5, <1>6, <1>7

\* The administration touches the config account alone.
LEMMA AdminPreserves ==
    ASSUME IndInv, AdminStep PROVE IndInv'
<1> USE DefaultAssumption, BoundAssumption DEF IndInv
<1>1. UNCHANGED <<jobs, vault, ledger, signedFund, now>>
  BY DEF AdminStep, Initialize, MigrateConfig, UpdateConfig, AcceptAdmin, SetPaymentMint
<1>2. ConfigWritten
  BY AdminWrites DEF TypeOK, AccountsConsistent
<1> USE DEF ConfigWritten
<1>3. TypeOK'
  BY <1>1, <1>2 DEF TypeOK
<1>4. AccountsConsistent'
  BY <1>1, <1>2 DEF AccountsConsistent, ConfigConsistent, TypeOK, Exists, PlatformConfig
<1>5. JobIdsSequential' /\ EscrowBacked' /\ SettlementExact'
  BY <1>1, <1>2 DEF JobIdsSequential, EscrowBacked, SettlementExact, SettledInFull
<1> QED
  BY <1>3, <1>4, <1>5

\* A step that touches the accounts of job j alone, the one it is about.
OnlyJob(j) ==
    /\ jobs' = [jobs EXCEPT ![j] = jobs'[j]]
    /\ vault' = [vault EXCEPT ![j] = vault'[j]]
    /\ ledger' = [ledger EXCEPT ![j] = ledger'[j]]
    /\ signedFund' = [signedFund EXCEPT ![j] = signedFund'[j]]
    /\ UNCHANGED <<config, now>>

\* Such a step preserves the invariant if it leaves these accounts sound.
LEMMA JobFrame ==
    ASSUME IndInv, NEW j \in JobIds, OnlyJob(j),
           jobs'[j] \in Job, vault'[j] \in Vault, ledger'[j] \in Ledger,
           signedFund'[j] \in 0..MaxU64,
           jobs'[j].status # "None" <=> jobs[j].status # "None",
           JobSound(jobs'[j], vault'[j], ledger'[j])
    PROVE  IndInv'
<1> USE DEF OnlyJob
<1>1. TypeOK /\ ConfigConsistent /\ JobIdsSequential /\ AllJobsSound
  BY IndInvByJob
<1>2. TypeOK'
  BY <1>1 DEF TypeOK
<1>3. ConfigConsistent'
  BY <1>1 DEF ConfigConsistent
<1>4. JobIdsSequential'
  BY <1>1 DEF JobIdsSequential, TypeOK
<1>5. AllJobsSound'
  <2> SUFFICES ASSUME NEW i \in JobIds
               PROVE  JobSound(jobs'[i], vault'[i], ledger'[i])
    BY DEF AllJobsSound, JobSound, SettledInFull
  <2>1. CASE i = j
    BY <2>1, <1>1 DEF TypeOK
  <2>2. CASE i # j
    BY <2>2, <1>1 DEF TypeOK, AllJobsSound
  <2> QED
    BY <2>1, <2>2
<1> QED
  BY <1>2, <1>3, <1>4, <1>5 DEF IndInv, AccountsConsistent, EscrowBacked, SettlementExact,
                               AllJobsSound, JobSound, Exists

\* The accounts of a job are typed and sound, and writing them back changes
\* nothing.
LEMMA JobAccounts ==
    ASSUME IndInv, NEW j \in JobIds
    PROVE  /\ jobs[j] \in Job /\ vault[j] \in Vault /\ ledger[j] \in Ledger
           /\ signedFund[j] \in 0..MaxU64
           /\ JobSound(jobs[j], vault[j], ledger[j])
           /\ jobs = [jobs EXCEPT ![j] = jobs[j]]
           /\ vault = [vault EXCEPT ![j] = vault[j]]
           /\ ledger = [ledger EXCEPT ![j] = ledger[j]]
           /\ signedFund = [signedFund EXCEPT ![j] = signedFund[j]]
BY IndInvByJob DEF TypeOK, AllJobsSound

LEMMA SetProviderPreserves ==
    ASSUME IndInv, NEW signer, NEW j \in JobIds, NEW provider \in Providers,
           SetProvider(signer, j, provider)
    PROVE  IndInv'
<1>1. /\ jobs[j] \in Job /\ jobs[j].status = "Open"
      /\ JobSound(jobs[j], vault[j], ledger[j])
  BY JobAccounts DEF SetProvider
<1>2. OnlyJob(j) /\ jobs'[j] = [jobs[j] EXCEPT !.provider = provider]
  BY JobAccounts DEF SetProvider, OnlyJob, IndInv, TypeOK
<1>3. jobs'[j] \in Job /\ jobs'[j].status = jobs[j].status
  BY <1>1, <1>2 DEF Job
<1>4. vault'[j] = vault[j] /\ ledger'[j] = ledger[j] /\ signedFund'[j] = signedFund[j]
  BY DEF SetProvider
<1>5. JobSound(jobs'[j], vault'[j], ledger'[j])
  BY <1>1, <1>3, <1>4 DEF JobSound, SettledInFull, JobStatus, Escrowed
<1> QED
  BY <1>2, <1>3, <1>4, <1>5, JobAccounts, JobFrame

LEMMA SetBudgetPreserves ==
    ASSUME IndInv, NEW signer, NEW j \in JobIds, NEW amount \in Amounts,
           SetBudget(signer, j, amount)
    PROVE  IndInv'
<1>1. /\ jobs[j] \in Job /\ jobs[j].status = "Open"
      /\ JobSound(jobs[j], vault[j], ledger[j])
  BY JobAccounts DEF SetBudget, BudgetMayChange
<1>2. OnlyJob(j) /\ jobs'[j] = [jobs[j] EXCEPT !.budget = amount]
  BY JobAccounts DEF SetBudget, OnlyJob, IndInv, TypeOK
<1>3. jobs'[j] \in Job /\ jobs'[j].status = jobs[j].status
  BY <1>1, <1>2, BoundAssumption DEF Job
<1>4. vault'[j] = vault[j] /\ ledger'[j] = ledger[j] /\ signedFund'[j] = signedFund[j]
  BY DEF SetBudget
<1>5. JobSound(jobs'[j], vault'[j], ledger'[j])
  BY <1>1, <1>3, <1>4 DEF JobSound, SettledInFull, JobStatus, Escrowed
<1> QED
  BY <1>2, <1>3, <1>4, <1>5, JobAccounts, JobFrame

LEMMA SignFundPreserves ==
    ASSUME IndInv, NEW j \in JobIds, SignFund(j)
    PROVE  IndInv'
<1>1. jobs[j].budget \in 0..MaxU64
  BY JobAccounts DEF Job
<1>2. OnlyJob(j) /\ signedFund'[j] = jobs[j].budget
  BY JobAccounts DEF SignFund, OnlyJob, IndInv, TypeOK
<1>3. jobs'[j] = jobs[j] /\ vault'[j] = vault[j] /\ ledger'[j] = ledger[j]
  BY DEF SignFund
<1> QED
  BY <1>1, <1>2, <1>3, JobAccounts, JobFrame

LEMMA FundPreserves ==
    ASSUME IndInv, NEW j \in JobIds, Fund(j)
    PROVE  IndInv'
<1>1. /\ jobs[j] \in Job /\ vault[j] \in Vault /\ ledger[j] \in Ledger
      /\ jobs[j].status = "Open" /\ jobs[j].budget > 0
      /\ JobSound(jobs[j], vault[j], ledger[j])
  BY JobAccounts DEF Fund
<1>2. /\ OnlyJob(j)
      /\ jobs'[j] = [jobs[j] EXCEPT !.status = "Funded"]
      /\ vault'[j] = [vault[j] EXCEPT !.amount = @ + jobs[j].budget]
      /\ ledger'[j] = [ledger[j] EXCEPT !.deposited = jobs[j].budget]
      /\ signedFund'[j] = 0
  BY DEF Fund, OnlyJob, IndInv, TypeOK
<1>3. jobs[j].budget \in Nat
  BY <1>1, BoundAssumption DEF Job
<1>4. jobs'[j] \in Job /\ vault'[j] \in Vault /\ ledger'[j] \in Ledger
  BY <1>1, <1>2, <1>3 DEF Job, JobStatus, Escrowed, Vault, Ledger
<1>5. JobSound(jobs'[j], vault'[j], ledger'[j])
  BY <1>1, <1>2, <1>3 DEF JobSound, SettledInFull, JobStatus, Escrowed, Job, Vault, Ledger
<1> QED
  BY <1>1, <1>2, <1>4, <1>5, JobFrame, BoundAssumption DEF Job
LEMMA SubmitPreserves ==
    ASSUME IndInv, NEW signer, NEW j \in JobIds, Submit(signer, j)
    PROVE  IndInv'
<1>1. /\ jobs[j] \in Job /\ jobs[j].status = "Funded"
      /\ JobSound(jobs[j], vault[j], ledger[j])
  BY JobAccounts DEF Submit
<1>2. OnlyJob(j) /\ jobs'[j] = [jobs[j] EXCEPT !.status = "Submitted"]
  BY JobAccounts DEF Submit, OnlyJob, IndInv, TypeOK
<1>3. jobs'[j] \in Job
  BY <1>1, <1>2 DEF Job, JobStatus, Escrowed
<1>4. vault'[j] = vault[j] /\ ledger'[j] = ledger[j] /\ signedFund'[j] = signedFund[j]
  BY DEF Submit
<1>5. JobSound(jobs'[j], vault'[j], ledger'[j])
  BY <1>1, <1>2, <1>4 DEF JobSound, SettledInFull, JobStatus, Escrowed, Job
<1> QED
  BY <1>1, <1>2, <1>3, <1>4, <1>5, JobAccounts, JobFrame DEF Job

LEMMA CompletePreserves ==
    ASSUME IndInv, NEW signer, NEW j \in JobIds, Complete(signer, j)
    PROVE  IndInv'
<1> DEFINE budget == jobs[j].budget
           fee == CompletionFee(budget, config.feeBps)
<1>1. /\ jobs[j] \in Job /\ vault[j] \in Vault /\ ledger[j] \in Ledger
      /\ jobs[j].status = "Submitted" /\ vault[j].amount >= budget
      /\ JobSound(jobs[j], vault[j], ledger[j])
  BY JobAccounts DEF Complete, VaultPays
<1>2. /\ OnlyJob(j)
      /\ jobs'[j] = [jobs[j] EXCEPT !.status = "Completed"]
      /\ vault'[j] = [vault[j] EXCEPT !.amount = @ - budget]
      /\ ledger'[j] = [ledger[j] EXCEPT !.toProvider = @ + (budget - fee),
                                      !.toTreasury = @ + fee]
      /\ signedFund'[j] = signedFund[j]
  BY JobAccounts DEF Complete, OnlyJob, IndInv, TypeOK
<1>3. budget \in Nat /\ fee \in Nat /\ 10 * fee <= budget
  <2>1. budget \in Nat
    BY <1>1, BoundAssumption DEF Job
  <2>2. config.feeBps \in 0..MaxFeeBps
    BY DEF IndInv, TypeOK, PlatformConfig
  <2> QED
    BY <2>1, <2>2, CompletionFeeBound
<1> HIDE DEF fee
<1>4. ledger'[j] = [deposited |-> ledger[j].deposited, stray |-> ledger[j].stray,
                    toProvider |-> ledger[j].toProvider + (budget - fee),
                    toTreasury |-> ledger[j].toTreasury + fee,
                    toClient |-> ledger[j].toClient]
  BY <1>1, <1>2 DEF Ledger
<1>5. jobs'[j] \in Job /\ vault'[j] \in Vault /\ ledger'[j] \in Ledger
  BY <1>1, <1>2, <1>3, <1>4 DEF Job, JobStatus, Terminal, Vault, Ledger
<1>6. JobSound(jobs'[j], vault'[j], ledger'[j])
  BY <1>1, <1>2, <1>3, <1>4
     DEF JobSound, SettledInFull, JobStatus, Escrowed, Terminal, Job, Vault, Ledger
<1> QED
  BY <1>1, <1>2, <1>5, <1>6, JobAccounts, JobFrame DEF Job

\* Reject of a funded job and claim_refund pay the same refund.
RefundStep(j, status) ==
    /\ jobs[j].status \in Escrowed
    /\ VaultPays(j, jobs[j].budget)
    /\ jobs' = [jobs EXCEPT ![j].status = status]
    /\ vault' = [vault EXCEPT ![j].amount = @ - jobs[j].budget]
    /\ ledger' = [ledger EXCEPT ![j].toClient = @ + jobs[j].budget]
    /\ UNCHANGED <<config, signedFund, now>>

LEMMA RefundPreserves ==
    ASSUME IndInv, NEW j \in JobIds, NEW status \in {"Rejected", "Expired"},
           RefundStep(j, status)
    PROVE  IndInv'
<1>1. /\ jobs[j] \in Job /\ vault[j] \in Vault /\ ledger[j] \in Ledger
      /\ jobs[j].status \in Escrowed /\ vault[j].amount >= jobs[j].budget
      /\ JobSound(jobs[j], vault[j], ledger[j])
  BY JobAccounts DEF RefundStep, VaultPays
<1>2. /\ OnlyJob(j)
      /\ jobs'[j] = [jobs[j] EXCEPT !.status = status]
      /\ vault'[j] = [vault[j] EXCEPT !.amount = @ - jobs[j].budget]
      /\ ledger'[j] = [ledger[j] EXCEPT !.toClient = @ + jobs[j].budget]
      /\ signedFund'[j] = signedFund[j]
  BY JobAccounts DEF RefundStep, OnlyJob, IndInv, TypeOK
<1>3. jobs[j].budget \in Nat
  BY <1>1, BoundAssumption DEF Job
<1>4. jobs'[j] \in Job /\ vault'[j] \in Vault /\ ledger'[j] \in Ledger
  BY <1>1, <1>2, <1>3 DEF Job, JobStatus, Terminal, Vault, Ledger
<1>5. JobSound(jobs'[j], vault'[j], ledger'[j])
  BY <1>1, <1>2, <1>3
     DEF JobSound, SettledInFull, JobStatus, Escrowed, Terminal, Job, Vault, Ledger
<1> QED
  BY <1>1, <1>2, <1>4, <1>5, JobAccounts, JobFrame DEF Job, Escrowed

LEMMA RejectPreserves ==
    ASSUME IndInv, NEW signer, NEW j \in JobIds, Reject(signer, j)
    PROVE  IndInv'
<1>1. jobs[j] \in Job /\ vault[j] \in Vault /\ ledger[j] \in Ledger
      /\ JobSound(jobs[j], vault[j], ledger[j])
  BY JobAccounts
<1>2. CASE jobs[j].status \in Escrowed
  <2>1. jobs[j].budget > 0 /\ RejectionRefund(j) = jobs[j].budget
    BY <1>1, <1>2 DEF JobSound, RejectionRefund
  <2>2. RefundStep(j, "Rejected")
    BY <1>2, <2>1 DEF Reject, RefundStep
  <2> QED
    BY <2>2, RefundPreserves
<1>3. CASE jobs[j].status \notin Escrowed
  <2>1. jobs[j].status = "Open" /\ RejectionRefund(j) = 0
    BY <1>3 DEF Reject, MayReject, RejectionRefund
  <2>2. /\ OnlyJob(j)
        /\ jobs'[j] = [jobs[j] EXCEPT !.status = "Rejected"]
        /\ vault'[j] = vault[j] /\ ledger'[j] = ledger[j] /\ signedFund'[j] = signedFund[j]
    BY <1>1, <2>1, JobAccounts DEF Reject, OnlyJob, IndInv, TypeOK, Vault, Ledger
  <2>3. jobs'[j] \in Job
    BY <1>1, <2>2 DEF Job, JobStatus, Terminal
  <2>4. JobSound(jobs'[j], vault'[j], ledger'[j])
    BY <1>1, <2>1, <2>2 DEF JobSound, SettledInFull, JobStatus, Escrowed, Terminal, Job
  <2> QED
    BY <1>1, <2>1, <2>2, <2>3, <2>4, JobAccounts, JobFrame DEF Job
<1> QED
  BY <1>2, <1>3

LEMMA ClaimRefundPreserves ==
    ASSUME IndInv, NEW j \in JobIds, ClaimRefund(j)
    PROVE  IndInv'
<1>1. RefundStep(j, "Expired")
  BY DEF ClaimRefund, RefundDue, RefundStep
<1> QED
  BY <1>1, RefundPreserves

LEMMA CloseJobPreserves ==
    ASSUME IndInv, NEW signer, NEW j \in JobIds, CloseJob(signer, j)
    PROVE  IndInv'
<1>1. /\ jobs[j].status \in Terminal /\ vault[j].amount = 0
      /\ ledger[j] \in Ledger
      /\ JobSound(jobs[j], vault[j], ledger[j])
  BY JobAccounts DEF CloseJob, Closable, IsTerminal
<1>2. /\ OnlyJob(j)
      /\ jobs'[j] = [NoJob EXCEPT !.status = "Closed"]
      /\ vault'[j] = NoVault /\ ledger'[j] = ledger[j] /\ signedFund'[j] = signedFund[j]
  BY JobAccounts DEF CloseJob, OnlyJob, IndInv, TypeOK
<1>3. jobs'[j] \in Job /\ vault'[j] \in Vault
  BY <1>2, BoundAssumption DEF NoJob, Job, NoVault, Vault
<1>4. JobSound(jobs'[j], vault'[j], ledger'[j])
  BY <1>1, <1>2 DEF JobSound, SettledInFull, JobStatus, Escrowed, Terminal, NoJob, NoVault, Ledger
<1>5. jobs'[j].status = "Closed" /\ jobs[j].status # "None"
  BY <1>1, <1>2 DEF NoJob, Terminal
<1> QED
  BY <1>2, <1>3, <1>4, <1>5, JobAccounts, JobFrame

LEMMA StrayTransferPreserves ==
    ASSUME IndInv, NEW j \in JobIds, StrayTransfer(j)
    PROVE  IndInv'
<1>1. /\ jobs[j] \in Job /\ vault[j] \in Vault /\ ledger[j] \in Ledger
      /\ jobs[j].status \in JobStatus
      /\ JobSound(jobs[j], vault[j], ledger[j])
  BY JobAccounts DEF StrayTransfer, Exists
<1>2. /\ OnlyJob(j)
      /\ jobs'[j] = jobs[j]
      /\ vault'[j] = [vault[j] EXCEPT !.amount = @ + 1]
      /\ ledger'[j] = [ledger[j] EXCEPT !.stray = @ + 1]
      /\ signedFund'[j] = signedFund[j]
  BY JobAccounts DEF StrayTransfer, OnlyJob, IndInv, TypeOK
<1>3. vault'[j] \in Vault /\ ledger'[j] \in Ledger
  BY <1>1, <1>2 DEF Vault, Ledger
<1>4. JobSound(jobs'[j], vault'[j], ledger'[j])
  <2>1. /\ vault'[j].amount = vault[j].amount + 1
        /\ ledger'[j].stray = ledger[j].stray + 1
    BY <1>1, <1>2 DEF Vault, Ledger
  <2>2. SettledInFull(jobs'[j], ledger'[j])
    BY <1>1, <1>2 DEF JobSound, SettledInFull, Ledger
  <2>3. jobs[j].budget \in Nat /\ ledger[j].stray \in Nat
    BY <1>1, BoundAssumption DEF Job, Ledger
  <2> QED
    BY <1>1, <1>2, <2>1, <2>2, <2>3 DEF JobSound
<1> QED
  BY <1>1, <1>2, <1>3, <1>4, JobAccounts, JobFrame

\* create_job writes the accounts the counter names and moves the counter on.
LEMMA CreateJobPreserves ==
    ASSUME IndInv, NEW client \in Clients, NEW provider \in Providers \cup {Default},
           NEW evaluator \in Evaluators \cup {Default}, NEW expiredAt \in 0..MaxTime,
           CreateJob(client, provider, evaluator, expiredAt)
    PROVE  IndInv'
<1> DEFINE k == config.jobCounter
<1>1. TypeOK /\ ConfigConsistent /\ JobIdsSequential /\ AllJobsSound
  BY IndInvByJob
<1>2. /\ config \in PlatformConfig /\ config.layout = "current"
      /\ k \in JobIds /\ k + 1 \in 0..MaxJobs
  <2>1. config \in PlatformConfig
    BY <1>1 DEF TypeOK
  <2>2. config.layout = "current" /\ k < MaxJobs
    BY DEF CreateJob, ConfigLoads
  <2>3. k \in 0..MaxJobs
    BY <2>1 DEF PlatformConfig
  <2> HIDE DEF k
  <2>4. k \in JobIds /\ k + 1 \in 0..MaxJobs
    BY <2>2, <2>3, BoundAssumption DEF JobIds
  <2> QED
    BY <2>1, <2>2, <2>4
<1>3. /\ jobs[k].status = "None" /\ jobs[k] \in Job /\ ledger[k] \in Ledger
      /\ vault[k] = NoVault /\ JobSound(jobs[k], vault[k], ledger[k])
  BY <1>1, <1>2 DEF JobIdsSequential, AllJobsSound, JobSound, JobStatus, Escrowed, Terminal,
                    TypeOK, JobIds
<1>4. /\ jobs' = [jobs EXCEPT ![k] = jobs'[k]] /\ vault' = [vault EXCEPT ![k] = vault'[k]]
      /\ jobs'[k] = [status |-> "Open", client |-> client, provider |-> provider,
                    evaluator |-> evaluator, budget |-> 0, expiredAt |-> expiredAt]
      /\ vault'[k] = [mint |-> config.paymentMint, amount |-> 0]
      /\ UNCHANGED <<ledger, signedFund, now>>
  BY <1>1, <1>2 DEF CreateJob, TypeOK
<1>5. config' = [config EXCEPT !.jobCounter = k + 1]
  BY DEF CreateJob, NextJobCounter
<1> HIDE DEF k
<1>6. /\ config' \in PlatformConfig /\ config'.jobCounter = k + 1
      /\ config'.layout = "current" /\ config'.admin = config.admin
  BY <1>2, <1>5 DEF PlatformConfig
<1>7. jobs'[k] \in Job /\ vault'[k] \in Vault
  BY <1>2, <1>4, BoundAssumption DEF Job, JobStatus, Vault, PlatformConfig
<1>8. TypeOK'
  BY <1>1, <1>4, <1>6, <1>7 DEF TypeOK
<1>9. ConfigConsistent'
  BY <1>1, <1>2, <1>6 DEF ConfigConsistent
<1>10. JobIdsSequential'
  <2> SUFFICES ASSUME NEW i \in JobIds
               PROVE  jobs'[i].status # "None" <=> i < k + 1
    BY <1>6 DEF JobIdsSequential
  <2>1. CASE i = k
    BY <2>1, <1>2, <1>4 DEF JobIds
  <2>2. CASE i # k
    <3>1. jobs[i].status # "None" <=> i < k
      BY <1>1 DEF JobIdsSequential, k
    <3>2. i < k <=> i < k + 1
      BY <2>2, <1>2, BoundAssumption DEF JobIds
    <3> QED
      BY <3>1, <3>2, <2>2, <1>2, <1>4, <1>1 DEF TypeOK
  <2> QED
    BY <2>1, <2>2
<1>11. AllJobsSound'
  <2>1. JobSound(jobs'[k], vault'[k], ledger'[k])
    BY <1>3, <1>4 DEF JobSound, SettledInFull, JobStatus, Escrowed, Terminal, NoVault, Ledger
  <2> SUFFICES ASSUME NEW i \in JobIds
               PROVE  JobSound(jobs'[i], vault'[i], ledger'[i])
    BY DEF AllJobsSound, JobSound, SettledInFull
  <2>2. CASE i # k
    BY <2>2, <1>1, <1>4 DEF TypeOK, AllJobsSound
  <2> QED
    BY <2>1, <2>2
<1> QED
  BY <1>8, <1>9, <1>10, <1>11 DEF IndInv, AccountsConsistent, EscrowBacked, SettlementExact,
                                 AllJobsSound, JobSound, Exists

LEMMA TickPreserves ==
    ASSUME IndInv, Tick PROVE IndInv'
<1>1. now' \in 0..MaxTime
  BY BoundAssumption DEF IndInv, TypeOK, Tick
<1> QED
  BY <1>1 DEF Tick, IndInv, TypeOK, AccountsConsistent, ConfigConsistent, JobIdsSequential,
              EscrowBacked, SettlementExact, SettledInFull, Exists

LEMMA NextPreserves ==
    ASSUME IndInv, [Next]_vars PROVE IndInv'
<1>1. CASE AdminStep
  BY <1>1, AdminPreserves
<1>2. CASE CreateStep
  BY <1>2, CreateJobPreserves DEF CreateStep
<1>3. ASSUME NEW j \in JobIds, OfferStep(j)
      PROVE  IndInv'
  BY <1>3, SetProviderPreserves, SetBudgetPreserves, SignFundPreserves, FundPreserves
     DEF OfferStep
<1>4. ASSUME NEW j \in JobIds, SettleStep(j)
      PROVE  IndInv'
  BY <1>4, SubmitPreserves, CompletePreserves, RejectPreserves, ClaimRefundPreserves,
     CloseJobPreserves DEF SettleStep
<1>5. ASSUME NEW j \in JobIds, StrayTransfer(j)
      PROVE  IndInv'
  BY <1>5, StrayTransferPreserves
<1>6. CASE Tick
  BY <1>6, TickPreserves
<1>7. CASE UNCHANGED vars
  BY <1>7 DEF vars, IndInv, TypeOK, AccountsConsistent, ConfigConsistent, JobIdsSequential,
              EscrowBacked, SettlementExact, SettledInFull, Exists
<1> QED
  BY <1>1, <1>2, <1>3, <1>4, <1>5, <1>6, <1>7 DEF Next

\* Every reachable state satisfies the inductive invariant.
THEOREM Invariance == Spec => []IndInv
<1>1. Init => IndInv
  BY InitIndInv
<1>2. IndInv /\ [Next]_vars => IndInv'
  BY NextPreserves
<1> QED
  BY <1>1, <1>2, PTL DEF Spec

----------------------------------------------------------------------------
(* What follows *)

\* Every account holds what its type allows, the fee in force included.
THEOREM TypeCorrect == Spec => []TypeOK
<1>1. IndInv => TypeOK
  BY DEF IndInv
<1> QED
  BY <1>1, Invariance, PTL

\* A vault holds exactly the unsettled deposit of its job, and stray tokens.
THEOREM EscrowIsBacked == Spec => []EscrowBacked
<1>1. IndInv => EscrowBacked
  BY DEF IndInv
<1> QED
  BY <1>1, Invariance, PTL

\* A deposit leaves once, in full and to one side, at least nine tenths of it
\* to the provider if that is the side.
THEOREM SettlementIsExact == Spec => []SettlementExact
<1>1. IndInv => SettlementExact
  BY DEF IndInv
<1> QED
  BY <1>1, Invariance, PTL

\* The ids below the counter, and no others, have been used.
THEOREM JobIdsAreSequential == Spec => []JobIdsSequential
<1>1. IndInv => JobIdsSequential
  BY DEF IndInv
<1> QED
  BY <1>1, Invariance, PTL

\* An account that does not exist holds nothing, jobs exist only under a
\* configuration of the current layout, and no deposit is empty.
THEOREM AccountsAreConsistent == Spec => []AccountsConsistent
<1>1. IndInv => AccountsConsistent
  BY DEF IndInv
<1> QED
  BY <1>1, Invariance, PTL

\* The vault of an escrowed job in the configured mint can pay its budget out.
LEMMA VaultCovers ==
    ASSUME IndInv, NEW j \in JobIds, jobs[j].status \in Escrowed,
           vault[j].mint = config.paymentMint
    PROVE  VaultPays(j, jobs[j].budget)
<1>1. /\ JobSound(jobs[j], vault[j], ledger[j])
      /\ ledger[j] \in Ledger /\ jobs[j] \in Job
  BY JobAccounts
<1>2. vault[j].amount >= jobs[j].budget
  BY <1>1, BoundAssumption DEF JobSound, Ledger, Job
<1>3. ConfigLoads
  <2>1. j < config.jobCounter
    BY DEF IndInv, JobIdsSequential, Escrowed
  <2> QED
    BY <2>1 DEF IndInv, AccountsConsistent, ConfigConsistent, ConfigLoads, JobIds
<1> QED
  BY <1>2, <1>3 DEF VaultPays

\* An expired deposit in the configured mint can be claimed at once.
THEOREM RefundIsOpen == Spec => []RefundOpen
<1>1. IndInv => RefundOpen
  BY VaultCovers DEF RefundOpen, RefundPossible, RefundDue
<1> QED
  BY <1>1, Invariance, PTL

\* The evaluator of a deposit in the configured mint can decide, whatever fee
\* the admin has set.
THEOREM DecisionIsOpen == Spec => []DecisionOpen
<1>1. IndInv => DecisionOpen
  <2> SUFFICES ASSUME IndInv, NEW j \in JobIds, jobs[j].status \in Escrowed,
                      vault[j].mint = config.paymentMint
               PROVE  /\ RejectionPossible(j)
                      /\ jobs[j].budget * MaxFeeBps <= MaxU64 => CompletionPossible(j)
    BY DEF DecisionOpen
  <2>1. VaultPays(j, jobs[j].budget)
    BY VaultCovers
  <2>2. RejectionPossible(j)
    BY <2>1 DEF RejectionPossible, MayReject, RejectionRefund
  <2>3. ASSUME jobs[j].budget * MaxFeeBps <= MaxU64 PROVE CompletionPossible(j)
    <3> DEFINE n == jobs[j].budget
               f == config.feeBps
    <3>1. n \in Nat /\ f \in Nat /\ f <= MaxFeeBps /\ MaxFeeBps \in Nat /\ MaxU64 \in Nat
      <4>1. jobs[j] \in Job /\ config \in PlatformConfig
        BY JobAccounts DEF IndInv, TypeOK
      <4>2. n \in 0..MaxU64 /\ f \in 0..MaxFeeBps
        BY <4>1 DEF Job, PlatformConfig
      <4>3. MaxFeeBps \in Nat /\ MaxU64 \in Nat
        BY BoundAssumption DEF MaxFeeBps
      <4> QED
        BY <4>2, <4>3
    <3> HIDE DEF n, f
    <3>2. n * f <= n * MaxFeeBps /\ n * f \in Nat /\ n * MaxFeeBps \in Nat
      BY <3>1, FactorOrder
    <3>3. n * f <= MaxU64
      <4> DEFINE l == n * f  r == n * MaxFeeBps
      <4>1. l <= r /\ r <= MaxU64 /\ l \in Nat /\ r \in Nat
        BY <2>3, <3>2 DEF n
      <4> HIDE DEF l, r
      <4>2. l <= MaxU64
        BY <3>1, <4>1
      <4> QED
        BY <4>2 DEF l
    <3> QED
      BY <2>1, <3>3 DEF CompletionPossible, FeeFits, n, f
  <2> QED
    BY <2>2, <2>3
<1> QED
  BY <1>1, Invariance, PTL

\* A settled job's accounts can be closed unless a stranger sent its vault
\* tokens: every way of settling pays the whole deposit out.
THEOREM ClosingIsOpen == Spec => []ClosingOpen
<1>1. IndInv => ClosingOpen
  <2> SUFFICES ASSUME IndInv, NEW j \in JobIds, IsTerminal(j)
               PROVE  ClosePossible(j) <=> ledger[j].stray = 0
    BY DEF ClosingOpen
  <2>1. /\ JobSound(jobs[j], vault[j], ledger[j])
        /\ ledger[j] \in Ledger /\ jobs[j] \in Job
    BY JobAccounts
  <2>2. vault[j].amount = ledger[j].stray
    BY <2>1 DEF JobSound, Ledger, Job, IsTerminal, Escrowed, Terminal
  <2>3. ConfigLoads
    <3>1. j < config.jobCounter
      BY DEF IndInv, JobIdsSequential, IsTerminal, Terminal
    <3> QED
      BY <3>1 DEF IndInv, AccountsConsistent, ConfigConsistent, ConfigLoads, JobIds
  <2> QED
    BY <2>2, <2>3 DEF ClosePossible, Closable
<1> QED
  BY <1>1, Invariance, PTL

----------------------------------------------------------------------------
(* What no step may do *)

\* A client is charged the budget it signed for.
THEOREM ClientChargedAsSigned == Spec => ChargedAsSigned
<1> DEFINE Charged == \A j \in JobIds : ledger'[j].deposited # ledger[j].deposited =>
                                           ledger'[j].deposited = signedFund[j]
<1>1. ASSUME IndInv, [Next]_vars PROVE Charged
  <2> SUFFICES ASSUME NEW i \in JobIds, ledger'[i].deposited # ledger[i].deposited
               PROVE  ledger'[i].deposited = signedFund[i]
    OBVIOUS
  <2>0. ledger \in [JobIds -> Ledger]
    BY <1>1 DEF IndInv, TypeOK
  <2>1. CASE AdminStep \/ CreateStep \/ Tick \/ UNCHANGED vars
    <3>1. UNCHANGED ledger
      BY <2>1 DEF AdminStep, Initialize, MigrateConfig, UpdateConfig, AcceptAdmin,
                  SetPaymentMint, CreateStep, CreateJob, Tick, vars
    <3> QED
      BY <3>1
  <2>2. ASSUME NEW j \in JobIds, OfferStep(j)
        PROVE  ledger'[i].deposited = signedFund[i]
    <3>1. CASE Fund(j)
      <4>1. /\ ledger' = [ledger EXCEPT ![j].deposited = jobs[j].budget]
            /\ signedFund[j] = jobs[j].budget
        BY <3>1 DEF Fund, BudgetAsExpected
      <4> QED
        BY <2>0, <4>1 DEF Ledger
    <3>2. CASE ~Fund(j)
      BY <2>2, <3>2 DEF OfferStep, SetProvider, SetBudget, SignFund
    <3> QED
      BY <3>1, <3>2
  <2>3. ASSUME NEW j \in JobIds, SettleStep(j) \/ StrayTransfer(j)
        PROVE  ledger'[i].deposited = signedFund[i]
    <3>1. ledger'[i].deposited = ledger[i].deposited
      BY <2>3, <2>0 DEF SettleStep, Submit, Complete, Reject, ClaimRefund, CloseJob,
                        StrayTransfer, Ledger
    <3> QED
      BY <3>1
  <2> QED
    BY <1>1, <2>1, <2>2, <2>3 DEF Next
<1> QED
  BY <1>1, Invariance, PTL DEF Spec, ChargedAsSigned

\* The terms of a funded job stay as they are until its account is closed.
THEOREM TermsAreFrozen == Spec => TermsFrozen
<1> DEFINE Terms(job) == [job EXCEPT !.status = "Open"]
           Frozen == \A j \in JobIds :
                       (jobs[j].status \in Escrowed \cup Terminal /\ jobs'[j].status # "Closed")
                         => Terms(jobs'[j]) = Terms(jobs[j])
<1>1. ASSUME IndInv, [Next]_vars PROVE Frozen
  <2> SUFFICES ASSUME NEW i \in JobIds, jobs[i].status \in Escrowed \cup Terminal,
                      jobs'[i].status # "Closed"
               PROVE  Terms(jobs'[i]) = Terms(jobs[i])
    OBVIOUS
  <2>0. /\ jobs \in [JobIds -> Job] /\ jobs[i] \in Job
        /\ jobs[i].status \notin {"None", "Open"}
    BY <1>1 DEF IndInv, TypeOK, Escrowed, Terminal
  <2>1. CASE AdminStep \/ Tick \/ UNCHANGED vars
    <3>1. UNCHANGED jobs
      BY <2>1 DEF AdminStep, Initialize, MigrateConfig, UpdateConfig, AcceptAdmin,
                  SetPaymentMint, Tick, vars
    <3> QED
      BY <3>1
  <2>2. CASE CreateStep
    <3>1. ~(i < config.jobCounter) => jobs[i].status = "None"
      BY <1>1 DEF IndInv, JobIdsSequential
    <3>2. i # config.jobCounter
      BY <3>1, <2>0 DEF JobIds
    <3> QED
      BY <2>2, <3>2, <2>0 DEF CreateStep, CreateJob
  <2>3. ASSUME NEW j \in JobIds, OfferStep(j)
        PROVE  Terms(jobs'[i]) = Terms(jobs[i])
    <3>1. jobs[j].status = "Open"
      BY <2>3 DEF OfferStep, SetProvider, SetBudget, BudgetMayChange, SignFund, Fund
    <3>2. jobs'[i] = jobs[i]
      BY <2>3, <3>1, <2>0 DEF OfferStep, SetProvider, SetBudget, SignFund, Fund
    <3> QED
      BY <3>2
  <2>4. ASSUME NEW j \in JobIds, SettleStep(j)
        PROVE  Terms(jobs'[i]) = Terms(jobs[i])
    <3>1. CASE \E c \in Clients : CloseJob(c, j)
      BY <3>1, <2>0 DEF CloseJob, NoJob
    <3>2. CASE ~\E c \in Clients : CloseJob(c, j)
      <4>1. \E s \in JobStatus : jobs' = [jobs EXCEPT ![j].status = s]
        BY <2>4, <3>2 DEF SettleStep, Submit, Complete, Reject, ClaimRefund, JobStatus,
                          Escrowed, Terminal
      <4> QED
        BY <4>1, <2>0 DEF Job
    <3> QED
      BY <3>1, <3>2
  <2>5. ASSUME NEW j \in JobIds, StrayTransfer(j)
        PROVE  Terms(jobs'[i]) = Terms(jobs[i])
    BY <2>5 DEF StrayTransfer
  <2> QED
    BY <1>1, <2>1, <2>2, <2>3, <2>4, <2>5 DEF Next
<1> QED
  BY <1>1, Invariance, PTL DEF Spec, TermsFrozen

----------------------------------------------------------------------------
(* The program implements the escrow contract *)

PhaseMap == [i \in JobIds |-> Phase(jobs[i].status)]
HeldMap == [i \in JobIds |-> vault[i].amount - ledger[i].stray]
OutMap == [i \in JobIds |-> [worker |-> ledger[i].toProvider,
                             house  |-> ledger[i].toTreasury,
                             client |-> ledger[i].toClient]]

\* A step on job j moves the contract of j alone.
LEMMA ContractFrame ==
    ASSUME IndInv, NEW j \in JobIds,
           jobs' = [jobs EXCEPT ![j] = jobs'[j]],
           vault' = [vault EXCEPT ![j] = vault'[j]],
           ledger' = [ledger EXCEPT ![j] = ledger'[j]]
    PROVE  /\ PhaseMap' = [PhaseMap EXCEPT ![j] = Phase(jobs'[j].status)]
           /\ HeldMap' = [HeldMap EXCEPT ![j] = vault'[j].amount - ledger'[j].stray]
           /\ OutMap' = [OutMap EXCEPT ![j] = [worker |-> ledger'[j].toProvider,
                                               house  |-> ledger'[j].toTreasury,
                                               client |-> ledger'[j].toClient]]
<1>1. jobs \in [JobIds -> Job] /\ vault \in [JobIds -> Vault] /\ ledger \in [JobIds -> Ledger]
  BY DEF IndInv, TypeOK
<1>2. \A i \in JobIds : i # j => jobs'[i] = jobs[i] /\ vault'[i] = vault[i] /\ ledger'[i] = ledger[i]
  BY <1>1
<1>3. PhaseMap' = [PhaseMap EXCEPT ![j] = Phase(jobs'[j].status)]
  BY <1>2 DEF PhaseMap
<1>4. HeldMap' = [HeldMap EXCEPT ![j] = vault'[j].amount - ledger'[j].stray]
  BY <1>2 DEF HeldMap
<1>5. OutMap' = [OutMap EXCEPT ![j] = [worker |-> ledger'[j].toProvider,
                                      house  |-> ledger'[j].toTreasury,
                                      client |-> ledger'[j].toClient]]
  BY <1>2 DEF OutMap
<1> QED
  BY <1>3, <1>4, <1>5

\* What the contract's variables are for a job, by its status.
LEMMA ContractOf ==
    ASSUME IndInv, NEW j \in JobIds
    PROVE  /\ PhaseMap[j] = Phase(jobs[j].status)
           /\ HeldMap[j] = IF jobs[j].status \in Escrowed THEN jobs[j].budget ELSE 0
           /\ jobs[j].status \in Escrowed \cup {"None", "Open"} =>
                OutMap[j] = [worker |-> 0, house |-> 0, client |-> 0]
<1>1. /\ JobSound(jobs[j], vault[j], ledger[j])
      /\ ledger[j] \in Ledger /\ jobs[j] \in Job
  BY JobAccounts
<1>2. jobs[j].budget \in Nat /\ ledger[j].stray \in Nat
  BY <1>1, BoundAssumption DEF Job, Ledger
<1>3. HeldMap[j] = IF jobs[j].status \in Escrowed THEN jobs[j].budget ELSE 0
  BY <1>1, <1>2 DEF HeldMap, JobSound
<1>4. jobs[j].status \in Escrowed \cup {"None", "Open"} =>
        OutMap[j] = [worker |-> 0, house |-> 0, client |-> 0]
  BY <1>1 DEF OutMap, JobSound, SettledInFull
<1> QED
  BY <1>3, <1>4 DEF PhaseMap

\* The contract's actions, in terms of the three maps.
LEMMA ContractMove ==
    ASSUME NEW j \in JobIds, NEW from, NEW to
    PROVE  Contract!Move(j, from, to) <=>
             PhaseMap[j] = from /\ PhaseMap' = [PhaseMap EXCEPT ![j] = to]
BY DEF Contract!Move, PhaseMap

\* create_job opens a contract.
LEMMA CreateOpens ==
    ASSUME IndInv, NEW client, NEW provider, NEW evaluator, NEW expiredAt,
           CreateJob(client, provider, evaluator, expiredAt)
    PROVE  Contract!Open(config.jobCounter)
<1> DEFINE k == config.jobCounter
<1>1. k \in JobIds /\ jobs \in [JobIds -> Job] /\ vault \in [JobIds -> Vault]
  BY BoundAssumption DEF IndInv, TypeOK, PlatformConfig, JobIds, CreateJob
<1>2. jobs[k].status = "None" /\ vault[k].amount = 0 /\ ledger[k].stray = 0
  <2>1. JobSound(jobs[k], vault[k], ledger[k]) /\ ledger[k] \in Ledger
    BY <1>1, JobAccounts
  <2>2. jobs[k].status = "None"
    BY <1>1 DEF IndInv, JobIdsSequential, JobIds
  <2> QED
    BY <2>1, <2>2 DEF JobSound, JobStatus, Escrowed, Terminal, NoVault, Ledger
<1>3. /\ jobs' = [jobs EXCEPT ![k] = jobs'[k]] /\ vault' = [vault EXCEPT ![k] = vault'[k]]
      /\ ledger' = [ledger EXCEPT ![k] = ledger'[k]]
      /\ jobs'[k].status = "Open" /\ vault'[k].amount = 0 /\ ledger' = ledger
  BY <1>1, JobAccounts DEF CreateJob
<1>4. /\ PhaseMap' = [PhaseMap EXCEPT ![k] = "open"]
      /\ PhaseMap[k] = "none"
  BY <1>1, <1>2, <1>3, ContractFrame, ContractOf DEF Phase, Escrowed
<1>5. HeldMap' = HeldMap
  BY <1>1, <1>2, <1>3 DEF HeldMap
<1>6. OutMap' = OutMap
  BY <1>3 DEF OutMap
<1> QED
  BY <1>1, <1>4, <1>5, <1>6, ContractMove DEF Contract!Open, HeldMap, OutMap

\* set_provider, set_budget, signing, submit, a stray transfer and everything
\* outside jobs leave the contract where it is.
LEMMA ContractStutter ==
    ASSUME IndInv,
           \/ AdminStep \/ Tick \/ UNCHANGED vars
           \/ \E j \in JobIds :
                \/ \E c \in Clients, p \in Providers : SetProvider(c, j, p)
                \/ \E s \in Clients \cup Providers, n \in Amounts : SetBudget(s, j, n)
                \/ SignFund(j)
                \/ \E p \in Providers : Submit(p, j)
                \/ StrayTransfer(j)
    PROVE  UNCHANGED Contract!vars
<1>1. jobs \in [JobIds -> Job] /\ vault \in [JobIds -> Vault] /\ ledger \in [JobIds -> Ledger]
  BY DEF IndInv, TypeOK
<1>2. CASE AdminStep \/ Tick \/ UNCHANGED vars
  <2>1. UNCHANGED <<jobs, vault, ledger>>
    BY <1>2 DEF AdminStep, Initialize, MigrateConfig, UpdateConfig, AcceptAdmin,
                SetPaymentMint, Tick, vars
  <2> QED
    BY <2>1 DEF Contract!vars
<1>3. ASSUME NEW j \in JobIds,
             \/ \E c \in Clients, p \in Providers : SetProvider(c, j, p)
             \/ \E s \in Clients \cup Providers, n \in Amounts : SetBudget(s, j, n)
             \/ SignFund(j)
             \/ \E p \in Providers : Submit(p, j)
             \/ StrayTransfer(j)
      PROVE  UNCHANGED Contract!vars
  <2>0. /\ Phase("Funded") = "held" /\ Phase("Submitted") = "held"
        /\ jobs[j] \in Job /\ vault[j] \in Vault /\ ledger[j] \in Ledger
    BY <1>1 DEF Phase, Escrowed
  <2> DEFINE Same(i) ==
               /\ Phase(jobs'[i].status) = Phase(jobs[i].status)
               /\ vault'[i].amount - ledger'[i].stray = vault[i].amount - ledger[i].stray
               /\ ledger'[i].toProvider = ledger[i].toProvider
               /\ ledger'[i].toTreasury = ledger[i].toTreasury
               /\ ledger'[i].toClient = ledger[i].toClient
  <2>1. ASSUME NEW i \in JobIds
        PROVE  Same(i)
    <3>1. ASSUME NEW c \in Clients, NEW p \in Providers, SetProvider(c, j, p)
          PROVE  Same(i)
      BY <1>1, <3>1 DEF SetProvider, Job
    <3>2. ASSUME NEW c \in Clients \cup Providers, NEW n \in Amounts, SetBudget(c, j, n)
          PROVE  Same(i)
      BY <1>1, <3>2 DEF SetBudget, Job
    <3>3. CASE SignFund(j)
      BY <3>3 DEF SignFund
    <3>4. ASSUME NEW p \in Providers, Submit(p, j)
          PROVE  Same(i)
      BY <1>1, <2>0, <3>4 DEF Submit, Job
    <3>5. CASE StrayTransfer(j)
      <4>1. /\ jobs' = jobs
            /\ i = j => /\ vault'[i].amount = vault[i].amount + 1
                        /\ ledger'[i].stray = ledger[i].stray + 1
            /\ i # j => vault'[i] = vault[i] /\ ledger'[i].stray = ledger[i].stray
            /\ ledger'[i].toProvider = ledger[i].toProvider
            /\ ledger'[i].toTreasury = ledger[i].toTreasury
            /\ ledger'[i].toClient = ledger[i].toClient
        BY <1>1, <3>5 DEF StrayTransfer, Vault, Ledger
      <4>2. vault[j].amount \in Nat /\ ledger[j].stray \in Nat
        BY <2>0 DEF Vault, Ledger
      <4> QED
        BY <4>1, <4>2
    <3> QED
      BY <1>3, <3>1, <3>2, <3>3, <3>4, <3>5
  <2> QED
    BY <2>1 DEF Contract!vars
<1> QED
  BY <1>2, <1>3

\* fund deposits.
LEMMA FundDeposits ==
    ASSUME IndInv, NEW j \in JobIds, Fund(j)
    PROVE  Contract!Deposit(j)
<1> DEFINE budget == jobs[j].budget
<1>1. /\ jobs[j].status = "Open" /\ budget > 0 /\ budget \in Nat
      /\ vault[j] \in Vault /\ ledger[j] \in Ledger
      /\ jobs \in [JobIds -> Job] /\ vault \in [JobIds -> Vault] /\ ledger \in [JobIds -> Ledger]
  BY JobAccounts, BoundAssumption DEF Fund, Job, IndInv, TypeOK
<1>2. /\ jobs' = [jobs EXCEPT ![j] = jobs'[j]] /\ vault' = [vault EXCEPT ![j] = vault'[j]]
      /\ ledger' = [ledger EXCEPT ![j] = ledger'[j]]
      /\ jobs'[j].status = "Funded"
      /\ vault'[j].amount = vault[j].amount + budget
      /\ ledger'[j] = [ledger[j] EXCEPT !.deposited = budget]
  BY <1>1 DEF Fund, Job, Vault
<1>3. PhaseMap[j] = "open" /\ HeldMap[j] = 0
  BY <1>1, ContractOf DEF Phase, Escrowed
<1>4. vault'[j].amount - ledger'[j].stray = budget
  <2>1. vault[j].amount - ledger[j].stray = 0
    BY <1>3 DEF HeldMap
  <2>2. ledger'[j].stray = ledger[j].stray /\ ledger[j].stray \in Nat /\ vault[j].amount \in Nat
    BY <1>1, <1>2 DEF Ledger, Vault
  <2> QED
    BY <1>1, <1>2, <2>1, <2>2
<1>5. PhaseMap' = [PhaseMap EXCEPT ![j] = "held"]
  BY <1>2, ContractFrame DEF Phase, Escrowed
<1>6. HeldMap' = [HeldMap EXCEPT ![j] = budget]
  BY <1>2, <1>4, ContractFrame
<1>7. HeldMap'[j] \in Nat \ {0} /\ HeldMap' = [HeldMap EXCEPT ![j] = HeldMap'[j]]
  <2>1. j \in DOMAIN HeldMap
    BY DEF HeldMap
  <2>2. HeldMap'[j] = budget
    BY <1>6, <2>1
  <2>3. budget \in Nat \ {0}
    BY <1>1
  <2> HIDE DEF budget
  <2> QED
    BY <1>6, <2>2, <2>3
<1>8. OutMap' = OutMap
  <2>1. \A i \in JobIds : /\ ledger'[i].toProvider = ledger[i].toProvider
                         /\ ledger'[i].toTreasury = ledger[i].toTreasury
                         /\ ledger'[i].toClient = ledger[i].toClient
    BY <1>1, <1>2 DEF Ledger
  <2> QED
    BY <2>1 DEF OutMap
<1> QED
  BY <1>1, <1>3, <1>5, <1>7, <1>8, ContractMove DEF Contract!Deposit, HeldMap, OutMap

\* complete releases, with a fee of a tenth at most.
LEMMA CompleteReleases ==
    ASSUME IndInv, NEW signer, NEW j \in JobIds, Complete(signer, j)
    PROVE  Contract!Release(j)
<1> DEFINE budget == jobs[j].budget
           fee == CompletionFee(budget, config.feeBps)
<1>1. /\ jobs[j].status = "Submitted" /\ budget \in Nat
      /\ vault[j] \in Vault /\ ledger[j] \in Ledger
      /\ jobs \in [JobIds -> Job] /\ vault \in [JobIds -> Vault] /\ ledger \in [JobIds -> Ledger]
      /\ config.feeBps \in 0..MaxFeeBps
  BY JobAccounts, BoundAssumption DEF Complete, Job, IndInv, TypeOK, PlatformConfig
<1>2. fee \in Nat /\ 10 * fee <= budget
  BY <1>1, CompletionFeeBound
<1>3. /\ jobs' = [jobs EXCEPT ![j] = jobs'[j]] /\ vault' = [vault EXCEPT ![j] = vault'[j]]
      /\ ledger' = [ledger EXCEPT ![j] = ledger'[j]]
      /\ jobs'[j].status = "Completed"
      /\ vault'[j].amount = vault[j].amount - budget
      /\ ledger'[j] = [ledger[j] EXCEPT !.toProvider = @ + (budget - fee),
                                      !.toTreasury = @ + fee]
  BY <1>1 DEF Complete, Job, Vault
<1> HIDE DEF fee
<1>4. PhaseMap[j] = "held" /\ HeldMap[j] = budget
      /\ OutMap[j] = [worker |-> 0, house |-> 0, client |-> 0]
  BY <1>1, ContractOf DEF Phase, Escrowed
<1>5. /\ ledger'[j].stray = ledger[j].stray
      /\ ledger'[j].toProvider = budget - fee
      /\ ledger'[j].toTreasury = fee
      /\ ledger'[j].toClient = 0
  <2>1. ledger[j].toProvider = 0 /\ ledger[j].toTreasury = 0 /\ ledger[j].toClient = 0
    BY <1>4 DEF OutMap
  <2> QED
    BY <1>1, <1>2, <1>3, <2>1 DEF Ledger
<1>6. vault'[j].amount - ledger'[j].stray = 0
  BY <1>1, <1>3, <1>4, <1>5 DEF HeldMap, Vault, Ledger
<1>7. PhaseMap' = [PhaseMap EXCEPT ![j] = "released"]
  BY <1>3, ContractFrame DEF Phase, Escrowed
<1>8. HeldMap' = [HeldMap EXCEPT ![j] = 0]
  BY <1>3, <1>6, ContractFrame
<1>9. OutMap' = [OutMap EXCEPT ![j] = [worker |-> HeldMap[j] - fee, house |-> fee, client |-> 0]]
  <2>1. OutMap' = [OutMap EXCEPT ![j] = [worker |-> ledger'[j].toProvider,
                                        house  |-> ledger'[j].toTreasury,
                                        client |-> ledger'[j].toClient]]
    BY <1>3, ContractFrame
  <2>2. ledger'[j].toProvider = HeldMap[j] - fee
    BY <1>4, <1>5
  <2> QED
    BY <2>1, <2>2, <1>5
<1>10. fee \in 0..HeldMap[j] /\ 10 * fee <= HeldMap[j]
  BY <1>1, <1>2, <1>4
<1>11. OutMap' = [OutMap EXCEPT ![j] =
         [Contract!Nothing EXCEPT !.worker = HeldMap[j] - fee, !.house = fee]]
  BY <1>9 DEF Contract!Nothing
<1> QED
  BY <1>4, <1>7, <1>8, <1>10, <1>11, ContractMove DEF Contract!Release, HeldMap, OutMap

\* A refund, by reject or claim_refund, returns the deposit.
LEMMA RefundReturns ==
    ASSUME IndInv, NEW j \in JobIds, NEW status \in {"Rejected", "Expired"},
           RefundStep(j, status)
    PROVE  Contract!Return(j)
<1> DEFINE budget == jobs[j].budget
<1>1. /\ jobs[j].status \in Escrowed /\ budget \in Nat
      /\ vault[j] \in Vault /\ ledger[j] \in Ledger
      /\ jobs \in [JobIds -> Job] /\ vault \in [JobIds -> Vault] /\ ledger \in [JobIds -> Ledger]
  BY JobAccounts, BoundAssumption DEF RefundStep, Job, IndInv, TypeOK
<1>2. /\ jobs' = [jobs EXCEPT ![j] = jobs'[j]] /\ vault' = [vault EXCEPT ![j] = vault'[j]]
      /\ ledger' = [ledger EXCEPT ![j] = ledger'[j]]
      /\ jobs'[j].status = status
      /\ vault'[j].amount = vault[j].amount - budget
      /\ ledger'[j] = [ledger[j] EXCEPT !.toClient = @ + budget]
  BY <1>1 DEF RefundStep, Job, Vault
<1>3. PhaseMap[j] = "held" /\ HeldMap[j] = budget
      /\ OutMap[j] = [worker |-> 0, house |-> 0, client |-> 0]
  BY <1>1, ContractOf DEF Phase, Escrowed
<1>4. /\ ledger'[j].stray = ledger[j].stray
      /\ ledger'[j].toProvider = 0 /\ ledger'[j].toTreasury = 0
      /\ ledger'[j].toClient = budget
  <2>1. ledger[j].toProvider = 0 /\ ledger[j].toTreasury = 0 /\ ledger[j].toClient = 0
    BY <1>3 DEF OutMap
  <2> QED
    BY <1>1, <1>2, <2>1 DEF Ledger
<1>5. vault'[j].amount - ledger'[j].stray = 0
  BY <1>1, <1>2, <1>3, <1>4 DEF HeldMap, Vault, Ledger
<1>6. PhaseMap' = [PhaseMap EXCEPT ![j] = "returned"]
  BY <1>2, ContractFrame DEF Phase, Escrowed
<1>7. HeldMap' = [HeldMap EXCEPT ![j] = 0]
  BY <1>2, <1>5, ContractFrame
<1>8. OutMap' = [OutMap EXCEPT ![j] = [Contract!Nothing EXCEPT !.client = HeldMap[j]]]
  <2>1. OutMap' = [OutMap EXCEPT ![j] = [worker |-> ledger'[j].toProvider,
                                        house  |-> ledger'[j].toTreasury,
                                        client |-> ledger'[j].toClient]]
    BY <1>2, ContractFrame
  <2>2. ledger'[j].toClient = HeldMap[j]
    BY <1>3, <1>4
  <2>3. [Contract!Nothing EXCEPT !.client = HeldMap[j]]
          = [worker |-> 0, house |-> 0, client |-> HeldMap[j]]
    BY DEF Contract!Nothing
  <2> QED
    BY <2>1, <2>2, <2>3, <1>4
<1> QED
  BY <1>3, <1>6, <1>7, <1>8, ContractMove DEF Contract!Return, HeldMap, OutMap

\* reject of an open job withdraws it.
LEMMA RejectOpenWithdraws ==
    ASSUME IndInv, NEW signer, NEW j \in JobIds, Reject(signer, j),
           jobs[j].status \notin Escrowed
    PROVE  Contract!Withdraw(j)
<1>1. /\ jobs[j].status = "Open" /\ RejectionRefund(j) = 0
      /\ vault[j] \in Vault /\ ledger[j] \in Ledger /\ jobs[j] \in Job
      /\ jobs \in [JobIds -> Job] /\ vault \in [JobIds -> Vault] /\ ledger \in [JobIds -> Ledger]
  BY JobAccounts DEF Reject, MayReject, RejectionRefund, IndInv, TypeOK
<1>2. /\ jobs' = [jobs EXCEPT ![j] = jobs'[j]] /\ jobs'[j].status = "Rejected"
      /\ vault' = vault /\ ledger' = ledger
  BY <1>1 DEF Reject, Job, Vault, Ledger
<1>3. PhaseMap[j] = "open"
  BY <1>1, ContractOf DEF Phase, Escrowed
<1>4. PhaseMap' = [PhaseMap EXCEPT ![j] = "returned"]
  BY <1>1, <1>2, JobAccounts, ContractFrame DEF Phase, Escrowed
<1>5. HeldMap' = HeldMap /\ OutMap' = OutMap
  BY <1>2 DEF HeldMap, OutMap
<1> QED
  BY <1>3, <1>4, <1>5, ContractMove DEF Contract!Withdraw, HeldMap, OutMap

\* close_job closes the contract of a settled job.
LEMMA CloseCloses ==
    ASSUME IndInv, NEW signer, NEW j \in JobIds, CloseJob(signer, j)
    PROVE  Contract!Close(j)
<1>1. /\ jobs[j].status \in Terminal /\ vault[j].amount = 0
      /\ vault[j] \in Vault /\ ledger[j] \in Ledger
      /\ jobs \in [JobIds -> Job] /\ vault \in [JobIds -> Vault]
  BY JobAccounts DEF CloseJob, Closable, IsTerminal, IndInv, TypeOK
<1>2. /\ jobs' = [jobs EXCEPT ![j] = jobs'[j]] /\ vault' = [vault EXCEPT ![j] = vault'[j]]
      /\ jobs'[j].status = "Closed" /\ vault'[j].amount = 0 /\ ledger' = ledger
      /\ ledger' = [ledger EXCEPT ![j] = ledger'[j]]
  BY <1>1, JobAccounts DEF CloseJob, NoJob, NoVault
<1>3. PhaseMap[j] \in {"released", "returned"}
  BY <1>1, ContractOf DEF Phase, Escrowed, Terminal
<1>4. PhaseMap' = [PhaseMap EXCEPT ![j] = "closed"]
  BY <1>2, ContractFrame DEF Phase, Escrowed
<1>5. HeldMap' = HeldMap
  BY <1>1, <1>2 DEF HeldMap
<1>6. OutMap' = OutMap
  BY <1>2 DEF OutMap
<1> QED
  BY <1>3, <1>4, <1>5, <1>6 DEF Contract!Close, PhaseMap, HeldMap, OutMap

LEMMA ContractStep ==
    ASSUME IndInv, [Next]_vars PROVE [Contract!Next]_(Contract!vars)
<1>1. CASE AdminStep \/ Tick \/ UNCHANGED vars
  BY <1>1, ContractStutter
<1>2. CASE CreateStep
  <2>1. PICK c \in Clients, p \in Providers \cup {Default}, e \in Evaluators \cup {Default},
             x \in 0..MaxTime : CreateJob(c, p, e, x)
    BY <1>2 DEF CreateStep
  <2>2. config.jobCounter \in JobIds
    BY <2>1, BoundAssumption DEF CreateJob, IndInv, TypeOK, PlatformConfig, JobIds
  <2> QED
    BY <2>1, <2>2, CreateOpens DEF Contract!Next
<1>3. ASSUME NEW j \in JobIds, OfferStep(j)
      PROVE  [Contract!Next]_(Contract!vars)
  <2>1. CASE Fund(j)
    BY <2>1, FundDeposits DEF Contract!Next
  <2>2. CASE ~Fund(j)
    BY <1>3, <2>2, ContractStutter DEF OfferStep
  <2> QED
    BY <2>1, <2>2
<1>4. ASSUME NEW j \in JobIds, SettleStep(j)
      PROVE  [Contract!Next]_(Contract!vars)
  <2>1. ASSUME NEW p \in Providers, Submit(p, j)
        PROVE  UNCHANGED Contract!vars
    BY <2>1, ContractStutter
  <2>2. ASSUME NEW e \in Evaluators, Complete(e, j)
        PROVE  Contract!Release(j)
    BY <2>2, CompleteReleases
  <2>3. ASSUME NEW s \in Clients \cup Evaluators, Reject(s, j)
        PROVE  Contract!Return(j) \/ Contract!Withdraw(j)
    <3>1. CASE jobs[j].status \in Escrowed
      <4>1. JobSound(jobs[j], vault[j], ledger[j])
        BY JobAccounts
      <4>2. RefundStep(j, "Rejected")
        BY <2>3, <3>1, <4>1 DEF Reject, RefundStep, RejectionRefund, JobSound
      <4> QED
        BY <4>2, RefundReturns
    <3>2. CASE jobs[j].status \notin Escrowed
      BY <2>3, <3>2, RejectOpenWithdraws
    <3> QED
      BY <3>1, <3>2
  <2>4. CASE ClaimRefund(j)
    <3>1. RefundStep(j, "Expired")
      BY <2>4 DEF ClaimRefund, RefundDue, RefundStep
    <3> QED
      BY <3>1, RefundReturns DEF Contract!Next
  <2>5. ASSUME NEW c \in Clients, CloseJob(c, j)
        PROVE  Contract!Close(j)
    BY <2>5, CloseCloses
  <2> QED
    BY <1>4, <2>1, <2>2, <2>3, <2>4, <2>5 DEF SettleStep, Contract!Next
<1>5. ASSUME NEW j \in JobIds, StrayTransfer(j)
      PROVE  UNCHANGED Contract!vars
  BY <1>5, ContractStutter
<1> QED
  BY <1>1, <1>2, <1>3, <1>4, <1>5 DEF Next

\* Every behaviour of the program is one of the escrow contract.
THEOREM ContractImplemented == Spec => ImplementsContract
<1>1. Init => Contract!Init
  <2> SUFFICES ASSUME Init PROVE Contract!Init
    OBVIOUS
  <2>1. Phase("None") = "none"
    BY DEF Phase, Escrowed
  <2> QED
    BY <2>1 DEF Init, Contract!Init, Contract!Nothing, NoJob, NoVault, EmptyLedger
<1>2. IndInv /\ [Next]_vars => [Contract!Next]_(Contract!vars)
  BY ContractStep
<1> QED
  BY <1>1, <1>2, Invariance, PTL DEF Spec, ImplementsContract, Contract!Spec

----------------------------------------------------------------------------
(* The administration implements the two-step handoff *)

LEMMA HandoffStep ==
    ASSUME IndInv, [Next]_vars PROVE [Handoff!Next]_(Handoff!vars)
<1>1. /\ config \in PlatformConfig
      /\ config.layout = "absent" <=> config.admin = Default
      /\ config.layout = "absent" => config.pendingAdmin = Default
  BY DEF IndInv, TypeOK, AccountsConsistent, ConfigConsistent
<1>2. CASE AdminStep
  <2>1. PICK a \in Admins :
          \/ \E f \in FeeRates, t \in Treasuries, m \in Mints : Initialize(a, f, t, m)
          \/ MigrateConfig(a)
          \/ \E f \in FeeRates, t \in Treasuries, p \in BOOLEAN, b \in Admins \cup {Default} :
               UpdateConfig(a, f, t, p, b)
          \/ AcceptAdmin(a)
          \/ \E m \in Mints : SetPaymentMint(a, m)
    BY <1>2 DEF AdminStep
  <2>2. ASSUME NEW f \in FeeRates, NEW t \in Treasuries, NEW m \in Mints, Initialize(a, f, t, m)
        PROVE  Handoff!Appoint
    BY <1>1, <2>2 DEF Initialize, NewConfig, Handoff!Appoint
  <2>3. CASE MigrateConfig(a) \/ \E m \in Mints : SetPaymentMint(a, m)
    BY <1>1, <2>3 DEF MigrateConfig, SetPaymentMint, PlatformConfig, Handoff!vars
  <2>4. ASSUME NEW f \in FeeRates, NEW t \in Treasuries, NEW p \in BOOLEAN,
               NEW b \in Admins \cup {Default}, UpdateConfig(a, f, t, p, b)
        PROVE  Handoff!Propose
    <3>1. config.admin # Default
      BY <1>1, <2>4 DEF UpdateConfig, AdminSigns, ConfigLoads
    <3>2. config'.admin = config.admin /\ config'.pendingAdmin = b
      BY <1>1, <2>4 DEF UpdateConfig, PlatformConfig
    <3> QED
      BY <3>1, <3>2 DEF Handoff!Propose
  <2>5. CASE AcceptAdmin(a)
    <3>1. config'.admin = config.pendingAdmin /\ config'.pendingAdmin = Default
      BY <1>1, <2>5 DEF AcceptAdmin, Handover, PlatformConfig
    <3>2. Handoff!Accept
      BY <2>5, <3>1 DEF AcceptAdmin, Handoff!Accept
    <3> QED
      BY <3>2 DEF Handoff!Next
  <2> QED
    BY <2>1, <2>2, <2>3, <2>4, <2>5 DEF Handoff!Next
<1>3. CASE CreateStep
  <2>1. config'.admin = config.admin /\ config'.pendingAdmin = config.pendingAdmin
    BY <1>1, <1>3 DEF CreateStep, CreateJob, PlatformConfig
  <2> QED
    BY <2>1 DEF Handoff!vars
<1>4. CASE Tick \/ UNCHANGED vars \/ \E j \in JobIds : OfferStep(j) \/ SettleStep(j) \/ StrayTransfer(j)
  <2>1. UNCHANGED config
    BY <1>4 DEF Tick, vars, OfferStep, SetProvider, SetBudget, SignFund, Fund, SettleStep,
                Submit, Complete, Reject, ClaimRefund, CloseJob, StrayTransfer
  <2> QED
    BY <2>1 DEF Handoff!vars
<1> QED
  BY <1>2, <1>3, <1>4 DEF Next

\* The admin key changes hands only as AdminHandoff allows.
THEOREM HandoffImplemented == Spec => ImplementsHandoff
<1>1. Init => Handoff!Init
  BY DEF Init, NoConfig, NewConfig, Handoff!Init
<1>2. IndInv /\ [Next]_vars => [Handoff!Next]_(Handoff!vars)
  BY HandoffStep
<1> QED
  BY <1>1, <1>2, Invariance, PTL DEF Spec, ImplementsHandoff, Handoff!Spec

=============================================================================
