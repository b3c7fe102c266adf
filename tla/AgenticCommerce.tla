--------------------------- MODULE AgenticCommerce ---------------------------
(***************************************************************************)
(* The agentic-commerce program: jobs whose budget is escrowed in a token *)
(* vault per job until an evaluator completes or rejects the job, or the  *)
(* job expires.                                                           *)
(*                                                                         *)
(* One action is one instruction.  A Solana transaction is atomic, so an  *)
(* instruction that returns an error changes nothing: a failing call is   *)
(* an action that is not enabled.  Signers are parameters.  Pubkeys are   *)
(* model values, and Default is Pubkey::default().                        *)
(***************************************************************************)
EXTENDS Integers

CONSTANTS
    Clients, Providers, Evaluators, Admins, Treasuries,  \* keys, by role
    Mints,       \* SPL token mints
    Default,     \* Pubkey::default(): nobody signs for it
    Amounts,     \* budgets a caller may pass to set_budget (u64)
    FeeRates,    \* fees the admin may pass, in basis points (u16)
    MaxU64,      \* u64::MAX, smaller in the checks
    MaxJobs,     \* the value at which the job counter would overflow
    MaxTime,     \* bound on the clock
    MaxStray     \* bound on the tokens sent to a vault outside the program

ASSUME DefaultAssumption ==
    Default \notin Clients \cup Providers \cup Evaluators \cup Admins \cup Treasuries \cup Mints

ASSUME BoundAssumption ==
    /\ MaxU64 \in Nat /\ MaxJobs \in Nat \ {0} /\ MaxTime \in Nat /\ MaxStray \in Nat
    /\ Amounts \subseteq 0..MaxU64
    /\ FeeRates \subseteq Nat

VARIABLES
    config,      \* the PlatformConfig account
    jobs,        \* the Job accounts, by job id
    vault,       \* the escrow token account of each job
    ledger,      \* history: what entered and left each vault
    signedFund,  \* fund transactions signed and not yet landed
    now          \* Clock::unix_timestamp

vars == <<config, jobs, vault, ledger, signedFund, now>>

JobIds == 0..(MaxJobs - 1)

----------------------------------------------------------------------------
(* The accounts *)

Escrowed == {"Funded", "Submitted"}
Terminal == {"Completed", "Rejected", "Expired"}
JobStatus == {"Open"} \cup Escrowed \cup Terminal

\* "None" and "Closed" stand for an account that does not exist, before and
\* after its life.  Description, hook, deliverable, reason, the bumps and the
\* two timestamps no instruction reads are left out.
Job == [status    : JobStatus \cup {"None", "Closed"},
        client    : Clients \cup {Default},
        provider  : Providers \cup {Default},
        evaluator : Evaluators \cup {Default},
        budget    : 0..MaxU64,
        expiredAt : 0..MaxTime]

NoJob == [status |-> "None", client |-> Default, provider |-> Default,
          evaluator |-> Default, budget |-> 0, expiredAt |-> 0]

Exists(j) == jobs[j].status \in JobStatus
IsTerminal(j) == jobs[j].status \in Terminal
IsExpired(j) == now >= jobs[j].expiredAt

Vault == [mint : Mints \cup {Default}, amount : Nat]
NoVault == [mint |-> Default, amount |-> 0]

Ledger == [deposited : Nat, stray : Nat, toProvider : Nat, toTreasury : Nat, toClient : Nat]
EmptyLedger == [deposited |-> 0, stray |-> 0, toProvider |-> 0, toTreasury |-> 0, toClient |-> 0]

\* "legacy" is an account allocated before paused and pending_admin existed:
\* Anchor cannot deserialize it.  The two missing fields read as the zeros the
\* migration appends.
MaxFeeBps == 1000
PlatformConfig == [layout       : {"absent", "legacy", "current"},
                   admin        : Admins \cup {Default},
                   feeBps       : 0..MaxFeeBps,
                   treasury     : Treasuries \cup {Default},
                   paymentMint  : Mints \cup {Default},
                   jobCounter   : 0..MaxJobs,
                   paused       : BOOLEAN,
                   pendingAdmin : Admins \cup {Default}]

NoConfig == [layout |-> "absent", admin |-> Default, feeBps |-> 0, treasury |-> Default,
             paymentMint |-> Default, jobCounter |-> 0, paused |-> FALSE,
             pendingAdmin |-> Default]

NewConfig(layout, admin, feeBps, treasury, mint) ==
    [layout |-> layout, admin |-> admin, feeBps |-> feeBps, treasury |-> treasury,
     paymentMint |-> mint, jobCounter |-> 0, paused |-> FALSE, pendingAdmin |-> Default]

\* Account<PlatformConfig> deserializes.
ConfigLoads_AnyLayout == config.layout # "absent"   \* mutant: the old layout is accepted
ConfigLoads == config.layout = "current"
AdminSigns(signer) == ConfigLoads /\ signer = config.admin

\* A fresh cluster, or one upgraded from the program's first layout.
Init ==
    /\ \/ config = NoConfig
       \/ \E a \in Admins, f \in FeeRates, t \in Treasuries, m \in Mints :
            f <= MaxFeeBps /\ config = NewConfig("legacy", a, f, t, m)
    /\ jobs = [j \in JobIds |-> NoJob]
    /\ vault = [j \in JobIds |-> NoVault]
    /\ ledger = [j \in JobIds |-> EmptyLedger]
    /\ signedFund = [j \in JobIds |-> 0]
    /\ now = 0

----------------------------------------------------------------------------
(* The platform's administration *)

\* The protocol's cap on fees, checked by initialize and update_config.
FeeAllowed_Unchecked(bps) == bps \in FeeRates   \* mutant: the cap is not checked
FeeAllowed(bps) == bps <= MaxFeeBps

\* Whoever initializes first is the admin; the account can be created once.
Initialize(signer, bps, treasury, mint) ==
    /\ config.layout = "absent"
    /\ FeeAllowed(bps)
    /\ config' = NewConfig("current", signer, bps, treasury, mint)
    /\ UNCHANGED <<jobs, vault, ledger, signedFund, now>>

\* Grows an account of the old layout; at the current size it does nothing.
MigrateConfig(signer) ==
    /\ config.layout = "legacy"
    /\ signer = config.admin
    /\ config' = [config EXCEPT !.layout = "current"]
    /\ UNCHANGED <<jobs, vault, ledger, signedFund, now>>

\* The fee is always written; passing None for another field is passing the
\* value it has.
UpdateConfig(signer, bps, treasury, paused, proposed) ==
    /\ AdminSigns(signer)
    /\ FeeAllowed(bps)
    /\ config' = [config EXCEPT !.feeBps = bps, !.treasury = treasury,
                                !.paused = paused, !.pendingAdmin = proposed]
    /\ UNCHANGED <<jobs, vault, ledger, signedFund, now>>

\* mutant: the proposal survives its acceptance
Handover_KeepsProposal == [config EXCEPT !.admin = config.pendingAdmin]
Handover == [config EXCEPT !.admin = config.pendingAdmin, !.pendingAdmin = Default]

AcceptAdmin(signer) ==
    /\ ConfigLoads
    /\ config.pendingAdmin = signer
    /\ config.pendingAdmin # Default
    /\ config' = Handover
    /\ UNCHANGED <<jobs, vault, ledger, signedFund, now>>

\* The mint of later jobs, and the mint every later payout is made in.
SetPaymentMint(signer, mint) ==
    /\ AdminSigns(signer)
    /\ config' = [config EXCEPT !.paymentMint = mint]
    /\ UNCHANGED <<jobs, vault, ledger, signedFund, now>>

----------------------------------------------------------------------------
(* Offering a job *)

NextJobCounter_Stuck == config.jobCounter   \* mutant: the counter is not saved
NextJobCounter == config.jobCounter + 1

\* The job's address is derived from the counter, so the new account must not
\* exist; its vault holds the mint configured now, for good.
CreateJob(client, provider, evaluator, expiredAt) ==
    LET j == config.jobCounter IN
    /\ ConfigLoads
    /\ ~config.paused
    /\ evaluator # Default
    /\ expiredAt > now
    /\ j < MaxJobs
    /\ ~Exists(j)
    /\ config' = [config EXCEPT !.jobCounter = NextJobCounter]
    /\ jobs' = [jobs EXCEPT ![j] =
         [status |-> "Open", client |-> client, provider |-> provider,
          evaluator |-> evaluator, budget |-> 0, expiredAt |-> expiredAt]]
    /\ vault' = [vault EXCEPT ![j] = [mint |-> config.paymentMint, amount |-> 0]]
    /\ UNCHANGED <<ledger, signedFund, now>>

SetProvider(signer, j, provider) ==
    /\ jobs[j].client = signer
    /\ jobs[j].status = "Open"
    /\ jobs[j].provider = Default
    /\ provider # Default
    /\ jobs' = [jobs EXCEPT ![j].provider = provider]
    /\ UNCHANGED <<config, vault, ledger, signedFund, now>>

BudgetMayChange_Always(j) == Exists(j)   \* mutant: the status is not checked
BudgetMayChange(j) == jobs[j].status = "Open"

SetBudget(signer, j, amount) ==
    /\ BudgetMayChange(j)
    /\ signer \in {jobs[j].client, jobs[j].provider}
    /\ amount > 0
    /\ jobs' = [jobs EXCEPT ![j].budget = amount]
    /\ UNCHANGED <<config, vault, ledger, signedFund, now>>

\* Off chain: the client reads the budget and signs fund(expected_budget).  The
\* transaction lands later, if at all, and set_budget may land before it.
SignFund(j) ==
    /\ jobs[j].status = "Open"
    /\ jobs[j].budget > 0
    /\ signedFund' = [signedFund EXCEPT ![j] = jobs[j].budget]
    /\ UNCHANGED <<config, jobs, vault, ledger, now>>

BudgetAsExpected_Unchecked(j) == signedFund[j] > 0   \* mutant: expected_budget is ignored
BudgetAsExpected(j) == signedFund[j] = jobs[j].budget

\* The client's signed transaction lands.  No config account is involved: the
\* deposit is made in the mint of the vault.
Fund(j) ==
    /\ jobs[j].status = "Open"
    /\ jobs[j].provider # Default
    /\ jobs[j].budget > 0
    /\ BudgetAsExpected(j)
    /\ now < jobs[j].expiredAt
    /\ jobs' = [jobs EXCEPT ![j].status = "Funded"]
    /\ vault' = [vault EXCEPT ![j].amount = @ + jobs[j].budget]
    /\ ledger' = [ledger EXCEPT ![j].deposited = jobs[j].budget]
    /\ signedFund' = [signedFund EXCEPT ![j] = 0]
    /\ UNCHANGED <<config, now>>

----------------------------------------------------------------------------
(* Doing the work and settling it *)

Submit(signer, j) ==
    /\ jobs[j].provider = signer
    /\ jobs[j].status = "Funded"
    /\ now < jobs[j].expiredAt
    /\ jobs' = [jobs EXCEPT ![j].status = "Submitted"]
    /\ UNCHANGED <<config, vault, ledger, signedFund, now>>

\* A payout goes to token accounts of the configured mint, and the SPL token
\* program refuses one from a vault of another mint or without the tokens.
VaultPays(j, amount) ==
    /\ ConfigLoads
    /\ vault[j].mint = config.paymentMint
    /\ vault[j].amount >= amount

BpsDenominator == 10000

\* checked_mul
FeeFits(budget, bps) == bps > 0 => budget * bps <= MaxU64

CompletionFee_RoundedUp(budget, bps) ==   \* mutant: the house rounds in its favour
    (budget * bps + BpsDenominator - 1) \div BpsDenominator
CompletionFee(budget, bps) == (budget * bps) \div BpsDenominator

\* Only the evaluator decides, at any time: complete has no deadline.
Complete(signer, j) ==
    LET budget == jobs[j].budget
        fee    == CompletionFee(budget, config.feeBps)
    IN
    /\ jobs[j].evaluator = signer
    /\ jobs[j].status = "Submitted"
    /\ FeeFits(budget, config.feeBps)
    /\ VaultPays(j, budget)
    /\ jobs' = [jobs EXCEPT ![j].status = "Completed"]
    /\ vault' = [vault EXCEPT ![j].amount = @ - budget]
    /\ ledger' = [ledger EXCEPT ![j].toProvider = @ + (budget - fee),
                                ![j].toTreasury = @ + fee]
    /\ UNCHANGED <<config, signedFund, now>>

\* Who may reject depends on whether the job is funded.
MayReject(signer, j) ==
    \/ jobs[j].status = "Open" /\ signer = jobs[j].client
    \/ jobs[j].status \in Escrowed /\ signer = jobs[j].evaluator

RejectionRefund_SubmittedKept(j) ==   \* mutant: submitted work is not refunded
    IF jobs[j].status = "Funded" THEN jobs[j].budget ELSE 0
RejectionRefund(j) == IF jobs[j].status \in Escrowed THEN jobs[j].budget ELSE 0

\* An open job needs no transfer, so any mint will do.
Reject(signer, j) ==
    LET refund == RejectionRefund(j) IN
    /\ MayReject(signer, j)
    /\ ConfigLoads
    /\ refund > 0 => VaultPays(j, refund)
    /\ jobs' = [jobs EXCEPT ![j].status = "Rejected"]
    /\ vault' = [vault EXCEPT ![j].amount = @ - refund]
    /\ ledger' = [ledger EXCEPT ![j].toClient = @ + refund]
    /\ UNCHANGED <<config, signedFund, now>>

RefundDue_UnlessPaused(j) ==   \* mutant: pausing stops refunds too
    jobs[j].status \in Escrowed /\ IsExpired(j) /\ ~config.paused
RefundDue_Late(j) ==           \* mutant: off by one at the deadline
    jobs[j].status \in Escrowed /\ now > jobs[j].expiredAt
RefundDue(j) == jobs[j].status \in Escrowed /\ IsExpired(j)

\* Anyone may trigger it; the refund goes to the client.
ClaimRefund(j) ==
    /\ RefundDue(j)
    /\ VaultPays(j, jobs[j].budget)
    /\ jobs' = [jobs EXCEPT ![j].status = "Expired"]
    /\ vault' = [vault EXCEPT ![j].amount = @ - jobs[j].budget]
    /\ ledger' = [ledger EXCEPT ![j].toClient = @ + jobs[j].budget]
    /\ UNCHANGED <<config, signedFund, now>>

Closable(j) == IsTerminal(j)

\* The SPL token program closes an empty token account only.
CloseJob(signer, j) ==
    /\ jobs[j].client = signer
    /\ Closable(j)
    /\ ConfigLoads
    /\ vault[j].amount = 0
    /\ jobs' = [jobs EXCEPT ![j] = [NoJob EXCEPT !.status = "Closed"]]
    /\ vault' = [vault EXCEPT ![j] = NoVault]
    /\ UNCHANGED <<config, ledger, signedFund, now>>

----------------------------------------------------------------------------
(* The environment *)

\* Any holder of the vault's mint can transfer tokens to it directly.
StrayTransfer(j) ==
    /\ Exists(j)
    /\ ledger[j].stray < MaxStray
    /\ vault' = [vault EXCEPT ![j].amount = @ + 1]
    /\ ledger' = [ledger EXCEPT ![j].stray = @ + 1]
    /\ UNCHANGED <<config, jobs, signedFund, now>>

Tick == /\ now < MaxTime
        /\ now' = now + 1
        /\ UNCHANGED <<config, jobs, vault, ledger, signedFund>>

AdminStep ==
    \E a \in Admins :
      \/ \E f \in FeeRates, t \in Treasuries, m \in Mints : Initialize(a, f, t, m)
      \/ MigrateConfig(a)
      \/ \E f \in FeeRates, t \in Treasuries, p \in BOOLEAN, b \in Admins \cup {Default} :
           UpdateConfig(a, f, t, p, b)
      \/ AcceptAdmin(a)
      \/ \E m \in Mints : SetPaymentMint(a, m)

OfferStep(j) ==
    \/ \E c \in Clients, p \in Providers : SetProvider(c, j, p)
    \/ \E s \in Clients \cup Providers, n \in Amounts : SetBudget(s, j, n)
    \/ SignFund(j)
    \/ Fund(j)

SettleStep(j) ==
    \/ \E p \in Providers : Submit(p, j)
    \/ \E e \in Evaluators : Complete(e, j)
    \/ \E s \in Clients \cup Evaluators : Reject(s, j)
    \/ ClaimRefund(j)
    \/ \E c \in Clients : CloseJob(c, j)

CreateStep ==
    \E c \in Clients, p \in Providers \cup {Default},
       e \in Evaluators \cup {Default}, x \in 0..MaxTime : CreateJob(c, p, e, x)

Next ==
    \/ AdminStep
    \/ CreateStep
    \/ \E j \in JobIds : OfferStep(j) \/ SettleStep(j) \/ StrayTransfer(j)
    \/ Tick

Spec == Init /\ [][Next]_vars

\* Time passes, and someone sends a claim_refund that stays possible: the
\* instruction needs no particular signer, and the client has reason to.
FairSpec == Spec /\ WF_vars(Tick) /\ \A j \in JobIds : WF_vars(ClaimRefund(j))

----------------------------------------------------------------------------
(* Properties *)

\* The accounts hold what their types allow, and the fee in force never
\* exceeds the protocol's cap.
TypeOK ==
    /\ config \in PlatformConfig
    /\ jobs \in [JobIds -> Job]
    /\ vault \in [JobIds -> Vault]
    /\ ledger \in [JobIds -> Ledger]
    /\ signedFund \in [JobIds -> 0..MaxU64]
    /\ now \in 0..MaxTime

\* A vault holds the whole budget of its job from fund until the job is
\* settled, and nothing of it after: no instruction changes the budget under a
\* deposit, pays twice or pays part.  (complete.rs, reject.rs, claim_refund.rs
\* pay out job.budget, a field set_budget writes.)
EscrowBacked ==
    \A j \in JobIds :
      vault[j].amount = ledger[j].stray
                        + (IF jobs[j].status \in Escrowed THEN jobs[j].budget ELSE 0)

\* What leaves the vault of a funded job is its deposit, exactly once and to
\* one side only: to the provider, whose share is nine tenths at least whatever
\* the fee has become since the job was funded, or back to the client.
SettledInFull(job, l) ==
    LET PaidOut == /\ l.toClient = 0
                   /\ l.toProvider + l.toTreasury = l.deposited
                   /\ 10 * l.toTreasury <= l.deposited
        Refunded == l.toClient = l.deposited /\ l.toProvider = 0 /\ l.toTreasury = 0
        Untouched == l.toClient = 0 /\ l.toProvider = 0 /\ l.toTreasury = 0
    IN
    /\ job.status \in {"None", "Open"} => Untouched /\ l.deposited = 0
    /\ job.status \in Escrowed => Untouched /\ l.deposited = job.budget
    /\ job.status = "Completed" => PaidOut /\ l.deposited > 0
    /\ job.status \in {"Rejected", "Expired"} => Refunded
    /\ job.status = "Closed" => PaidOut \/ Refunded

SettlementExact == \A j \in JobIds : SettledInFull(jobs[j], ledger[j])

\* The counter names the next address: exactly the ids below it were used, so
\* create_job never meets an account that exists and no id is used twice, even
\* after close_job removed its account.
JobIdsSequential ==
    \A j \in JobIds : jobs[j].status # "None" <=> j < config.jobCounter

\* What the other invariants rest on: an account that does not exist holds
\* nothing, jobs exist only under a configuration of the current layout, and a
\* deposit is never empty.
ConfigConsistent ==
    /\ config.layout # "current" => config.jobCounter = 0
    /\ config.layout = "absent" <=> config.admin = Default
    /\ config.layout = "absent" => config.pendingAdmin = Default

AccountsConsistent ==
    /\ ConfigConsistent
    /\ \A j \in JobIds : /\ ~Exists(j) => vault[j] = NoVault
                         /\ jobs[j].status \in Escrowed => jobs[j].budget > 0

\* An expired deposit in the configured mint can be claimed back at once: its
\* vault has the tokens, the config loads, and neither a pause, a fee nor a
\* change of admin stands in the way.  (hook_interface.rs calls claim_refund
\* the safety net.)
RefundPossible(j) == RefundDue(j) /\ VaultPays(j, jobs[j].budget)

RefundOpen ==
    \A j \in JobIds :
      (jobs[j].status \in Escrowed /\ IsExpired(j) /\ vault[j].mint = config.paymentMint)
        => RefundPossible(j)

\* A client pays the budget it read when it signed, even when set_budget landed
\* in between, by either party.  (fund.rs: expected_budget.)
ChargedAsSigned ==
    [][\A j \in JobIds : ledger'[j].deposited # ledger[j].deposited =>
                            ledger'[j].deposited = signedFund[j]]_vars

\* Once a deposit is held, the parties, the budget and the deadline it was made
\* under stay as they are until the account is closed.
TermsFrozen ==
    [][\A j \in JobIds :
         (jobs[j].status \in Escrowed \cup Terminal /\ jobs'[j].status # "Closed") =>
           [jobs'[j] EXCEPT !.status = "Open"] = [jobs[j] EXCEPT !.status = "Open"]]_vars

\* A deposit does not stay in escrow for ever: when no party acts, the deadline
\* passes and anyone's claim_refund returns it.
EscrowResolved ==
    \A j \in JobIds :
      jobs[j].status \in Escrowed ~> jobs[j].status \notin Escrowed

\* close_job's checks of a job and its vault.
ClosePossible(j) == Closable(j) /\ ConfigLoads /\ vault[j].amount = 0

\* A settled job's accounts can be closed, whatever the mint, the fee and the
\* pause have become, because settling left nothing in the vault; the one
\* obstacle, which nobody can remove, is a token a stranger sent.
ClosingOpen ==
    \A j \in JobIds : IsTerminal(j) => (ClosePossible(j) <=> ledger[j].stray = 0)

\* The same of refunds under any history of the mint, as documented: "always
\* available after expiry" (hook_interface.rs).  The code refuses them once
\* set_payment_mint has named another mint.
RefundAlwaysAvailable ==
    \A j \in JobIds :
      jobs[j].status \in Escrowed /\ IsExpired(j) => RefundPossible(j)

\* complete finds the fee it can compute and the tokens to pay out.
CompletionPossible(j) ==
    FeeFits(jobs[j].budget, config.feeBps) /\ VaultPays(j, jobs[j].budget)

RejectionPossible(j) ==
    MayReject(jobs[j].evaluator, j) /\ VaultPays(j, RejectionRefund(j))

\* While a deposit in the configured mint is held its evaluator can decide:
\* reject at any time, and complete what was submitted, whatever the admin has
\* made of the fee, when the budget is one the highest fee fits.
DecisionOpen ==
    \A j \in JobIds :
      (jobs[j].status \in Escrowed /\ vault[j].mint = config.paymentMint) =>
        /\ RejectionPossible(j)
        /\ jobs[j].budget * MaxFeeBps <= MaxU64 => CompletionPossible(j)

\* "Provider has submitted work. Evaluator may complete or reject." (state.rs.)
\* The fee's checked_mul fails for a budget above u64::MAX / fee_bps.
SubmittedMayComplete ==
    \A j \in JobIds : jobs[j].status = "Submitted" => CompletionPossible(j)

----------------------------------------------------------------------------
(* What the program implements *)

Phase(status) ==
    CASE status = "None" -> "none"
      [] status = "Open" -> "open"
      [] status \in Escrowed -> "held"
      [] status = "Completed" -> "released"
      [] status \in {"Rejected", "Expired"} -> "returned"
      [] status = "Closed" -> "closed"

Contract == INSTANCE EscrowContract WITH
    Jobs  <- JobIds,
    phase <- [j \in JobIds |-> Phase(jobs[j].status)],
    held  <- [j \in JobIds |-> vault[j].amount - ledger[j].stray],
    out   <- [j \in JobIds |-> [worker |-> ledger[j].toProvider,
                                house  |-> ledger[j].toTreasury,
                                client |-> ledger[j].toClient]]

\* Every step of the program is a step of the escrow contract, or none.
ImplementsContract == Contract!Spec

Handoff == INSTANCE AdminHandoff WITH
    Keys <- Admins, NoKey <- Default,
    admin <- config.admin, pending <- config.pendingAdmin

\* The admin changes only by initialize, or by accept_admin of the key that was
\* proposed last, whatever is interleaved between the two steps.
ImplementsHandoff == Handoff!Spec
=============================================================================
