# A formal model of the SolAgents programs

The repository holds two Solana programs written in Rust with Anchor:

- **agentic-commerce** (`src/programs/agentic-commerce`): an escrow for jobs
  between a client, a provider and an evaluator.
- **bonding-curve** (`src/programs/bonding-curve`): a launchpad that sells a
  token along a constant product curve and, when enough SOL is in, moves the
  liquidity to Raydium.

The programs do not call each other. This directory models both in TLA+, checks
the models with TLC on small instances, and proves the main results for every
instance with TLAPS.

## 1. Inventory

### agentic-commerce

| Part | State | Operations |
|---|---|---|
| Platform configuration | `PlatformConfig` PDA: admin, fee, treasury, payment mint, job counter, pause flag, proposed admin | `initialize`, `update_config`, `accept_admin`, `set_payment_mint`, `migrate_config` |
| Jobs | one `Job` PDA per id: status, three parties, budget, expiry | `create_job`, `set_provider`, `set_budget`, `fund`, `submit`, `complete`, `reject`, `claim_refund`, `close_job` |
| Escrow | one SPL token account per job, owned by the job's PDA | touched by `create_job`, `fund`, `complete`, `reject`, `claim_refund`, `close_job`; anyone can send tokens to it |
| Hooks | none: `hooks.rs` and `hook_interface.rs` describe an interface no instruction of this version calls | none |

What makes it hard: three parties that never wait for each other act on one
job; after expiry `complete`, `reject` and `claim_refund` race; a client signs
`fund` on a budget that may change before the transaction lands; the admin may
change fee, treasury and mint while deposits are in escrow; the fee is computed
in `u64`; the program was upgraded over accounts of an older layout.

What makes it correct: a funded job's vault holds its budget; a deposit leaves
escrow once and in full, to the parties the outcome names; the client pays what
it signed; the terms are frozen while money is held; ids are never reused; an
expired deposit can be taken back; the admin key moves in two steps.

### bonding-curve

| Part | State | Operations |
|---|---|---|
| Configuration | `CurveConfig` PDA: admin, treasury, two fees, threshold, initial supply and reserves, three switches, proposed admin | `initialize`, `update_config`, `accept_admin`, `migrate_config` |
| Pools | one `CurvePool` PDA per mint: status, virtual and real reserves, fees earned and claimed, trade counter | `create_token` (with an optional first purchase), `buy`, `sell` |
| Vaults | a SOL vault (a system account) and a token vault per pool | trades, claims, graduation, closing; anyone can send to them |
| Fee claims | the claimed counters of the pool | `claim_creator_fees`, `claim_platform_fees`, `claim_all_platform_fees` (a batch in one transaction) |
| Graduation | status, the split into Raydium's part, burn and reimbursement | `graduate`, `close_graduated_pool` |
| After Raydium | two counters of the pool; creator fees at Raydium, two token accounts of the pool's PDA | `claim_raydium_fees` |
| Instruction builders | none | `raydium_cpi.rs` (called by `graduate` and `claim_raydium_fees`), the Metaplex calls in `create_token.rs` |

What makes it hard: prices come from virtual reserves and payments from real
balances, kept by separate assignments in five instructions; fees of two
parties live in the same vault as the curve's SOL; everything rounds; Solana
refuses a transaction that leaves a vault with a positive balance below the
rent-exempt minimum; trades land later than they were priced; graduation resets
balances on which later claims rely, casts an amount to `u64` unchecked, and puts
mints and amounts in Raydium's order by separate conditionals; a claim at Raydium
splits the difference of two readings of a balance.

What makes it correct: reserves and balances stay in step; the vaults hold what
the books say; fees are paid once; Raydium opens at the curve's last price; a
pool that reached its threshold can graduate, and does if someone keeps trying;
what rounding gives away is at most a lamport per trade, so that holders can sell;
nothing trades on a graduated pool; a trade never pays less than the limit it
carries; a mint's supply stays what was configured; fees of both kinds reach
their owners in the end, once.

## 2. Modules

| Module | Contents |
|---|---|
| `AdminHandoff` | abstract: the two-step transfer of an administrator's key |
| `EscrowContract` | abstract: what the escrow promises of each deposit |
| `AgenticCommerce` | the whole agentic-commerce program |
| `AgenticCommerceProofs` | its theorems |
| `MCAgenticCommerce` | symmetry for TLC |
| `CurveMath` | the arithmetic of the curve, as operators |
| `CurveMathProofs` | its theorems |
| `PoolLedger` | abstract: what a pool promises creator and treasury, over SOL of the curve, fees due and SOL paid |
| `BondingCurve` | the bonding-curve program, without `claim_raydium_fees` |
| `BondingCurveProofs` | its theorems on single states and steps |
| `LedgerProofs` | that it implements `PoolLedger`, and conservation of supply |
| `SolvencyProofs` | what rounding can cost over a pool's life, and what therefore stays possible |
| `RaydiumFees` | `claim_raydium_fees`, composed with `BondingCurve` and Raydium |
| `RaydiumFeesProofs` | its theorems |
| `MCBondingCurve` | symmetry for TLC |

Both programs' modules instantiate `AdminHandoff`; `AgenticCommerce`
instantiates `EscrowContract` under a refinement mapping
(`ImplementsContract`); `BondingCurve` extends `CurveMath` and instantiates
`PoolLedger` once per pool (`ImplementsLedger`); `RaydiumFees` extends
`BondingCurve`. A step of `RaydiumFees` is a step of the curve program
(`CurveStep`) or one that leaves the curve program's variables alone.

### How the models correspond to the code

- **A step is an instruction.** A Solana transaction is atomic: it runs to its
  end or changes nothing. A call that returns an error is therefore an action
  that is not enabled. Its guard gathers the account constraints of the
  `#[derive(Accounts)]` structure, the `require!`s and the failures of checked
  arithmetic; its primed variables are all assignments of the handler and the
  transfers it makes.
- **Accounts are records.** The variables `config`, `jobs` and `pools` are the
  program's accounts, with the field names in camel case. `"None"` stands for an
  account never created, `"Closed"` for one that was closed.
- **Balances are separate.** `vault` (commerce) and `sol`, `tokens` (curve) are
  the balances the SPL token and system programs keep. The programs' own
  bookkeeping is checked against them.
- **History variables** `ledger`, `paid`, `raydium` and `stray` record what was
  paid to whom. No guard reads the first three; `stray` also bounds
  what strangers send. In `RaydiumFees` they are `shared`, `accrued`, `gifts` and
  `claims`.
- **Raydium** is an external component. Of a graduation the model keeps what the
  instruction to Raydium says: who is named creator, by which of the two
  instructions, and how much of which token (`Listing`); `AgentFirst` is the set of mints
  whose key sorts before wrapped SOL's, and amount *i* belongs to mint *i* of
  `TokenOrder`. In `RaydiumFees` Raydium keeps creator fees (`owed`) for a pool that
  names the PDA as its creator, and pays all of them when the PDA signs. As
  graduation names its payer (`CurveRaydium`), that Raydium pool is created by
  somebody else (`NameCreator`).
- **Between signing and landing.** `signedFund` and `quote` hold a transaction
  that is signed and has not landed; any other instruction may run in between,
  and it may never land.
- **Time** is `now`, advanced by `Tick` up to `MaxTime`.
- **Layouts.** Both programs have a `migrate_config` for accounts written by a
  version that lacked the last fields. `layout` is `"absent"`, `"legacy"` or
  `"current"`; Anchor loads only the last. Jobs and pools written by that
  earlier version are not modelled.
- **Numbers** are naturals with the code's checks against `MaxU64`. Divisions
  round down as the code's do.
- **Rent.** `VaultMayHold` is Solana's rule that a system account ends a
  transaction empty or rent-exempt. The runtime is external to the repository;
  the rule is used where the code moves lamports of a SOL vault. It applies to
  transactions, and the model has one instruction in each. What it refuses, a
  transaction of several instructions could still do, for example with both
  claims, or with a transfer to the vault and a claim.
- **A batched claim is a list.** `ClaimAllPlatformFees` walks its list as the
  loop does: `AfterEntry` makes the accounts one entry leaves (`Walk`), and the
  next entry reads those. A pool may be listed more than once. An entry that fails
  undoes the transaction, and the rent rule is applied at its end.

Left out because no instruction reads them: names, symbols, URIs, timestamps,
descriptions, deliverables, volume and dev-buy statistics, events and error
codes. The payer's own lamports are not tracked.

## 3. What is checked

### Passing runs

| Run | Instance | Shows |
|---|---|---|
| `CommerceSafety` | one job, two admins, two mints, three budgets (0, 15, 30), fees 0, 1000 and a refused 3000 bps, two instants | types, escrow backing, exact settlement, config consistency, refunds, decisions and closing open, charge as signed, frozen terms; implements `EscrowContract` and `AdminHandoff` |
| `CommerceLiveness` | two jobs of one client, one mint | every deposit leaves escrow; ids are sequential and never reused |
| `CurveTrading` | one pool, two buy sizes, two sell sizes, trades signed on a quote, three trades, fees 4% + 0% or 6%, a supply that fits and one that does not | the books, the vaults, the fees, the supply, the price and the possibility of graduation, of claims and of closing; rounding, one way and there and back; quotes honoured; nothing after graduation; implements `PoolLedger` |
| `CurveLiveness` | one pool, trades both ways, fee changes, strangers' lamports | a pool that is due graduates; the fees of a graduated pool are paid; the curve owes no more than it has but for a lamport per trade, and trade stays open |
| `CurveAdmin` | two pools, two admins, all switches, batches of up to three entries | batched claims pay each pool once, in every order and with repetitions; implements `AdminHandoff` |
| `RaydiumFees` | one pool, three payments of an odd amount in either token, gifts to the PDA | Raydium fees are claimed once, split evenly, and collected |

**Bounds, and why they are enough.** Jobs do not touch each other except
through the counter, and pools except through the configuration and a batched
claim, so one job or pool explores every order of the instructions on it, and
two explore what is shared. Commerce amounts are chosen such that
30 x 1000 bps exceeds `MaxU64` = 20000 and 15 x 1000 does not, and such that a
fee rounds down (15 x 10% = 1.5). Two instants put a step before and after
expiry. Curve reserves of 30 and 60 with trades of 1, 10, 14 and 30 give
rounding in fee, fee share, quote and graduation split; the threshold of 40 is
reached by two buys, which leaves a third trade to follow a sale or precede a
graduation; a mint before wrapped SOL in Raydium's order occurs in `CurveAdmin`
and `RaydiumFees`, one after it in `CurveTrading`; `RentExempt` = 2 and `RentReimbursement` = 5 lie
between the fee amounts and the trades, as the real values do (6 and 6 in
`CurveRentFloor`, where two parts below the rent are needed); `MaxU64` = 40000
lies beyond the products the fee check meets but below 6 x 10^4, the supply with
four decimals, and below three Raydium payments of 13337, so that both overflows
occur; `MaxTrades` is the value at which the trade counter overflows, so that the
checked addition is exercised. `MaxBatch` bounds
the list of a batched claim: three entries over two pools contain a repetition with
and without another pool between, an order in which the first entry has nothing to
claim, and a third entry that finds both pools paid. `MaxStray` bounds
what strangers send, `MaxJobs` the ids, `MaxTime` the clock. Every bound is a
constant. The theorems of section 4 hold without choosing any of them.

**Fairness.** The programs start nothing by themselves: every step is somebody's
transaction. What is assumed is that a party keeps sending the transaction it
gains by.

- `CommerceLiveness`: weak fairness of `Tick` (Solana's clock advances) and of
  `claim_refund` for each job (the code lets *anyone* call it, with the client's
  account as destination, so one interested party is enough). Nothing is assumed
  of client, provider, evaluator or admin. The run has a single mint:
  `CommerceMintSwitch` shows what a second one does.
- `CurveLiveness`: strong fairness of `graduate` for each pool, which the admin or
  the treasury sends again and again; it has to be strong because sales and fee
  claims switch the instruction off and on. Weak fairness of the creator's and of the
  treasury's claim. Traders, and the admin's changes of the fees, are
  free: a pool may fall below its threshold again. (The run has one threshold.)
- `RaydiumFees`: weak fairness of `claim_raydium_fees`, which creator and treasury
  may both send.

**Deadlock** is checked in every run: the administrator can always act.

### Runs that find a disagreement

Each of these violates what a document or comment of the repository says.

| Run | Property | What the code does |
|---|---|---|
| `CommerceMintSwitch` | `RefundAlwaysAvailable` | `claim_refund`, `complete` and `reject` require token accounts of the *current* payment mint. After `set_payment_mint`, a job funded in the old mint can be neither refunded nor settled until the mint is switched back. |
| `CommerceFeeOverflow` | `SubmittedMayComplete` | `complete` multiplies budget by fee in `u64`; a budget above `u64::MAX / fee_bps` can be funded and submitted but not completed. It can still be rejected or refunded. |
| `CurveRounding` | `FeesCovered` | Both quotes round in favour of the trader, so buying and selling back lowers the curve's SOL; the loss is missing from the fees due. |
| `CurveRentFloor` | `FeesClaimable` | Graduation leaves exactly the fees due in the vault. If both parties' parts are below the rent-exempt balance, each separate claim is refused, and closing with them. One transaction with both claims, or a transfer to the vault, would clear it. |
| `CurveThreshold` | `ThresholdOnBalance` | `graduate` compares the threshold with the balance less the fees due; `SKILL.md` and `should_graduate` speak of the balance. |
| `CurveRaydium` | `PoolCreatedOnRaydium` | `graduate` names the payer as the creator on Raydium; `claim_raydium_fees` assumes the pool. |

Observed while modelling, without a run of its own because no document
promises otherwise: with both fees at zero, `buy` and the first purchase divide
by zero and fail while `sell` guards the division; the cap of half the threshold
applies to the first purchase only; a buy that leaves the SOL vault below the
rent-exempt balance is refused; the comment on `total_supply` calls
it raw units while `create_token` multiplies it by `10^decimals`. The comment at
`lib.rs:91` calls graduation permissionless, while the account constraint of
`graduate` admits the administrator and the treasury only; the constraint is what
`MayGraduate` models, and the fairness above is theirs.

### Reading the properties

`AgenticCommerce`:

- `EscrowBacked`, `SettlementExact`: per job, vault = budget in escrow + stray
  tokens, in the mint of the deposit; on a settled job provider + treasury or
  client have exactly the deposit.
- `RefundOpen`: while the mint is the job's, an expired escrow meets every
  guard of `claim_refund`, paused or not, whatever the fee.
- `DecisionOpen`: under the same mint the evaluator of an escrowed deposit can always
  reject, and the payment of `complete` meets no obstacle for a budget that the
  highest fee fits. It is the part of `SubmittedMayComplete` that is true.
- `ClosingOpen`: a settled job's accounts can be closed exactly when no stranger sent
  its vault tokens. Any way of settling that left a token of the deposit
  behind would lock the job's rent in; a stranger's token does, and nobody can remove it.
- `ChargedAsSigned`, `TermsFrozen`: what a `fund` that lands may take, and what no
  step may change while the deposit is held. The fee is not among the terms: it is
  read when the job is completed, and `SettlementExact` and `DecisionOpen` hold
  whatever the admin has made of it.
- `JobIdsSequential`, `AccountsConsistent`: the counter, and the configuration
  across the upgrade.
- `ImplementsContract`, `ImplementsHandoff`, `EscrowResolved`.

`BondingCurve`:

- `BooksMatch`: on an active pool virtual and real token reserves are equal and
  the curve's SOL net of fees is the gain of the virtual SOL reserve.
- `VaultsBacked`, `FeesPaidOnce`: books against balances and history.
- `PriceContinues`, `GraduationOpen`: the price at which Raydium opens, and that
  nothing but a rent-sized remainder delays a graduation that is due.
- `SupplyConserved`: vault + circulation + burn is the configured supply.
- `RoundingBounded`, `QuoteHonoured`, `CurveLeftForGood`: action properties of
  trades and of graduated pools.
- `RoundTripCosts`: whoever buys and sells straight back gains nothing, once the fee
  on the purchase is a lamport. Both quotes round in the trader's favour; the two
  roundings together are worth a lamport while the SOL reserve does not exceed
  the token reserve, which the property assumes of the pool after the purchase.
- `CurveSolvent`: what `FeesCovered` gets wrong, in numbers. The curve may fall
  short of the fees due, by one lamport per trade at most, as long as its SOL
  reserve stays below the token supply (`ReserveBelowSupply`: with the defaults of
  `constants.rs` some 10^11 lamports and 10^18 units). It is a temporal formula: *if*
  the reserve stays below the supply throughout, *then* all tokens outside are
  backed throughout.
- `CurveStaysOpen`: what follows for users under the same condition. The checked
  subtraction `buy` makes for its event refuses no purchase that puts a lamport per
  trade on the curve; and while the fees due amount to a lamport per trade, any
  part of the tokens outside can be sold: `calculate_sell` answers, the vault can
  pay, and the books can record it, unless a fee or trade counter is full.
- `FeesClaimOpen`: the part of `FeesClaimable` that is true: after graduation
  one party or the other can claim at once, in a transaction of its own, with the two
  exceptions that `FeesReachOwners` names as well.
- `ClosingOpen`: a graduated pool whose fees are paid can be closed exactly when
  no stranger sent its token vault anything. The program looks at the balance of the vault
  and not at its books, so a token that burn or listing left behind would lock the pool.
- `ImplementsLedger`: each pool implements `PoolLedger`: fees are earned by trades only,
  at most a tenth of what a trade moves; a party is paid all that is due to it
  or nothing, never out of the curve's SOL or the other's due; the listing takes
  the whole curve and no dues; a pool closes only when nothing is due. A batched
  claim is one step for all pools.
- `GraduationReached`, `FeesReachOwners`: liveness. The only things that may hold a
  due pool up, or keep fees in a graduated one, are the ones named there: lamports
  of strangers below the rent-exempt balance, and (for fees) two parts that are
  each below it.
- `ImplementsHandoff`.

`RaydiumFees`:

- `RaydiumFeesAccounted`: at Raydium + claimed = accrued, and nothing else lies in
  the PDA's accounts than what strangers sent.
- `RaydiumSplitFair`: shares add up; the treasury is ahead by one unit a claim at most.
- `RaydiumFeesCollected`: liveness, with its two exceptions: a full counter, and a
  pool that was closed, which takes away the account the claim needs.

Each property has a mutant of a modelled definition, a plausible slip in
the code, under which the same run violates it. Operators whose comment says
`mutant` exist for that; no action uses them.

## 4. What is proved

All theorems hold for every value of the constants that meets the modules'
assumptions: the default key signs for nobody, and amounts, fees and bounds are
naturals that fit `MaxU64`.

**`AgenticCommerceProofs`.** The state invariants are not inductive one by one:
that `complete` leaves the vault at its stray tokens needs `EscrowBacked` before the
step, that it does not pay out more than the budget needs the fee cap of
`TypeOK`, and that `create_job` starts from an empty vault needs
`JobIdsSequential`. Their conjunction `IndInv` is inductive (`Invariance`).
`IndInvByJob` restates it as a predicate `JobSound` of one job, its vault and
its ledger; `JobFrame` says that a step confined to one job's accounts
preserves `IndInv` if it leaves those accounts sound; each instruction then has
a lemma about its own job. `CompletionFeeBound` is the one fact about numbers:
under the cap the fee is at most a tenth of the budget. From `Invariance`
follow `TypeCorrect`, `EscrowIsBacked`, `SettlementIsExact`,
`JobIdsAreSequential`, `AccountsAreConsistent`, `RefundIsOpen`,
`DecisionIsOpen`, `ClosingIsOpen`, `ClientChargedAsSigned`, `TermsAreFrozen`, and the two refinements `ContractImplemented` and
`HandoffImplemented`.

**`CurveMathProofs`.** For all naturals: a fee is between zero and its amount
(`FeeBounds`), a creator's share between zero and the fee
(`CreatorShareBounds`), a swap takes at most the reserve (`SwapBounds`) and
never raises the product of the reserves, nor lowers it by as much as one unit
of what was taken out (`SwapRounding`), and the tokens matched to a
graduation's SOL are the most that do not lower the price (`SpotBounds`). A swap
is the exact quotient rounded up (`SwapIsCeiling`) and monotone in what is paid in
(`SwapMonotone`); made in two parts it takes out at most one unit more
(`SplitSwapBounds`), and undone at once it returns what was paid in or one unit more
(`RoundTripBounds`). Once
`amount * rate` fits, the second checked product of the fee split fits as well
(`SplitFits`), which is why the model has no guard for it. They rest on lemmas on division and products.

**`BondingCurveProofs`.** The invariants of the pools lean on each other, so
they are proved together as `IndInv`: types (`TypeOK`), a configuration whose
rates and threshold passed the program's checks (`ConfigSound`), no pool before
there is a configuration, and `PoolSound(p)` of every pool, the conjunction of
`BooksOf`, `VaultsOf`, `FeesOf`, `PriceOf` and `Untouched`. The last says that
nothing is in the accounts of a mint that has no pool yet; without it
`create_token` could not be shown to start from empty vaults. That no counter
goes below zero, and that a graduation hands over no more tokens than the pool
has, follow only from the books, the vaults and the fee records at once, which
is why `TypeOK` alone is not inductive. `PoolFrame` reduces an instruction that
touches one pool to that pool; `ActiveFrame` and `ActiveSound` do the same for a
pool that stays on the curve, and `TradeKeepsSound` is the arithmetic common to
`buy`, `sell` and the first purchase. The arithmetic of one trade comes from
`CurveMathProofs`. From `Invariance` follow `TypeCorrect`, `BooksAlwaysMatch`,
`VaultsAreBacked`, `FeesArePaidOnce`, `PriceIsContinued`, `GraduationIsOpen` and
`ClosingIsOpen`. `StepByPool` then lists the six ways in which a step can
treat a pool, and yields the action properties `LeavesForGood` and
`RoundingIsBounded`; `QuotesAreHonoured` and the refinement
`HandoffImplemented` follow from the invariant directly.

A batched claim is a list of any length, and the other lemmas speak of pools.
`BatchPaysOnce` connects the two: whatever the list, its effect and its conditions are
those of `ClaimPlatform` for the set of pools listed. `WalkIsBook` says that after
*i* entries the accounts are those in which the pools of the first *i* entries
have paid, once each (`BookAfter`). Were there an entry after which they are not, there would be
a first one (`LeastIndex`), and `EntryStep` shows it is not: an entry of a pool that
has paid finds nothing due and changes nothing. `FeeSteps` then replaces lists
by sets for all later proofs.

That the unchecked cast of `graduate` (`AsU64`) changes nothing is `CastKeeps`: the
tokens at the last price are at most the reserve, which fits. That the
two orders of mints and amounts agree is `DepositsMatch`.

**`LedgerProofs`.** `LedgerImplemented`: under the mapping in `BondingCurve!Ledger`
every step of the program is, for every pool, a step of `PoolLedger` or a
stutter. `IndInv` supplies what the mapping hides: that the curve's SOL is not
negative and that dues are what was earned and not claimed. One lemma per
instruction names the abstract step; a trade needs that a tenth of its amount
bounds its fee (`FeeTenth`). `SupplyIsConserved` is an invariant of
its own on top of `IndInv`; the configured supply and decimals never change once a
configuration exists (`SupplyFixed`).

**`SolvencyProofs`.** `RoundingIsBounded` limits the loss of one trade in units
of the product of the reserves; what matters to a holder is the loss of all trades in
lamports. `SolvencyInv` adds to `IndInv` and the supply equation, for every pool on the
curve, `RoundingOf`:

    virtualSol * RawSupply <= vSol * vTok + trades * RawSupply

A purchase costs the product less than the new SOL reserve (`BuyCosts`) and a sale
less than the new token reserve (`SellCosts`); both are at most the supply, the first
by `ReserveBelowSupply` and the second because vault and circulation add up to it
(`ReserveWithinSupply`), so every trade is charged one supply (`RoundingPreserved`). It
is inductive only while the reserve stays below the supply, which is why
`CurveIsSolvent` and `CurveIsOpen` are implications between two temporal formulas;
nothing in the program enforces the premise, and with the supply and reserve of
`constants.rs` it fails only beyond a billion SOL, more than there is. Divided by the supply, the bound
says what selling any part of the tokens outside can take (`ProductBacks`), from which
`SoldTokensBacked` and `TradesOpen` follow with the books and the vaults of
`IndInv`. `RoundTripsCost` combines `RoundTripBounds` with the fee,
`FeesClaimIsOpen` the books of a graduated pool with the rent rule; both hold in
every reachable state, without the premise.

**`RaydiumFeesProofs`.** `RaydiumRefinesCurve`: a behaviour of the composition is a
behaviour of `BondingCurve`, so its theorems hold there. `RaydiumInvariance` is the
inductive invariant: the curve's, the types, and the equations of
`RaydiumFeesAccounted` and `RaydiumSplitFair`, with the fact that nothing is
claimed before graduation, without which the reset of the counters would break the
first equation. `RaydiumTypes`, `RaydiumFeesAreAccounted` and
`RaydiumSplitIsFair` follow.

The assumptions are `RaydiumAssumption` of `RaydiumFees` (naturals), and
`KeyAssumption` and `ParameterAssumption` of `BondingCurve`.
The one that is more than a type is `RentExempt <= RentReimbursement` (890,880 and
65,000,000 lamports in the code): a pool that can pay the reimbursement then
keeps a rent-exempt balance after either party's claim, so that the fees in the
way of a graduation (`GraduationOpen`) can be claimed.

**Model-checked only.** The liveness properties `EscrowResolved`, `GraduationReached`,
`FeesReachOwners` and `RaydiumFeesCollected` (liveness under fairness is beyond
the prover) and the violations. Every other property of the passing runs is also a
theorem; the runs are what finds a mistake in a definition cheaply.

## 5. What is not modelled

- The encoding of instructions for Raydium and Metaplex: discriminators, byte
  order, account lists. The values a graduation passes to Raydium are modelled,
  and so is what a collection pays.
- Raydium's own checks: whether it accepts a pool, an amount or a signer. The model
  lets it accept; a refusal is a transaction without effect.
- To which accounts `claim_raydium_fees` sends the two shares: the caller names
  them, and the handler compares them with no key. The model says how much goes to each.
- Token metadata, set once and then made immutable, is data no instruction reads.
- Hooks: never called.
- `total_volume` and the dev-buy statistics, with their `u64` overflows: to reach
  one takes more SOL than exists. `tokens_created` likewise. The `total_claimed` of a
  batch only adds up lamports that were in the vaults.
- Transactions of several instructions (see *Rent* in section 2).
- That `migrate_config` keeps the fields it does not set is one assignment of the
  action; `AccountsConsistent` is about the other half, that an account of the old
  layout is refused until then.
- Jobs and pools made by the program version before `migrate_config`.
- The SPL token, system, Raydium and Metaplex programs beyond the balances they
  move for these two programs.

## 6. Plan

Order of work, most important behaviour first:

1. Done: `AgenticCommerce` with its abstract contract, runs and theorems.
2. Done: `CurveMath`, `BondingCurve`, their runs, and the arithmetic theorems.
3. Done: `BondingCurveProofs`: types, every safety invariant of the runs, the
   action properties and the handoff.
4. Done: `RaydiumFees` and its theorems.
5. Done: `PoolLedger`, which `BondingCurve` implements, with the simulation proved;
   conservation of supply.
6. Done: liveness of the curve, and of claims at Raydium.
7. Done: the order of mints and amounts, and the cast, in `graduate`.
8. Done: solvency of the curve over its whole life, what stays possible because of
   it, and the arithmetic of repeated swaps.
9. Done: batched claims over lists, with the proof that a list counts as a set; when
   accounts can be closed.

Left: pools of the layout before `migrate_config`, which need that version's code
to be stated; the dev-buy and volume statistics, if an instruction comes to read
them.

## 7. Running it

    tlc -config CommerceSafety.cfg MCAgenticCommerce.tla
    tlc -config CurveTrading.cfg MCBondingCurve.tla
    tlc -config RaydiumFees.cfg RaydiumFees.tla
    tlapm AgenticCommerceProofs.tla
    tlapm CurveMathProofs.tla
    tlapm BondingCurveProofs.tla
    tlapm LedgerProofs.tla
    tlapm SolvencyProofs.tla
    tlapm RaydiumFeesProofs.tla

Every configuration named `Commerce*` belongs to `MCAgenticCommerce`, every one
named `Curve*` to `MCBondingCurve`, and `RaydiumFees.cfg` to `RaydiumFees`.
