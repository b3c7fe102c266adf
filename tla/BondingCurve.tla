---------------------------- MODULE BondingCurve ----------------------------
(***************************************************************************)
(* The bonding-curve program: one pool per token, sold and bought back     *)
(* along a constant product curve until the pool graduates to Raydium;     *)
(* trading fees stay in the pool's SOL vault until creator and treasury    *)
(* claim them.                                                             *)
(*                                                                         *)
(* One action is one instruction, atomic as a Solana transaction is: a     *)
(* call that returns an error is an action that is not enabled.  A pool    *)
(* stands for the mint it is derived from.                                 *)
(***************************************************************************)
EXTENDS CurveMath, Sequences

CONSTANTS
    Pools,                          \* token mints, one pool each
    AgentFirst,                     \* the mints whose key sorts before WSOL's
    Creators, Admins, Treasuries,   \* keys, by role
    Default,                        \* Pubkey::default(): nobody signs for it
    CreatorFees, PlatformFees,      \* fees the admin may pass, in basis points (u16)
    Thresholds,                     \* graduation thresholds the admin may pass
    Supplies, Decimals,             \* token supply, in whole tokens, and decimals
    VirtualSols,                    \* initial virtual SOL reserves
    Switches,                       \* values the admin may give the three flags
    SolAmounts, TokenAmounts,       \* amounts of a trade
    QuotedAmounts,                  \* amounts of a trade signed on a quote
    RentReimbursement,              \* 65_000_000 lamports
    RentExempt,                     \* least balance Solana leaves in an account
    MaxU64,                         \* u64::MAX, smaller in the checks
    MaxTrades,                      \* the value at which total_trades would overflow
    MaxBatch,                       \* bound on the entries of a batched claim
    MaxStray                        \* bound on what is sent to a vault outside the program

ASSUME KeyAssumption == Default \notin Creators \cup Admins \cup Treasuries

ASSUME ParameterAssumption ==
    /\ CreatorFees \cup PlatformFees \cup Supplies \cup Decimals \subseteq Nat
    /\ Thresholds \cup VirtualSols \subseteq 0..MaxU64
    /\ SolAmounts \cup TokenAmounts \cup QuotedAmounts \subseteq Nat \ {0}
    /\ Switches \subseteq BOOLEAN
    /\ {RentReimbursement, RentExempt, MaxU64, MaxTrades, MaxBatch, MaxStray} \subseteq Nat
    /\ RentExempt <= RentReimbursement   \* 890_880 and 65_000_000

VARIABLES
    config,   \* the CurveConfig account
    pools,    \* the CurvePool accounts
    sol,      \* lamports of each pool's SOL vault
    tokens,   \* SPL tokens of each mint: in the pool's vault and everywhere else
    raydium,  \* what each graduation handed to Raydium
    paid,     \* history: SOL the creator and the treasury had from each vault
    stray,    \* history: what was sent to the vaults outside the program
    quote     \* one trade per pool that is signed and has not landed

vars == <<config, pools, sol, tokens, raydium, paid, stray, quote>>

----------------------------------------------------------------------------
(* The accounts *)

MaxFeeBps == 1000

\* "legacy" is an account allocated before trading_paused and pending_admin
\* existed; Anchor cannot deserialize it.
CurveConfig == [layout            : {"absent", "legacy", "current"},
                admin             : Admins \cup {Default},
                treasury          : Treasuries \cup {Default},
                creatorFeeBps     : 0..MaxFeeBps,
                platformFeeBps    : 0..MaxFeeBps,
                threshold         : 0..MaxU64,
                totalSupply       : Supplies \cup {0},
                decimals          : Decimals \cup {0},
                virtualSol        : VirtualSols \cup {0},
                paused            : BOOLEAN,
                raydiumPermission : BOOLEAN,
                tokensCreated     : Nat,
                tokensGraduated   : Nat,
                tradingPaused     : BOOLEAN,
                pendingAdmin      : Admins \cup {Default}]

NewConfig(layout, admin, treasury, cBps, pBps, threshold, supply, decimals, vSol) ==
    [layout |-> layout, admin |-> admin, treasury |-> treasury,
     creatorFeeBps |-> cBps, platformFeeBps |-> pBps, threshold |-> threshold,
     totalSupply |-> supply, decimals |-> decimals, virtualSol |-> vSol,
     paused |-> FALSE, raydiumPermission |-> FALSE, tokensCreated |-> 0,
     tokensGraduated |-> 0, tradingPaused |-> FALSE, pendingAdmin |-> Default]

NoConfig == NewConfig("absent", Default, Default, 0, 0, 0, 0, 0, 0)

\* Names, timestamps, volume and dev-buy statistics are left out: no
\* instruction reads them.  "None" and "Closed" are accounts that do not exist.
U64 == 0..MaxU64
CurvePool == [status         : {"None", "Active", "Graduated", "Closed"},
              creator        : Creators \cup {Default},
              vSol           : U64,  vTok          : U64,
              realSol        : U64,  realTok       : U64,
              creatorEarned  : U64,  creatorClaimed  : U64,
              platformEarned : U64,  platformClaimed : U64,
              trades         : 0..MaxTrades]

NoPool == [status |-> "None", creator |-> Default, vSol |-> 0, vTok |-> 0,
           realSol |-> 0, realTok |-> 0, creatorEarned |-> 0, creatorClaimed |-> 0,
           platformEarned |-> 0, platformClaimed |-> 0, trades |-> 0]

\* No checked_add or checked_sub of the counters failed.
Representable_TradesWrap(pool) ==   \* mutant: total_trades is not checked
    {pool.vSol, pool.vTok, pool.realSol, pool.realTok,
     pool.creatorEarned, pool.platformEarned} \subseteq U64
Representable(pool) ==
    /\ {pool.vSol, pool.vTok, pool.realSol, pool.realTok,
        pool.creatorEarned, pool.platformEarned} \subseteq U64
    /\ pool.trades <= MaxTrades

PoolStatus == {"Active", "Graduated"}
IsActive_AnyStatus(p) == pools[p].status \in PoolStatus   \* mutant: is_active is not checked
IsActive(p) == pools[p].status = "Active"
Exists(p) == pools[p].status \in PoolStatus

CreatorUnclaimed(pool) == pool.creatorEarned - pool.creatorClaimed
PlatformUnclaimed(pool) == pool.platformEarned - pool.platformClaimed
Unclaimed(pool) == CreatorUnclaimed(pool) + PlatformUnclaimed(pool)
NetSol(pool) == pool.realSol - Unclaimed(pool)

\* Solana's rule for a system account: it ends a transaction empty or exempt
\* from rent.  Every instruction here is a transaction of its own; only a batched
\* claim is checked at its end.
VaultMayHold(lamports) == lamports = 0 \/ lamports >= RentExempt

\* What a graduation hands over, and by which of Raydium's two instructions.
Listing == [creator : Admins \cup Treasuries \cup {Default}, withPermission : BOOLEAN,
            sol : Nat, tokens : Nat, burned : Nat]
NotOnRaydium == [creator |-> Default, withPermission |-> FALSE,
                 sol |-> 0, tokens |-> 0, burned |-> 0]

NoQuote == [side |-> "none", amount |-> 0, min |-> 0]
Quote == [side : {"none", "buy", "sell"}, amount : Nat, min : Nat]

\* Account<CurveConfig> deserializes.
ConfigLoads == config.layout = "current"
AdminSigns(signer) == ConfigLoads /\ signer = config.admin
TreasurySigns(signer) == ConfigLoads /\ signer = config.treasury
TotalFeeBps == config.creatorFeeBps + config.platformFeeBps

FeesAllowed(cBps, pBps) == cBps + pBps <= MaxFeeBps

SetupAllowed(cBps, pBps, threshold, supply, decimals, vSol) ==
    /\ FeesAllowed(cBps, pBps)
    /\ threshold > 0 /\ supply > 0 /\ decimals <= 9 /\ vSol > 0

\* A fresh cluster, or one upgraded from the program's first layout (pools made
\* by the program of that time are not modelled).
Init ==
    /\ \/ config = NoConfig
       \/ \E a \in Admins, t \in Treasuries, c \in CreatorFees, f \in PlatformFees,
             g \in Thresholds, s \in Supplies, d \in Decimals, v \in VirtualSols :
            /\ SetupAllowed(c, f, g, s, d, v)
            /\ config = NewConfig("legacy", a, t, c, f, g, s, d, v)
    /\ pools = [p \in Pools |-> NoPool]
    /\ sol = [p \in Pools |-> 0]
    /\ tokens = [p \in Pools |-> [vault |-> 0, outside |-> 0]]
    /\ raydium = [p \in Pools |-> NotOnRaydium]
    /\ paid = [p \in Pools |-> [creator |-> 0, treasury |-> 0]]
    /\ stray = [p \in Pools |-> [sol |-> 0, tokens |-> 0]]
    /\ quote = [p \in Pools |-> NoQuote]

----------------------------------------------------------------------------
(* Administration *)

accounts == <<pools, sol, tokens, raydium, paid, stray, quote>>

\* Whoever initializes first is the admin; the account can be created once.
Initialize(signer, treasury, cBps, pBps, threshold, supply, decimals, vSol) ==
    /\ config.layout = "absent"
    /\ SetupAllowed(cBps, pBps, threshold, supply, decimals, vSol)
    /\ config' = NewConfig("current", signer, treasury, cBps, pBps, threshold,
                           supply, decimals, vSol)
    /\ UNCHANGED accounts

\* Grows an account of the old layout; at the current size it does nothing.
MigrateConfig(signer) ==
    /\ config.layout = "legacy"
    /\ signer = config.admin
    /\ config' = [config EXCEPT !.layout = "current"]
    /\ UNCHANGED accounts

\* Passing None for a field is passing the value it has: only a new threshold
\* is checked, and the one in place was.
UpdateConfig(signer, cBps, pBps, threshold, treasury, proposed, paused, permission, tradingPaused) ==
    /\ AdminSigns(signer)
    /\ FeesAllowed(cBps, pBps)
    /\ threshold > 0
    /\ config' = [config EXCEPT !.creatorFeeBps = cBps, !.platformFeeBps = pBps,
                                !.threshold = threshold, !.treasury = treasury,
                                !.pendingAdmin = proposed, !.paused = paused,
                                !.raydiumPermission = permission,
                                !.tradingPaused = tradingPaused]
    /\ UNCHANGED accounts

Handover_KeepsProposal(cfg) == [cfg EXCEPT !.admin = cfg.pendingAdmin]   \* mutant: can be accepted twice
Handover(cfg) == [cfg EXCEPT !.admin = cfg.pendingAdmin, !.pendingAdmin = Default]

AcceptAdmin(signer) ==
    /\ ConfigLoads
    /\ config.pendingAdmin # Default
    /\ signer = config.pendingAdmin
    /\ config' = Handover(config)
    /\ UNCHANGED accounts

----------------------------------------------------------------------------
(* Trading *)

\* calculate_buy and calculate_sell answer None on an empty reserve, and when
\* the pool does not hold what the curve would give.
BuyAnswers(pool, in) ==
    /\ in > 0 /\ pool.vSol > 0 /\ pool.vTok > 0
    /\ SwapOut(in, pool.vSol, pool.vTok) <= pool.realTok

SellAnswers(pool, in) ==
    /\ in > 0 /\ pool.vSol > 0 /\ pool.vTok > 0
    /\ SwapOut(in, pool.vTok, pool.vSol) <= pool.realSol

FeeFits(amount) == amount * TotalFeeBps <= MaxU64

\* Only sell guards the division that splits the fee against a total of zero.
CreatorFee(fee) == IF TotalFeeBps = 0 THEN 0
                   ELSE CreatorShare(fee, config.creatorFeeBps, TotalFeeBps)

\* A trade of amount leaves this much after the fee, and gives this in return.
AfterFee(amount) == amount - Fee(amount, TotalFeeBps)
TokensOut(pool, amount) == SwapOut(AfterFee(amount), pool.vSol, pool.vTok)
SolOut(pool, amount) == SwapOut(amount, pool.vTok, pool.vSol)

PlatformFee_Whole(fee) == fee   \* mutant: the creator's part is credited twice
PlatformFee(fee) == fee - CreatorFee(fee)

\* The vault takes the whole payment, the curve what is left after the fee.
Bought(pool, amount) ==
    LET fee == Fee(amount, TotalFeeBps)
        out == TokensOut(pool, amount)
    IN  [pool EXCEPT !.vSol = @ + AfterFee(amount), !.vTok = @ - out,
                     !.realSol = @ + amount, !.realTok = @ - out,
                     !.creatorEarned = @ + CreatorFee(fee),
                     !.platformEarned = @ + PlatformFee(fee), !.trades = @ + 1]

\* The curve gives the SOL up before the fee, the vault after it.
Sold(pool, amount) ==
    LET out == SolOut(pool, amount)
        fee == Fee(out, TotalFeeBps)
    IN  [pool EXCEPT !.vSol = @ - out, !.vTok = @ + amount,
                     !.realSol = @ - AfterFee(out), !.realTok = @ + amount,
                     !.creatorEarned = @ + CreatorFee(fee),
                     !.platformEarned = @ + PlatformFee(fee), !.trades = @ + 1]

\* What buy and the dev buy of create_token require of a pool.  Splitting the
\* fee divides by the total rate.
MayBuy(pool, amount) ==
    /\ amount > 0
    /\ FeeFits(amount)
    /\ TotalFeeBps > 0
    /\ BuyAnswers(pool, AfterFee(amount))
    /\ TokensOut(pool, amount) > 0
    /\ Representable(Bought(pool, amount))

\* Total supply, in the token's smallest unit.
RawSupply_Wraps == (config.totalSupply * 10^config.decimals) % (MaxU64 + 1)   \* mutant
RawSupply == config.totalSupply * 10^config.decimals

NewPool(creator) ==
    [NoPool EXCEPT !.status = "Active", !.creator = creator, !.vSol = config.virtualSol,
                   !.vTok = RawSupply, !.realTok = RawSupply]

\* Mints the whole supply into the vault and revokes the mint's authorities,
\* then makes the creator's first purchase unless devSol is 0 (or None).
\* Pausing trade does not stop that purchase.
CreateToken(creator, p, devSol) ==
    /\ ConfigLoads
    /\ ~config.paused
    /\ pools[p].status = "None"
    /\ RawSupply \in U64
    /\ config' = [config EXCEPT !.tokensCreated = @ + 1]
    /\ IF devSol = 0
       THEN /\ pools' = [pools EXCEPT ![p] = NewPool(creator)]
            /\ tokens' = [tokens EXCEPT ![p].vault = RawSupply]
            /\ UNCHANGED sol
       ELSE /\ devSol <= config.threshold \div 2
            /\ MayBuy(NewPool(creator), devSol)
            /\ VaultMayHold(sol[p] + devSol)
            /\ pools' = [pools EXCEPT ![p] = Bought(NewPool(creator), devSol)]
            /\ sol' = [sol EXCEPT ![p] = @ + devSol]
            /\ LET out == TokensOut(NewPool(creator), devSol)
               IN  tokens' = [tokens EXCEPT ![p] = [vault |-> RawSupply - out, outside |-> out]]
    /\ UNCHANGED <<raydium, paid, stray, quote>>

\* The test for graduation, made for the event, fails on a negative balance.
Buy(p, amount, minOut) ==
    /\ ConfigLoads
    /\ IsActive(p)
    /\ ~config.tradingPaused
    /\ MayBuy(pools[p], amount)
    /\ NetSol(Bought(pools[p], amount)) >= 0
    /\ TokensOut(pools[p], amount) >= minOut
    /\ VaultMayHold(sol[p] + amount)
    /\ pools' = [pools EXCEPT ![p] = Bought(pools[p], amount)]
    /\ sol' = [sol EXCEPT ![p] = @ + amount]
    /\ LET out == TokensOut(pools[p], amount)
       IN  tokens' = [tokens EXCEPT ![p].vault = @ - out, ![p].outside = @ + out]
    /\ UNCHANGED <<config, raydium, paid, stray>>

\* The seller's limit is on what arrives, after the fee.
SellLimit_BeforeFee(pool, amount, minOut) == SolOut(pool, amount) >= minOut   \* mutant
SellLimit(pool, amount, minOut) == AfterFee(SolOut(pool, amount)) >= minOut

Sell(p, amount, minOut) ==
    /\ ConfigLoads
    /\ IsActive(p)
    /\ ~config.tradingPaused
    /\ tokens[p].outside >= amount
    /\ SellAnswers(pools[p], amount)
    /\ SolOut(pools[p], amount) > 0
    /\ FeeFits(SolOut(pools[p], amount))
    /\ SellLimit(pools[p], amount, minOut)
    /\ Representable(Sold(pools[p], amount))
    /\ LET out == AfterFee(SolOut(pools[p], amount))
       IN  /\ out <= sol[p]
           /\ VaultMayHold(sol[p] - out)
           /\ sol' = [sol EXCEPT ![p] = @ - out]
    /\ pools' = [pools EXCEPT ![p] = Sold(pools[p], amount)]
    /\ tokens' = [tokens EXCEPT ![p].vault = @ + amount, ![p].outside = @ - amount]
    /\ UNCHANGED <<config, raydium, paid, stray>>

\* A trader reads the pool, and signs a trade that takes no less than the
\* pool would give at that moment.  It lands later, or never.
SignQuote(p, side, amount) ==
    /\ IsActive(p)
    /\ quote[p] = NoQuote
    /\ LET min == IF side = "buy" THEN TokensOut(pools[p], amount)
                  ELSE AfterFee(SolOut(pools[p], amount))
       IN  quote' = [quote EXCEPT ![p] = [side |-> side, amount |-> amount, min |-> min]]
    /\ UNCHANGED <<config, pools, sol, tokens, raydium, paid, stray>>

LandQuote(p) ==
    /\ \/ quote[p].side = "buy" /\ Buy(p, quote[p].amount, quote[p].min)
       \/ quote[p].side = "sell" /\ Sell(p, quote[p].amount, quote[p].min)
    /\ quote' = [quote EXCEPT ![p] = NoQuote]

----------------------------------------------------------------------------
(* Fees *)

\* The vault can pay what is due, and the books can record it.
MayPay_Strict(p, claimable) ==   \* mutant: the last lamport cannot leave
    /\ claimable < sol[p] /\ VaultMayHold(sol[p] - claimable)
    /\ claimable <= pools[p].realSol
MayPay(p, claimable) ==
    /\ claimable <= sol[p] /\ VaultMayHold(sol[p] - claimable)
    /\ claimable <= pools[p].realSol

MayClaimCreator(p) == MayPay(p, CreatorUnclaimed(pools[p]))
MayClaimPlatform(p) == MayPay(p, PlatformUnclaimed(pools[p]))

ClaimCreatorFees(signer, p) ==
    LET claimable == CreatorUnclaimed(pools[p])
    IN  /\ ConfigLoads
        /\ Exists(p)
        /\ signer = pools[p].creator
        /\ claimable > 0
        /\ MayClaimCreator(p)
        /\ pools' = [pools EXCEPT ![p].creatorClaimed = @ + claimable,
                                  ![p].realSol = @ - claimable]
        /\ sol' = [sol EXCEPT ![p] = @ - claimable]
        /\ paid' = [paid EXCEPT ![p].creator = @ + claimable]
        /\ UNCHANGED <<config, tokens, raydium, stray, quote>>

\* The account after a platform claim; a claim of nothing leaves it as it was.
PlatformClaimed_Forgotten(pool) == [pool EXCEPT !.realSol = @ - PlatformUnclaimed(pool)]   \* mutant
PlatformClaimed_BalanceKept(pool) == [pool EXCEPT !.platformClaimed = pool.platformEarned]   \* mutant
PlatformClaimed(pool) == [pool EXCEPT !.platformClaimed = pool.platformEarned,
                                      !.realSol = @ - PlatformUnclaimed(pool)]

ClaimPlatformFees(signer, p) ==
    LET claimable == PlatformUnclaimed(pools[p])
    IN  /\ TreasurySigns(signer)
        /\ Exists(p)
        /\ claimable > 0
        /\ MayClaimPlatform(p)
        /\ pools' = [pools EXCEPT ![p] = PlatformClaimed(@)]
        /\ sol' = [sol EXCEPT ![p] = @ - claimable]
        /\ paid' = [paid EXCEPT ![p].treasury = @ + claimable]
        /\ UNCHANGED <<config, tokens, raydium, stray, quote>>

\* A batched claim walks the list of pools it is given.  An entry deserializes
\* the pool's account as the entries before it left the accounts (book), and
\* writes it back; a pool may be listed more than once.
EntryAllowed(book, p) ==
    LET claimable == PlatformUnclaimed(book.pools[p])
    IN  /\ book.pools[p].status \in PoolStatus
        /\ claimable <= book.sol[p]
        /\ claimable <= book.pools[p].realSol

AfterEntry_StaleCopy(book, p) ==   \* mutant: the accounts are deserialized before the loop
    LET claimable == PlatformUnclaimed(pools[p])
    IN  [pools |-> [book.pools EXCEPT ![p] = PlatformClaimed(pools[p])],
         sol   |-> [book.sol EXCEPT ![p] = @ - claimable],
         paid  |-> [book.paid EXCEPT ![p].treasury = @ + claimable]]
AfterEntry(book, p) ==
    LET claimable == PlatformUnclaimed(book.pools[p])
    IN  [pools |-> [book.pools EXCEPT ![p] = PlatformClaimed(@)],
         sol   |-> [book.sol EXCEPT ![p] = @ - claimable],
         paid  |-> [book.paid EXCEPT ![p].treasury = @ + claimable]]

Walk(list) ==
    LET book[i \in 0..Len(list)] ==
          IF i = 0 THEN [pools |-> pools, sol |-> sol, paid |-> paid]
          ELSE AfterEntry(book[i - 1], list[i])
    IN  book

\* One transaction: an entry that fails undoes the whole list.  Something must
\* have been claimed in the end (total_claimed; its checked_add is of lamports
\* the vaults held, and no sum of those overflows).
ClaimAllPlatformFees(signer, list) ==
    LET book == Walk(list)
        last == book[Len(list)]
    IN  /\ TreasurySigns(signer)
        /\ \A i \in 1..Len(list) : EntryAllowed(book[i - 1], list[i])
        /\ \A i \in 1..Len(list) : VaultMayHold(last.sol[list[i]])
        /\ last.paid # paid
        /\ pools' = last.pools /\ sol' = last.sol /\ paid' = last.paid
        /\ UNCHANGED <<config, tokens, raydium, stray, quote>>

----------------------------------------------------------------------------
(* Graduation *)

\* Permission and admin or treasury: only they pay for, and own, the Raydium pool.
MayGraduate(signer) == ConfigLoads /\ signer \in {config.admin, config.treasury}

ReachedThreshold_Exceeded(pool) == NetSol(pool) > config.threshold   \* mutant
ReachedThreshold(pool) == NetSol(pool) >= config.threshold

\* The test of CurvePool, which no instruction uses.
ShouldGraduate(pool) == pool.status = "Active" /\ pool.realSol >= config.threshold

\* The SOL that becomes Raydium's: the curve's, less the payer's rent.
SolForRaydium(pool) == NetSol(pool) - RentReimbursement

\* Computed in u128, and cast to u64 without a check.
AsU64(n) == n % (MaxU64 + 1)
TokensForRaydium(pool) == AsU64(TokensAtSpot(SolForRaydium(pool), pool.vSol, pool.vTok))

\* Raydium has its two tokens in the order of their mints.  The mints and the
\* amounts are put in that order each on their own; Raydium takes amount i of
\* token i.
TokenOrder(p) == IF p \in AgentFirst THEN <<"agent", "wsol">> ELSE <<"wsol", "agent">>
InitAmounts_AgentFirst(p, lamports, agents) == <<agents, lamports>>   \* mutant: not reordered
InitAmounts(p, lamports, agents) ==
    IF p \in AgentFirst THEN <<agents, lamports>> ELSE <<lamports, agents>>
Deposited(p, token, amounts) ==
    IF TokenOrder(p)[1] = token THEN amounts[1] ELSE amounts[2]

Graduated_FeesForgotten(pool) == [pool EXCEPT !.status = "Graduated", !.realSol = 0, !.realTok = 0]   \* mutant
Graduated_ClaimsReset(pool) ==   \* mutant: all claim counters start again
    [pool EXCEPT !.status = "Graduated", !.realSol = Unclaimed(pool), !.realTok = 0,
                 !.creatorClaimed = 0]
Graduated(pool) == [pool EXCEPT !.status = "Graduated", !.realSol = Unclaimed(pool), !.realTok = 0]

\* Burns the tokens that do not match the SOL, hands the rest to Raydium, and
\* burns the LP tokens it is given.
Graduate(signer, p) ==
    LET pool == pools[p]
        handed == TokensForRaydium(pool)
        amounts == InitAmounts(p, SolForRaydium(pool), handed)
    IN  /\ MayGraduate(signer)
        /\ IsActive(p)
        /\ NetSol(pool) >= 0
        /\ ReachedThreshold(pool)
        /\ SolForRaydium(pool) >= 0
        /\ pool.vSol > 0
        /\ handed <= pool.realTok
        /\ pool.realTok <= tokens[p].vault
        /\ NetSol(pool) <= sol[p] /\ VaultMayHold(sol[p] - NetSol(pool))
        /\ pools' = [pools EXCEPT ![p] = Graduated(pool)]
        /\ sol' = [sol EXCEPT ![p] = @ - NetSol(pool)]
        /\ tokens' = [tokens EXCEPT ![p].vault = @ - pool.realTok, ![p].outside = @ + handed]
        /\ raydium' = [raydium EXCEPT ![p] =
                [creator |-> signer, withPermission |-> config.raydiumPermission,
                 sol |-> Deposited(p, "wsol", amounts),
                 tokens |-> Deposited(p, "agent", amounts),
                 burned |-> pool.realTok - handed]]
        /\ config' = [config EXCEPT !.tokensGraduated = @ + 1]
        /\ UNCHANGED <<paid, stray, quote>>

\* What a pool must be for its accounts to be closed.
Closable_BooksOnly(p) ==   \* mutant: the pool's own record of its tokens is checked
    /\ pools[p].status = "Graduated"
    /\ CreatorUnclaimed(pools[p]) = 0
    /\ PlatformUnclaimed(pools[p]) = 0
    /\ pools[p].realTok = 0
Closable_CreatorUnpaid(p) ==   \* mutant: only the platform's fees are checked
    pools[p].status = "Graduated" /\ PlatformUnclaimed(pools[p]) = 0 /\ tokens[p].vault = 0
Closable(p) ==
    /\ pools[p].status = "Graduated"
    /\ CreatorUnclaimed(pools[p]) = 0
    /\ PlatformUnclaimed(pools[p]) = 0
    /\ tokens[p].vault = 0

\* The treasury has whatever lamports are left.
CloseGraduatedPool(signer, p) ==
    /\ MayGraduate(signer)
    /\ Closable(p)
    /\ pools' = [pools EXCEPT ![p].status = "Closed"]
    /\ sol' = [sol EXCEPT ![p] = 0]
    /\ paid' = [paid EXCEPT ![p].treasury = @ + sol[p]]
    /\ UNCHANGED <<config, tokens, raydium, stray, quote>>

----------------------------------------------------------------------------
(* What happens outside the program: anyone can send SOL or tokens to a vault. *)

StraySol(p, n) ==
    /\ Exists(p)
    /\ stray[p].sol + n <= MaxStray
    /\ VaultMayHold(sol[p] + n)
    /\ sol' = [sol EXCEPT ![p] = @ + n]
    /\ stray' = [stray EXCEPT ![p].sol = @ + n]
    /\ UNCHANGED <<config, pools, tokens, raydium, paid, quote>>

StrayToken(p) ==
    /\ Exists(p)
    /\ stray[p].tokens < MaxStray
    /\ tokens[p].outside > 0
    /\ tokens' = [tokens EXCEPT ![p].vault = @ + 1, ![p].outside = @ - 1]
    /\ stray' = [stray EXCEPT ![p].tokens = @ + 1]
    /\ UNCHANGED <<config, pools, sol, raydium, paid, quote>>

----------------------------------------------------------------------------

AdminStep ==
    \/ \E a \in Admins, t \in Treasuries, c \in CreatorFees, f \in PlatformFees,
         g \in Thresholds, s \in Supplies, d \in Decimals, v \in VirtualSols :
            Initialize(a, t, c, f, g, s, d, v)
    \/ \E a \in Admins : MigrateConfig(a)
    \/ \E a \in Admins, c \in CreatorFees, f \in PlatformFees, g \in Thresholds,
         t \in Treasuries, n \in Admins \cup {Default}, x, y, z \in Switches :
            UpdateConfig(a, c, f, g, t, n, x, y, z)
    \/ \E a \in Admins : AcceptAdmin(a)

CreateStep ==
    \E c \in Creators, p \in Pools, d \in SolAmounts \cup {0} : CreateToken(c, p, d)

\* Any trader may trade, with no limit on the price.
TradeStep ==
    \E p \in Pools :
        \/ \E n \in SolAmounts : Buy(p, n, 0) /\ UNCHANGED quote
        \/ \E n \in TokenAmounts : Sell(p, n, 0) /\ UNCHANGED quote
        \/ \E side \in {"buy", "sell"}, n \in QuotedAmounts : SignQuote(p, side, n)
        \/ LandQuote(p)

FeeStep ==
    \/ \E c \in Creators, p \in Pools : ClaimCreatorFees(c, p)
    \/ \E t \in Treasuries, p \in Pools : ClaimPlatformFees(t, p)
    \/ \E t \in Treasuries, n \in 1..MaxBatch : \E list \in [1..n -> Pools] :
            ClaimAllPlatformFees(t, list)

EndStep ==
    \E s \in Admins \cup Treasuries, p \in Pools :
        Graduate(s, p) \/ CloseGraduatedPool(s, p)

StrayStep ==
    \E p \in Pools : StrayToken(p) \/ \E n \in 1..MaxStray : StraySol(p, n)

Next == AdminStep \/ CreateStep \/ TradeStep \/ FeeStep \/ EndStep \/ StrayStep

Spec == Init /\ [][Next]_vars

\* The program starts nothing by itself.  Whoever is interested keeps calling:
\* the administrator or the treasury graduates a pool that can be graduated
\* again and again, and each party claims fees that stay claimable.
FairSpec ==
    /\ Spec
    /\ \A p \in Pools :
         /\ SF_vars(\E s \in Admins \cup Treasuries : Graduate(s, p))
         /\ WF_vars(\E c \in Creators : ClaimCreatorFees(c, p))
         /\ WF_vars(\E t \in Treasuries : ClaimPlatformFees(t, p))

----------------------------------------------------------------------------
(* Properties *)

\* Every field holds a value its account can hold.
TypeOK ==
    /\ config \in CurveConfig
    /\ pools \in [Pools -> CurvePool]
    /\ sol \in [Pools -> Nat]
    /\ tokens \in [Pools -> [vault : Nat, outside : Nat]]
    /\ raydium \in [Pools -> Listing]
    /\ paid \in [Pools -> [creator : Nat, treasury : Nat]]
    /\ stray \in [Pools -> [sol : 0..MaxStray, tokens : 0..MaxStray]]
    /\ quote \in [Pools -> Quote]

\* The virtual reserves, on which buy and sell compute prices, and the real
\* balances, out of which they pay, are kept by separate assignments in five
\* instructions and never drift apart: on an active pool the token reserves
\* are equal, and the SOL that belongs to the curve (fees due taken off) is
\* what the virtual reserve gained since creation.  After graduation the pool
\* owns only the fees that are due.
BooksMatch ==
    \A p \in Pools :
        /\ IsActive(p) => /\ pools[p].realTok = pools[p].vTok
                          /\ NetSol(pools[p]) = pools[p].vSol - config.virtualSol
        /\ pools[p].status = "Graduated" => /\ pools[p].realTok = 0
                                            /\ NetSol(pools[p]) = 0

\* What the accounts say is there is there: the SOL vault holds the recorded
\* balance and the token vault the unsold tokens, each plus exactly what was
\* sent to it from outside, through trades, claims and graduation.
VaultsBacked ==
    \A p \in Pools : Exists(p) =>
        /\ sol[p] = pools[p].realSol + stray[p].sol
        /\ tokens[p].vault = pools[p].realTok + stray[p].tokens

\* Every lamport of fees is paid at most once and to its owner, however single
\* and batched claims, trades and graduation interleave; when the pool's
\* accounts are closed all of it has been paid, and the treasury has no more
\* than its fees and what strangers sent.
FeesPaidOnce ==
    \A p \in Pools :
        /\ paid[p].creator = pools[p].creatorClaimed
        /\ pools[p].creatorClaimed <= pools[p].creatorEarned
        /\ pools[p].platformClaimed <= pools[p].platformEarned
        /\ Exists(p) => paid[p].treasury = pools[p].platformClaimed
        /\ pools[p].status = "Closed" =>
               /\ paid[p].creator = pools[p].creatorEarned
               /\ paid[p].treasury = pools[p].platformEarned + stray[p].sol

\* A graduation opens Raydium at the curve's last price, to within one token
\* unit, for the SOL that arrives there; the rest of the unsold tokens is
\* burned, never left where it could be sold.
PriceContinues ==
    \A p \in Pools : pools[p].status \in {"Graduated", "Closed"} =>
        LET pool == pools[p]
            there == raydium[p]
        IN  /\ there.tokens * pool.vSol <= there.sol * pool.vTok
            /\ there.sol * pool.vTok < (there.tokens + 1) * pool.vSol
            /\ there.tokens + there.burned = pool.vTok

\* Each mint's supply is what the configuration says, in whole tokens, from
\* the mint on: through the first purchase, trades, graduation with its burn, and
\* closing, no token is added or lost.  A supply that does not fit u64 is never
\* minted.
SupplyConserved ==
    \A p \in Pools : pools[p].status # "None" =>
        /\ tokens[p].vault + tokens[p].outside + raydium[p].burned
             = config.totalSupply * 10^config.decimals
        /\ config.totalSupply * 10^config.decimals <= MaxU64

\* A pool that reached the threshold, and the payer's reimbursement, can
\* always graduate: no rounding, no claim and nothing sent to the vaults makes
\* a check of graduate fail.  The one obstacle is a remainder too small for the
\* vault to hold, and then the fees due can be claimed first, unless it is the
\* lamports of strangers.
GraduationOpen ==
    \A p \in Pools :
        ( /\ ConfigLoads
          /\ IsActive(p)
          /\ ReachedThreshold(pools[p])
          /\ SolForRaydium(pools[p]) >= 0 ) =>
            /\ TokensForRaydium(pools[p]) \in 0..pools[p].realTok
            /\ pools[p].realTok <= tokens[p].vault
            /\ NetSol(pools[p]) <= sol[p]
            /\ \/ VaultMayHold(sol[p] - NetSol(pools[p]))
               \/ CreatorUnclaimed(pools[p]) > 0 /\ MayClaimCreator(p)
               \/ PlatformUnclaimed(pools[p]) > 0 /\ MayClaimPlatform(p)
               \/ Unclaimed(pools[p]) = 0 /\ stray[p].sol > 0

\* A trade moves along the curve: it never raises the product of the reserves
\* (the fee does not enter the curve) and lowers it by less than one unit of
\* the reserve that rounding gives away.
RoundingBounded ==
    [][\A p \in Pools : pools[p].status = "Active" /\ pools'[p].trades # pools[p].trades =>
          LET k == pools[p].vSol * pools[p].vTok
              kNext == pools'[p].vSol * pools'[p].vTok
          IN  /\ kNext <= k
              /\ k - kNext < IF pools'[p].vSol > pools[p].vSol THEN pools'[p].vSol
                                                             ELSE pools'[p].vTok]_vars

\* Whoever buys and sells straight back has no profit, once the fee is a
\* lamport: the two roundings in the trader's favour together are worth one
\* lamport, while a unit of the token is worth no more than that.
RoundTripCosts ==
    \A p \in Pools, n \in SolAmounts :
        LET after == Bought(pools[p], n)
        IN  ( /\ IsActive(p)
              /\ MayBuy(pools[p], n)
              /\ Fee(n, TotalFeeBps) > 0
              /\ after.vSol <= pools[p].vTok ) =>
                AfterFee(SolOut(after, TokensOut(pools[p], n))) <= n

\* The lamports of the virtual reserve do not exceed the units of the supply:
\* with the program's defaults, 10^18 units and some 10^11 lamports.
ReserveBelowSupply == \A p \in Pools : IsActive(p) => pools[p].vSol <= RawSupply

\* All that was sold can be sold back: for any part of the tokens outside, the
\* curve owes no more than the SOL it has, and a lamport per trade, the most
\* that rounding can have cost it.
SoldTokensBacked ==
    \A p \in Pools : IsActive(p) =>
        LET backed == NetSol(pools[p]) + pools[p].trades
        IN  /\ backed >= 0
            /\ \A n \in 1..tokens[p].outside : SolOut(pools[p], n) <= backed

\* The curve stays solvent to within a lamport per trade, over any sequence of
\* trades, fee changes and claims in which the reserve stays below the supply:
\* what rounding costs does not grow with the amounts.
CurveSolvent == []ReserveBelowSupply => []SoldTokensBacked

\* No rounding closes a pool.  The test for graduation that buy makes only for
\* its event refuses no purchase that puts a lamport per trade on the curve, and
\* while the fees due are a lamport per trade a holder can sell any part of the
\* tokens outside: the vault has what the curve gives, and the books can record
\* it.
TradesOpen ==
    \A p \in Pools : IsActive(p) =>
        LET pool == pools[p]
        IN  /\ \A n \in SolAmounts :
                  AfterFee(n) >= pool.trades => NetSol(Bought(pool, n)) >= 0
            /\ \A n \in 1..tokens[p].outside :
                  LET out == SolOut(pool, n)
                      sold == Sold(pool, n)
                  IN  ( /\ pool.vSol > 0 /\ pool.vTok > 0
                        /\ {sold.creatorEarned, sold.platformEarned} \subseteq U64
                        /\ sold.trades <= MaxTrades
                        /\ Unclaimed(pool) >= pool.trades ) =>
                          /\ SellAnswers(pool, n) /\ out > 0
                          /\ Representable(sold)
                          /\ AfterFee(out) <= sol[p]

\* Trade stays open, through any steps in which the reserve stays below the
\* supply.
CurveStaysOpen == []ReserveBelowSupply => []TradesOpen

\* A trade signed on a quote pays exactly what was signed and gets no less
\* than the quote, whatever other trades, fee changes and claims landed since.
QuoteHonoured ==
    [][\A p \in Pools : quote[p].side # "none" /\ quote'[p].side = "none" =>
          IF quote[p].side = "buy"
          THEN /\ sol'[p] - sol[p] = quote[p].amount
               /\ tokens'[p].outside - tokens[p].outside >= quote[p].min
          ELSE /\ sol[p] - sol'[p] >= quote[p].min
               /\ tokens[p].outside - tokens'[p].outside = quote[p].amount]_vars

\* A graduated pool has left the curve for good: no instruction trades on it
\* or graduates it again, its creator stays its creator, and its SOL leaves
\* only as fees that were due.
CurveLeftForGood ==
    [][\A p \in Pools : pools[p].status \in {"Graduated", "Closed"} =>
          /\ pools'[p].status \in {pools[p].status, "Closed"}
          /\ pools'[p].creator = pools[p].creator
          /\ raydium'[p] = raydium[p]
          /\ <<pools'[p].vSol, pools'[p].vTok, pools'[p].trades>>
               = <<pools[p].vSol, pools[p].vTok, pools[p].trades>>
          /\ pools[p].realSol - pools'[p].realSol
               = Unclaimed(pools[p]) - Unclaimed(pools'[p])]_vars

\* What strangers sent, and too little for a vault to hold it alone.
StrayRemainder(p) == stray[p].sol > 0 /\ stray[p].sol < RentExempt

\* A pool past its threshold does not stay there: it graduates, is sold back
\* below the threshold, or the admin raises the threshold.  Fees in the way of
\* graduation are claimed; only strangers' lamports can hold it up.
GraduationReached ==
    \A p \in Pools :
        LET due == /\ ConfigLoads /\ IsActive(p)
                   /\ NetSol(pools[p]) >= config.threshold
                   /\ NetSol(pools[p]) >= RentReimbursement
        IN  due ~> (~due \/ StrayRemainder(p))

\* Each party's part is something, and too little for a vault to hold it alone.
PartsTooSmall(p) ==
    {CreatorUnclaimed(pools[p]), PlatformUnclaimed(pools[p])} \subseteq 1..(RentExempt - 1)

\* The fees due after graduation are there, and one party or the other can
\* claim at once, in a transaction of its own: paying one may leave a remainder Solana refuses, but never
\* both, unless each part is below the rent-exempt balance or strangers'
\* lamports are in the way.
FeesClaimOpen ==
    \A p \in Pools :
        ( /\ pools[p].status = "Graduated"
          /\ Unclaimed(pools[p]) > 0
          /\ ~StrayRemainder(p)
          /\ ~PartsTooSmall(p) ) =>
            \/ CreatorUnclaimed(pools[p]) > 0 /\ MayClaimCreator(p)
            \/ PlatformUnclaimed(pools[p]) > 0 /\ MayClaimPlatform(p)

\* Once its fees are paid a graduated pool can be closed, by the token balance
\* its vault really has: burn, Raydium and every claim left nothing behind, and
\* the one obstacle, which nobody can remove, is a token a stranger sent.
ClosingOpen ==
    \A p \in Pools : pools[p].status = "Graduated" /\ Unclaimed(pools[p]) = 0 =>
        (Closable(p) <=> stray[p].tokens = 0)

\* The fees of a graduated pool reach both parties, in whichever order their
\* claims are possible, with the same two exceptions.
FeesReachOwners ==
    \A p \in Pools :
        (pools[p].status = "Graduated" /\ ~PartsTooSmall(p))
            ~> (Unclaimed(pools[p]) = 0 \/ StrayRemainder(p))

\* The fees due are in the vault (SKILL.md, README.md).  They need not be:
\* every trade rounds in favour of the trader, and what the curve loses that
\* way on a pool that is sold back is missing from the fees.
FeesCovered == \A p \in Pools : Exists(p) => Unclaimed(pools[p]) <= pools[p].realSol

\* After graduation the fees due are there to claim (SKILL.md).  They need not
\* be: when each party's part is below the rent-exempt balance, paying either by
\* itself leaves the vault with a balance Solana refuses.  (Both claims in one
\* transaction, or lamports sent to the vault, would clear it.)
FeesClaimable ==
    \A p \in Pools : pools[p].status = "Graduated" /\ Unclaimed(pools[p]) > 0 =>
        \/ CreatorUnclaimed(pools[p]) > 0 /\ MayClaimCreator(p)
        \/ PlatformUnclaimed(pools[p]) > 0 /\ MayClaimPlatform(p)

\* graduate refuses only a pool whose real_sol_balance is below the threshold
\* (SKILL.md), which is what should_graduate tests.  It tests that balance less
\* the fees due, and a pool between the two is refused.
ThresholdOnBalance ==
    \A p \in Pools :
        ConfigLoads /\ ShouldGraduate(pools[p]) => ReachedThreshold(pools[p])

\* With Raydium's permission the pool is the creator of the Raydium pool, whose
\* creator fees it then collects (SKILL.md, claim_raydium_fees.rs).  The payer
\* of the graduation is.
PoolCreatedOnRaydium ==
    \A p \in Pools :
        pools[p].status = "Graduated" /\ raydium[p].withPermission => raydium[p].creator = p

\* The administrator changes hands as AdminHandoff says.
Handoff == INSTANCE AdminHandoff WITH Keys <- Admins, NoKey <- Default,
                                      admin <- config.admin, pending <- config.pendingAdmin
ImplementsHandoff == Handoff!Spec

\* Each pool keeps the promise of PoolLedger (\A p : Ledger(p)!Spec, with one
\* step for all pools, as a batched claim is): across single and batched claims,
\* the first purchase, graduation and closing.
Ledger(p) == INSTANCE PoolLedger WITH
    Reimbursement <- RentReimbursement,
    phase  <- pools[p].status,
    curve  <- NetSol(pools[p]),
    unsold <- pools[p].realTok,
    due    <- [creator  |-> CreatorUnclaimed(pools[p]),
               treasury |-> PlatformUnclaimed(pools[p])],
    got    <- paid[p],
    listed <- raydium[p].sol
ImplementsLedger ==
    /\ \A p \in Pools : Ledger(p)!Init
    /\ [][\A p \in Pools : [Ledger(p)!Next]_(Ledger(p)!vars)]_vars
=============================================================================
