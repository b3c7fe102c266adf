------------------------- MODULE BondingCurveProofs -------------------------
(***************************************************************************)
(* Theorems about BondingCurve for every number of pools and parties, all *)
(* amounts, fees, reserves and thresholds.                                *)
(***************************************************************************)
EXTENDS BondingCurve, CurveMathProofs, WellFoundedInduction, SequenceTheorems

\* The configuration, once it exists, has an administrator, a threshold, and
\* fees within the cap.
ConfigSound ==
    /\ config.layout = "absent" <=> config.admin = Default
    /\ config.layout = "absent" => config.pendingAdmin = Default
    /\ config.layout # "absent" => config.threshold > 0
    /\ config.creatorFeeBps + config.platformFeeBps <= MaxFeeBps

\* The invariants, of one pool.
Untouched(p) ==
    pools[p].status = "None" =>
        /\ pools[p] = NoPool /\ sol[p] = 0
        /\ tokens[p].vault = 0 /\ tokens[p].outside = 0
        /\ paid[p].creator = 0 /\ paid[p].treasury = 0
        /\ stray[p].sol = 0 /\ stray[p].tokens = 0

BooksOf(p) ==
    /\ IsActive(p) => /\ pools[p].realTok = pools[p].vTok
                      /\ NetSol(pools[p]) = pools[p].vSol - config.virtualSol
    /\ pools[p].status = "Graduated" => pools[p].realTok = 0 /\ NetSol(pools[p]) = 0

VaultsOf(p) ==
    Exists(p) => /\ sol[p] = pools[p].realSol + stray[p].sol
                 /\ tokens[p].vault = pools[p].realTok + stray[p].tokens

FeesOf(p) ==
    /\ paid[p].creator = pools[p].creatorClaimed
    /\ pools[p].creatorClaimed <= pools[p].creatorEarned
    /\ pools[p].platformClaimed <= pools[p].platformEarned
    /\ Exists(p) => paid[p].treasury = pools[p].platformClaimed
    /\ pools[p].status = "Closed" =>
           /\ paid[p].creator = pools[p].creatorEarned
           /\ paid[p].treasury = pools[p].platformEarned + stray[p].sol

\* A listing continues the price of the reserves, of which it leaves nothing.
Continues(there, vSol, vTok) ==
    /\ there.tokens * vSol <= there.sol * vTok
    /\ there.sol * vTok < (there.tokens + 1) * vSol
    /\ there.tokens + there.burned = vTok

PriceOf(p) ==
    pools[p].status \in {"Graduated", "Closed"} =>
        Continues(raydium[p], pools[p].vSol, pools[p].vTok)

PoolSound(p) == Untouched(p) /\ BooksOf(p) /\ VaultsOf(p) /\ FeesOf(p) /\ PriceOf(p)

PoolTyped(p) ==
    /\ pools[p] \in CurvePool /\ sol[p] \in Nat
    /\ tokens[p] \in [vault : Nat, outside : Nat]
    /\ raydium[p] \in Listing
    /\ paid[p] \in [creator : Nat, treasury : Nat]
    /\ stray[p] \in [sol : 0..MaxStray, tokens : 0..MaxStray]
    /\ quote[p] \in Quote

\* The invariant that is inductive: no pool without a configuration, and every
\* pool sound.
IndInv ==
    /\ TypeOK
    /\ ConfigSound
    /\ config.layout = "absent" => \A p \in Pools : pools[p].status = "None"
    /\ \A p \in Pools : PoolSound(p)

LEMMA IndInvImplies == IndInv => BooksMatch /\ VaultsBacked /\ FeesPaidOnce /\ PriceContinues
BY DEF IndInv, PoolSound, BooksOf, VaultsOf, FeesOf, PriceOf, Continues,
       BooksMatch, VaultsBacked, FeesPaidOnce, PriceContinues

\* What IndInv says of one pool.
LEMMA PoolAccounts ==
    ASSUME IndInv, NEW p \in Pools
    PROVE  /\ PoolTyped(p)
           /\ PoolSound(p)
           /\ Exists(p) => config.layout # "absent"
BY DEF IndInv, TypeOK, PoolTyped, Exists, PoolStatus

\* A step that leaves the configuration alone but for its two counters.
ConfigKept ==
    /\ config' \in CurveConfig
    /\ config'.layout = config.layout
    /\ config'.admin = config.admin /\ config'.pendingAdmin = config.pendingAdmin
    /\ config'.creatorFeeBps = config.creatorFeeBps
    /\ config'.platformFeeBps = config.platformFeeBps
    /\ config'.threshold = config.threshold
    /\ config'.virtualSol = config.virtualSol

\* The accounts are functions on Pools.
ByPool ==
    /\ pools = [p \in Pools |-> pools[p]] /\ sol = [p \in Pools |-> sol[p]]
    /\ tokens = [p \in Pools |-> tokens[p]] /\ raydium = [p \in Pools |-> raydium[p]]
    /\ paid = [p \in Pools |-> paid[p]] /\ stray = [p \in Pools |-> stray[p]]
    /\ quote = [p \in Pools |-> quote[p]]

\* Such a step preserves the invariant if it leaves every pool sound.
LEMMA PoolsFrame ==
    ASSUME IndInv, ConfigKept, config.layout # "absent", ByPool',
           \A p \in Pools : PoolTyped(p)' /\ PoolSound(p)'
    PROVE  IndInv'
<1>1. TypeOK'
  BY DEF ByPool, PoolTyped, TypeOK, ConfigKept
<1>2. ConfigSound'
  BY DEF IndInv, ConfigSound, ConfigKept
<1>3. config'.layout # "absent"
  BY DEF ConfigKept
<1> QED
  BY <1>1, <1>2, <1>3 DEF IndInv

\* A step that touches the accounts of pool p alone.
OnlyPool(p) ==
    /\ pools' = [pools EXCEPT ![p] = pools'[p]]
    /\ sol' = [sol EXCEPT ![p] = sol'[p]]
    /\ tokens' = [tokens EXCEPT ![p] = tokens'[p]]
    /\ raydium' = [raydium EXCEPT ![p] = raydium'[p]]
    /\ paid' = [paid EXCEPT ![p] = paid'[p]]
    /\ stray' = [stray EXCEPT ![p] = stray'[p]]
    /\ quote' = [quote EXCEPT ![p] = quote'[p]]

\* Such a step leaves the other pools as they are.
LEMMA OthersKept ==
    ASSUME IndInv, NEW p \in Pools, OnlyPool(p), NEW q \in Pools, q # p
    PROVE  /\ pools'[q] = pools[q] /\ sol'[q] = sol[q] /\ tokens'[q] = tokens[q]
           /\ raydium'[q] = raydium[q] /\ paid'[q] = paid[q] /\ stray'[q] = stray[q]
           /\ quote'[q] = quote[q]
BY DEF IndInv, TypeOK, OnlyPool

LEMMA PoolFrame ==
    ASSUME IndInv, NEW p \in Pools, OnlyPool(p), ConfigKept, config.layout # "absent",
           PoolTyped(p)', PoolSound(p)'
    PROVE  IndInv'
<1>1. ByPool'
  BY DEF IndInv, TypeOK, OnlyPool, ByPool
<1>2. ASSUME NEW q \in Pools PROVE PoolTyped(q)' /\ PoolSound(q)'
  <2>1. CASE q = p
    BY <2>1
  <2>2. CASE q # p
    <3>1. PoolTyped(q) /\ PoolSound(q)
      BY PoolAccounts
    <3>2. PoolTyped(q)'
      BY <2>2, <3>1, OthersKept DEF PoolTyped
    <3>3. config'.virtualSol = config.virtualSol
      BY DEF ConfigKept
    <3>4. PoolSound(q)'
      BY <2>2, <3>1, <3>3, OthersKept
         DEF PoolSound, Untouched, BooksOf, VaultsOf, FeesOf, PriceOf, IsActive, Exists
    <3> QED
      BY <3>2, <3>4
  <2> QED
    BY <2>1, <2>2
<1> QED
  BY <1>1, <1>2, PoolsFrame

\* Writing back what an account holds changes nothing.
LEMMA WrittenBack ==
    ASSUME IndInv, NEW p \in Pools
    PROVE  /\ pools = [pools EXCEPT ![p] = pools[p]] /\ sol = [sol EXCEPT ![p] = sol[p]]
           /\ tokens = [tokens EXCEPT ![p] = tokens[p]]
           /\ raydium = [raydium EXCEPT ![p] = raydium[p]]
           /\ paid = [paid EXCEPT ![p] = paid[p]] /\ stray = [stray EXCEPT ![p] = stray[p]]
           /\ quote = [quote EXCEPT ![p] = quote[p]]
BY DEF IndInv, TypeOK

LEMMA ConfigUnchanged ==
    ASSUME IndInv, UNCHANGED config PROVE ConfigKept
BY DEF IndInv, TypeOK, ConfigKept

----------------------------------------------------------------------------
(* The initial states and the administration *)

LEMMA InitIndInv == Init => IndInv
<1> SUFFICES ASSUME Init PROVE IndInv
  OBVIOUS
<1> USE KeyAssumption, ParameterAssumption DEF Init
<1>1. config \in CurveConfig /\ ConfigSound
  <2> DEFINE Goal == config \in CurveConfig /\ ConfigSound
  <2>1. CASE config = NoConfig
    BY <2>1 DEF NoConfig, NewConfig, CurveConfig, ConfigSound, MaxFeeBps
  <2>2. ASSUME NEW a \in Admins, NEW t \in Treasuries, NEW c \in CreatorFees,
               NEW f \in PlatformFees, NEW g \in Thresholds, NEW s \in Supplies,
               NEW d \in Decimals, NEW v \in VirtualSols, SetupAllowed(c, f, g, s, d, v),
               config = NewConfig("legacy", a, t, c, f, g, s, d, v)
        PROVE  Goal
    <3>0. c \in Nat /\ f \in Nat /\ g \in 0..MaxU64
      OBVIOUS
    <3>1. c \in 0..MaxFeeBps /\ f \in 0..MaxFeeBps /\ c + f <= MaxFeeBps /\ g > 0
      BY <2>2, <3>0 DEF SetupAllowed, FeesAllowed, MaxFeeBps
    <3> QED
      BY <2>2, <3>0, <3>1 DEF NewConfig, CurveConfig, ConfigSound
  <2> QED
    BY <2>1, <2>2
<1>2. /\ NoPool \in CurvePool /\ NotOnRaydium \in Listing /\ NoQuote \in Quote
      /\ 0 \in 0..MaxStray
  BY DEF NoPool, CurvePool, U64, NotOnRaydium, Listing, NoQuote, Quote
<1>3. TypeOK
  BY <1>1, <1>2 DEF TypeOK
<1>4. ASSUME NEW p \in Pools PROVE PoolSound(p)
  BY DEF PoolSound, Untouched, BooksOf, VaultsOf, FeesOf, PriceOf, NoPool, IsActive, Exists,
         PoolStatus
<1> QED
  BY <1>1, <1>3, <1>4 DEF IndInv, NoPool

\* What an instruction of the administration may do to the configuration.
ConfigMoved ==
    /\ config' \in CurveConfig
    /\ ConfigSound'
    /\ config'.layout # "absent"
    /\ config.layout # "absent" => config'.virtualSol = config.virtualSol

LEMMA AdminMovesConfig ==
    ASSUME IndInv, AdminStep PROVE ConfigMoved
<1>1. config \in CurveConfig /\ ConfigSound
  BY DEF IndInv, TypeOK
<1> USE KeyAssumption, ParameterAssumption
<1>2. ASSUME NEW a \in Admins, NEW t \in Treasuries, NEW c \in CreatorFees,
             NEW f \in PlatformFees, NEW g \in Thresholds, NEW s \in Supplies,
             NEW d \in Decimals, NEW v \in VirtualSols, Initialize(a, t, c, f, g, s, d, v)
      PROVE  ConfigMoved
  <2>0. c \in Nat /\ f \in Nat /\ g \in 0..MaxU64
    OBVIOUS
  <2>1. c \in 0..MaxFeeBps /\ f \in 0..MaxFeeBps /\ c + f <= MaxFeeBps /\ g > 0
    <3>1. c + f <= MaxFeeBps /\ g > 0
      BY <1>2 DEF Initialize, SetupAllowed, FeesAllowed
    <3> QED
      BY <2>0, <3>1 DEF MaxFeeBps
  <2>2. /\ config' = NewConfig("current", a, t, c, f, g, s, d, v)
        /\ config.layout = "absent"
    BY <1>2 DEF Initialize
  <2> QED
    <3>1. /\ config'.layout = "current" /\ config'.admin = a /\ config'.pendingAdmin = Default
          /\ config'.threshold = g /\ config'.creatorFeeBps = c /\ config'.platformFeeBps = f
      BY <2>2 DEF NewConfig
    <3>2. ConfigSound'
      BY <2>1, <3>1 DEF ConfigSound
    <3>3. config' \in CurveConfig
      BY <2>0, <2>1, <2>2 DEF NewConfig, CurveConfig
    <3> QED
      BY <2>2, <3>1, <3>2, <3>3 DEF ConfigMoved
<1>3. ASSUME NEW a \in Admins, MigrateConfig(a) PROVE ConfigMoved
  BY <1>1, <1>3 DEF MigrateConfig, CurveConfig, ConfigSound, ConfigMoved
<1>4. ASSUME NEW a \in Admins, NEW c \in CreatorFees, NEW f \in PlatformFees,
             NEW g \in Thresholds, NEW t \in Treasuries, NEW n \in Admins \cup {Default},
             NEW x \in Switches, NEW y \in Switches, NEW z \in Switches,
             UpdateConfig(a, c, f, g, t, n, x, y, z)
      PROVE  ConfigMoved
  <2>0. c \in Nat /\ f \in Nat /\ g \in 0..MaxU64 /\ {x, y, z} \subseteq BOOLEAN
    OBVIOUS
  <2>1. /\ c \in 0..MaxFeeBps /\ f \in 0..MaxFeeBps /\ c + f <= MaxFeeBps /\ g > 0
        /\ config.layout = "current"
    <3>1. c + f <= MaxFeeBps /\ g > 0 /\ config.layout = "current"
      BY <1>4 DEF UpdateConfig, FeesAllowed, AdminSigns, ConfigLoads
    <3> QED
      BY <2>0, <3>1 DEF MaxFeeBps
  <2>2. config' = [layout |-> config.layout, admin |-> config.admin, treasury |-> t,
                   creatorFeeBps |-> c, platformFeeBps |-> f, threshold |-> g,
                   totalSupply |-> config.totalSupply, decimals |-> config.decimals,
                   virtualSol |-> config.virtualSol, paused |-> x, raydiumPermission |-> y,
                   tokensCreated |-> config.tokensCreated,
                   tokensGraduated |-> config.tokensGraduated,
                   tradingPaused |-> z, pendingAdmin |-> n]
    BY <1>1, <1>4 DEF UpdateConfig, CurveConfig
  <2> QED
    BY <1>1, <2>0, <2>1, <2>2 DEF CurveConfig, ConfigSound, ConfigMoved
<1>5. ASSUME NEW a \in Admins, AcceptAdmin(a) PROVE ConfigMoved
  <2>1. config.layout = "current" /\ config.pendingAdmin \in Admins
    BY <1>5 DEF AcceptAdmin, ConfigLoads
  <2>2. config' = [layout |-> config.layout, admin |-> config.pendingAdmin,
                   treasury |-> config.treasury, creatorFeeBps |-> config.creatorFeeBps,
                   platformFeeBps |-> config.platformFeeBps, threshold |-> config.threshold,
                   totalSupply |-> config.totalSupply, decimals |-> config.decimals,
                   virtualSol |-> config.virtualSol, paused |-> config.paused,
                   raydiumPermission |-> config.raydiumPermission,
                   tokensCreated |-> config.tokensCreated,
                   tokensGraduated |-> config.tokensGraduated,
                   tradingPaused |-> config.tradingPaused, pendingAdmin |-> Default]
    BY <1>1, <1>5 DEF AcceptAdmin, Handover, CurveConfig
  <2> QED
    BY <1>1, <2>1, <2>2 DEF CurveConfig, ConfigSound, ConfigMoved
<1> QED
  BY <1>2, <1>3, <1>4, <1>5 DEF AdminStep

LEMMA AdminKeepsAccounts ==
    ASSUME AdminStep PROVE UNCHANGED accounts
<1>1. ASSUME NEW a \in Admins, NEW t \in Treasuries, NEW c \in CreatorFees,
             NEW f \in PlatformFees, NEW g \in Thresholds, NEW s \in Supplies,
             NEW d \in Decimals, NEW v \in VirtualSols, Initialize(a, t, c, f, g, s, d, v)
      PROVE  UNCHANGED accounts
  BY <1>1 DEF Initialize
<1>2. ASSUME NEW a \in Admins, MigrateConfig(a) \/ AcceptAdmin(a) PROVE UNCHANGED accounts
  BY <1>2 DEF MigrateConfig, AcceptAdmin
<1>3. ASSUME NEW a \in Admins, NEW c \in CreatorFees, NEW f \in PlatformFees,
             NEW g \in Thresholds, NEW t \in Treasuries, NEW n \in Admins \cup {Default},
             NEW x \in Switches, NEW y \in Switches, NEW z \in Switches,
             UpdateConfig(a, c, f, g, t, n, x, y, z)
      PROVE  UNCHANGED accounts
  BY <1>3 DEF UpdateConfig
<1> QED
  BY <1>1, <1>2, <1>3 DEF AdminStep

LEMMA AdminPreserves ==
    ASSUME IndInv, AdminStep PROVE IndInv'
<1>1. UNCHANGED accounts
  BY AdminKeepsAccounts
<1>2. ConfigMoved
  BY AdminMovesConfig
<1>3. TypeOK'
  BY <1>1, <1>2 DEF accounts, ConfigMoved, IndInv, TypeOK
<1>4. ASSUME NEW p \in Pools PROVE PoolSound(p)'
  <2>1. PoolSound(p)
    BY PoolAccounts
  <2>2. CASE config.layout = "absent"
    <3>1. pools[p].status = "None"
      BY <2>2 DEF IndInv
    <3> QED
      BY <1>1, <2>1, <3>1 DEF accounts, PoolSound, Untouched, BooksOf, VaultsOf, FeesOf,
                              PriceOf, IsActive, Exists, PoolStatus
  <2>3. CASE config.layout # "absent"
    <3>1. config'.virtualSol = config.virtualSol
      BY <1>2, <2>3 DEF ConfigMoved
    <3> QED
      BY <1>1, <2>1, <3>1 DEF accounts, PoolSound, Untouched, BooksOf, VaultsOf, FeesOf,
                              PriceOf, IsActive, Exists, PoolStatus
  <2> QED
    BY <2>2, <2>3
<1> QED
  BY <1>2, <1>3, <1>4 DEF IndInv, ConfigMoved

----------------------------------------------------------------------------
(* Trading *)

\* The rates in force, and what the fees of a trade are.
LEMMA RatesAllowed ==
    ASSUME IndInv
    PROVE  /\ config.creatorFeeBps \in Nat /\ config.platformFeeBps \in Nat
           /\ TotalFeeBps \in Nat /\ TotalFeeBps \in 0..BpsDenominator
           /\ TotalFeeBps \in 0..MaxFeeBps /\ config.creatorFeeBps <= TotalFeeBps
<1> DEFINE c == config.creatorFeeBps
           f == config.platformFeeBps
<1>1. config \in CurveConfig /\ c + f <= MaxFeeBps
  BY DEF IndInv, TypeOK, ConfigSound
<1>2. c \in 0..MaxFeeBps /\ f \in 0..MaxFeeBps
  BY <1>1 DEF CurveConfig
<1>3. TotalFeeBps = c + f
  BY DEF TotalFeeBps
<1>4. config.creatorFeeBps = c /\ config.platformFeeBps = f
  OBVIOUS
<1> HIDE DEF c, f
<1>5. MaxFeeBps \in Nat /\ BpsDenominator \in Nat /\ MaxFeeBps <= BpsDenominator
  BY DEF MaxFeeBps, BpsDenominator
<1>6. c \in Nat /\ f \in Nat
  BY <1>2, <1>5
<1>7. c + f \in Nat /\ c <= c + f
  BY <1>6
<1>8. TotalFeeBps \in Nat /\ c <= TotalFeeBps /\ TotalFeeBps <= MaxFeeBps
  BY <1>1, <1>3, <1>7, Zenon
<1>9. TotalFeeBps \in 0..MaxFeeBps
  BY <1>5, <1>8
<1>10. TotalFeeBps \in 0..BpsDenominator
  BY <1>5, <1>8
<1> QED
  BY <1>4, <1>6, <1>8, <1>9, <1>10, ZenonT(60)

LEMMA TradeFee ==
    ASSUME IndInv, NEW amount \in Nat
    PROVE  /\ Fee(amount, TotalFeeBps) \in 0..amount
           /\ AfterFee(amount) \in 0..amount
           /\ CreatorFee(Fee(amount, TotalFeeBps)) \in 0..Fee(amount, TotalFeeBps)
<1>1. Fee(amount, TotalFeeBps) \in 0..amount
  BY RatesAllowed, FeeBounds
<1>2. AfterFee(amount) \in 0..amount
  BY <1>1 DEF AfterFee
<1>3. CreatorFee(Fee(amount, TotalFeeBps)) \in 0..Fee(amount, TotalFeeBps)
  <2>1. CASE TotalFeeBps = 0
    BY <1>1, <2>1 DEF CreatorFee
  <2>2. CASE TotalFeeBps # 0
    <3> DEFINE fee == Fee(amount, TotalFeeBps)
    <3>1. fee \in Nat
      BY <1>1
    <3>2. TotalFeeBps \in Nat /\ TotalFeeBps > 0
      <4>1. TotalFeeBps \in Nat
        BY RatesAllowed
      <4> QED
        BY <2>2, <4>1
    <3>3. CreatorFee(fee) = CreatorShare(fee, config.creatorFeeBps, TotalFeeBps)
      BY <2>2 DEF CreatorFee
    <3> HIDE DEF fee
    <3>4. CreatorShare(fee, config.creatorFeeBps, TotalFeeBps) \in 0..fee
      BY <3>1, <3>2, RatesAllowed, CreatorShareBounds
    <3> QED
      BY <3>3, <3>4 DEF fee
  <2> QED
    BY <2>1, <2>2
<1> QED
  BY <1>1, <1>2, <1>3

\* The pool after a trade, field by field.
LEMMA BoughtFields ==
    ASSUME NEW pool \in CurvePool, NEW amount, NEW new, new = Bought(pool, amount)
    PROVE  LET fee == Fee(amount, TotalFeeBps)
               out == TokensOut(pool, amount)
           IN  new = [status |-> pool.status, creator |-> pool.creator,
                      vSol |-> pool.vSol + AfterFee(amount), vTok |-> pool.vTok - out,
                      realSol |-> pool.realSol + amount, realTok |-> pool.realTok - out,
                      creatorEarned |-> pool.creatorEarned + CreatorFee(fee),
                      creatorClaimed |-> pool.creatorClaimed,
                      platformEarned |-> pool.platformEarned + PlatformFee(fee),
                      platformClaimed |-> pool.platformClaimed,
                      trades |-> pool.trades + 1]
<1> DEFINE fee == Fee(amount, TotalFeeBps)
           out == TokensOut(pool, amount)
<1>1. new = [pool EXCEPT !.vSol = pool.vSol + AfterFee(amount), !.vTok = pool.vTok - out,
                         !.realSol = pool.realSol + amount, !.realTok = pool.realTok - out,
                         !.creatorEarned = pool.creatorEarned + CreatorFee(fee),
                         !.platformEarned = pool.platformEarned + PlatformFee(fee),
                         !.trades = pool.trades + 1]
  BY DEF Bought
<1> QED
  BY <1>1 DEF CurvePool

LEMMA SoldFields ==
    ASSUME NEW pool \in CurvePool, NEW amount, NEW new, new = Sold(pool, amount)
    PROVE  LET out == SolOut(pool, amount)
               fee == Fee(out, TotalFeeBps)
           IN  new = [status |-> pool.status, creator |-> pool.creator,
                      vSol |-> pool.vSol - out, vTok |-> pool.vTok + amount,
                      realSol |-> pool.realSol - AfterFee(out),
                      realTok |-> pool.realTok + amount,
                      creatorEarned |-> pool.creatorEarned + CreatorFee(fee),
                      creatorClaimed |-> pool.creatorClaimed,
                      platformEarned |-> pool.platformEarned + PlatformFee(fee),
                      platformClaimed |-> pool.platformClaimed,
                      trades |-> pool.trades + 1]
<1> DEFINE out == SolOut(pool, amount)
           fee == Fee(out, TotalFeeBps)
<1>1. new = [pool EXCEPT !.vSol = pool.vSol - out, !.vTok = pool.vTok + amount,
                         !.realSol = pool.realSol - AfterFee(out),
                         !.realTok = pool.realTok + amount,
                         !.creatorEarned = pool.creatorEarned + CreatorFee(fee),
                         !.platformEarned = pool.platformEarned + PlatformFee(fee),
                         !.trades = pool.trades + 1]
  BY DEF Sold
<1> QED
  BY <1>1 DEF CurvePool

\* What IndInv says of a pool on the curve with record b, s lamports and v
\* tokens in its vaults; claims and strangers' transfers as they are now.
ActiveSound(p, b, s, v) ==
    /\ b.status = "Active"
    /\ b.realTok = b.vTok
    /\ NetSol(b) = b.vSol - config.virtualSol
    /\ s = b.realSol + stray[p].sol
    /\ v = b.realTok + stray[p].tokens
    /\ paid[p].creator = b.creatorClaimed /\ paid[p].treasury = b.platformClaimed
    /\ b.creatorClaimed <= b.creatorEarned /\ b.platformClaimed <= b.platformEarned

LEMMA ActiveIsSound ==
    ASSUME IndInv, NEW p \in Pools, IsActive(p)
    PROVE  /\ ActiveSound(p, pools[p], sol[p], tokens[p].vault)
           /\ config.layout # "absent"
BY PoolAccounts DEF PoolSound, BooksOf, VaultsOf, FeesOf, IsActive, Exists, PoolStatus, ActiveSound

\* A step that leaves pool p on the curve, sound, preserves the invariant.
LEMMA ActiveFrame ==
    ASSUME IndInv, NEW p \in Pools, OnlyPool(p), ConfigKept, config.layout # "absent",
           pools'[p] \in CurvePool, sol'[p] \in Nat,
           tokens'[p] \in [vault : Nat, outside : Nat], quote'[p] \in Quote,
           raydium'[p] = raydium[p], paid'[p] = paid[p], stray'[p] = stray[p],
           ActiveSound(p, pools'[p], sol'[p], tokens'[p].vault)
    PROVE  IndInv'
<1>1. PoolTyped(p)'
  BY PoolAccounts DEF PoolTyped
<1>2. config'.virtualSol = config.virtualSol
  BY DEF ConfigKept
<1>3. PoolSound(p)'
  BY <1>2 DEF ActiveSound, PoolSound, Untouched, BooksOf, VaultsOf, FeesOf, PriceOf, IsActive,
              Exists, PoolStatus
<1> QED
  BY <1>1, <1>3, PoolFrame

\* The arithmetic of a trade: the curve's SOL and the virtual reserve move by
\* dv, both token reserves by dt, and the fee f enters vault and books.
LEMMA TradeKeepsSound ==
    ASSUME NEW p, NEW b \in CurvePool, NEW s \in Int, NEW v \in Int, ActiveSound(p, b, s, v),
           config.virtualSol \in Int, stray[p].sol \in Int, stray[p].tokens \in Int,
           NEW dv \in Int, NEW dt \in Int, NEW f \in Nat, NEW c \in 0..f, NEW b2,
           b2 = [status |-> b.status, creator |-> b.creator,
                 vSol |-> b.vSol + dv, vTok |-> b.vTok + dt,
                 realSol |-> b.realSol + (dv + f), realTok |-> b.realTok + dt,
                 creatorEarned |-> b.creatorEarned + c, creatorClaimed |-> b.creatorClaimed,
                 platformEarned |-> b.platformEarned + (f - c),
                 platformClaimed |-> b.platformClaimed, trades |-> b.trades + 1]
    PROVE  ActiveSound(p, b2, s + (dv + f), v + dt)
<1>1. /\ b.vSol \in Int /\ b.vTok \in Int /\ b.realSol \in Int /\ b.realTok \in Int
      /\ b.creatorEarned \in Int /\ b.creatorClaimed \in Int
      /\ b.platformEarned \in Int /\ b.platformClaimed \in Int
  BY DEF CurvePool, U64
<1>2. c \in Int /\ 0 <= c /\ c <= f
  OBVIOUS
<1>3. NetSol(b) = b.realSol - ((b.creatorEarned - b.creatorClaimed)
                               + (b.platformEarned - b.platformClaimed))
  BY DEF NetSol, Unclaimed, CreatorUnclaimed, PlatformUnclaimed
<1>4. NetSol(b2) = (b.realSol + (dv + f)) - (((b.creatorEarned + c) - b.creatorClaimed)
                               + ((b.platformEarned + (f - c)) - b.platformClaimed))
  BY DEF NetSol, Unclaimed, CreatorUnclaimed, PlatformUnclaimed
<1>5. NetSol(b2) = b2.vSol - config.virtualSol
  <2>1. NetSol(b) = b.vSol - config.virtualSol /\ b2.vSol = b.vSol + dv
    BY DEF ActiveSound
  <2>2. NetSol(b2) = NetSol(b) + dv
    <3> DEFINE rs == b.realSol  ce == b.creatorEarned  cc == b.creatorClaimed
               pe == b.platformEarned  pc == b.platformClaimed
    <3>1. rs \in Int /\ ce \in Int /\ cc \in Int /\ pe \in Int /\ pc \in Int
      BY <1>1
    <3>2. /\ NetSol(b) = rs - ((ce - cc) + (pe - pc))
          /\ NetSol(b2) = (rs + (dv + f)) - (((ce + c) - cc) + ((pe + (f - c)) - pc))
      BY <1>3, <1>4
    <3> HIDE DEF rs, ce, cc, pe, pc
    <3> QED
      BY <1>2, <3>1, <3>2
  <2> QED
    BY <1>1, <2>1, <2>2
<1> QED
  BY <1>1, <1>2, <1>5 DEF ActiveSound

\* The checked counters of a pool fit their types.
LEMMA RepresentableTyped ==
    ASSUME NEW b \in CurvePool, NEW b2, Representable(b2), b2.trades \in Nat,
           b2 = [status |-> b.status, creator |-> b.creator, vSol |-> b2.vSol, vTok |-> b2.vTok,
                 realSol |-> b2.realSol, realTok |-> b2.realTok,
                 creatorEarned |-> b2.creatorEarned, creatorClaimed |-> b.creatorClaimed,
                 platformEarned |-> b2.platformEarned, platformClaimed |-> b.platformClaimed,
                 trades |-> b2.trades]
    PROVE  b2 \in CurvePool
<1>1. b2.trades \in 0..MaxTrades
  BY ParameterAssumption DEF Representable
<1>2. /\ b2.vSol \in U64 /\ b2.vTok \in U64 /\ b2.realSol \in U64 /\ b2.realTok \in U64
      /\ b2.creatorEarned \in U64 /\ b2.platformEarned \in U64
  BY DEF Representable
<1>3. /\ b.status \in {"None", "Active", "Graduated", "Closed"}
      /\ b.creator \in Creators \cup {Default}
      /\ b.creatorClaimed \in U64 /\ b.platformClaimed \in U64
  BY DEF CurvePool
<1> QED
  BY <1>1, <1>2, <1>3 DEF CurvePool

LEMMA PoolHistoryTyped ==
    ASSUME IndInv, NEW p \in Pools
    PROVE  /\ config.virtualSol \in Int /\ stray[p].sol \in Nat /\ stray[p].tokens \in Nat
<1>1. config.virtualSol \in VirtualSols \cup {0}
  BY DEF IndInv, TypeOK, CurveConfig
<1>2. stray[p] \in [sol : 0..MaxStray, tokens : 0..MaxStray]
  BY DEF IndInv, TypeOK
<1> QED
  BY <1>1, <1>2, ParameterAssumption

\* What a buy takes out, and that it keeps the pool sound.
LEMMA BoughtSound ==
    ASSUME IndInv, NEW p \in Pools, NEW b \in CurvePool, NEW s \in Int, NEW v \in Int,
           ActiveSound(p, b, s, v), NEW amount \in Nat, MayBuy(b, amount)
    PROVE  /\ Bought(b, amount) \in CurvePool
           /\ TokensOut(b, amount) \in Nat /\ TokensOut(b, amount) <= b.vTok
           /\ ActiveSound(p, Bought(b, amount), s + amount, v - TokensOut(b, amount))
<1> DEFINE b2 == Bought(b, amount)
           out == TokensOut(b, amount)
           in == AfterFee(amount)
           fee == Fee(amount, TotalFeeBps)
           mine == CreatorFee(fee)
<1>1. /\ fee \in 0..amount /\ in \in 0..amount /\ mine \in 0..fee
      /\ in = amount - fee
  BY TradeFee DEF AfterFee
<1>2. b.vSol \in Nat /\ b.vTok \in Nat /\ b.trades \in Nat /\ in > 0
  BY ParameterAssumption DEF CurvePool, U64, MayBuy, BuyAnswers
<1>3. out \in 0..b.vTok
  <2>1. in \in Nat /\ b.vSol + in > 0
    BY <1>1, <1>2
  <2>2. out = SwapOut(in, b.vSol, b.vTok)
    BY DEF TokensOut
  <2> HIDE DEF in, out
  <2> QED
    BY <1>2, <2>1, <2>2, SwapBounds
<1>4. b2 = [status |-> b.status, creator |-> b.creator,
            vSol |-> b.vSol + in, vTok |-> b.vTok - out,
            realSol |-> b.realSol + amount, realTok |-> b.realTok - out,
            creatorEarned |-> b.creatorEarned + mine, creatorClaimed |-> b.creatorClaimed,
            platformEarned |-> b.platformEarned + PlatformFee(fee),
            platformClaimed |-> b.platformClaimed, trades |-> b.trades + 1]
  BY BoughtFields
<1>5. PlatformFee(fee) = fee - mine
  BY DEF PlatformFee
<1>6. Representable(b2)
  BY DEF MayBuy
<1> HIDE DEF b2, out, in, fee, mine
<1>7. b2 \in CurvePool
  BY <1>2, <1>4, <1>6, RepresentableTyped
<1>8. ActiveSound(p, b2, s + amount, v - out)
  <2> DEFINE dt == 0 - out
  <2>1. /\ in \in Int /\ dt \in Int /\ fee \in Nat
        /\ in + fee = amount /\ v + dt = v - out
    BY <1>1, <1>2, <1>3
  <2>2. b.vTok - out = b.vTok + dt /\ b.realTok - out = b.realTok + dt
    BY <1>3, ParameterAssumption DEF CurvePool, U64
  <2> HIDE DEF dt
  <2>3. b2 = [status |-> b.status, creator |-> b.creator,
              vSol |-> b.vSol + in, vTok |-> b.vTok + dt,
              realSol |-> b.realSol + (in + fee), realTok |-> b.realTok + dt,
              creatorEarned |-> b.creatorEarned + mine, creatorClaimed |-> b.creatorClaimed,
              platformEarned |-> b.platformEarned + (fee - mine),
              platformClaimed |-> b.platformClaimed, trades |-> b.trades + 1]
    BY <1>4, <1>5, <2>1, <2>2
  <2>4. /\ config.virtualSol \in Int /\ stray[p].sol \in Int /\ stray[p].tokens \in Int
    BY PoolHistoryTyped
  <2>5. ActiveSound(p, b2, s + (in + fee), v + dt)
    BY <1>1, <2>1, <2>3, <2>4, TradeKeepsSound
  <2> QED
    BY <2>1, <2>5
<1> QED
  BY <1>3, <1>7, <1>8, <1>2 DEF b2, out

LEMMA BuyPreserves ==
    ASSUME IndInv, NEW p \in Pools, NEW amount \in Nat, NEW minOut, Buy(p, amount, minOut),
           quote' = [quote EXCEPT ![p] = quote'[p]], quote'[p] \in Quote
    PROVE  IndInv'
<1> DEFINE b == pools[p]
           out == TokensOut(b, amount)
<1>1. PoolTyped(p) /\ IsActive(p) /\ MayBuy(b, amount)
  BY PoolAccounts DEF Buy
<1>2. ActiveSound(p, b, sol[p], tokens[p].vault) /\ config.layout # "absent"
  BY <1>1, ActiveIsSound
<1>3. /\ b \in CurvePool /\ sol[p] \in Nat
      /\ tokens[p].vault \in Nat /\ tokens[p].outside \in Nat
  BY <1>1 DEF PoolTyped
<1>4. /\ Bought(b, amount) \in CurvePool /\ out \in Nat /\ out <= b.vTok
      /\ ActiveSound(p, Bought(b, amount), sol[p] + amount, tokens[p].vault - out)
  BY <1>1, <1>2, <1>3, BoughtSound
<1>5. out <= tokens[p].vault
  <2>1. tokens[p].vault = b.vTok + stray[p].tokens /\ b.vTok \in Nat
    BY <1>2, <1>3, ParameterAssumption DEF ActiveSound, CurvePool, U64
  <2> HIDE DEF out, b
  <2> QED
    BY <1>3, <1>4, <2>1, PoolHistoryTyped
<1> HIDE DEF out
<1>6. /\ pools' = [pools EXCEPT ![p] = Bought(b, amount)]
      /\ sol' = [sol EXCEPT ![p] = sol[p] + amount]
      /\ tokens' = [tokens EXCEPT ![p].vault = @ - out, ![p].outside = @ + out]
      /\ UNCHANGED <<config, raydium, paid, stray>>
  BY DEF Buy, out
<1>7. /\ pools'[p] = Bought(b, amount) /\ sol'[p] = sol[p] + amount
      /\ tokens'[p] = [vault |-> tokens[p].vault - out, outside |-> tokens[p].outside + out]
      /\ OnlyPool(p)
  <2>1. pools'[p] = Bought(b, amount) /\ sol'[p] = sol[p] + amount
    BY <1>6 DEF IndInv, TypeOK
  <2>2. tokens' = [tokens EXCEPT ![p] = [vault |-> tokens[p].vault - out,
                                        outside |-> tokens[p].outside + out]]
    <3>1. PICK r : r = [tokens[p] EXCEPT !.vault = @ - out, !.outside = @ + out]
      OBVIOUS
    <3>2. r = [vault |-> tokens[p].vault - out, outside |-> tokens[p].outside + out]
      BY <1>1, <3>1 DEF PoolTyped
    <3>3. tokens' = [tokens EXCEPT ![p] = r]
      BY <1>6, <3>1 DEF IndInv, TypeOK
    <3> QED
      BY <3>2, <3>3
  <2>3. tokens'[p] = [vault |-> tokens[p].vault - out, outside |-> tokens[p].outside + out]
    BY <2>2 DEF IndInv, TypeOK
  <2> QED
    BY <1>6, <2>1, <2>2, <2>3, WrittenBack DEF OnlyPool
<1>8. /\ sol'[p] \in Nat /\ tokens'[p] \in [vault : Nat, outside : Nat]
      /\ tokens'[p].vault = tokens[p].vault - out
  BY <1>3, <1>4, <1>5, <1>7
<1> HIDE DEF b
<1> QED
  BY <1>2, <1>4, <1>6, <1>7, <1>8, ConfigUnchanged, ActiveFrame

\* What a sale pays, and that it keeps the pool sound.
LEMMA SoldSound ==
    ASSUME IndInv, NEW p \in Pools, NEW b \in CurvePool, NEW s \in Int, NEW v \in Int,
           ActiveSound(p, b, s, v), NEW amount \in Nat,
           SellAnswers(b, amount), Representable(Sold(b, amount))
    PROVE  /\ Sold(b, amount) \in CurvePool
           /\ SolOut(b, amount) \in 0..b.vSol
           /\ AfterFee(SolOut(b, amount)) \in 0..SolOut(b, amount)
           /\ ActiveSound(p, Sold(b, amount), s - AfterFee(SolOut(b, amount)), v + amount)
<1> DEFINE b2 == Sold(b, amount)
           out == SolOut(b, amount)
           net == AfterFee(out)
           fee == Fee(out, TotalFeeBps)
           mine == CreatorFee(fee)
<1>1. b.vSol \in Nat /\ b.vTok \in Nat /\ b.trades \in Nat /\ amount > 0
  BY ParameterAssumption DEF CurvePool, U64, SellAnswers
<1>2. out \in 0..b.vSol
  <2>1. b.vTok + amount > 0
    BY <1>1
  <2>2. out = SwapOut(amount, b.vTok, b.vSol)
    BY DEF SolOut
  <2> HIDE DEF out
  <2> QED
    BY <1>1, <2>1, <2>2, SwapBounds
<1>3. fee \in 0..out /\ net \in 0..out /\ mine \in 0..fee /\ net = out - fee
  <2>1. out \in Nat
    BY <1>1, <1>2
  <2>2. net = out - fee
    BY DEF AfterFee
  <2> HIDE DEF out
  <2> QED
    BY <2>1, <2>2, TradeFee
<1>4. b2 = [status |-> b.status, creator |-> b.creator,
            vSol |-> b.vSol - out, vTok |-> b.vTok + amount,
            realSol |-> b.realSol - net, realTok |-> b.realTok + amount,
            creatorEarned |-> b.creatorEarned + mine, creatorClaimed |-> b.creatorClaimed,
            platformEarned |-> b.platformEarned + PlatformFee(fee),
            platformClaimed |-> b.platformClaimed, trades |-> b.trades + 1]
  BY SoldFields
<1>5. PlatformFee(fee) = fee - mine
  BY DEF PlatformFee
<1> HIDE DEF b2, out, net, fee, mine
<1>6. b2 \in CurvePool
  BY <1>1, <1>4, RepresentableTyped DEF b2
<1>7. ActiveSound(p, b2, s - net, v + amount)
  <2> DEFINE dv == 0 - out
  <2>1. dv \in Int /\ fee \in Nat /\ s + (dv + fee) = s - net
    BY <1>1, <1>2, <1>3
  <2>2. b.vSol - out = b.vSol + dv /\ b.realSol - net = b.realSol + (dv + fee)
    BY <1>1, <1>2, <1>3, ParameterAssumption DEF CurvePool, U64
  <2> HIDE DEF dv
  <2>3. b2 = [status |-> b.status, creator |-> b.creator,
              vSol |-> b.vSol + dv, vTok |-> b.vTok + amount,
              realSol |-> b.realSol + (dv + fee), realTok |-> b.realTok + amount,
              creatorEarned |-> b.creatorEarned + mine, creatorClaimed |-> b.creatorClaimed,
              platformEarned |-> b.platformEarned + (fee - mine),
              platformClaimed |-> b.platformClaimed, trades |-> b.trades + 1]
    BY <1>4, <1>5, <2>2
  <2>4. /\ config.virtualSol \in Int /\ stray[p].sol \in Int /\ stray[p].tokens \in Int
        /\ amount \in Int
    BY PoolHistoryTyped
  <2>5. ActiveSound(p, b2, s + (dv + fee), v + amount)
    BY <1>3, <2>1, <2>3, <2>4, TradeKeepsSound
  <2> QED
    BY <2>1, <2>5
<1> QED
  BY <1>2, <1>3, <1>6, <1>7 DEF b2, out, net

LEMMA SellPreserves ==
    ASSUME IndInv, NEW p \in Pools, NEW amount \in Nat, NEW minOut, Sell(p, amount, minOut),
           quote' = [quote EXCEPT ![p] = quote'[p]], quote'[p] \in Quote
    PROVE  IndInv'
<1> DEFINE b == pools[p]
           net == AfterFee(SolOut(b, amount))
<1>1. /\ PoolTyped(p) /\ IsActive(p)
      /\ SellAnswers(b, amount) /\ Representable(Sold(b, amount))
      /\ net <= sol[p] /\ amount <= tokens[p].outside
  BY PoolAccounts DEF Sell
<1>2. ActiveSound(p, b, sol[p], tokens[p].vault) /\ config.layout # "absent"
  BY <1>1, ActiveIsSound
<1>3. /\ b \in CurvePool /\ sol[p] \in Nat
      /\ tokens[p].vault \in Nat /\ tokens[p].outside \in Nat
  BY <1>1 DEF PoolTyped
<1>4. /\ Sold(b, amount) \in CurvePool
      /\ SolOut(b, amount) \in 0..b.vSol /\ net \in 0..SolOut(b, amount)
      /\ ActiveSound(p, Sold(b, amount), sol[p] - net, tokens[p].vault + amount)
  BY <1>1, <1>2, <1>3, SoldSound
<1>5. net \in Nat
  BY <1>4
<1> HIDE DEF net
<1>6. /\ pools' = [pools EXCEPT ![p] = Sold(b, amount)]
      /\ sol' = [sol EXCEPT ![p] = sol[p] - net]
      /\ tokens' = [tokens EXCEPT ![p].vault = @ + amount, ![p].outside = @ - amount]
      /\ UNCHANGED <<config, raydium, paid, stray>>
  BY DEF Sell, net
<1>7. /\ pools'[p] = Sold(b, amount) /\ sol'[p] = sol[p] - net
      /\ tokens'[p] = [vault |-> tokens[p].vault + amount,
                       outside |-> tokens[p].outside - amount]
      /\ OnlyPool(p)
  <2>1. pools'[p] = Sold(b, amount) /\ sol'[p] = sol[p] - net
    BY <1>6 DEF IndInv, TypeOK
  <2>2. tokens' = [tokens EXCEPT ![p] = [vault |-> tokens[p].vault + amount,
                                        outside |-> tokens[p].outside - amount]]
    <3>1. PICK r : r = [tokens[p] EXCEPT !.vault = @ + amount, !.outside = @ - amount]
      OBVIOUS
    <3>2. r = [vault |-> tokens[p].vault + amount, outside |-> tokens[p].outside - amount]
      BY <1>1, <3>1 DEF PoolTyped
    <3>3. tokens' = [tokens EXCEPT ![p] = r]
      BY <1>6, <3>1 DEF IndInv, TypeOK
    <3> QED
      BY <3>2, <3>3
  <2>3. tokens'[p] = [vault |-> tokens[p].vault + amount,
                      outside |-> tokens[p].outside - amount]
    BY <2>2 DEF IndInv, TypeOK
  <2> QED
    BY <1>6, <2>1, <2>2, <2>3, WrittenBack DEF OnlyPool
<1>8. /\ sol'[p] \in Nat /\ tokens'[p] \in [vault : Nat, outside : Nat]
      /\ tokens'[p].vault = tokens[p].vault + amount
  BY <1>1, <1>3, <1>5, <1>7
<1> HIDE DEF b
<1> QED
  BY <1>2, <1>4, <1>6, <1>7, <1>8, ConfigUnchanged, ActiveFrame

\* A quote is a number of lamports or tokens: the curve answers on every pool
\* it may be asked about.
LEMMA SignQuotePreserves ==
    ASSUME IndInv, NEW p \in Pools, NEW side \in {"buy", "sell"}, NEW amount \in QuotedAmounts,
           SignQuote(p, side, amount)
    PROVE  IndInv'
<1> DEFINE b == pools[p]
           min == IF side = "buy" THEN TokensOut(b, amount) ELSE AfterFee(SolOut(b, amount))
<1>1. /\ PoolTyped(p) /\ PoolSound(p) /\ IsActive(p) /\ config.layout # "absent"
  BY PoolAccounts DEF SignQuote, IsActive, Exists, PoolStatus
<1>2. amount \in Nat /\ amount > 0 /\ b.vSol \in Nat /\ b.vTok \in Nat
  <2>1. amount \in Nat \ {0}
    BY ParameterAssumption
  <2> QED
    BY <2>1, <1>1, ParameterAssumption DEF PoolTyped, CurvePool, U64
<1>3. TokensOut(b, amount) \in Nat
  <2>1. AfterFee(amount) \in Nat /\ AfterFee(amount) > 0
    <3> DEFINE total == TotalFeeBps
    <3>1. AfterFee(amount) = amount - Fee(amount, total)
      BY DEF AfterFee
    <3>2. total \in 0..MaxFeeBps
      BY RatesAllowed
    <3>3. Fee(amount, total) \in Nat /\ Fee(amount, total) < amount
      <4> HIDE DEF total
      <4>1. total \in 0..1000
        BY <3>2 DEF MaxFeeBps
      <4> QED
        BY <1>2, <4>1, FeeBelowAmount, ZenonT(60)
    <3> QED
      BY <1>2, <3>1, <3>3
  <2>2. AfterFee(amount) + b.vSol > 0 /\ b.vSol + AfterFee(amount) > 0
    BY <1>2, <2>1
  <2>3. SwapOut(AfterFee(amount), b.vSol, b.vTok) \in 0..b.vTok
    BY <1>2, <2>1, <2>2, SwapBounds
  <2> QED
    BY <1>2, <2>3 DEF TokensOut
<1>4. AfterFee(SolOut(b, amount)) \in Nat
  <2>1. b.vTok + amount > 0
    BY <1>2
  <2>2. SwapOut(amount, b.vTok, b.vSol) \in 0..b.vSol
    BY <1>2, <2>1, SwapBounds
  <2>3. SolOut(b, amount) \in Nat
    BY <1>2, <2>2 DEF SolOut
  <2>4. AfterFee(SolOut(b, amount)) \in 0..SolOut(b, amount)
    BY <2>3, TradeFee
  <2> QED
    BY <2>3, <2>4
<1>5. min \in Nat
  BY <1>3, <1>4
<1>6. quote' = [quote EXCEPT ![p] = [side |-> side, amount |-> amount, min |-> min]]
  BY DEF SignQuote
<1> HIDE DEF min, b
<1>7. quote'[p] \in Quote /\ quote' = [quote EXCEPT ![p] = quote'[p]]
  BY <1>2, <1>5, <1>6 DEF IndInv, TypeOK, Quote
<1>8. UNCHANGED <<config, pools, sol, tokens, raydium, paid, stray>>
  BY DEF SignQuote
<1>9. OnlyPool(p)
  BY <1>7, <1>8, WrittenBack DEF OnlyPool
<1>10. PoolTyped(p)' /\ PoolSound(p)'
  BY <1>1, <1>7, <1>8 DEF PoolTyped, PoolSound, Untouched, BooksOf, VaultsOf, FeesOf, PriceOf,
                          IsActive, Exists
<1> QED
  BY <1>1, <1>8, <1>9, <1>10, ConfigUnchanged, PoolFrame

LEMMA LandQuotePreserves ==
    ASSUME IndInv, NEW p \in Pools, LandQuote(p) PROVE IndInv'
<1>1. quote[p].amount \in Nat
  BY PoolAccounts DEF PoolTyped, Quote
<1>2. quote'[p] = NoQuote /\ quote' = [quote EXCEPT ![p] = quote'[p]]
  BY DEF LandQuote, IndInv, TypeOK
<1>3. quote'[p] \in Quote
  BY <1>2 DEF NoQuote, Quote
<1> QED
  BY <1>1, <1>2, <1>3, BuyPreserves, SellPreserves DEF LandQuote

\* A pool as create_token makes it is sound, with the supply in its vault.
LEMMA NewPoolSound ==
    ASSUME IndInv, NEW p \in Pools, pools[p].status = "None", NEW creator \in Creators,
           RawSupply \in U64
    PROVE  /\ NewPool(creator) \in CurvePool
           /\ NewPool(creator).vTok = RawSupply
           /\ ActiveSound(p, NewPool(creator), 0, RawSupply)
<1> DEFINE raw == RawSupply
           v0 == config.virtualSol
<1>1. PICK b : b = NewPool(creator)
  OBVIOUS
<1>2. b = [status |-> "Active", creator |-> creator, vSol |-> v0, vTok |-> raw,
           realSol |-> 0, realTok |-> raw, creatorEarned |-> 0, creatorClaimed |-> 0,
           platformEarned |-> 0, platformClaimed |-> 0, trades |-> 0]
  BY <1>1 DEF NewPool, NoPool
<1>3. v0 \in U64 /\ v0 \in Int
  <2>1. v0 \in VirtualSols \cup {0}
    BY DEF IndInv, TypeOK, CurveConfig
  <2> QED
    BY <2>1, ParameterAssumption DEF U64
<1>4. /\ stray[p].sol = 0 /\ stray[p].tokens = 0
      /\ paid[p].creator = 0 /\ paid[p].treasury = 0
  BY PoolAccounts DEF PoolSound, Untouched
<1>5. raw \in U64 /\ raw \in Int /\ 0 \in U64 /\ 0 \in 0..MaxTrades
  BY ParameterAssumption DEF U64
<1> HIDE DEF raw
<1>6. b \in CurvePool
  <2> HIDE DEF v0
  <2> QED
    BY <1>2, <1>3, <1>5 DEF CurvePool
<1>7. NetSol(b) = 0
  BY <1>2 DEF NetSol, Unclaimed, CreatorUnclaimed, PlatformUnclaimed
<1>8. ActiveSound(p, b, 0, raw)
  BY <1>2, <1>3, <1>4, <1>5, <1>7 DEF ActiveSound
<1> QED
  BY <1>1, <1>2, <1>6, <1>8 DEF raw

\* create_token and graduate move a counter of the configuration.
LEMMA CountersKept ==
    ASSUME IndInv, \/ config' = [config EXCEPT !.tokensCreated = @ + 1]
                   \/ config' = [config EXCEPT !.tokensGraduated = @ + 1]
    PROVE  ConfigKept
<1>1. config \in CurveConfig
  BY DEF IndInv, TypeOK
<1> QED
  BY <1>1 DEF CurveConfig, ConfigKept

LEMMA CreateTokenPreserves ==
    ASSUME IndInv, NEW creator \in Creators, NEW p \in Pools, NEW devSol \in SolAmounts \cup {0},
           CreateToken(creator, p, devSol)
    PROVE  IndInv'
<1> DEFINE b == NewPool(creator)
           out == TokensOut(b, devSol)
<1>1. /\ pools[p].status = "None" /\ RawSupply \in U64 /\ config.layout # "absent"
      /\ config' = [config EXCEPT !.tokensCreated = @ + 1]
      /\ UNCHANGED <<raydium, paid, stray, quote>>
  BY DEF CreateToken, ConfigLoads
<1>2. /\ b \in CurvePool /\ b.vTok = RawSupply /\ ActiveSound(p, b, 0, RawSupply)
  BY <1>1, NewPoolSound
<1>3. PoolTyped(p) /\ sol[p] = 0 /\ tokens[p].outside = 0
  BY <1>1, PoolAccounts DEF PoolSound, Untouched
<1>4. ConfigKept
  BY <1>1, CountersKept
<1>5. RawSupply \in Nat
  BY <1>1, ParameterAssumption DEF U64
<1> HIDE DEF b, out
<1>6. CASE devSol = 0
  <2>1. /\ pools' = [pools EXCEPT ![p] = b] /\ UNCHANGED sol
        /\ tokens' = [tokens EXCEPT ![p].vault = RawSupply]
    BY <1>6 DEF CreateToken, b
  <2>2. /\ pools'[p] = b /\ sol'[p] = 0
        /\ tokens'[p] = [vault |-> RawSupply, outside |-> 0]
        /\ OnlyPool(p)
    <3>1. PICK r : r = [tokens[p] EXCEPT !.vault = RawSupply]
      OBVIOUS
    <3>2. r = [vault |-> RawSupply, outside |-> 0]
      BY <1>3, <3>1 DEF PoolTyped
    <3>3. tokens' = [tokens EXCEPT ![p] = r] /\ tokens'[p] = r
      BY <2>1, <3>1 DEF IndInv, TypeOK
    <3>4. pools'[p] = b /\ sol'[p] = sol[p]
      BY <2>1 DEF IndInv, TypeOK
    <3> QED
      BY <1>1, <1>3, <2>1, <3>2, <3>3, <3>4, WrittenBack DEF OnlyPool
  <2>3. /\ tokens'[p] \in [vault : Nat, outside : Nat] /\ sol'[p] \in Nat
        /\ tokens'[p].vault = RawSupply /\ quote'[p] \in Quote
    BY <1>1, <1>3, <1>5, <2>2 DEF PoolTyped
  <2> QED
    BY <1>1, <1>2, <1>4, <2>2, <2>3, ActiveFrame
<1>7. CASE devSol # 0
  <2>1. /\ MayBuy(b, devSol)
        /\ pools' = [pools EXCEPT ![p] = Bought(b, devSol)]
        /\ sol' = [sol EXCEPT ![p] = @ + devSol]
        /\ tokens' = [tokens EXCEPT ![p] = [vault |-> RawSupply - out, outside |-> out]]
    BY <1>7 DEF CreateToken, b, out
  <2>2. devSol \in Nat
    <3>1. devSol \in SolAmounts
      BY <1>7
    <3> QED
      BY <3>1, ParameterAssumption
  <2>3. /\ Bought(b, devSol) \in CurvePool /\ out \in Nat /\ out <= RawSupply
        /\ ActiveSound(p, Bought(b, devSol), 0 + devSol, RawSupply - out)
    BY <1>2, <1>5, <2>1, <2>2, BoughtSound DEF out
  <2>4. /\ pools'[p] = Bought(b, devSol) /\ sol'[p] = 0 + devSol
        /\ tokens'[p] = [vault |-> RawSupply - out, outside |-> out]
        /\ OnlyPool(p)
    <3>1. pools'[p] = Bought(b, devSol) /\ sol'[p] = 0 + devSol
      BY <1>3, <2>1 DEF IndInv, TypeOK
    <3>2. tokens'[p] = [vault |-> RawSupply - out, outside |-> out]
      BY <2>1 DEF IndInv, TypeOK
    <3> QED
      BY <1>1, <2>1, <3>1, <3>2, WrittenBack DEF OnlyPool
  <2>5. /\ tokens'[p] \in [vault : Nat, outside : Nat] /\ sol'[p] \in Nat
        /\ tokens'[p].vault = RawSupply - out /\ quote'[p] \in Quote
    BY <1>1, <1>3, <1>5, <2>2, <2>3, <2>4 DEF PoolTyped
  <2> QED
    BY <1>1, <1>2, <1>4, <2>3, <2>4, <2>5, ActiveFrame
<1> QED
  BY <1>6, <1>7
----------------------------------------------------------------------------
(* Fees *)

\* A claim takes c from what the creator is due and t from what the platform
\* is due, and nothing else.
LEMMA ClaimSound ==
    ASSUME IndInv, NEW p \in Pools, Exists(p), NEW c \in Nat, NEW t \in Nat,
           c <= CreatorUnclaimed(pools[p]), t <= PlatformUnclaimed(pools[p]),
           c + t <= sol[p], c + t <= pools[p].realSol,
           pools'[p] = [status |-> pools[p].status, creator |-> pools[p].creator,
                        vSol |-> pools[p].vSol, vTok |-> pools[p].vTok,
                        realSol |-> pools[p].realSol - (c + t), realTok |-> pools[p].realTok,
                        creatorEarned |-> pools[p].creatorEarned,
                        creatorClaimed |-> pools[p].creatorClaimed + c,
                        platformEarned |-> pools[p].platformEarned,
                        platformClaimed |-> pools[p].platformClaimed + t,
                        trades |-> pools[p].trades],
           sol'[p] = sol[p] - (c + t),
           paid'[p] = [creator |-> paid[p].creator + c, treasury |-> paid[p].treasury + t],
           tokens'[p] = tokens[p], raydium'[p] = raydium[p], stray'[p] = stray[p],
           quote'[p] = quote[p], config' = config
    PROVE  PoolTyped(p)' /\ PoolSound(p)'
<1> DEFINE b == pools[p]
           b2 == pools'[p]
<1>1. PoolTyped(p) /\ PoolSound(p)
  BY PoolAccounts
<1>2. /\ b.realSol \in Nat /\ b.realTok \in Nat /\ b.creatorEarned \in U64
      /\ b.creatorClaimed \in Nat /\ b.platformEarned \in U64 /\ b.platformClaimed \in Nat
      /\ b.realSol <= MaxU64 /\ MaxU64 \in Nat
      /\ sol[p] \in Nat /\ paid[p].creator \in Nat /\ paid[p].treasury \in Nat
  BY <1>1, ParameterAssumption DEF PoolTyped, CurvePool, U64
<1>3. /\ b.creatorClaimed + c <= b.creatorEarned /\ b.platformClaimed + t <= b.platformEarned
  BY <1>2 DEF CreatorUnclaimed, PlatformUnclaimed, U64
<1>4. b2 \in CurvePool
  <2>1. /\ b.realSol - (c + t) \in U64 /\ b.creatorClaimed + c \in U64
        /\ b.platformClaimed + t \in U64
    BY <1>2, <1>3 DEF U64
  <2> QED
    BY <1>1, <2>1 DEF PoolTyped, CurvePool
<1>5. PoolTyped(p)'
  <2>1. sol'[p] \in Nat /\ paid'[p] \in [creator : Nat, treasury : Nat]
    BY <1>2
  <2> QED
    BY <1>1, <1>4, <2>1 DEF PoolTyped
<1>6. NetSol(b2) = NetSol(b)
  <2> DEFINE rs == b.realSol  ce == b.creatorEarned  cc == b.creatorClaimed
             pe == b.platformEarned  pc == b.platformClaimed
  <2>1. rs \in Int /\ ce \in Int /\ cc \in Int /\ pe \in Int /\ pc \in Int
    BY <1>2 DEF U64
  <2>2. /\ NetSol(b) = rs - ((ce - cc) + (pe - pc))
        /\ NetSol(b2) = (rs - (c + t)) - ((ce - (cc + c)) + (pe - (pc + t)))
    BY DEF NetSol, Unclaimed, CreatorUnclaimed, PlatformUnclaimed
  <2> HIDE DEF rs, ce, cc, pe, pc, b, b2
  <2> QED
    BY <2>1, <2>2
<1>7. /\ b2.status = b.status /\ b.status \in PoolStatus /\ b2.vSol = b.vSol /\ b2.vTok = b.vTok
      /\ b2.realTok = b.realTok /\ b2.realSol = b.realSol - (c + t)
      /\ b2.creatorEarned = b.creatorEarned /\ b2.platformEarned = b.platformEarned
      /\ b2.creatorClaimed = b.creatorClaimed + c
      /\ b2.platformClaimed = b.platformClaimed + t
  BY DEF Exists
<1>8. Untouched(p)' /\ BooksOf(p)' /\ PriceOf(p)'
  BY <1>1, <1>6, <1>7 DEF PoolSound, Untouched, BooksOf, PriceOf, IsActive, PoolStatus
<1>9. VaultsOf(p)'
  <2>1. sol[p] = b.realSol + stray[p].sol /\ stray[p].sol \in Int
        /\ tokens[p].vault = b.realTok + stray[p].tokens
    BY <1>1, PoolHistoryTyped DEF PoolSound, VaultsOf
  <2>2. sol'[p] = b2.realSol + stray'[p].sol
    BY <1>2, <1>7, <2>1
  <2> QED
    BY <1>7, <2>1, <2>2 DEF VaultsOf
<1>10. FeesOf(p)'
  <2>1. paid[p].creator = b.creatorClaimed /\ paid[p].treasury = b.platformClaimed
    BY <1>1 DEF PoolSound, FeesOf
  <2>2. paid'[p].creator = paid[p].creator + c /\ paid'[p].treasury = paid[p].treasury + t
    OBVIOUS
  <2>3. b2.status # "Closed"
    BY <1>7 DEF PoolStatus
  <2> HIDE DEF b, b2
  <2> QED
    BY <1>3, <1>7, <2>1, <2>2, <2>3 DEF FeesOf, b, b2
<1> QED
  BY <1>5, <1>8, <1>9, <1>10 DEF PoolSound

LEMMA ClaimCreatorPreserves ==
    ASSUME IndInv, NEW signer, NEW p \in Pools, ClaimCreatorFees(signer, p)
    PROVE  IndInv'
<1> DEFINE b == pools[p]
           c == CreatorUnclaimed(b)
<1>1. /\ PoolTyped(p) /\ PoolSound(p) /\ Exists(p) /\ config.layout # "absent"
      /\ c > 0 /\ c <= sol[p] /\ c <= b.realSol
      /\ UNCHANGED <<config, tokens, raydium, stray, quote>>
  BY PoolAccounts DEF ClaimCreatorFees, MayClaimCreator, MayPay
<1>2. /\ b.creatorEarned \in Int /\ b.creatorClaimed \in Int /\ b.realSol \in Int
      /\ b.platformEarned \in Int /\ b.platformClaimed \in Int
      /\ b.platformClaimed <= b.platformEarned
      /\ sol[p] \in Int /\ paid[p].creator \in Int /\ paid[p].treasury \in Int
  BY <1>1 DEF PoolTyped, CurvePool, U64, PoolSound, FeesOf
<1>3. c \in Nat
  BY <1>1, <1>2 DEF CreatorUnclaimed
<1> HIDE DEF c
<1>4. /\ pools' = [pools EXCEPT ![p].creatorClaimed = @ + c, ![p].realSol = @ - c]
      /\ sol' = [sol EXCEPT ![p] = @ - c]
      /\ paid' = [paid EXCEPT ![p].creator = @ + c]
  BY DEF ClaimCreatorFees, c
<1>5. PICK r : r = [b EXCEPT !.creatorClaimed = @ + c, !.realSol = @ - c]
  OBVIOUS
<1>6. r = [status |-> b.status, creator |-> b.creator, vSol |-> b.vSol, vTok |-> b.vTok,
           realSol |-> b.realSol - c, realTok |-> b.realTok,
           creatorEarned |-> b.creatorEarned, creatorClaimed |-> b.creatorClaimed + c,
           platformEarned |-> b.platformEarned, platformClaimed |-> b.platformClaimed,
           trades |-> b.trades]
  BY <1>1, <1>5 DEF PoolTyped, CurvePool
<1>7. pools' = [pools EXCEPT ![p] = r] /\ pools'[p] = r
  BY <1>4, <1>5 DEF IndInv, TypeOK
<1>8. sol'[p] = sol[p] - c /\ sol' = [sol EXCEPT ![p] = sol'[p]]
  BY <1>4 DEF IndInv, TypeOK
<1>9. /\ paid'[p] = [creator |-> paid[p].creator + c, treasury |-> paid[p].treasury]
      /\ paid' = [paid EXCEPT ![p] = paid'[p]]
  <2>1. PICK q : q = [paid[p] EXCEPT !.creator = @ + c]
    OBVIOUS
  <2>2. q = [creator |-> paid[p].creator + c, treasury |-> paid[p].treasury]
    BY <1>1, <2>1 DEF PoolTyped
  <2>3. paid' = [paid EXCEPT ![p] = q] /\ paid'[p] = q
    BY <1>4, <2>1 DEF IndInv, TypeOK
  <2> QED
    BY <2>2, <2>3
<1>10. OnlyPool(p)
  BY <1>1, <1>7, <1>8, <1>9, WrittenBack DEF OnlyPool
<1>11. PoolTyped(p)' /\ PoolSound(p)'
  <2>1. /\ c + 0 = c /\ b.platformClaimed + 0 = b.platformClaimed
        /\ paid[p].treasury + 0 = paid[p].treasury
    BY <1>2, <1>3
  <2>2. 0 <= PlatformUnclaimed(b)
    BY <1>2 DEF PlatformUnclaimed
  <2>3. c <= CreatorUnclaimed(b)
    BY <1>3 DEF c
  <2>4. 0 \in Nat
    OBVIOUS
  <2> QED
    BY <1>1, <1>3, <1>6, <1>7, <1>8, <1>9, <2>1, <2>2, <2>3, <2>4, ClaimSound
<1> QED
  BY <1>1, <1>10, <1>11, ConfigUnchanged, PoolFrame

----------------------------------------------------------------------------
(* A list of pools, as a set *)

\* What claim_all_platform_fees amounts to: every pool of the batch that owes
\* fees pays them, once.
DueIn(batch) == {p \in batch : PlatformUnclaimed(pools[p]) > 0}

ClaimPlatform(signer, batch) ==
    LET due == DueIn(batch)
    IN  /\ TreasurySigns(signer)
        /\ \A p \in batch : Exists(p)
        /\ due # {}
        /\ \A p \in due : MayClaimPlatform(p)
        /\ pools' = [p \in Pools |-> IF p \in due THEN PlatformClaimed(pools[p]) ELSE pools[p]]
        /\ sol' = [p \in Pools |-> IF p \in due THEN sol[p] - PlatformUnclaimed(pools[p])
                                   ELSE sol[p]]
        /\ paid' = [p \in Pools |-> IF p \in due
                    THEN [paid[p] EXCEPT !.treasury = @ + PlatformUnclaimed(pools[p])]
                    ELSE paid[p]]
        /\ UNCHANGED <<config, tokens, raydium, stray, quote>>

\* The accounts after a batch, and the pools in the first entries of a list.
BookAfter(batch) ==
    [pools |-> [p \in Pools |-> IF p \in DueIn(batch) THEN PlatformClaimed(pools[p]) ELSE pools[p]],
     sol   |-> [p \in Pools |-> IF p \in DueIn(batch) THEN sol[p] - PlatformUnclaimed(pools[p])
                                ELSE sol[p]],
     paid  |-> [p \in Pools |-> IF p \in DueIn(batch)
                THEN [paid[p] EXCEPT !.treasury = @ + PlatformUnclaimed(pools[p])]
                ELSE paid[p]]]
Listed(list, i) == {list[k] : k \in 1..i}

\* A set of indices has a least one.
LEMMA LeastIndex ==
    ASSUME NEW n \in Nat, NEW T \in SUBSET (0..n), T # {}
    PROVE  \E i \in T : \A j \in T : i <= j
<1>1. T \subseteq Nat
  OBVIOUS
<1>2. \E x \in T : \A y \in T : ~ (<<y, x>> \in OpToRel(<, Nat))
  BY Zenon, <1>1, NatLessThanWellFounded, WFMin
<1>3. \A x, y \in Nat : <<y, x>> \in OpToRel(<, Nat) <=> y < x
  BY Zenon DEF OpToRel
<1>4. PICK x \in T : \A y \in T : ~ (y < x)
  BY <1>1, <1>2, <1>3
<1> QED
  BY <1>1, <1>4

\* Claiming when nothing is due changes nothing: the second entry of a pool.
LEMMA NothingDue ==
    ASSUME NEW b \in CurvePool, PlatformUnclaimed(b) = 0
    PROVE  PlatformClaimed(b) = b
<1>1. b.platformEarned = b.platformClaimed
  BY DEF CurvePool, U64, PlatformUnclaimed
<1>2. b.realSol - 0 = b.realSol
  BY DEF CurvePool, U64
<1>3. PlatformClaimed(b) = [b EXCEPT !.platformClaimed = b.platformClaimed, !.realSol = b.realSol]
  BY <1>1, <1>2 DEF PlatformClaimed
<1> QED
  BY <1>3 DEF CurvePool

LEMMA ClaimedPool ==
    ASSUME NEW b \in CurvePool, PlatformUnclaimed(b) >= 0
    PROVE  /\ PlatformUnclaimed(PlatformClaimed(b)) = 0
           /\ PlatformClaimed(PlatformClaimed(b)) = PlatformClaimed(b)
           /\ PlatformClaimed(b).status = b.status
<1> DEFINE t == PlatformUnclaimed(b)
<1>1. /\ b.platformEarned \in Int /\ b.realSol \in Int /\ t \in Int
  BY DEF CurvePool, U64, PlatformUnclaimed
<1> HIDE DEF t
<1>2. PICK r : r = PlatformClaimed(b)
  OBVIOUS
<1>3. r = [b EXCEPT !.platformClaimed = b.platformEarned, !.realSol = b.realSol - t]
  BY <1>2 DEF PlatformClaimed, t
<1>4. /\ r.platformClaimed = b.platformEarned /\ r.platformEarned = b.platformEarned
      /\ r.realSol = b.realSol - t /\ r.status = b.status
  BY <1>3 DEF CurvePool
<1>5. PlatformUnclaimed(r) = 0
  BY <1>1, <1>4 DEF PlatformUnclaimed
<1>6. r.realSol - 0 = r.realSol
  BY <1>1, <1>4
<1>7. PlatformClaimed(r) = [r EXCEPT !.platformClaimed = r.platformClaimed, !.realSol = r.realSol]
  BY <1>4, <1>5, <1>6 DEF PlatformClaimed
<1>8. PlatformClaimed(r) = r
  BY <1>3, <1>7 DEF CurvePool
<1> QED
  BY <1>2, <1>4, <1>5, <1>8

\* What is due of a pool is never negative, and paying it off once is enough.
LEMMA DueAccounts ==
    ASSUME IndInv, NEW p \in Pools
    PROVE  /\ pools[p] \in CurvePool
           /\ PlatformUnclaimed(pools[p]) \in Nat
           /\ sol[p] \in Nat
           /\ paid[p] \in [creator : Nat, treasury : Nat]
           /\ paid[p].treasury \in Nat
<1>1. PoolTyped(p) /\ PoolSound(p)
  BY PoolAccounts
<1>2. /\ pools[p].platformEarned \in Int /\ pools[p].platformClaimed \in Int
      /\ pools[p].platformClaimed <= pools[p].platformEarned
  BY <1>1 DEF PoolTyped, PoolSound, FeesOf, CurvePool, U64
<1>3. PlatformUnclaimed(pools[p]) \in Nat
  BY <1>2 DEF PlatformUnclaimed
<1> QED
  BY <1>1, <1>3 DEF PoolTyped

\* An entry adds its pool to those that have paid, whether it was among them or
\* not.
LEMMA EntryStep ==
    ASSUME IndInv, NEW batch \in SUBSET Pools, NEW p \in Pools
    PROVE  AfterEntry(BookAfter(batch), p) = BookAfter(batch \cup {p})
<1> DEFINE B == BookAfter(batch)
           C == BookAfter(batch \cup {p})
           d == PlatformUnclaimed(pools[p])
           e == PlatformUnclaimed(B.pools[p])
           pp == [B.pools EXCEPT ![p] = PlatformClaimed(B.pools[p])]
           ss == [B.sol EXCEPT ![p] = B.sol[p] - e]
           q  == [B.paid[p] EXCEPT !.treasury = B.paid[p].treasury + e]
           aa == [B.paid EXCEPT ![p] = q]
<1>1. /\ pools[p] \in CurvePool /\ d \in Nat /\ sol[p] \in Nat
      /\ paid[p] \in [creator : Nat, treasury : Nat] /\ paid[p].treasury \in Nat
  BY DueAccounts
<1>2. AfterEntry(B, p) = [pools |-> pp, sol |-> ss, paid |-> aa]
  BY DEF AfterEntry
<1>3. \A r \in Pools : r # p => (r \in DueIn(batch) <=> r \in DueIn(batch \cup {p}))
  BY DEF DueIn
<1>4. p \in DueIn(batch \cup {p}) <=> d > 0
  BY DEF DueIn
<1>5. /\ C.pools[p] = IF d > 0 THEN PlatformClaimed(pools[p]) ELSE pools[p]
      /\ C.sol[p] = IF d > 0 THEN sol[p] - d ELSE sol[p]
      /\ C.paid[p] = IF d > 0 THEN [paid[p] EXCEPT !.treasury = paid[p].treasury + d] ELSE paid[p]
  BY <1>4 DEF BookAfter
<1>6. PlatformClaimed(B.pools[p]) = C.pools[p] /\ B.sol[p] - e = C.sol[p] /\ q = C.paid[p]
  <2>1. CASE p \in DueIn(batch)
    <3>1. /\ d > 0 /\ B.pools[p] = PlatformClaimed(pools[p]) /\ B.sol[p] = sol[p] - d
          /\ B.paid[p] = [paid[p] EXCEPT !.treasury = paid[p].treasury + d]
      BY <2>1 DEF BookAfter, DueIn
    <3>2. e = 0 /\ PlatformClaimed(B.pools[p]) = B.pools[p]
      BY <1>1, <3>1, ClaimedPool
    <3>3. B.paid[p] \in [creator : Nat, treasury : Nat]
      <4> HIDE DEF d, B
      <4> QED
        BY <1>1, <3>1
    <3>4. q = B.paid[p]
      <4> HIDE DEF e, B
      <4>1. B.paid[p].treasury + e = B.paid[p].treasury
        BY <3>2, <3>3
      <4> QED
        BY <3>3, <4>1
    <3>5. B.sol[p] - e = B.sol[p]
      <4> HIDE DEF d, e, B
      <4> QED
        BY <1>1, <3>1, <3>2
    <3> HIDE DEF B, C, d, e, q
    <3> QED
      BY <1>5, <3>1, <3>2, <3>4, <3>5
  <2>2. CASE p \notin DueIn(batch)
    <3>1. B.pools[p] = pools[p] /\ B.sol[p] = sol[p] /\ B.paid[p] = paid[p]
      BY <2>2 DEF BookAfter
    <3>2. e = d
      BY <3>1
    <3>3. q = [paid[p] EXCEPT !.treasury = paid[p].treasury + d]
      BY <3>1, <3>2
    <3>4. d = 0 => PlatformClaimed(pools[p]) = pools[p]
      BY <1>1, NothingDue
    <3>5. d = 0 => sol[p] - d = sol[p] /\ [paid[p] EXCEPT !.treasury = paid[p].treasury + d] = paid[p]
      <4> HIDE DEF d
      <4>1. d = 0 => paid[p].treasury + d = paid[p].treasury
        BY <1>1
      <4> QED
        BY <1>1, <4>1
    <3> HIDE DEF B, C, d, e, q
    <3>6. d > 0 \/ d = 0
      BY <1>1
    <3> QED
      BY <1>1, <1>5, <3>1, <3>2, <3>3, <3>4, <3>5, <3>6
  <2> QED
    BY <2>1, <2>2
<1>7. \A r \in Pools : r # p => /\ B.pools[r] = C.pools[r] /\ B.sol[r] = C.sol[r]
                                /\ B.paid[r] = C.paid[r]
  BY <1>3 DEF BookAfter
<1>8. /\ C = [pools |-> C.pools, sol |-> C.sol, paid |-> C.paid]
      /\ B.pools = [r \in Pools |-> B.pools[r]] /\ C.pools = [r \in Pools |-> C.pools[r]]
      /\ B.sol = [r \in Pools |-> B.sol[r]] /\ C.sol = [r \in Pools |-> C.sol[r]]
      /\ B.paid = [r \in Pools |-> B.paid[r]] /\ C.paid = [r \in Pools |-> C.paid[r]]
  BY DEF BookAfter
<1>9. pp = C.pools /\ ss = C.sol /\ aa = C.paid
  <2> HIDE DEF B, C, e, q
  <2>1. pp = [r \in Pools |-> IF r = p THEN C.pools[p] ELSE B.pools[r]]
    BY <1>6, <1>8
  <2>2. ss = [r \in Pools |-> IF r = p THEN C.sol[p] ELSE B.sol[r]]
    BY <1>6, <1>8
  <2>3. aa = [r \in Pools |-> IF r = p THEN C.paid[p] ELSE B.paid[r]]
    BY <1>6, <1>8
  <2> HIDE DEF pp, ss, aa
  <2>4. pp = C.pools
    BY <1>7, <1>8, <2>1
  <2>5. ss = C.sol
    BY <1>7, <1>8, <2>2
  <2>6. aa = C.paid
    BY <1>7, <1>8, <2>3
  <2> QED
    BY <2>4, <2>5, <2>6
<1> QED
  <2> HIDE DEF B, C, pp, ss, aa
  <2>1. AfterEntry(B, p) = C
    BY <1>2, <1>8, <1>9
  <2> QED
    BY <2>1 DEF B, C

\* The walk over a list is what its recursion says it is ...
LEMMA WalkUnfolds ==
    ASSUME NEW list, NEW f,
           f = [i \in 0..Len(list) |->
                  IF i = 0 THEN [pools |-> pools, sol |-> sol, paid |-> paid]
                  ELSE AfterEntry(f[i - 1], list[i])]
    PROVE  Walk(list) = [i \in 0..Len(list) |->
                  IF i = 0 THEN [pools |-> pools, sol |-> sol, paid |-> paid]
                  ELSE AfterEntry(Walk(list)[i - 1], list[i])]
BY DEF Walk

LEMMA FirstBook == ASSUME IndInv PROVE BookAfter({}) = [pools |-> pools, sol |-> sol, paid |-> paid]
BY DEF BookAfter, DueIn, IndInv, TypeOK

\* ... and after each entry the accounts are those after the set of the pools
\* listed so far.
LEMMA WalkIsBook ==
    ASSUME IndInv, NEW n \in Nat, NEW list \in [1..n -> Pools], Len(list) = n
    PROVE  \A i \in 0..n : Walk(list)[i] = BookAfter(Listed(list, i))
<1> DEFINE E == [i \in 0..n |-> BookAfter(Listed(list, i))]
           w == Walk(list)
           start == [pools |-> pools, sol |-> sol, paid |-> paid]
<1>1. E[0] = start
  <2>1. Listed(list, 0) = {}
    BY DEF Listed
  <2> QED
    BY <2>1, FirstBook
<1>2. ASSUME NEW i \in 1..n
      PROVE  /\ AfterEntry(BookAfter(Listed(list, i - 1)), list[i]) = BookAfter(Listed(list, i))
             /\ i - 1 \in 0..n
  <2>1. Listed(list, i) = Listed(list, i - 1) \cup {list[i]}
    BY DEF Listed
  <2>2. Listed(list, i - 1) \in SUBSET Pools /\ list[i] \in Pools
    BY DEF Listed
  <2> QED
    BY <2>1, <2>2, EntryStep
<1>3. E = [i \in 0..Len(list) |-> IF i = 0 THEN start ELSE AfterEntry(E[i - 1], list[i])]
  <2>1. \A i \in 0..n : E[i] = IF i = 0 THEN start ELSE AfterEntry(E[i - 1], list[i])
    <3>1. ASSUME NEW i \in 1..n PROVE E[i] = AfterEntry(E[i - 1], list[i])
      BY <1>2
    <3> HIDE DEF E, start
    <3> QED
      BY <1>1, <3>1
  <2>2. E = [i \in 0..n |-> E[i]]
    OBVIOUS
  <2> HIDE DEF E, start
  <2> QED
    BY <2>1, <2>2
<1>4. w = [i \in 0..Len(list) |-> IF i = 0 THEN start ELSE AfterEntry(w[i - 1], list[i])]
  <2> HIDE DEF E
  <2> QED
    BY <1>3, WalkUnfolds
<1>5. w[0] = start /\ \A i \in 1..n : w[i] = AfterEntry(w[i - 1], list[i])
  <2> HIDE DEF w, start
  <2> QED
    BY <1>4
<1> DEFINE T == {i \in 0..n : w[i] # BookAfter(Listed(list, i))}
<1>6. T = {}
  <2> SUFFICES ASSUME T # {} PROVE FALSE
    OBVIOUS
  <2>1. PICK i \in T : \A j \in T : i <= j
    <3>1. T \in SUBSET (0..n)
      OBVIOUS
    <3> HIDE DEF T
    <3> QED
      BY <3>1, LeastIndex
  <2>2. i # 0
    BY <1>1, <1>5
  <2>3. i \in 1..n /\ i - 1 \in 0..n /\ ~ (i <= i - 1)
    BY <2>2
  <2>4. w[i - 1] = BookAfter(Listed(list, i - 1))
    BY <2>1, <2>3
  <2>5. w[i] = BookAfter(Listed(list, i))
    BY <1>2, <1>5, <2>3, <2>4
  <2> QED
    BY <2>5
<1> QED
  BY <1>6

\* However the list is ordered, and however often it names a pool, a batched
\* claim has every pool pay once: it is the claim of the set of the pools
\* listed, and succeeds only when each of them can pay.
THEOREM BatchPaysOnce ==
    ASSUME IndInv, NEW signer, NEW n \in Nat, NEW list \in [1..n -> Pools],
           ClaimAllPlatformFees(signer, list)
    PROVE  ClaimPlatform(signer, {list[i] : i \in 1..n})
<1> DEFINE batch == {list[i] : i \in 1..n}
           w == Walk(list)
<1>1. Len(list) = n
  BY SeqDef
<1>2. \A i \in 0..n : w[i] = BookAfter(Listed(list, i))
  BY <1>1, WalkIsBook
<1>3. /\ TreasurySigns(signer)
      /\ \A i \in 1..n : EntryAllowed(w[i - 1], list[i])
      /\ \A i \in 1..n : VaultMayHold(w[n].sol[list[i]])
      /\ w[n].paid # paid
      /\ pools' = w[n].pools /\ sol' = w[n].sol /\ paid' = w[n].paid
      /\ UNCHANGED <<config, tokens, raydium, stray, quote>>
  BY <1>1 DEF ClaimAllPlatformFees
<1>4. w[n] = BookAfter(batch)
  BY <1>2 DEF Listed
<1> HIDE DEF w
<1>5. /\ pools' = [p \in Pools |-> IF p \in DueIn(batch) THEN PlatformClaimed(pools[p]) ELSE pools[p]]
      /\ sol' = [p \in Pools |-> IF p \in DueIn(batch) THEN sol[p] - PlatformUnclaimed(pools[p])
                                 ELSE sol[p]]
      /\ paid' = [p \in Pools |-> IF p \in DueIn(batch)
                  THEN [paid[p] EXCEPT !.treasury = @ + PlatformUnclaimed(pools[p])]
                  ELSE paid[p]]
  BY <1>3, <1>4 DEF BookAfter
<1>6. DueIn(batch) # {}
  <2> SUFFICES ASSUME DueIn(batch) = {} PROVE FALSE
    OBVIOUS
  <2>1. paid = [p \in Pools |-> paid[p]]
    BY DEF IndInv, TypeOK
  <2>2. paid' = paid
    BY <1>5, <2>1
  <2> QED
    BY <1>3, <2>2
<1>7. ASSUME NEW p \in batch PROVE Exists(p) /\ (p \in DueIn(batch) => MayClaimPlatform(p))
  <2>1. p \in Pools
    OBVIOUS
  <2> DEFINE S == {i \in 0..n : i # 0 /\ list[i] = p}
  <2>2. S \in SUBSET (0..n) /\ S # {}
    OBVIOUS
  <2>3. PICK i \in S : \A j \in S : i <= j
    <3> HIDE DEF S
    <3> QED
      BY <2>2, LeastIndex
  <2>4. i \in 1..n /\ list[i] = p /\ i - 1 \in 0..n
    OBVIOUS
  <2>5. p \notin Listed(list, i - 1)
    <3>1. ASSUME NEW k \in 1..(i - 1), list[k] = p PROVE FALSE
      <4>1. k \in S /\ ~ (i <= k)
        BY <2>4, <3>1
      <4> QED
        BY <2>3, <4>1
    <3> QED
      BY <3>1 DEF Listed
  <2>6. EntryAllowed(BookAfter(Listed(list, i - 1)), p)
    BY <1>2, <1>3, <2>4
  <2>7. p \notin DueIn(Listed(list, i - 1))
    BY <2>5 DEF DueIn
  <2>8. /\ BookAfter(Listed(list, i - 1)).pools[p] = pools[p]
        /\ BookAfter(Listed(list, i - 1)).sol[p] = sol[p]
    BY <2>1, <2>7 DEF BookAfter
  <2>9. /\ pools[p].status \in PoolStatus
        /\ PlatformUnclaimed(pools[p]) <= sol[p]
        /\ PlatformUnclaimed(pools[p]) <= pools[p].realSol
    BY <2>6, <2>8 DEF EntryAllowed
  <2>10. p \in DueIn(batch) => VaultMayHold(sol[p] - PlatformUnclaimed(pools[p]))
    <3>1. VaultMayHold(sol'[p])
      BY <1>3, <2>4
    <3> QED
      BY <1>5, <2>1, <3>1
  <2> QED
    BY <2>9, <2>10 DEF Exists, MayClaimPlatform, MayPay
<1>8. DueIn(batch) \subseteq batch
  BY DEF DueIn
<1> HIDE DEF batch
<1>9. ClaimPlatform(signer, batch)
  BY <1>3, <1>5, <1>6, <1>7, <1>8 DEF ClaimPlatform
<1> QED
  BY <1>9 DEF batch

\* A single claim is the claim of one pool.
LEMMA SingleClaim ==
    ASSUME IndInv, NEW signer, NEW p \in Pools, ClaimPlatformFees(signer, p)
    PROVE  ClaimPlatform(signer, {p})
<1> DEFINE d == PlatformUnclaimed(pools[p])
<1>1. /\ TreasurySigns(signer) /\ Exists(p) /\ d > 0 /\ MayClaimPlatform(p)
      /\ pools' = [pools EXCEPT ![p] = PlatformClaimed(pools[p])]
      /\ sol' = [sol EXCEPT ![p] = sol[p] - d]
      /\ paid' = [paid EXCEPT ![p].treasury = @ + d]
      /\ UNCHANGED <<config, tokens, raydium, stray, quote>>
  BY DEF ClaimPlatformFees
<1>2. DueIn({p}) = {p}
  BY <1>1 DEF DueIn
<1>3. /\ pools = [q \in Pools |-> pools[q]] /\ sol = [q \in Pools |-> sol[q]]
      /\ paid = [q \in Pools |-> paid[q]]
  BY DEF IndInv, TypeOK
<1>4. pools' = [q \in Pools |-> IF q \in {p} THEN PlatformClaimed(pools[q]) ELSE pools[q]]
  BY <1>1, <1>3
<1>5. sol' = [q \in Pools |-> IF q \in {p} THEN sol[q] - PlatformUnclaimed(pools[q]) ELSE sol[q]]
  BY <1>1, <1>3
<1>6. paid' = [q \in Pools |-> IF q \in {p}
               THEN [paid[q] EXCEPT !.treasury = @ + PlatformUnclaimed(pools[q])]
               ELSE paid[q]]
  BY <1>1, <1>3
<1> HIDE DEF d
<1> QED
  BY <1>1, <1>2, <1>4, <1>5, <1>6 DEF ClaimPlatform

\* All claims of fees are a creator's, or a set of pools paying the platform.
LEMMA FeeSteps ==
    ASSUME IndInv, FeeStep
    PROVE  \/ \E c \in Creators, p \in Pools : ClaimCreatorFees(c, p)
           \/ \E t \in Treasuries, batch \in SUBSET Pools : ClaimPlatform(t, batch)
<1>1. ASSUME NEW t \in Treasuries, NEW p \in Pools, ClaimPlatformFees(t, p)
      PROVE  \E batch \in SUBSET Pools : ClaimPlatform(t, batch)
  BY <1>1, SingleClaim
<1>2. ASSUME NEW t \in Treasuries, NEW n \in 1..MaxBatch, NEW list \in [1..n -> Pools],
             ClaimAllPlatformFees(t, list)
      PROVE  \E batch \in SUBSET Pools : ClaimPlatform(t, batch)
  <2>1. n \in Nat /\ {list[i] : i \in 1..n} \in SUBSET Pools
    BY ParameterAssumption
  <2> QED
    BY <1>2, <2>1, BatchPaysOnce
<1> QED
  BY <1>1, <1>2 DEF FeeStep

LEMMA ClaimPlatformPreserves ==
    ASSUME IndInv, NEW signer, NEW batch \in SUBSET Pools, ClaimPlatform(signer, batch)
    PROVE  IndInv'
<1> DEFINE due == DueIn(batch)
<1>1. /\ UNCHANGED <<config, tokens, raydium, stray, quote>>
      /\ config.layout = "current"
      /\ \A p \in batch : Exists(p)
      /\ \A p \in due : MayClaimPlatform(p)
      /\ pools' = [p \in Pools |-> IF p \in due THEN PlatformClaimed(pools[p]) ELSE pools[p]]
      /\ sol' = [p \in Pools |-> IF p \in due THEN sol[p] - PlatformUnclaimed(pools[p])
                                 ELSE sol[p]]
      /\ paid' = [p \in Pools |-> IF p \in due
                  THEN [paid[p] EXCEPT !.treasury = @ + PlatformUnclaimed(pools[p])]
                  ELSE paid[p]]
  BY DEF ClaimPlatform, TreasurySigns, ConfigLoads
<1>2. ByPool'
  BY <1>1 DEF ByPool, IndInv, TypeOK
<1>3. ASSUME NEW p \in Pools PROVE PoolTyped(p)' /\ PoolSound(p)'
  <2> DEFINE b == pools[p]
             t == PlatformUnclaimed(b)
  <2>1. PoolTyped(p) /\ PoolSound(p)
    BY PoolAccounts
  <2>2. CASE p \notin due
    <3>1. pools'[p] = pools[p] /\ sol'[p] = sol[p] /\ paid'[p] = paid[p]
      BY <1>1, <2>2
    <3> QED
      BY <1>1, <2>1, <3>1 DEF PoolTyped, PoolSound, Untouched, BooksOf, VaultsOf, FeesOf,
                              PriceOf, IsActive, Exists
  <2>3. CASE p \in due
    <3>1. /\ Exists(p) /\ t > 0 /\ t <= sol[p] /\ t <= b.realSol
      BY <1>1, <2>3 DEF DueIn, MayClaimPlatform, MayPay
    <3>2. /\ b.creatorEarned \in Int /\ b.creatorClaimed \in Int /\ b.realSol \in Int
          /\ b.platformEarned \in Int /\ b.platformClaimed \in Int
          /\ b.creatorClaimed <= b.creatorEarned
          /\ sol[p] \in Int /\ paid[p].creator \in Int /\ paid[p].treasury \in Int
      BY <2>1 DEF PoolTyped, CurvePool, U64, PoolSound, FeesOf
    <3>3. t \in Nat /\ b.platformEarned = b.platformClaimed + t
      BY <3>1, <3>2 DEF PlatformUnclaimed
    <3>4. PICK r : r = PlatformClaimed(b)
      OBVIOUS
    <3>5. r = [b EXCEPT !.platformClaimed = b.platformEarned, !.realSol = b.realSol - t]
      BY <3>4 DEF PlatformClaimed
    <3>6. PICK q : q = [paid[p] EXCEPT !.treasury = paid[p].treasury + t]
      OBVIOUS
    <3>7. pools'[p] = r /\ sol'[p] = sol[p] - t /\ paid'[p] = q
      BY <1>1, <2>3, <3>4, <3>6
    <3> HIDE DEF t, due
    <3>8. r = [status |-> b.status, creator |-> b.creator, vSol |-> b.vSol, vTok |-> b.vTok,
               realSol |-> b.realSol - t, realTok |-> b.realTok,
               creatorEarned |-> b.creatorEarned, creatorClaimed |-> b.creatorClaimed,
               platformEarned |-> b.platformEarned, platformClaimed |-> b.platformEarned,
               trades |-> b.trades]
      BY <2>1, <3>5 DEF PoolTyped, CurvePool
    <3>9. q = [creator |-> paid[p].creator, treasury |-> paid[p].treasury + t]
      BY <2>1, <3>6 DEF PoolTyped
    <3>10. /\ 0 + t = t /\ b.creatorClaimed + 0 = b.creatorClaimed
           /\ paid[p].creator + 0 = paid[p].creator
      BY <3>2, <3>3
    <3>11. 0 <= CreatorUnclaimed(b) /\ 0 \in Nat
      BY <3>2 DEF CreatorUnclaimed
    <3>12. t <= PlatformUnclaimed(b)
      BY <3>3 DEF t
    <3> QED
      BY <1>1, <3>1, <3>3, <3>7, <3>8, <3>9, <3>10, <3>11, <3>12, ClaimSound
  <2> QED
    BY <2>2, <2>3
<1> QED
  BY <1>1, <1>2, <1>3, ConfigUnchanged, PoolsFrame
----------------------------------------------------------------------------
(* Graduation *)

\* The curve's last price, in the form of the property.
LEMMA SpotContinues ==
    ASSUME NEW s \in Nat, NEW vSol \in Nat, NEW vTok \in Nat, NEW t \in Nat, NEW u \in Nat,
           NEW there, there.sol = s, there.tokens = t, there.burned = u, t + u = vTok,
           vSol * t <= s * vTok, s * vTok < vSol * t + vSol
    PROVE  Continues(there, vSol, vTok)
<1>1. t * vSol = vSol * t /\ (t + 1) * vSol = vSol * t + vSol
  BY Z3
<1>2. t * vSol <= s * vTok /\ s * vTok < (t + 1) * vSol
  BY <1>1
<1> QED
  BY <1>2 DEF Continues

\* The cast to u64 keeps what fits.
LEMMA CastKeeps ==
    ASSUME NEW n \in U64 PROVE AsU64(n) = n
<1>1. MaxU64 \in Nat
  BY ParameterAssumption
<1> QED
  BY <1>1 DEF AsU64, U64

\* Raydium has the SOL as its WSOL and the tokens as the agent's, whichever
\* mint sorts first.
LEMMA DepositsMatch ==
    ASSUME NEW p, NEW lamports, NEW agents
    PROVE  /\ Deposited(p, "wsol", InitAmounts(p, lamports, agents)) = lamports
           /\ Deposited(p, "agent", InitAmounts(p, lamports, agents)) = agents
<1>1. CASE p \in AgentFirst
  BY <1>1 DEF Deposited, InitAmounts, TokenOrder
<1>2. CASE p \notin AgentFirst
  BY <1>2 DEF Deposited, InitAmounts, TokenOrder
<1> QED
  BY <1>1, <1>2

\* What graduate hands over on a pool it accepts.
LEMMA HandedBounds ==
    ASSUME IndInv, NEW p \in Pools, IsActive(p), NetSol(pools[p]) >= 0,
           SolForRaydium(pools[p]) >= 0, pools[p].vSol > 0
    PROVE  LET b == pools[p]
               s == SolForRaydium(b)
               t == TokensForRaydium(b)
           IN  /\ s \in Nat /\ t \in Nat /\ t <= b.realTok
               /\ b.vSol \in Nat /\ b.vTok \in Nat /\ b.realTok = b.vTok
               /\ b.vSol * t <= s * b.vTok /\ s * b.vTok < b.vSol * t + b.vSol
<1> DEFINE b == pools[p]
           s == SolForRaydium(b)
           t == TokensForRaydium(b)
           vSol == b.vSol
           vTok == b.vTok
<1>1. /\ PoolTyped(p) /\ ActiveSound(p, b, sol[p], tokens[p].vault)
  BY PoolAccounts, ActiveIsSound
<1>2. vSol \in Nat /\ vTok \in Nat /\ b.realTok = vTok
  BY <1>1, ParameterAssumption DEF PoolTyped, CurvePool, U64, ActiveSound
<1>3. config.virtualSol \in Nat /\ RentReimbursement \in Nat
  <2>1. config.virtualSol \in VirtualSols \cup {0}
    BY DEF IndInv, TypeOK, CurveConfig
  <2> QED
    BY <2>1, ParameterAssumption
<1>4. s = (vSol - config.virtualSol) - RentReimbursement
  BY <1>1 DEF SolForRaydium, ActiveSound
<1>5. s \in Nat /\ s <= vSol
  <2>1. s >= 0
    OBVIOUS
  <2> HIDE DEF s, vSol
  <2> QED
    BY <1>2, <1>3, <1>4, <2>1
<1>6. t = AsU64(TokensAtSpot(s, vSol, vTok)) /\ vTok \in U64
  BY <1>1 DEF TokensForRaydium, PoolTyped, CurvePool
<1>7. vSol > 0
  OBVIOUS
<1> HIDE DEF s, t, vSol, vTok, b
<1>8. /\ t \in 0..vTok /\ vSol * t <= s * vTok /\ s * vTok < vSol * t + vSol
  <2> DEFINE n == TokensAtSpot(s, vSol, vTok)
  <2>1. n \in 0..vTok /\ vSol * n <= s * vTok /\ s * vTok < vSol * n + vSol
    BY <1>2, <1>5, <1>7, SpotBounds
  <2>2. t = n
    <3>1. n \in U64
      <4> HIDE DEF n
      <4> QED
        BY <1>6, <2>1, ParameterAssumption DEF U64
    <3> QED
      BY <1>6, <3>1, CastKeeps
  <2> HIDE DEF n
  <2> QED
    BY <2>1, <2>2
<1>9. t \in Nat /\ t <= vTok
  BY <1>2, <1>8
<1> QED
  BY <1>2, <1>5, <1>8, <1>9 DEF s, t, vSol, vTok, b

LEMMA GraduatePreserves ==
    ASSUME IndInv, NEW signer \in Admins \cup Treasuries, NEW p \in Pools, Graduate(signer, p)
    PROVE  IndInv'
<1> DEFINE b == pools[p]
           net == NetSol(b)
           u == Unclaimed(b)
           s == SolForRaydium(b)
           t == TokensForRaydium(b)
           there == raydium'[p]
           b2 == pools'[p]
<1>1. /\ IsActive(p) /\ net >= 0 /\ s >= 0 /\ b.vSol > 0
      /\ b.realTok <= tokens[p].vault /\ net <= sol[p]
      /\ config' = [config EXCEPT !.tokensGraduated = @ + 1]
      /\ UNCHANGED <<paid, stray, quote>>
  BY DEF Graduate
<1>2. /\ PoolTyped(p) /\ ActiveSound(p, b, sol[p], tokens[p].vault) /\ config.layout # "absent"
  BY <1>1, PoolAccounts, ActiveIsSound
<1>3. /\ s \in Nat /\ t \in Nat /\ t <= b.realTok
      /\ b.vSol \in Nat /\ b.vTok \in Nat /\ b.realTok = b.vTok
      /\ b.vSol * t <= s * b.vTok /\ s * b.vTok < b.vSol * t + b.vSol
  BY <1>1, HandedBounds
<1>4. /\ b.realSol \in U64 /\ b.creatorEarned \in Int /\ b.creatorClaimed \in Int
      /\ b.platformEarned \in Int /\ b.platformClaimed \in Int
      /\ b.creatorClaimed <= b.creatorEarned /\ b.platformClaimed <= b.platformEarned
      /\ sol[p] \in Nat /\ tokens[p].vault \in Nat /\ tokens[p].outside \in Nat
  BY <1>2 DEF PoolTyped, CurvePool, U64, ActiveSound
<1>5. u \in Nat /\ net = b.realSol - u /\ u <= b.realSol /\ u \in U64
  <2>1. u = (b.creatorEarned - b.creatorClaimed) + (b.platformEarned - b.platformClaimed)
    BY DEF Unclaimed, CreatorUnclaimed, PlatformUnclaimed
  <2>2. net = b.realSol - u
    BY DEF NetSol
  <2>3. net >= 0
    BY <1>1
  <2> HIDE DEF net, u, b
  <2> QED
    BY <1>4, <2>1, <2>2, <2>3, ParameterAssumption DEF U64
<1> HIDE DEF net, u, s, t
<1>6. /\ pools' = [pools EXCEPT ![p] = Graduated(b)]
      /\ sol' = [sol EXCEPT ![p] = @ - net]
      /\ tokens' = [tokens EXCEPT ![p].vault = @ - b.realTok, ![p].outside = @ + t]
      /\ raydium' = [raydium EXCEPT ![p] =
              [creator |-> signer, withPermission |-> config.raydiumPermission,
               sol |-> s, tokens |-> t, burned |-> b.realTok - t]]
  <2> DEFINE amounts == InitAmounts(p, s, t)
  <2>1. Deposited(p, "wsol", amounts) = s /\ Deposited(p, "agent", amounts) = t
    BY DepositsMatch
  <2>2. raydium' = [raydium EXCEPT ![p] =
              [creator |-> signer, withPermission |-> config.raydiumPermission,
               sol |-> Deposited(p, "wsol", amounts), tokens |-> Deposited(p, "agent", amounts),
               burned |-> b.realTok - t]]
    BY DEF Graduate, s, t
  <2>3. /\ pools' = [pools EXCEPT ![p] = Graduated(b)]
        /\ sol' = [sol EXCEPT ![p] = @ - net]
        /\ tokens' = [tokens EXCEPT ![p].vault = @ - b.realTok, ![p].outside = @ + t]
    BY DEF Graduate, net, t
  <2> HIDE DEF amounts
  <2> QED
    BY <2>1, <2>2, <2>3
<1>7. /\ b2 = [status |-> "Graduated", creator |-> b.creator,
               vSol |-> b.vSol, vTok |-> b.vTok, realSol |-> u, realTok |-> 0,
               creatorEarned |-> b.creatorEarned, creatorClaimed |-> b.creatorClaimed,
               platformEarned |-> b.platformEarned, platformClaimed |-> b.platformClaimed,
               trades |-> b.trades]
      /\ pools' = [pools EXCEPT ![p] = b2]
  <2>1. PICK r : r = Graduated(b)
    OBVIOUS
  <2>2. r = [b EXCEPT !.status = "Graduated", !.realSol = u, !.realTok = 0]
    BY <2>1 DEF Graduated, u
  <2>3. r = [status |-> "Graduated", creator |-> b.creator,
             vSol |-> b.vSol, vTok |-> b.vTok, realSol |-> u, realTok |-> 0,
             creatorEarned |-> b.creatorEarned, creatorClaimed |-> b.creatorClaimed,
             platformEarned |-> b.platformEarned, platformClaimed |-> b.platformClaimed,
             trades |-> b.trades]
    BY <1>2, <2>2 DEF PoolTyped, CurvePool
  <2>4. pools'[p] = r /\ pools' = [pools EXCEPT ![p] = pools'[p]]
    BY <1>6, <2>1 DEF IndInv, TypeOK
  <2> QED
    BY <2>3, <2>4
<1>8. /\ tokens'[p] = [vault |-> tokens[p].vault - b.realTok, outside |-> tokens[p].outside + t]
      /\ tokens' = [tokens EXCEPT ![p] = tokens'[p]]
  <2>1. PICK r : r = [tokens[p] EXCEPT !.vault = @ - b.realTok, !.outside = @ + t]
    OBVIOUS
  <2>2. r = [vault |-> tokens[p].vault - b.realTok, outside |-> tokens[p].outside + t]
    BY <1>2, <2>1 DEF PoolTyped
  <2>3. tokens' = [tokens EXCEPT ![p] = r] /\ tokens'[p] = r
    BY <1>6, <2>1 DEF IndInv, TypeOK
  <2> QED
    BY <2>2, <2>3
<1>9. /\ there = [creator |-> signer, withPermission |-> config.raydiumPermission,
                  sol |-> s, tokens |-> t, burned |-> b.realTok - t]
      /\ raydium' = [raydium EXCEPT ![p] = there]
      /\ sol'[p] = sol[p] - net /\ sol' = [sol EXCEPT ![p] = sol'[p]]
  BY <1>6 DEF IndInv, TypeOK
<1>10. OnlyPool(p)
  BY <1>1, <1>7, <1>8, <1>9, WrittenBack DEF OnlyPool
<1>11. PoolTyped(p)'
  <2>1. b2 \in CurvePool
    BY <1>2, <1>5, <1>7, ParameterAssumption DEF PoolTyped, CurvePool, U64
  <2>2. b.realTok - t \in Nat /\ b.realTok \in Nat
    BY <1>3
  <2>3. there \in Listing
    <3>1. config.raydiumPermission \in BOOLEAN
      BY DEF IndInv, TypeOK, CurveConfig
    <3> QED
      BY <1>3, <1>9, <2>2, <3>1 DEF Listing
  <2>4. tokens'[p] \in [vault : Nat, outside : Nat] /\ sol'[p] \in Nat
    <3>1. net \in Int
      BY <1>4, <1>5 DEF U64
    <3>2. tokens[p].vault - b.realTok \in Nat /\ tokens[p].outside + t \in Nat
      BY <1>1, <1>3, <1>4
    <3>3. sol[p] - net \in Nat
      BY <1>1, <1>4, <3>1
    <3> QED
      BY <1>8, <1>9, <3>2, <3>3
  <2> QED
    BY <1>1, <1>2, <2>1, <2>3, <2>4 DEF PoolTyped
<1>12. PoolSound(p)'
  <2>1. /\ b2.status = "Graduated" /\ b2.realTok = 0 /\ b2.realSol = u
        /\ b2.vSol = b.vSol /\ b2.vTok = b.vTok
        /\ b2.creatorEarned = b.creatorEarned /\ b2.creatorClaimed = b.creatorClaimed
        /\ b2.platformEarned = b.platformEarned /\ b2.platformClaimed = b.platformClaimed
    BY <1>7
  <2>2. NetSol(b2) = 0
    <3>1. Unclaimed(b2) = u
      BY <2>1 DEF Unclaimed, CreatorUnclaimed, PlatformUnclaimed, u
    <3> QED
      BY <1>5, <2>1, <3>1 DEF NetSol
  <2>3. BooksOf(p)' /\ Untouched(p)'
    BY <2>1, <2>2 DEF BooksOf, Untouched, IsActive
  <2>4. VaultsOf(p)'
    <3>1. /\ sol[p] = b.realSol + stray[p].sol
          /\ tokens[p].vault = b.realTok + stray[p].tokens
      BY <1>2 DEF ActiveSound
    <3>2. /\ sol'[p] = u + stray[p].sol
          /\ tokens'[p].vault = 0 + stray[p].tokens
      <4>1. b.realSol \in Int /\ b.realTok \in Int
        BY <1>3, <1>4 DEF U64
      <4> QED
        BY <1>3, <1>5, <1>8, <1>9, <3>1, <4>1, PoolHistoryTyped
    <3> QED
      BY <1>1, <2>1, <3>2 DEF VaultsOf
  <2>5. FeesOf(p)'
    BY <1>1, <1>2, <2>1 DEF FeesOf, ActiveSound
  <2>6. PriceOf(p)'
    <3>1. /\ there.sol = s /\ there.tokens = t /\ there.burned = b.realTok - t
      BY <1>9
    <3>2. b.realTok - t \in Nat /\ t + (b.realTok - t) = b.vTok
      BY <1>3
    <3>3. Continues(there, b.vSol, b.vTok)
      <4> DEFINE vSol == b.vSol
                 vTok == b.vTok
                 left == b.realTok - t
      <4>1. /\ vSol \in Nat /\ vTok \in Nat /\ left \in Nat /\ t + left = vTok
            /\ there.sol = s /\ there.tokens = t /\ there.burned = left
            /\ vSol * t <= s * vTok /\ s * vTok < vSol * t + vSol
        BY <1>3, <3>1, <3>2
      <4> HIDE DEF vSol, vTok, left, there
      <4>2. Continues(there, vSol, vTok)
        BY <1>3, <4>1, SpotContinues
      <4> QED
        BY <4>2 DEF vSol, vTok
    <3> QED
      BY <2>1, <3>3 DEF PriceOf
  <2> QED
    BY <2>3, <2>4, <2>5, <2>6 DEF PoolSound
<1> QED
  BY <1>1, <1>2, <1>10, <1>11, <1>12, CountersKept, PoolFrame

LEMMA ClosePreserves ==
    ASSUME IndInv, NEW signer, NEW p \in Pools, CloseGraduatedPool(signer, p)
    PROVE  IndInv'
<1> DEFINE b == pools[p]
           b2 == pools'[p]
<1>1. /\ PoolTyped(p) /\ PoolSound(p) /\ b.status = "Graduated" /\ config.layout # "absent"
      /\ b.creatorEarned - b.creatorClaimed = 0 /\ b.platformEarned - b.platformClaimed = 0
      /\ UNCHANGED <<config, tokens, raydium, stray, quote>>
  BY PoolAccounts DEF CloseGraduatedPool, Closable, CreatorUnclaimed, PlatformUnclaimed, Exists,
                      PoolStatus
<1>2. /\ b.realSol \in Int /\ b.creatorEarned \in Int /\ b.creatorClaimed \in Int
      /\ b.platformEarned \in Int /\ b.platformClaimed \in Int /\ sol[p] \in Nat
      /\ paid[p].treasury \in Nat
  BY <1>1 DEF PoolTyped, CurvePool, U64
<1>3. b.creatorEarned = b.creatorClaimed /\ b.platformEarned = b.platformClaimed /\ b.realSol = 0
  <2> DEFINE rs == b.realSol
             c == b.creatorEarned - b.creatorClaimed
             t == b.platformEarned - b.platformClaimed
  <2>1. NetSol(b) = 0
    BY <1>1 DEF PoolSound, BooksOf
  <2>2. NetSol(b) = rs - (c + t)
    BY DEF NetSol, Unclaimed, CreatorUnclaimed, PlatformUnclaimed
  <2>3. rs \in Int /\ c = 0 /\ t = 0
    BY <1>1, <1>2
  <2>4. rs = 0
    <3> HIDE DEF rs, c, t
    <3> QED
      BY <2>1, <2>2, <2>3
  <2>5. b.creatorEarned = b.creatorClaimed
    BY <1>2, <2>3
  <2>6. b.platformEarned = b.platformClaimed
    BY <1>2, <2>3
  <2> QED
    BY <2>4, <2>5, <2>6
<1>4. /\ pools' = [pools EXCEPT ![p].status = "Closed"]
      /\ sol' = [sol EXCEPT ![p] = 0]
      /\ paid' = [paid EXCEPT ![p].treasury = @ + sol[p]]
  BY DEF CloseGraduatedPool
<1>5. b2 = [b EXCEPT !.status = "Closed"] /\ pools' = [pools EXCEPT ![p] = b2]
  BY <1>4 DEF IndInv, TypeOK
<1>6. /\ b2 \in CurvePool /\ b2.status = "Closed" /\ b2.vSol = b.vSol /\ b2.vTok = b.vTok
      /\ b2.creatorEarned = b.creatorEarned /\ b2.creatorClaimed = b.creatorClaimed
      /\ b2.platformEarned = b.platformEarned /\ b2.platformClaimed = b.platformClaimed
  BY <1>1, <1>5 DEF PoolTyped, CurvePool
<1>7. /\ paid'[p] = [creator |-> paid[p].creator, treasury |-> paid[p].treasury + sol[p]]
      /\ paid' = [paid EXCEPT ![p] = paid'[p]]
  <2>1. PICK q : q = [paid[p] EXCEPT !.treasury = @ + sol[p]]
    OBVIOUS
  <2>2. q = [creator |-> paid[p].creator, treasury |-> paid[p].treasury + sol[p]]
    BY <1>1, <2>1 DEF PoolTyped
  <2>3. paid' = [paid EXCEPT ![p] = q] /\ paid'[p] = q
    BY <1>4, <2>1 DEF IndInv, TypeOK
  <2> QED
    BY <2>2, <2>3
<1>8. sol'[p] = 0 /\ sol' = [sol EXCEPT ![p] = sol'[p]]
  BY <1>4 DEF IndInv, TypeOK
<1>9. OnlyPool(p)
  BY <1>1, <1>5, <1>7, <1>8, WrittenBack DEF OnlyPool
<1>10. PoolTyped(p)'
  <2>1. paid'[p] \in [creator : Nat, treasury : Nat]
    BY <1>1, <1>2, <1>7 DEF PoolTyped
  <2> QED
    BY <1>1, <1>6, <1>8, <2>1 DEF PoolTyped
<1>11. PoolSound(p)'
  <2>1. Untouched(p)' /\ BooksOf(p)' /\ VaultsOf(p)' /\ PriceOf(p)'
    BY <1>1, <1>6 DEF PoolSound, Untouched, BooksOf, VaultsOf, PriceOf, IsActive, Exists,
                      PoolStatus
  <2>2. FeesOf(p)'
    <3>1. /\ paid[p].creator = b.creatorClaimed /\ paid[p].treasury = b.platformClaimed
          /\ sol[p] = b.realSol + stray[p].sol
      BY <1>1 DEF PoolSound, FeesOf, VaultsOf, Exists, PoolStatus
    <3>2. /\ paid'[p].creator = b.creatorEarned
          /\ paid'[p].treasury = b.platformEarned + stray[p].sol
      BY <1>2, <1>3, <1>7, <3>1, PoolHistoryTyped
    <3> QED
      BY <1>1, <1>2, <1>3, <1>6, <3>1, <3>2 DEF FeesOf, Exists, PoolStatus
  <2> QED
    BY <2>1, <2>2 DEF PoolSound
<1> QED
  BY <1>1, <1>9, <1>10, <1>11, ConfigUnchanged, PoolFrame

----------------------------------------------------------------------------
(* What strangers send *)

LEMMA StraySolPreserves ==
    ASSUME IndInv, NEW p \in Pools, NEW n \in 1..MaxStray, StraySol(p, n)
    PROVE  IndInv'
<1>1. /\ PoolTyped(p) /\ PoolSound(p) /\ Exists(p) /\ config.layout # "absent"
      /\ stray[p].sol + n <= MaxStray
      /\ UNCHANGED <<config, pools, tokens, raydium, paid, quote>>
  BY PoolAccounts DEF StraySol
<1>2. /\ n \in Nat /\ sol[p] \in Nat /\ stray[p].sol \in Nat /\ pools[p].realSol \in Int
  BY <1>1, ParameterAssumption, PoolHistoryTyped DEF PoolTyped, CurvePool, U64
<1>3. sol'[p] = sol[p] + n /\ sol' = [sol EXCEPT ![p] = sol'[p]]
  BY DEF StraySol, IndInv, TypeOK
<1>4. /\ stray'[p] = [sol |-> stray[p].sol + n, tokens |-> stray[p].tokens]
      /\ stray' = [stray EXCEPT ![p] = stray'[p]]
  <2>1. PICK q : q = [stray[p] EXCEPT !.sol = @ + n]
    OBVIOUS
  <2>2. q = [sol |-> stray[p].sol + n, tokens |-> stray[p].tokens]
    BY <1>1, <2>1 DEF PoolTyped
  <2>3. stray' = [stray EXCEPT ![p] = q] /\ stray'[p] = q
    BY <2>1 DEF StraySol, IndInv, TypeOK
  <2> QED
    BY <2>2, <2>3
<1>5. OnlyPool(p)
  BY <1>1, <1>3, <1>4, WrittenBack DEF OnlyPool
<1>6. PoolTyped(p)'
  <2>1. stray[p].sol + n \in 0..MaxStray /\ sol[p] + n \in Nat
    BY <1>1, <1>2, ParameterAssumption
  <2> QED
    BY <1>1, <1>3, <1>4, <2>1 DEF PoolTyped
<1>7. PoolSound(p)'
  <2>1. Untouched(p)' /\ BooksOf(p)' /\ FeesOf(p)' /\ PriceOf(p)'
    BY <1>1 DEF PoolSound, Untouched, BooksOf, FeesOf, PriceOf, IsActive, Exists, PoolStatus
  <2>2. VaultsOf(p)'
    <3>1. /\ sol[p] = pools[p].realSol + stray[p].sol
          /\ tokens[p].vault = pools[p].realTok + stray[p].tokens
      BY <1>1 DEF PoolSound, VaultsOf
    <3>2. sol'[p] = pools[p].realSol + stray'[p].sol
      BY <1>2, <1>3, <1>4, <3>1
    <3> QED
      BY <1>1, <1>4, <3>1, <3>2 DEF VaultsOf, Exists
  <2> QED
    BY <2>1, <2>2 DEF PoolSound
<1> QED
  BY <1>1, <1>5, <1>6, <1>7, ConfigUnchanged, PoolFrame

LEMMA StrayTokenPreserves ==
    ASSUME IndInv, NEW p \in Pools, StrayToken(p)
    PROVE  IndInv'
<1>1. /\ PoolTyped(p) /\ PoolSound(p) /\ Exists(p) /\ config.layout # "absent"
      /\ stray[p].tokens < MaxStray /\ tokens[p].outside > 0
      /\ UNCHANGED <<config, pools, sol, raydium, paid, quote>>
  BY PoolAccounts DEF StrayToken
<1>2. /\ tokens[p].vault \in Nat /\ tokens[p].outside \in Nat /\ stray[p].tokens \in Nat
      /\ pools[p].realTok \in Int
  BY <1>1, PoolHistoryTyped DEF PoolTyped, CurvePool, U64
<1>3. /\ tokens'[p] = [vault |-> tokens[p].vault + 1, outside |-> tokens[p].outside - 1]
      /\ tokens' = [tokens EXCEPT ![p] = tokens'[p]]
  <2>1. PICK q : q = [tokens[p] EXCEPT !.vault = @ + 1, !.outside = @ - 1]
    OBVIOUS
  <2>2. q = [vault |-> tokens[p].vault + 1, outside |-> tokens[p].outside - 1]
    BY <1>1, <2>1 DEF PoolTyped
  <2>3. tokens' = [tokens EXCEPT ![p] = q] /\ tokens'[p] = q
    BY <2>1 DEF StrayToken, IndInv, TypeOK
  <2> QED
    BY <2>2, <2>3
<1>4. /\ stray'[p] = [sol |-> stray[p].sol, tokens |-> stray[p].tokens + 1]
      /\ stray' = [stray EXCEPT ![p] = stray'[p]]
  <2>1. PICK q : q = [stray[p] EXCEPT !.tokens = @ + 1]
    OBVIOUS
  <2>2. q = [sol |-> stray[p].sol, tokens |-> stray[p].tokens + 1]
    BY <1>1, <2>1 DEF PoolTyped
  <2>3. stray' = [stray EXCEPT ![p] = q] /\ stray'[p] = q
    BY <2>1 DEF StrayToken, IndInv, TypeOK
  <2> QED
    BY <2>2, <2>3
<1>5. OnlyPool(p)
  BY <1>1, <1>3, <1>4, WrittenBack DEF OnlyPool
<1>6. PoolTyped(p)'
  <2>1. /\ stray[p].tokens + 1 \in 0..MaxStray
        /\ tokens[p].vault + 1 \in Nat /\ tokens[p].outside - 1 \in Nat
    BY <1>1, <1>2, ParameterAssumption
  <2> QED
    BY <1>1, <1>3, <1>4, <2>1 DEF PoolTyped
<1>7. PoolSound(p)'
  <2>1. Untouched(p)' /\ BooksOf(p)' /\ PriceOf(p)'
    BY <1>1 DEF PoolSound, Untouched, BooksOf, PriceOf, IsActive, Exists, PoolStatus
  <2>2. FeesOf(p)'
    <3>1. stray'[p].sol = stray[p].sol
      BY <1>4
    <3> QED
      BY <1>1, <3>1 DEF PoolSound, FeesOf, Exists
  <2>3. VaultsOf(p)'
    <3>1. /\ sol[p] = pools[p].realSol + stray[p].sol
          /\ tokens[p].vault = pools[p].realTok + stray[p].tokens
      BY <1>1 DEF PoolSound, VaultsOf
    <3>2. tokens'[p].vault = pools[p].realTok + stray'[p].tokens
      BY <1>2, <1>3, <1>4, <3>1
    <3> QED
      BY <1>1, <1>4, <3>1, <3>2 DEF VaultsOf, Exists
  <2> QED
    BY <2>1, <2>2, <2>3 DEF PoolSound
<1> QED
  BY <1>1, <1>5, <1>6, <1>7, ConfigUnchanged, PoolFrame

----------------------------------------------------------------------------
(* The invariant *)

LEMMA NextPreserves ==
    ASSUME IndInv, [Next]_vars PROVE IndInv'
<1>1. ASSUME AdminStep PROVE IndInv'
  BY <1>1, AdminPreserves
<1>2. ASSUME CreateStep PROVE IndInv'
  BY <1>2, CreateTokenPreserves DEF CreateStep
<1>3. ASSUME TradeStep PROVE IndInv'
  <2>1. PICK p \in Pools :
          \/ \E n \in SolAmounts : Buy(p, n, 0) /\ UNCHANGED quote
          \/ \E n \in TokenAmounts : Sell(p, n, 0) /\ UNCHANGED quote
          \/ \E side \in {"buy", "sell"}, n \in QuotedAmounts : SignQuote(p, side, n)
          \/ LandQuote(p)
    BY <1>3 DEF TradeStep
  <2>2. quote[p] \in Quote /\ quote = [quote EXCEPT ![p] = quote[p]]
    BY PoolAccounts, WrittenBack DEF PoolTyped
  <2>3. ASSUME NEW n \in SolAmounts, Buy(p, n, 0), UNCHANGED quote PROVE IndInv'
    <3>1. n \in Nat
      BY ParameterAssumption
    <3> QED
      BY <2>2, <2>3, <3>1, BuyPreserves
  <2>4. ASSUME NEW n \in TokenAmounts, Sell(p, n, 0), UNCHANGED quote PROVE IndInv'
    <3>1. n \in Nat
      BY ParameterAssumption
    <3> QED
      BY <2>2, <2>4, <3>1, SellPreserves
  <2>5. ASSUME NEW side \in {"buy", "sell"}, NEW n \in QuotedAmounts, SignQuote(p, side, n)
        PROVE  IndInv'
    BY <2>5, SignQuotePreserves
  <2>6. CASE LandQuote(p)
    BY <2>6, LandQuotePreserves
  <2> QED
    BY <2>1, <2>3, <2>4, <2>5, <2>6
<1>4. ASSUME FeeStep PROVE IndInv'
  <2>1. ASSUME NEW c \in Creators, NEW p \in Pools, ClaimCreatorFees(c, p) PROVE IndInv'
    BY <2>1, ClaimCreatorPreserves
  <2>2. ASSUME NEW t \in Treasuries, NEW batch \in SUBSET Pools, ClaimPlatform(t, batch)
        PROVE  IndInv'
    BY <2>2, ClaimPlatformPreserves
  <2> QED
    BY <1>4, <2>1, <2>2, FeeSteps
<1>5. ASSUME EndStep PROVE IndInv'
  BY <1>5, GraduatePreserves, ClosePreserves DEF EndStep
<1>6. ASSUME StrayStep PROVE IndInv'
  BY <1>6, StraySolPreserves, StrayTokenPreserves DEF StrayStep
<1>7. CASE UNCHANGED vars
  BY <1>7 DEF vars, IndInv, TypeOK, ConfigSound, PoolSound, Untouched, BooksOf, VaultsOf, FeesOf,
              PriceOf, IsActive, Exists
<1> QED
  BY <1>1, <1>2, <1>3, <1>4, <1>5, <1>6, <1>7 DEF Next

\* No instruction, in any order, by any signer, leaves the inductive invariant.
THEOREM Invariance == Spec => []IndInv
BY InitIndInv, NextPreserves, PTL DEF Spec

\* Every account keeps its type.
THEOREM TypeCorrect == Spec => []TypeOK
<1>1. IndInv => TypeOK
  BY DEF IndInv
<1> QED
  BY <1>1, Invariance, PTL

\* Virtual reserves and real balances never drift apart.
THEOREM BooksAlwaysMatch == Spec => []BooksMatch
BY IndInvImplies, Invariance, PTL

\* The vaults hold what the books say, and what strangers sent.
THEOREM VaultsAreBacked == Spec => []VaultsBacked
BY IndInvImplies, Invariance, PTL

\* Fees are paid once, to their owner, and in full before a pool is closed.
THEOREM FeesArePaidOnce == Spec => []FeesPaidOnce
BY IndInvImplies, Invariance, PTL

\* Raydium opens at the curve's last price.
THEOREM PriceIsContinued == Spec => []PriceContinues
BY IndInvImplies, Invariance, PTL

----------------------------------------------------------------------------
(* Graduation stays open *)

LEMMA OpenByInvariant == IndInv => GraduationOpen
<1> SUFFICES ASSUME IndInv, NEW p \in Pools, ConfigLoads, IsActive(p),
                    ReachedThreshold(pools[p]), SolForRaydium(pools[p]) >= 0
             PROVE  /\ TokensForRaydium(pools[p]) \in 0..pools[p].realTok
                    /\ pools[p].realTok <= tokens[p].vault
                    /\ NetSol(pools[p]) <= sol[p]
                    /\ \/ VaultMayHold(sol[p] - NetSol(pools[p]))
                       \/ CreatorUnclaimed(pools[p]) > 0 /\ MayClaimCreator(p)
                       \/ PlatformUnclaimed(pools[p]) > 0 /\ MayClaimPlatform(p)
                       \/ Unclaimed(pools[p]) = 0 /\ stray[p].sol > 0
  BY DEF GraduationOpen
<1> DEFINE b == pools[p]
           net == NetSol(b)
           c == CreatorUnclaimed(b)
           t == PlatformUnclaimed(b)
           rs == b.realSol
           st == stray[p].sol
<1>1. /\ PoolTyped(p) /\ ActiveSound(p, b, sol[p], tokens[p].vault)
      /\ config.layout # "absent"
  BY PoolAccounts, ActiveIsSound
<1>2. /\ rs \in Nat /\ c \in Nat /\ t \in Nat /\ b.vSol \in Nat /\ b.realTok \in Nat
      /\ sol[p] = rs + st /\ st \in Nat
      /\ tokens[p].vault = b.realTok + stray[p].tokens /\ stray[p].tokens \in Nat
  <2>1. b \in CurvePool
    BY <1>1 DEF PoolTyped
  <2>2. /\ b.creatorEarned \in Int /\ b.creatorClaimed \in Int
        /\ b.platformEarned \in Int /\ b.platformClaimed \in Int
        /\ rs \in Nat /\ b.vSol \in Nat /\ b.realTok \in Nat
    BY <2>1, ParameterAssumption DEF CurvePool, U64
  <2>3. c \in Nat /\ t \in Nat
    BY <1>1, <2>2 DEF ActiveSound, CreatorUnclaimed, PlatformUnclaimed
  <2> QED
    BY <1>1, <2>2, <2>3, PoolHistoryTyped DEF ActiveSound
<1>3. net = rs - (c + t) /\ Unclaimed(b) = c + t
  BY DEF NetSol, Unclaimed
<1>4. RentReimbursement \in Nat /\ RentExempt \in Nat /\ RentExempt <= RentReimbursement
  BY ParameterAssumption
<1>5. net >= RentReimbursement
  <2>1. net - RentReimbursement >= 0
    BY DEF SolForRaydium
  <2>2. net \in Int
    BY <1>2, <1>3
  <2> HIDE DEF net
  <2> QED
    BY <1>4, <2>1, <2>2
<1>6. b.vSol > 0 /\ net >= 0
  <2>1. net = b.vSol - config.virtualSol
    BY <1>1 DEF ActiveSound
  <2>2. config.threshold \in Nat /\ config.threshold > 0 /\ config.virtualSol \in Nat
    <3>1. config \in CurveConfig /\ config.threshold > 0
      BY <1>1 DEF IndInv, TypeOK, ConfigSound
    <3>2. config.threshold \in 0..MaxU64 /\ config.virtualSol \in VirtualSols \cup {0}
      BY <3>1 DEF CurveConfig
    <3> QED
      BY <3>1, <3>2, ParameterAssumption
  <2>3. net >= config.threshold
    BY DEF ReachedThreshold
  <2>4. net \in Int
    BY <1>2, <1>3
  <2> HIDE DEF net
  <2> QED
    BY <1>2, <2>1, <2>2, <2>3, <2>4
<1>7. TokensForRaydium(b) \in 0..b.realTok
  <2>1. TokensForRaydium(b) \in Nat /\ TokensForRaydium(b) <= b.realTok
    BY <1>6, HandedBounds
  <2> QED
    BY <1>2, <2>1
<1>8. b.realTok <= tokens[p].vault
  BY <1>2
<1>9. /\ net <= sol[p]
      /\ c <= sol[p] /\ c <= rs /\ sol[p] - c >= RentExempt
      /\ t <= sol[p] /\ t <= rs /\ sol[p] - t >= RentExempt
  <2>1. net \in Int
    BY <1>2, <1>3
  <2> HIDE DEF net, c, t, rs, st
  <2> QED
    BY <1>2, <1>3, <1>4, <1>5, <2>1
<1>10. CASE c > 0
  BY <1>7, <1>8, <1>9, <1>10 DEF MayClaimCreator, MayPay, VaultMayHold
<1>11. CASE t > 0
  BY <1>7, <1>8, <1>9, <1>11 DEF MayClaimPlatform, MayPay, VaultMayHold
<1>12. CASE c = 0 /\ t = 0
  <2>1. Unclaimed(b) = 0
    BY <1>3, <1>12
  <2>2. CASE st > 0
    BY <1>7, <1>8, <1>9, <2>1, <2>2
  <2>3. CASE st = 0
    <3>1. sol[p] - net = 0
      <4> HIDE DEF net, c, t, rs, st
      <4> QED
        BY <1>2, <1>3, <1>12, <2>3
    <3> QED
      BY <1>7, <1>8, <1>9, <3>1 DEF VaultMayHold
  <2> QED
    BY <1>2, <2>2, <2>3
<1> QED
  BY <1>2, <1>10, <1>11, <1>12

\* A pool that reached its threshold can graduate, but for a remainder of fees
\* that can be claimed first, or of lamports that strangers sent.
THEOREM GraduationIsOpen == Spec => []GraduationOpen
BY OpenByInvariant, Invariance, PTL

\* A graduated pool whose fees are paid can be closed unless a stranger sent it
\* tokens: the burn and the listing left none of the pool's own in the vault.
THEOREM ClosingIsOpen == Spec => []ClosingOpen
<1>1. IndInv => ClosingOpen
  <2> SUFFICES ASSUME IndInv, NEW p \in Pools, pools[p].status = "Graduated",
                      Unclaimed(pools[p]) = 0
               PROVE  Closable(p) <=> stray[p].tokens = 0
    BY DEF ClosingOpen
  <2> DEFINE b == pools[p]
  <2>1. /\ PoolTyped(p) /\ b \in CurvePool
        /\ BooksOf(p) /\ VaultsOf(p) /\ FeesOf(p)
    BY PoolAccounts DEF PoolSound, PoolTyped
  <2>2. tokens[p].vault = stray[p].tokens
    <3>1. /\ b.realTok = 0 /\ tokens[p].vault = b.realTok + stray[p].tokens
          /\ stray[p].tokens \in Nat
      BY <2>1, ParameterAssumption DEF BooksOf, VaultsOf, Exists, PoolStatus, PoolTyped
    <3> QED
      BY <3>1
  <2>3. CreatorUnclaimed(b) = 0 /\ PlatformUnclaimed(b) = 0
    BY <2>1 DEF FeesOf, Unclaimed, CreatorUnclaimed, PlatformUnclaimed, CurvePool, U64
  <2> HIDE DEF b
  <2> QED
    BY <2>2, <2>3 DEF Closable, b
<1> QED
  BY <1>1, Invariance, PTL

----------------------------------------------------------------------------
(* What a step may do to one pool *)

\* A claim: reserves and trades as they were, SOL only as fees that were due.
PaysFees(q) ==
    /\ Exists(q)
    /\ pools'[q].status = pools[q].status /\ pools'[q].creator = pools[q].creator
    /\ pools'[q].vSol = pools[q].vSol /\ pools'[q].vTok = pools[q].vTok
    /\ pools'[q].trades = pools[q].trades
    /\ pools[q].realSol - pools'[q].realSol = Unclaimed(pools[q]) - Unclaimed(pools'[q])

\* The ways in which a step treats a pool.
PoolStep(q) ==
    \/ pools'[q] = pools[q] /\ raydium'[q] = raydium[q]
    \/ /\ pools[q].status = "None"
       /\ \E c \in Creators, d \in SolAmounts \cup {0} : CreateToken(c, q, d)
    \/ \E n \in Nat, m \in Nat : Buy(q, n, m) \/ Sell(q, n, m)
    \/ PaysFees(q) /\ raydium'[q] = raydium[q]
    \/ /\ IsActive(q) /\ pools'[q].status = "Graduated"
       /\ pools'[q].trades = pools[q].trades
    \/ /\ pools[q].status = "Graduated" /\ pools'[q] = [pools[q] EXCEPT !.status = "Closed"]
       /\ raydium'[q] = raydium[q]

LEMMA ClaimPaysFees ==
    ASSUME IndInv, NEW q \in Pools, Exists(q), NEW c, c = CreatorUnclaimed(pools[q]),
           pools'[q] = [pools[q] EXCEPT !.creatorClaimed = @ + c, !.realSol = @ - c]
    PROVE  PaysFees(q)
<1> DEFINE b == pools[q]
           b2 == pools'[q]
<1>1. b \in CurvePool
  BY PoolAccounts DEF PoolTyped
<1>2. /\ b.realSol \in Int /\ b.creatorEarned \in Int /\ b.creatorClaimed \in Int
      /\ b.platformEarned \in Int /\ b.platformClaimed \in Int
  BY <1>1 DEF CurvePool, U64
<1>3. /\ b2.status = b.status /\ b2.creator = b.creator /\ b2.vSol = b.vSol /\ b2.vTok = b.vTok
      /\ b2.trades = b.trades /\ b2.realSol = b.realSol - c
      /\ b2.creatorEarned = b.creatorEarned /\ b2.creatorClaimed = b.creatorClaimed + c
      /\ b2.platformEarned = b.platformEarned /\ b2.platformClaimed = b.platformClaimed
  BY <1>1 DEF CurvePool
<1>4. b.realSol - b2.realSol = Unclaimed(b) - Unclaimed(b2)
  <2> DEFINE rs == b.realSol  ce == b.creatorEarned  cc == b.creatorClaimed
             due == b.platformEarned - b.platformClaimed
  <2>1. rs \in Int /\ ce \in Int /\ cc \in Int /\ due \in Int
    BY <1>2
  <2>2. /\ Unclaimed(b) = (ce - cc) + due /\ Unclaimed(b2) = (ce - (cc + c)) + due
        /\ b2.realSol = rs - c /\ c = ce - cc
    BY <1>3 DEF Unclaimed, CreatorUnclaimed, PlatformUnclaimed
  <2> HIDE DEF rs, ce, cc, due, b2
  <2>3. rs - (rs - c) = ((ce - cc) + due) - ((ce - (cc + c)) + due)
    BY <2>1, <2>2
  <2> QED
    BY <2>2, <2>3 DEF rs
<1> QED
  BY <1>3, <1>4 DEF PaysFees

LEMMA PlatformPaysFees ==
    ASSUME IndInv, NEW q \in Pools, Exists(q), pools'[q] = PlatformClaimed(pools[q])
    PROVE  PaysFees(q)
<1> DEFINE b == pools[q]
           b2 == pools'[q]
           t == PlatformUnclaimed(b)
<1>1. b \in CurvePool
  BY PoolAccounts DEF PoolTyped
<1>2. /\ b.realSol \in Int /\ b.creatorEarned \in Int /\ b.creatorClaimed \in Int
      /\ b.platformEarned \in Int /\ b.platformClaimed \in Int
  BY <1>1 DEF CurvePool, U64
<1>3. b2 = [b EXCEPT !.platformClaimed = b.platformEarned, !.realSol = b.realSol - t]
  BY DEF PlatformClaimed
<1>4. /\ b2.status = b.status /\ b2.creator = b.creator /\ b2.vSol = b.vSol /\ b2.vTok = b.vTok
      /\ b2.trades = b.trades /\ b2.realSol = b.realSol - t
      /\ b2.creatorEarned = b.creatorEarned /\ b2.creatorClaimed = b.creatorClaimed
      /\ b2.platformEarned = b.platformEarned /\ b2.platformClaimed = b.platformEarned
  <2> HIDE DEF t
  <2> QED
    BY <1>1, <1>3 DEF CurvePool
<1>5. b.realSol - b2.realSol = Unclaimed(b) - Unclaimed(b2)
  <2> DEFINE rs == b.realSol  pe == b.platformEarned  pc == b.platformClaimed
             due == b.creatorEarned - b.creatorClaimed
  <2>1. rs \in Int /\ pe \in Int /\ pc \in Int /\ due \in Int
    BY <1>2
  <2>2. /\ Unclaimed(b) = due + (pe - pc) /\ Unclaimed(b2) = due + (pe - pe)
        /\ b2.realSol = rs - t /\ t = pe - pc
    BY <1>4 DEF Unclaimed, CreatorUnclaimed, PlatformUnclaimed
  <2> HIDE DEF rs, pe, pc, due, b2, t
  <2>3. rs - (rs - t) = (due + (pe - pc)) - (due + (pe - pe))
    BY <2>1, <2>2
  <2> QED
    BY <2>2, <2>3 DEF rs
<1> QED
  BY <1>4, <1>5 DEF PaysFees

\* A step treats every pool in one of these ways.
LEMMA StepByPool ==
    ASSUME IndInv, [Next]_vars, NEW q \in Pools PROVE PoolStep(q)
<1> DEFINE Kept == pools'[q] = pools[q] /\ raydium'[q] = raydium[q]
<1>1. /\ pools \in [Pools -> CurvePool] /\ raydium \in [Pools -> Listing] /\ quote[q] \in Quote
      /\ pools[q] \in CurvePool
  BY DEF IndInv, TypeOK
<1>2. CASE AdminStep \/ StrayStep \/ UNCHANGED vars
  <2>1. AdminStep => UNCHANGED <<pools, raydium>>
    BY AdminKeepsAccounts DEF accounts
  <2>2. StrayStep \/ UNCHANGED vars => UNCHANGED <<pools, raydium>>
    BY DEF StrayStep, StraySol, StrayToken, vars
  <2> QED
    BY <1>2, <2>1, <2>2 DEF PoolStep
<1>3. ASSUME NEW c \in Creators, NEW p \in Pools, NEW d \in SolAmounts \cup {0}, CreateToken(c, p, d)
      PROVE  PoolStep(q)
  <2>1. CASE q = p
    BY <1>3, <2>1 DEF CreateToken, PoolStep
  <2>2. CASE q # p
    BY <1>1, <1>3, <2>2 DEF CreateToken, PoolStep
  <2> QED
    BY <2>1, <2>2
<1>4. ASSUME NEW p \in Pools, NEW n \in Nat, NEW m \in Nat, Buy(p, n, m) \/ Sell(p, n, m)
      PROVE  PoolStep(q)
  <2>1. CASE q = p
    BY <1>4, <2>1 DEF PoolStep
  <2>2. CASE q # p
    <3>1. Kept
      BY <1>1, <1>4, <2>2 DEF Buy, Sell
    <3> QED
      BY <3>1 DEF PoolStep
  <2> QED
    BY <2>1, <2>2
<1>5. ASSUME NEW p \in Pools, NEW side \in {"buy", "sell"}, NEW n \in QuotedAmounts,
             SignQuote(p, side, n)
      PROVE  PoolStep(q)
  BY <1>5 DEF SignQuote, PoolStep
<1>6. ASSUME NEW p \in Pools, LandQuote(p) PROVE PoolStep(q)
  <2>1. quote[p].amount \in Nat /\ quote[p].min \in Nat
    BY DEF IndInv, TypeOK, Quote
  <2>2. Buy(p, quote[p].amount, quote[p].min) \/ Sell(p, quote[p].amount, quote[p].min)
    BY <1>6 DEF LandQuote
  <2> QED
    BY <1>4, <2>1, <2>2
<1>7. ASSUME NEW c \in Creators, NEW p \in Pools, ClaimCreatorFees(c, p) PROVE PoolStep(q)
  <2> DEFINE due == CreatorUnclaimed(pools[p])
  <2>1. /\ Exists(p) /\ UNCHANGED raydium
        /\ pools' = [pools EXCEPT ![p].creatorClaimed = @ + due, ![p].realSol = @ - due]
    BY <1>7 DEF ClaimCreatorFees
  <2>2. CASE q = p
    <3>1. pools'[q] = [pools[q] EXCEPT !.creatorClaimed = @ + due, !.realSol = @ - due]
      <4> HIDE DEF due
      <4> QED
        BY <1>1, <2>1, <2>2
    <3>2. PaysFees(q)
      BY <2>1, <2>2, <3>1, ClaimPaysFees
    <3> QED
      BY <2>1, <3>2 DEF PoolStep
  <2>3. CASE q # p
    BY <1>1, <2>1, <2>3 DEF PoolStep
  <2> QED
    BY <2>2, <2>3
<1>8. ASSUME NEW t \in Treasuries, NEW batch \in SUBSET Pools, ClaimPlatform(t, batch)
      PROVE  PoolStep(q)
  <2> DEFINE due == DueIn(batch)
  <2>1. /\ \A p \in batch : Exists(p)
        /\ pools' = [p \in Pools |-> IF p \in due THEN PlatformClaimed(pools[p]) ELSE pools[p]]
        /\ UNCHANGED raydium
    BY <1>8 DEF ClaimPlatform
  <2>2. CASE q \in due
    <3>1. Exists(q) /\ pools'[q] = PlatformClaimed(pools[q])
      BY <2>1, <2>2 DEF DueIn
    <3>2. PaysFees(q)
      BY <3>1, PlatformPaysFees
    <3> QED
      BY <2>1, <3>2 DEF PoolStep
  <2>3. CASE q \notin due
    <3>1. pools'[q] = pools[q]
      <4> HIDE DEF due
      <4> QED
        BY <2>1, <2>3
    <3> QED
      BY <2>1, <3>1 DEF PoolStep
  <2> QED
    BY <2>2, <2>3
<1>9. ASSUME NEW s \in Admins \cup Treasuries, NEW p \in Pools, Graduate(s, p) PROVE PoolStep(q)
  <2>1. CASE q = p
    <3>1. IsActive(q) /\ pools'[q] = Graduated(pools[q])
      BY <1>1, <1>9, <2>1 DEF Graduate
    <3>2. pools'[q].trades = pools[q].trades /\ pools'[q].status = "Graduated"
      BY <1>1, <3>1 DEF Graduated, CurvePool
    <3> QED
      BY <3>1, <3>2 DEF PoolStep
  <2>2. CASE q # p
    <3>1. Kept
      BY <1>1, <1>9, <2>2 DEF Graduate
    <3> QED
      BY <3>1 DEF PoolStep
  <2> QED
    BY <2>1, <2>2
<1>10. ASSUME NEW s \in Admins \cup Treasuries, NEW p \in Pools, CloseGraduatedPool(s, p)
       PROVE  PoolStep(q)
  <2>1. pools' = [pools EXCEPT ![p].status = "Closed"] /\ UNCHANGED raydium /\ Closable(p)
    BY <1>10 DEF CloseGraduatedPool
  <2>2. CASE q = p
    BY <1>1, <2>1, <2>2 DEF PoolStep, Closable
  <2>3. CASE q # p
    BY <1>1, <2>1, <2>3 DEF PoolStep
  <2> QED
    BY <2>2, <2>3
<1>11. CASE TradeStep
  <2>1. PICK p \in Pools :
          \/ \E n \in SolAmounts : Buy(p, n, 0)
          \/ \E n \in TokenAmounts : Sell(p, n, 0)
          \/ \E side \in {"buy", "sell"}, n \in QuotedAmounts : SignQuote(p, side, n)
          \/ LandQuote(p)
    BY <1>11 DEF TradeStep
  <2>2. SolAmounts \subseteq Nat /\ TokenAmounts \subseteq Nat /\ 0 \in Nat
    BY ParameterAssumption
  <2> QED
    BY <1>4, <1>5, <1>6, <2>1, <2>2
<1>12. CASE FeeStep
  BY <1>7, <1>8, <1>12, FeeSteps
<1> QED
  BY <1>2, <1>3, <1>9, <1>10, <1>11, <1>12 DEF Next, CreateStep, EndStep

----------------------------------------------------------------------------
(* What no step may do *)

LEMMA LeftForGoodStep ==
    ASSUME IndInv, [Next]_vars, NEW q \in Pools, pools[q].status \in {"Graduated", "Closed"}
    PROVE  /\ pools'[q].status \in {pools[q].status, "Closed"}
           /\ pools'[q].creator = pools[q].creator
           /\ raydium'[q] = raydium[q]
           /\ pools'[q].vSol = pools[q].vSol /\ pools'[q].vTok = pools[q].vTok
           /\ pools'[q].trades = pools[q].trades
           /\ pools[q].realSol - pools'[q].realSol = Unclaimed(pools[q]) - Unclaimed(pools'[q])
<1>1. PoolStep(q)
  BY StepByPool
<1>2. pools[q] \in CurvePool
  BY PoolAccounts DEF PoolTyped
<1>3. /\ pools[q].realSol \in Int /\ pools[q].creatorEarned \in Int
      /\ pools[q].creatorClaimed \in Int /\ pools[q].platformEarned \in Int
      /\ pools[q].platformClaimed \in Int
  BY <1>2 DEF CurvePool, U64
<1>4. Unclaimed(pools[q]) \in Int
  BY <1>3 DEF Unclaimed, CreatorUnclaimed, PlatformUnclaimed
<1>5. ~ IsActive(q) /\ pools[q].status # "None"
  BY DEF IsActive
<1>6. CASE pools'[q] = pools[q] /\ raydium'[q] = raydium[q]
  BY <1>3, <1>4, <1>6
<1>7. CASE PaysFees(q) /\ raydium'[q] = raydium[q]
  BY <1>7 DEF PaysFees
<1>8. CASE /\ pools[q].status = "Graduated" /\ pools'[q] = [pools[q] EXCEPT !.status = "Closed"]
           /\ raydium'[q] = raydium[q]
  <2>1. /\ pools'[q].status = "Closed" /\ pools'[q].creator = pools[q].creator
        /\ pools'[q].vSol = pools[q].vSol /\ pools'[q].vTok = pools[q].vTok
        /\ pools'[q].trades = pools[q].trades /\ pools'[q].realSol = pools[q].realSol
        /\ pools'[q].creatorEarned = pools[q].creatorEarned
        /\ pools'[q].creatorClaimed = pools[q].creatorClaimed
        /\ pools'[q].platformEarned = pools[q].platformEarned
        /\ pools'[q].platformClaimed = pools[q].platformClaimed
    BY <1>2, <1>8 DEF CurvePool
  <2>2. Unclaimed(pools'[q]) = Unclaimed(pools[q])
    BY <2>1 DEF Unclaimed, CreatorUnclaimed, PlatformUnclaimed
  <2> QED
    BY <1>3, <1>4, <1>8, <2>1, <2>2
<1> QED
  BY <1>1, <1>5, <1>6, <1>7, <1>8 DEF PoolStep, Buy, Sell

\* A graduated pool never returns to the curve, and pays only fees that were due.
THEOREM LeavesForGood == Spec => CurveLeftForGood
<1>1. IndInv /\ [Next]_vars =>
        \A p \in Pools : pools[p].status \in {"Graduated", "Closed"} =>
          /\ pools'[p].status \in {pools[p].status, "Closed"}
          /\ pools'[p].creator = pools[p].creator
          /\ raydium'[p] = raydium[p]
          /\ <<pools'[p].vSol, pools'[p].vTok, pools'[p].trades>>
               = <<pools[p].vSol, pools[p].vTok, pools[p].trades>>
          /\ pools[p].realSol - pools'[p].realSol
               = Unclaimed(pools[p]) - Unclaimed(pools'[p])
  BY LeftForGoodStep
<1> QED
  BY <1>1, Invariance, PTL DEF Spec, CurveLeftForGood

\* The reserves of pool q before and after a trade.
ProductKept(q) ==
    LET k == pools[q].vSol * pools[q].vTok
        kNext == pools'[q].vSol * pools'[q].vTok
    IN  /\ kNext <= k
        /\ k - kNext < IF pools'[q].vSol > pools[q].vSol THEN pools'[q].vSol
                                                       ELSE pools'[q].vTok

LEMMA BuyRounds ==
    ASSUME IndInv, NEW q \in Pools, NEW n \in Nat, NEW m \in Nat, Buy(q, n, m)
    PROVE  ProductKept(q)
<1> DEFINE b == pools[q]
           new == pools'[q]
           x == AfterFee(n)
<1>1. b \in CurvePool /\ pools \in [Pools -> CurvePool]
  BY DEF IndInv, TypeOK
<1>2. new = Bought(b, n)
  BY <1>1 DEF Buy
<1>3. new.vSol = b.vSol + x /\ new.vTok = b.vTok - SwapOut(x, b.vSol, b.vTok)
  BY <1>1, <1>2, BoughtFields DEF TokensOut
<1>4. x \in Nat /\ x > 0
  <2>1. x \in 0..n
    BY TradeFee
  <2>2. x > 0
    BY DEF Buy, MayBuy, BuyAnswers
  <2> QED
    BY <2>1, <2>2
<1>5. b.vSol \in Nat /\ b.vTok \in Nat
  BY <1>1, ParameterAssumption DEF CurvePool, U64
<1> DEFINE s == b.vSol
           t == b.vTok
           left == t - SwapOut(x, s, t)
<1>6. /\ (s + x) * left <= s * t
      /\ s * t - (s + x) * left < s + x
  <2>1. s \in Nat /\ t \in Nat /\ x \in Nat /\ s + x > 0
    BY <1>4, <1>5
  <2> HIDE DEF s, t, x
  <2> QED
    BY <2>1, SwapRounding
<1>7. new.vSol > b.vSol
  BY <1>3, <1>4, <1>5
<1> QED
  BY <1>3, <1>6, <1>7 DEF ProductKept

LEMMA SellRounds ==
    ASSUME IndInv, NEW q \in Pools, NEW n \in Nat, NEW m \in Nat, Sell(q, n, m)
    PROVE  ProductKept(q)
<1> DEFINE b == pools[q]
           new == pools'[q]
           out == SwapOut(n, b.vTok, b.vSol)
<1>1. b \in CurvePool /\ pools \in [Pools -> CurvePool]
  BY DEF IndInv, TypeOK
<1>2. new = Sold(b, n)
  BY <1>1 DEF Sell
<1>3. new.vTok = b.vTok + n /\ new.vSol = b.vSol - out
  BY <1>1, <1>2, SoldFields DEF SolOut
<1>4. n > 0 /\ out > 0
  BY DEF Sell, SellAnswers, SolOut
<1>5. b.vSol \in Nat /\ b.vTok \in Nat
  BY <1>1, ParameterAssumption DEF CurvePool, U64
<1> DEFINE s == b.vSol
           t == b.vTok
<1>6. /\ (t + n) * (s - out) <= t * s
      /\ t * s - (t + n) * (s - out) < t + n
      /\ out \in Nat
  <2>1. s \in Nat /\ t \in Nat /\ t + n > 0
    BY <1>4, <1>5
  <2> HIDE DEF s, t
  <2>2. out \in 0..s
    BY <2>1, SwapBounds DEF s, t
  <2>3. out = SwapOut(n, t, s)
    BY DEF s, t
  <2> HIDE DEF out
  <2> QED
    BY <2>1, <2>2, <2>3, SwapRounding
<1>7. ~ (new.vSol > b.vSol)
  <2> HIDE DEF out
  <2> QED
    BY <1>3, <1>4, <1>5, <1>6
<1>8. t * s = s * t /\ (t + n) * (s - out) = (s - out) * (t + n)
  <2> DEFINE u == t + n
             v == s - out
  <2>1. s \in Int /\ t \in Int /\ u \in Int /\ v \in Int
    <3> HIDE DEF out
    <3> QED
      BY <1>5, <1>6
  <2> HIDE DEF s, t, u, v
  <2>2. t * s = s * t /\ u * v = v * u
    BY <2>1
  <2> QED
    BY <2>2 DEF u, v
<1> QED
  BY <1>3, <1>6, <1>7, <1>8 DEF ProductKept

\* No trade raises the product of the reserves, or lowers it by as much as one
\* unit of the reserve that pays out.
THEOREM RoundingIsBounded == Spec => RoundingBounded
<1>1. ASSUME IndInv, [Next]_vars, NEW p \in Pools, pools[p].status = "Active",
             pools'[p].trades # pools[p].trades
      PROVE  ProductKept(p)
  <2>1. \E n \in Nat, m \in Nat : Buy(p, n, m) \/ Sell(p, n, m)
    BY <1>1, StepByPool DEF PoolStep, PaysFees
  <2> QED
    BY <1>1, <2>1, BuyRounds, SellRounds
<1>2. IndInv /\ [Next]_vars =>
        \A p \in Pools : pools[p].status = "Active" /\ pools'[p].trades # pools[p].trades =>
          LET k == pools[p].vSol * pools[p].vTok
              kNext == pools'[p].vSol * pools'[p].vTok
          IN  /\ kNext <= k
              /\ k - kNext < IF pools'[p].vSol > pools[p].vSol THEN pools'[p].vSol
                                                             ELSE pools'[p].vTok
  BY <1>1 DEF ProductKept
<1> QED
  BY <1>2, Invariance, PTL DEF Spec, RoundingBounded

\* What a signed trade is owed of pool q by the step that settles it.
Settled(q) ==
    IF quote[q].side = "buy"
    THEN /\ sol'[q] - sol[q] = quote[q].amount
         /\ tokens'[q].outside - tokens[q].outside >= quote[q].min
    ELSE /\ sol[q] - sol'[q] >= quote[q].min
         /\ tokens[q].outside - tokens'[q].outside = quote[q].amount

LEMMA BuyPays ==
    ASSUME IndInv, NEW q \in Pools, NEW n \in Nat, NEW m \in Nat, Buy(q, n, m)
    PROVE  sol'[q] - sol[q] = n /\ tokens'[q].outside - tokens[q].outside >= m
<1> DEFINE out == TokensOut(pools[q], n)
<1>1. /\ sol \in [Pools -> Nat] /\ tokens \in [Pools -> [vault : Nat, outside : Nat]]
      /\ pools[q] \in CurvePool
  BY DEF IndInv, TypeOK
<1>2. sol' = [sol EXCEPT ![q] = @ + n]
  BY DEF Buy
<1>3. tokens' = [tokens EXCEPT ![q].vault = @ - out, ![q].outside = @ + out] /\ out >= m
  BY DEF Buy
<1>4. out \in Int
  <2> DEFINE s == pools[q].vSol
             t == pools[q].vTok
             x == AfterFee(n)
  <2>1. s \in Nat /\ t \in Nat
    BY <1>1, ParameterAssumption DEF CurvePool, U64
  <2>2. x \in Nat /\ s > 0
    <3>1. x \in 0..n
      BY TradeFee
    <3>2. s > 0
      BY DEF Buy, MayBuy, BuyAnswers
    <3> QED
      BY <3>1, <3>2
  <2> HIDE DEF s, t, x
  <2>3. SwapOut(x, s, t) \in 0..t
    BY <2>1, <2>2, SwapBounds
  <2>4. SwapOut(x, s, t) \in Int
    BY <2>1, <2>3
  <2> QED
    BY <2>4 DEF TokensOut, s, t, x
<1> HIDE DEF out
<1>5. sol'[q] = sol[q] + n /\ tokens'[q].outside = tokens[q].outside + out
  BY <1>1, <1>2, <1>3
<1>6. sol[q] \in Nat /\ tokens[q].outside \in Nat
  BY <1>1
<1> QED
  BY <1>3, <1>4, <1>5, <1>6

LEMMA SellPays ==
    ASSUME IndInv, NEW q \in Pools, NEW n \in Nat, NEW m \in Nat, Sell(q, n, m)
    PROVE  sol[q] - sol'[q] >= m /\ tokens[q].outside - tokens'[q].outside = n
<1> DEFINE out == AfterFee(SolOut(pools[q], n))
<1>1. /\ sol \in [Pools -> Nat] /\ tokens \in [Pools -> [vault : Nat, outside : Nat]]
      /\ pools[q] \in CurvePool
  BY DEF IndInv, TypeOK
<1>2. sol' = [sol EXCEPT ![q] = @ - out] /\ out >= m
  BY DEF Sell, SellLimit
<1>3. tokens' = [tokens EXCEPT ![q].vault = @ + n, ![q].outside = @ - n]
  BY DEF Sell
<1>4. out \in Int
  <2> DEFINE s == pools[q].vSol
             t == pools[q].vTok
  <2>1. s \in Nat /\ t \in Nat
    BY <1>1, ParameterAssumption DEF CurvePool, U64
  <2>2. t > 0
    BY DEF Sell, SellAnswers
  <2> HIDE DEF s, t
  <2>3. SwapOut(n, t, s) \in 0..s
    BY <2>1, <2>2, SwapBounds
  <2>4. SwapOut(n, t, s) \in Nat
    BY <2>1, <2>3
  <2>5. SolOut(pools[q], n) \in Nat
    BY <2>4 DEF SolOut, s, t
  <2>6. AfterFee(SolOut(pools[q], n)) \in 0..SolOut(pools[q], n)
    BY <2>5, TradeFee
  <2> QED
    BY <2>5, <2>6
<1> HIDE DEF out
<1>5. sol'[q] = sol[q] - out /\ tokens'[q].outside = tokens[q].outside - n
  BY <1>1, <1>2, <1>3
<1>6. sol[q] \in Nat /\ tokens[q].outside \in Nat
  BY <1>1
<1> QED
  BY <1>2, <1>4, <1>5, <1>6

\* Only landing settles a signed trade.
LEMMA OnlyLandingSettles ==
    ASSUME IndInv, [Next]_vars, NEW q \in Pools, quote[q].side # "none", quote'[q].side = "none"
    PROVE  LandQuote(q)
<1>1. quote \in [Pools -> Quote] /\ quote[q] # NoQuote
  BY DEF IndInv, TypeOK, NoQuote
<1>2. quote' # quote
  OBVIOUS
<1>3. ~ (AdminStep \/ CreateStep \/ FeeStep \/ EndStep \/ StrayStep \/ UNCHANGED vars)
  <2>1. CASE AdminStep
    BY <1>2, <2>1, AdminKeepsAccounts DEF accounts
  <2>2. CASE CreateStep
    BY <1>2, <2>2 DEF CreateStep, CreateToken
  <2>3. CASE FeeStep
    BY <1>2, <2>3, FeeSteps DEF ClaimCreatorFees, ClaimPlatform
  <2>4. CASE EndStep
    BY <1>2, <2>4 DEF EndStep, Graduate, CloseGraduatedPool
  <2>5. CASE StrayStep
    BY <1>2, <2>5 DEF StrayStep, StraySol, StrayToken
  <2>6. ~ UNCHANGED vars
    BY <1>2 DEF vars
  <2> QED
    BY <2>1, <2>2, <2>3, <2>4, <2>5, <2>6
<1>4. PICK p \in Pools : \/ \E side \in {"buy", "sell"}, n \in QuotedAmounts : SignQuote(p, side, n)
                         \/ LandQuote(p)
  BY <1>2, <1>3 DEF Next, TradeStep
<1>5. ASSUME NEW side \in {"buy", "sell"}, NEW n \in QuotedAmounts, SignQuote(p, side, n)
      PROVE  FALSE
  <2>1. PICK min : quote' = [quote EXCEPT ![p] = [side |-> side, amount |-> n, min |-> min]]
    BY <1>5 DEF SignQuote
  <2>2. p # q
    BY <1>1, <1>5 DEF SignQuote
  <2>3. quote'[q] = quote[q]
    BY <2>1, <2>2
  <2> QED
    BY <2>3
<1>6. p = q
  BY <1>1, <1>4, <1>5 DEF LandQuote
<1> QED
  BY <1>4, <1>5, <1>6

\* A trade signed on a quote lands at the quote or better, or does not land.
THEOREM QuotesAreHonoured == Spec => QuoteHonoured
<1>1. ASSUME IndInv, [Next]_vars, NEW q \in Pools, quote[q].side # "none", quote'[q].side = "none"
      PROVE  Settled(q)
  <2>1. LandQuote(q)
    BY <1>1, OnlyLandingSettles
  <2>2. quote[q].amount \in Nat /\ quote[q].min \in Nat
    BY <1>1 DEF IndInv, TypeOK, Quote
  <2>3. CASE quote[q].side = "buy"
    BY <1>1, <2>1, <2>2, <2>3, BuyPays DEF LandQuote, Settled
  <2>4. CASE quote[q].side # "buy"
    BY <1>1, <2>1, <2>2, <2>4, SellPays DEF LandQuote, Settled
  <2> QED
    BY <2>3, <2>4
<1>2. IndInv /\ [Next]_vars =>
        \A p \in Pools : quote[p].side # "none" /\ quote'[p].side = "none" =>
          IF quote[p].side = "buy"
          THEN /\ sol'[p] - sol[p] = quote[p].amount
               /\ tokens'[p].outside - tokens[p].outside >= quote[p].min
          ELSE /\ sol[p] - sol'[p] >= quote[p].min
               /\ tokens[p].outside - tokens'[p].outside = quote[p].amount
  BY <1>1 DEF Settled
<1> QED
  BY <1>2, Invariance, PTL DEF Spec, QuoteHonoured

----------------------------------------------------------------------------
(* The administration implements the two-step handoff *)

LEMMA HandoffStep ==
    ASSUME IndInv, [Next]_vars PROVE [Handoff!Next]_(Handoff!vars)
<1>1. /\ config \in CurveConfig
      /\ config.layout = "absent" <=> config.admin = Default
      /\ config.layout = "absent" => config.pendingAdmin = Default
  BY DEF IndInv, TypeOK, ConfigSound
<1>2. ASSUME NEW a \in Admins, NEW t \in Treasuries, NEW c \in CreatorFees, NEW f \in PlatformFees,
             NEW g \in Thresholds, NEW s \in Supplies, NEW d \in Decimals, NEW v \in VirtualSols,
             Initialize(a, t, c, f, g, s, d, v)
      PROVE  Handoff!Appoint
  BY <1>1, <1>2 DEF Initialize, NewConfig, Handoff!Appoint
<1>3. ASSUME NEW a \in Admins, MigrateConfig(a) PROVE UNCHANGED Handoff!vars
  BY <1>1, <1>3 DEF MigrateConfig, CurveConfig, Handoff!vars
<1>4. ASSUME NEW a \in Admins, NEW c \in CreatorFees, NEW f \in PlatformFees, NEW g \in Thresholds,
             NEW t \in Treasuries, NEW n \in Admins \cup {Default},
             NEW x \in Switches, NEW y \in Switches, NEW z \in Switches,
             UpdateConfig(a, c, f, g, t, n, x, y, z)
      PROVE  Handoff!Propose
  <2>1. config.admin # Default
    BY <1>1, <1>4 DEF UpdateConfig, AdminSigns, ConfigLoads
  <2>2. config'.admin = config.admin /\ config'.pendingAdmin = n
    BY <1>1, <1>4 DEF UpdateConfig, CurveConfig
  <2> QED
    BY <2>1, <2>2 DEF Handoff!Propose
<1>5. ASSUME NEW a \in Admins, AcceptAdmin(a) PROVE Handoff!Accept
  <2>1. config'.admin = config.pendingAdmin /\ config'.pendingAdmin = Default
    BY <1>1, <1>5 DEF AcceptAdmin, Handover, CurveConfig
  <2> QED
    BY <1>5, <2>1 DEF AcceptAdmin, Handoff!Accept
<1>6. CASE AdminStep
  BY <1>2, <1>3, <1>4, <1>5, <1>6 DEF AdminStep, Handoff!Next
<1>7. CASE CreateStep
  <2>1. config'.admin = config.admin /\ config'.pendingAdmin = config.pendingAdmin
    BY <1>1, <1>7 DEF CreateStep, CreateToken, CurveConfig
  <2> QED
    BY <2>1 DEF Handoff!vars
<1>8. CASE EndStep
  <2>1. config'.admin = config.admin /\ config'.pendingAdmin = config.pendingAdmin
    BY <1>1, <1>8 DEF EndStep, Graduate, CloseGraduatedPool, CurveConfig
  <2> QED
    BY <2>1 DEF Handoff!vars
<1>9. CASE TradeStep \/ FeeStep \/ StrayStep \/ UNCHANGED vars
  <2>1. TradeStep => UNCHANGED config
    BY DEF TradeStep, Buy, Sell, SignQuote, LandQuote
  <2>2. FeeStep => UNCHANGED config
    BY FeeSteps DEF ClaimCreatorFees, ClaimPlatform
  <2>3. StrayStep \/ UNCHANGED vars => UNCHANGED config
    BY DEF StrayStep, StraySol, StrayToken, vars
  <2> QED
    BY <1>9, <2>1, <2>2, <2>3 DEF Handoff!vars
<1> QED
  BY <1>6, <1>7, <1>8, <1>9 DEF Next

\* The admin key changes hands only as AdminHandoff allows.
THEOREM HandoffImplemented == Spec => ImplementsHandoff
<1>1. Init => Handoff!Init
  BY DEF Init, NoConfig, NewConfig, Handoff!Init
<1>2. IndInv /\ [Next]_vars => [Handoff!Next]_(Handoff!vars)
  BY HandoffStep
<1> QED
  BY <1>1, <1>2, Invariance, PTL DEF Spec, ImplementsHandoff, Handoff!Spec
=============================================================================
