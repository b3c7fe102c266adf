---------------------------- MODULE LedgerProofs ----------------------------
(***************************************************************************)
(* The curve program implements PoolLedger, for every pool, and conserves  *)
(* the supply of every mint.                                               *)
(***************************************************************************)
EXTENDS BondingCurveProofs

----------------------------------------------------------------------------
(* What a trade moves *)

\* The scalars of a pool record.
LEMMA PoolNumbers ==
    ASSUME NEW b \in CurvePool
    PROVE  /\ b.vSol \in Nat /\ b.vTok \in Nat /\ b.realSol \in Nat /\ b.realTok \in Nat
           /\ b.creatorEarned \in Nat /\ b.creatorClaimed \in Nat
           /\ b.platformEarned \in Nat /\ b.platformClaimed \in Nat
           /\ CreatorUnclaimed(b) \in Int /\ PlatformUnclaimed(b) \in Int
           /\ Unclaimed(b) \in Int /\ NetSol(b) \in Int
<1>1. /\ b.vSol \in Nat /\ b.vTok \in Nat /\ b.realSol \in Nat /\ b.realTok \in Nat
      /\ b.creatorEarned \in Nat /\ b.creatorClaimed \in Nat
      /\ b.platformEarned \in Nat /\ b.platformClaimed \in Nat
  BY ParameterAssumption DEF CurvePool, U64
<1>2. CreatorUnclaimed(b) \in Int /\ PlatformUnclaimed(b) \in Int
  BY <1>1 DEF CreatorUnclaimed, PlatformUnclaimed
<1>3. Unclaimed(b) \in Int
  BY <1>2 DEF Unclaimed
<1>4. NetSol(b) \in Int
  BY <1>1, <1>3 DEF NetSol
<1> QED
  BY <1>1, <1>2, <1>3, <1>4

\* The curve gains dv, the fee f is split into c and the rest.
TradeMoves(b, b2, dv, f) ==
    /\ b2.status = b.status
    /\ NetSol(b2) = NetSol(b) + dv
    /\ CreatorUnclaimed(b2) >= CreatorUnclaimed(b)
    /\ PlatformUnclaimed(b2) >= PlatformUnclaimed(b)
    /\ CreatorUnclaimed(b2) + PlatformUnclaimed(b2)
         = CreatorUnclaimed(b) + PlatformUnclaimed(b) + f

LEMMA FieldsMove ==
    ASSUME NEW b \in CurvePool, NEW dv \in Int, NEW f \in Nat, NEW c \in 0..f, NEW b2,
           b2.status = b.status,
           b2.realSol = b.realSol + (dv + f),
           b2.creatorEarned = b.creatorEarned + c, b2.creatorClaimed = b.creatorClaimed,
           b2.platformEarned = b.platformEarned + (f - c),
           b2.platformClaimed = b.platformClaimed
    PROVE  TradeMoves(b, b2, dv, f)
<1> DEFINE rs == b.realSol  ce == b.creatorEarned  cc == b.creatorClaimed
           pe == b.platformEarned  pc == b.platformClaimed
<1>1. rs \in Int /\ ce \in Int /\ cc \in Int /\ pe \in Int /\ pc \in Int
      /\ c \in Int /\ 0 <= c /\ c <= f
  BY PoolNumbers
<1>2. /\ CreatorUnclaimed(b) = ce - cc /\ PlatformUnclaimed(b) = pe - pc
      /\ CreatorUnclaimed(b2) = (ce + c) - cc /\ PlatformUnclaimed(b2) = (pe + (f - c)) - pc
      /\ NetSol(b) = rs - ((ce - cc) + (pe - pc))
      /\ NetSol(b2) = (rs + (dv + f)) - (((ce + c) - cc) + ((pe + (f - c)) - pc))
  BY DEF CreatorUnclaimed, PlatformUnclaimed, Unclaimed, NetSol
<1> HIDE DEF rs, ce, cc, pe, pc
<1>3. /\ (ce + c) - cc >= ce - cc
      /\ (pe + (f - c)) - pc >= pe - pc
      /\ ((ce + c) - cc) + ((pe + (f - c)) - pc) = (ce - cc) + (pe - pc) + f
  BY <1>1
<1>4. (rs + (dv + f)) - (((ce + c) - cc) + ((pe + (f - c)) - pc))
        = (rs - ((ce - cc) + (pe - pc))) + dv
  BY <1>1
<1> QED
  BY <1>2, <1>3, <1>4 DEF TradeMoves

\* The fee of a trade is at most a tenth of it, and split in two parts.
LEMMA FeeSplit ==
    ASSUME IndInv, NEW amount \in Nat
    PROVE  LET fee == Fee(amount, TotalFeeBps)
           IN  /\ fee \in Nat /\ 10 * fee <= amount
               /\ AfterFee(amount) \in Nat /\ AfterFee(amount) = amount - fee
               /\ CreatorFee(fee) \in 0..fee /\ PlatformFee(fee) = fee - CreatorFee(fee)
<1>1. TotalFeeBps \in 0..1000
  BY RatesAllowed DEF MaxFeeBps
<1>2. 10 * Fee(amount, TotalFeeBps) <= amount
  BY <1>1, FeeTenth, ZenonT(60)
<1>3. /\ Fee(amount, TotalFeeBps) \in 0..amount /\ AfterFee(amount) \in 0..amount
      /\ CreatorFee(Fee(amount, TotalFeeBps)) \in 0..Fee(amount, TotalFeeBps)
  BY TradeFee
<1>4. Fee(amount, TotalFeeBps) \in Nat /\ AfterFee(amount) \in Nat
  BY <1>3
<1>5. AfterFee(amount) = amount - Fee(amount, TotalFeeBps)
  BY DEF AfterFee
<1>6. PlatformFee(Fee(amount, TotalFeeBps))
        = Fee(amount, TotalFeeBps) - CreatorFee(Fee(amount, TotalFeeBps))
  BY DEF PlatformFee
<1> QED
  BY <1>2, <1>3, <1>4, <1>5, <1>6

LEMMA BoughtMoves ==
    ASSUME IndInv, NEW b \in CurvePool, NEW amount \in Nat, NEW b2, b2 = Bought(b, amount)
    PROVE  /\ TradeMoves(b, b2, AfterFee(amount), Fee(amount, TotalFeeBps))
           /\ b2.realTok = b.realTok - TokensOut(b, amount)
<1> DEFINE fee == Fee(amount, TotalFeeBps)
           in == AfterFee(amount)
           mine == CreatorFee(fee)
           out == TokensOut(b, amount)
<1>1. /\ fee \in Nat /\ in \in Nat /\ in = amount - fee /\ mine \in 0..fee
      /\ PlatformFee(fee) = fee - mine
  BY FeeSplit
<1>2. b2 = [status |-> b.status, creator |-> b.creator,
            vSol |-> b.vSol + in, vTok |-> b.vTok - out,
            realSol |-> b.realSol + amount, realTok |-> b.realTok - out,
            creatorEarned |-> b.creatorEarned + mine, creatorClaimed |-> b.creatorClaimed,
            platformEarned |-> b.platformEarned + PlatformFee(fee),
            platformClaimed |-> b.platformClaimed, trades |-> b.trades + 1]
  BY BoughtFields
<1> HIDE DEF fee, in, mine, out
<1>3. amount = in + fee
  BY <1>1
<1>4. TradeMoves(b, b2, in, fee)
  BY <1>1, <1>2, <1>3, FieldsMove
<1> QED
  BY <1>2, <1>4 DEF fee, in, out

LEMMA SoldMoves ==
    ASSUME IndInv, NEW b \in CurvePool, NEW amount \in Nat, NEW b2, b2 = Sold(b, amount),
           SolOut(b, amount) \in Nat
    PROVE  LET out == SolOut(b, amount)
           IN  /\ TradeMoves(b, b2, 0 - out, Fee(out, TotalFeeBps))
               /\ b2.realTok = b.realTok + amount
<1> DEFINE out == SolOut(b, amount)
           fee == Fee(out, TotalFeeBps)
           net == AfterFee(out)
           mine == CreatorFee(fee)
           dv == 0 - out
<1>1. /\ fee \in Nat /\ net \in Nat /\ net = out - fee /\ mine \in 0..fee
      /\ PlatformFee(fee) = fee - mine /\ out \in Nat
  BY FeeSplit
<1>2. b2 = [status |-> b.status, creator |-> b.creator,
            vSol |-> b.vSol - out, vTok |-> b.vTok + amount,
            realSol |-> b.realSol - net, realTok |-> b.realTok + amount,
            creatorEarned |-> b.creatorEarned + mine, creatorClaimed |-> b.creatorClaimed,
            platformEarned |-> b.platformEarned + PlatformFee(fee),
            platformClaimed |-> b.platformClaimed, trades |-> b.trades + 1]
  BY SoldFields
<1>3. b.realSol \in Nat
  BY PoolNumbers
<1> HIDE DEF out, fee, net, mine
<1>4. b.realSol - net = b.realSol + (dv + fee) /\ dv \in Int
  BY <1>1, <1>3
<1> HIDE DEF dv
<1>5. TradeMoves(b, b2, dv, fee)
  BY <1>1, <1>2, <1>4, FieldsMove
<1> QED
  BY <1>2, <1>5 DEF dv, fee, out

----------------------------------------------------------------------------
(* The actions of the ledger *)

LEMMA LedgerKept ==
    ASSUME NEW q \in Pools, pools'[q] = pools[q], paid'[q] = paid[q], raydium'[q] = raydium[q]
    PROVE  [Ledger(q)!Next]_(Ledger(q)!vars)
BY DEF Ledger!vars

\* What a purchase leaves as fees is earned, of what the buyer paid.
LEMMA EarnedByPurchase ==
    ASSUME NEW q \in Pools, pools[q] \in CurvePool, pools'[q] \in CurvePool,
           NEW in \in Nat, NEW f \in Nat, 10 * f <= in + f,
           TradeMoves(pools[q], pools'[q], in, f)
    PROVE  Ledger(q)!Earn(Ledger(q)!Paid) /\ NetSol(pools'[q]) >= NetSol(pools[q])
<1> DEFINE c == CreatorUnclaimed(pools[q])   p == PlatformUnclaimed(pools[q])
           c2 == CreatorUnclaimed(pools'[q]) p2 == PlatformUnclaimed(pools'[q])
           n == NetSol(pools[q])             n2 == NetSol(pools'[q])
<1>1. /\ c \in Int /\ p \in Int /\ c2 \in Int /\ p2 \in Int /\ n \in Int /\ n2 \in Int
      /\ n2 = n + in /\ c2 >= c /\ p2 >= p /\ c2 + p2 = c + p + f
  BY PoolNumbers DEF TradeMoves
<1> HIDE DEF c, p, c2, p2, n, n2
<1>2. 10 * ((c2 + p2) - (c + p)) <= (n2 + (c2 + p2)) - (n + (c + p)) /\ n2 >= n
  BY <1>1
<1> QED
  BY <1>1, <1>2 DEF c, p, c2, p2, n, n2, Ledger!Earn, Ledger!Paid, Ledger!Total

LEMMA BuyIsBuy ==
    ASSUME IndInv, NEW q \in Pools, NEW n \in Nat, NEW m, Buy(q, n, m)
    PROVE  Ledger(q)!Buy
<1> DEFINE b == pools[q]
           b2 == pools'[q]
           out == TokensOut(b, n)
           fee == Fee(n, TotalFeeBps)
           in == AfterFee(n)
<1>1. /\ PoolTyped(q) /\ b \in CurvePool /\ sol[q] \in Int /\ tokens[q].vault \in Int
      /\ IsActive(q) /\ MayBuy(b, n) /\ out > 0
      /\ pools' = [pools EXCEPT ![q] = Bought(b, n)] /\ UNCHANGED <<paid, raydium>>
  BY PoolAccounts DEF Buy, MayBuy, PoolTyped
<1>2. b2 = Bought(b, n)
  BY <1>1 DEF IndInv, TypeOK
<1>3. b2 \in CurvePool /\ out \in Nat
  BY <1>1, <1>2, ActiveIsSound, BoughtSound
<1>4. TradeMoves(b, b2, in, fee) /\ b2.realTok = b.realTok - out
  BY <1>1, <1>2, BoughtMoves
<1>5. fee \in Nat /\ in \in Nat /\ 10 * fee <= in + fee
  <2>1. fee \in Nat /\ 10 * fee <= n /\ in \in Nat /\ in = n - fee
    BY FeeSplit
  <2> HIDE DEF fee, in
  <2> QED
    BY <2>1
<1> HIDE DEF fee, in, out
<1>6. Ledger(q)!Earn(Ledger(q)!Paid) /\ NetSol(b2) >= NetSol(b)
  BY <1>1, <1>3, <1>4, <1>5, EarnedByPurchase
<1>7. b.status = "Active" /\ b2.status = "Active" /\ b2.realTok >= 0 /\ b2.realTok < b.realTok
  <2>1. b.realTok \in Nat /\ b2.realTok \in Nat
    BY <1>1, <1>3, PoolNumbers
  <2> QED
    BY <1>1, <1>3, <1>4, <2>1 DEF IsActive, TradeMoves
<1> QED
  BY <1>1, <1>6, <1>7 DEF Ledger!Buy

LEMMA SellIsSell ==
    ASSUME IndInv, NEW q \in Pools, NEW n \in Nat, NEW m, Sell(q, n, m)
    PROVE  Ledger(q)!Sell
<1> DEFINE b == pools[q]
           b2 == pools'[q]
           out == SolOut(b, n)
           fee == Fee(out, TotalFeeBps)
           dv == 0 - out
<1>1. /\ PoolTyped(q) /\ b \in CurvePool /\ sol[q] \in Int /\ tokens[q].vault \in Int
      /\ IsActive(q) /\ SellAnswers(b, n) /\ Representable(Sold(b, n)) /\ n > 0
      /\ pools' = [pools EXCEPT ![q] = Sold(b, n)] /\ UNCHANGED <<paid, raydium>>
  BY PoolAccounts DEF Sell, SellAnswers, PoolTyped
<1>2. b2 = Sold(b, n)
  BY <1>1 DEF IndInv, TypeOK
<1>3. b2 \in CurvePool /\ out \in Nat
  <2>1. Sold(b, n) \in CurvePool /\ out \in 0..b.vSol
    BY <1>1, ActiveIsSound, SoldSound
  <2>2. b.vSol \in Nat
    BY <1>1, PoolNumbers
  <2> HIDE DEF out
  <2> QED
    BY <1>2, <2>1, <2>2
<1>4. TradeMoves(b, b2, dv, fee) /\ b2.realTok = b.realTok + n
  BY <1>1, <1>2, <1>3, SoldMoves
<1>5. fee \in Nat /\ 10 * fee <= out
  BY <1>3, FeeSplit
<1> HIDE DEF fee, out
<1>6. Ledger(q)!Earn(NetSol(b) - NetSol(b2)) /\ NetSol(b2) <= NetSol(b)
  <2> DEFINE c == CreatorUnclaimed(b)   p == PlatformUnclaimed(b)
             c2 == CreatorUnclaimed(b2) p2 == PlatformUnclaimed(b2)
             k == NetSol(b)             k2 == NetSol(b2)
  <2>1. /\ c \in Int /\ p \in Int /\ c2 \in Int /\ p2 \in Int /\ k \in Int /\ k2 \in Int
        /\ k2 = k + dv /\ c2 >= c /\ p2 >= p /\ c2 + p2 = c + p + fee
    BY <1>1, <1>3, <1>4, PoolNumbers DEF TradeMoves
  <2> HIDE DEF c, p, c2, p2, k, k2
  <2>2. 10 * ((c2 + p2) - (c + p)) <= k - k2 /\ k2 <= k
    BY <1>3, <1>5, <2>1
  <2> QED
    BY <2>1, <2>2 DEF c, p, c2, p2, k, k2, Ledger!Earn, Ledger!Total
<1>7. b.status = "Active" /\ b2.status = "Active" /\ b2.realTok > b.realTok
  <2>1. b.realTok \in Nat
    BY <1>1, PoolNumbers
  <2> QED
    BY <1>1, <1>4, <2>1 DEF IsActive, TradeMoves
<1> QED
  BY <1>1, <1>6, <1>7 DEF Ledger!Sell

\* A new pool has nothing due, with or without the first purchase.
LEMMA CreateIsLaunch ==
    ASSUME IndInv, NEW c \in Creators, NEW q \in Pools, NEW d \in SolAmounts \cup {0},
           CreateToken(c, q, d)
    PROVE  Ledger(q)!Launch
<1> DEFINE new == NewPool(c)
           b2 == pools'[q]
<1>1. /\ pools[q].status = "None" /\ RawSupply \in U64 /\ UNCHANGED <<paid, raydium>>
  BY DEF CreateToken
<1>2. pools[q] = NoPool
  BY <1>1, PoolAccounts DEF PoolSound, Untouched
<1>3. new \in CurvePool /\ ActiveSound(q, new, 0, RawSupply)
  BY <1>1, NewPoolSound
<1>4. /\ NetSol(NoPool) = 0 /\ CreatorUnclaimed(NoPool) = 0 /\ PlatformUnclaimed(NoPool) = 0
  BY DEF NoPool, NetSol, Unclaimed, CreatorUnclaimed, PlatformUnclaimed
<1>5. /\ new.status = "Active"
      /\ NetSol(new) = 0 /\ CreatorUnclaimed(new) = 0 /\ PlatformUnclaimed(new) = 0
  <2>1. PICK r : r = new
    OBVIOUS
  <2>2. /\ r.status = "Active" /\ r.realSol = 0 /\ r.creatorEarned = 0 /\ r.creatorClaimed = 0
        /\ r.platformEarned = 0 /\ r.platformClaimed = 0
    BY <2>1 DEF NewPool, NoPool
  <2> QED
    BY <2>1, <2>2 DEF NetSol, Unclaimed, CreatorUnclaimed, PlatformUnclaimed
<1>6. NoPool \in CurvePool /\ pools[q] \in CurvePool
  BY <1>2, PoolAccounts DEF PoolTyped
<1> HIDE DEF new
<1>7. CASE d = 0
  <2>1. b2 = new
    BY <1>7 DEF CreateToken, IndInv, TypeOK, new
  <2>2. b2.realTok \in Nat
    BY <1>3, <2>1, PoolNumbers
  <2>3. Ledger(q)!Earn(Ledger(q)!Paid)
    BY <1>2, <1>4, <1>5, <2>1 DEF Ledger!Earn, Ledger!Paid, Ledger!Total
  <2> QED
    BY <1>1, <1>5, <2>1, <2>2, <2>3 DEF Ledger!Launch
<1>8. CASE d # 0
  <2> DEFINE fee == Fee(d, TotalFeeBps)
             in == AfterFee(d)
  <2>1. d \in Nat
    <3>1. d \in SolAmounts
      BY <1>8
    <3> QED
      BY <3>1, ParameterAssumption
  <2>2. MayBuy(new, d) /\ b2 = Bought(new, d)
    BY <1>8 DEF CreateToken, IndInv, TypeOK, new
  <2>3. b2 \in CurvePool
    <3>1. RawSupply \in Int
      BY <1>1, ParameterAssumption DEF U64
    <3> QED
      BY <1>3, <2>1, <2>2, <3>1, BoughtSound
  <2>4. TradeMoves(new, b2, in, fee)
    BY <1>3, <2>1, <2>2, BoughtMoves
  <2>5. fee \in Nat /\ in \in Nat /\ 10 * fee <= in + fee
    <3>1. fee \in Nat /\ 10 * fee <= d /\ in \in Nat /\ in = d - fee
      BY <2>1, FeeSplit
    <3> HIDE DEF fee, in
    <3> QED
      BY <2>1, <3>1
  <2> HIDE DEF fee, in
  <2>6. /\ b2.status = "Active" /\ NetSol(b2) = in
        /\ CreatorUnclaimed(b2) >= 0 /\ PlatformUnclaimed(b2) >= 0
        /\ CreatorUnclaimed(b2) + PlatformUnclaimed(b2) = fee
    BY <1>5, <2>4, <2>5 DEF TradeMoves
  <2>7. /\ CreatorUnclaimed(b2) \in Int /\ PlatformUnclaimed(b2) \in Int
        /\ b2.realTok \in Nat
    BY <2>3, PoolNumbers
  <2>8. Ledger(q)!Earn(Ledger(q)!Paid)
    <3> DEFINE c2 == CreatorUnclaimed(b2)  p2 == PlatformUnclaimed(b2)  n2 == NetSol(b2)
    <3>1. /\ c2 \in Int /\ p2 \in Int /\ n2 = in /\ c2 >= 0 /\ p2 >= 0 /\ c2 + p2 = fee
      BY <2>6, <2>7
    <3> HIDE DEF c2, p2, n2
    <3>2. 10 * ((c2 + p2) - (0 + 0)) <= (n2 + (c2 + p2)) - (0 + (0 + 0))
      BY <2>5, <3>1
    <3> QED
      BY <1>2, <1>4, <3>1, <3>2 DEF c2, p2, n2, Ledger!Earn, Ledger!Paid, Ledger!Total
  <2> QED
    BY <1>1, <2>5, <2>6, <2>7, <2>8 DEF Ledger!Launch
<1> QED
  BY <1>7, <1>8

\* A claim pays one party all its due.
LEMMA CreatorIsPaid ==
    ASSUME IndInv, NEW c \in Creators, NEW q \in Pools, ClaimCreatorFees(c, q)
    PROVE  Ledger(q)!PayCreator
<1> DEFINE b == pools[q]
           b2 == pools'[q]
           due == CreatorUnclaimed(b)
<1>1. /\ Exists(q) /\ due > 0 /\ UNCHANGED raydium
      /\ pools' = [pools EXCEPT ![q].creatorClaimed = @ + due, ![q].realSol = @ - due]
      /\ paid' = [paid EXCEPT ![q].creator = @ + due]
  BY DEF ClaimCreatorFees
<1>2. b \in CurvePool /\ pools \in [Pools -> CurvePool]
      /\ paid \in [Pools -> [creator : Nat, treasury : Nat]]
  BY DEF IndInv, TypeOK
<1>3. /\ due = b.creatorEarned - b.creatorClaimed
      /\ b.creatorEarned \in Nat /\ b.creatorClaimed \in Nat /\ b.realSol \in Nat
      /\ PlatformUnclaimed(b) \in Int
  BY <1>2, PoolNumbers DEF CreatorUnclaimed
<1> HIDE DEF due
<1>4. b2 = [b EXCEPT !.creatorClaimed = @ + due, !.realSol = @ - due]
  BY <1>1, <1>2
<1>5. /\ b2.status = b.status /\ b2.realTok = b.realTok /\ b2.realSol = b.realSol - due
      /\ b2.creatorEarned = b.creatorEarned /\ b2.creatorClaimed = b.creatorClaimed + due
      /\ b2.platformEarned = b.platformEarned /\ b2.platformClaimed = b.platformClaimed
  BY <1>2, <1>4 DEF CurvePool
<1>6. CreatorUnclaimed(b2) = 0 /\ PlatformUnclaimed(b2) = PlatformUnclaimed(b)
  BY <1>3, <1>5 DEF CreatorUnclaimed, PlatformUnclaimed
<1>7. NetSol(b2) = NetSol(b)
  <2> DEFINE p == PlatformUnclaimed(b)  rs == b.realSol
  <2>1. NetSol(b) = rs - (due + p) /\ NetSol(b2) = (rs - due) - (0 + p)
    BY <1>5, <1>6 DEF NetSol, Unclaimed, due
  <2>2. rs \in Int /\ p \in Int /\ due \in Int
    BY <1>3
  <2> HIDE DEF p, rs
  <2> QED
    BY <2>1, <2>2
<1>8. paid'[q] = [paid[q] EXCEPT !.creator = @ + due]
  BY <1>1, <1>2
<1>9. b.status \in {"Active", "Graduated"}
  BY <1>1 DEF Exists, PoolStatus
<1>10. due > 0 /\ raydium' = raydium
  BY <1>1
<1> QED
  BY <1>5, <1>6, <1>7, <1>8, <1>9, <1>10 DEF Ledger!PayCreator, due

LEMMA TreasuryIsPaid ==
    ASSUME IndInv, NEW q \in Pools, Exists(q), PlatformUnclaimed(pools[q]) > 0,
           pools'[q] = PlatformClaimed(pools[q]), raydium' = raydium,
           paid'[q] = [paid[q] EXCEPT !.treasury = @ + PlatformUnclaimed(pools[q])]
    PROVE  Ledger(q)!PayTreasury
<1> DEFINE b == pools[q]
           b2 == pools'[q]
           due == PlatformUnclaimed(b)
<1>1. b \in CurvePool
  BY DEF IndInv, TypeOK
<1>2. /\ due = b.platformEarned - b.platformClaimed
      /\ b.platformEarned \in Nat /\ b.platformClaimed \in Nat /\ b.realSol \in Nat
      /\ CreatorUnclaimed(b) \in Int /\ due \in Int
  BY <1>1, PoolNumbers DEF PlatformUnclaimed
<1>3. b2 = [b EXCEPT !.platformClaimed = b.platformEarned, !.realSol = b.realSol - due]
  BY DEF PlatformClaimed
<1> HIDE DEF due
<1>4. /\ b2.status = b.status /\ b2.realTok = b.realTok /\ b2.realSol = b.realSol - due
      /\ b2.creatorEarned = b.creatorEarned /\ b2.creatorClaimed = b.creatorClaimed
      /\ b2.platformEarned = b.platformEarned /\ b2.platformClaimed = b.platformEarned
  BY <1>1, <1>3 DEF CurvePool
<1>5. PlatformUnclaimed(b2) = 0 /\ CreatorUnclaimed(b2) = CreatorUnclaimed(b)
  BY <1>2, <1>4 DEF CreatorUnclaimed, PlatformUnclaimed
<1>6. NetSol(b2) = NetSol(b)
  <2> DEFINE c == CreatorUnclaimed(b)  rs == b.realSol
  <2>1. NetSol(b) = rs - (c + due) /\ NetSol(b2) = (rs - due) - (c + 0)
    BY <1>4, <1>5 DEF NetSol, Unclaimed, due
  <2>2. rs \in Int /\ c \in Int /\ due \in Int
    BY <1>2
  <2> HIDE DEF c, rs
  <2> QED
    BY <2>1, <2>2
<1>7. b.status \in {"Active", "Graduated"}
  BY DEF Exists, PoolStatus
<1> QED
  BY <1>4, <1>5, <1>6, <1>7 DEF Ledger!PayTreasury, due

\* Graduation lists the curve's SOL and keeps the dues.
LEMMA GraduateIsList ==
    ASSUME IndInv, NEW s \in Admins \cup Treasuries, NEW q \in Pools, Graduate(s, q)
    PROVE  Ledger(q)!List
<1> DEFINE b == pools[q]
           b2 == pools'[q]
           moved == SolForRaydium(b)
           handed == TokensForRaydium(b)
<1>1. /\ IsActive(q) /\ moved >= 0 /\ UNCHANGED paid
      /\ pools' = [pools EXCEPT ![q] = Graduated(b)]
      /\ b \in CurvePool /\ pools \in [Pools -> CurvePool]
  BY DEF Graduate, IndInv, TypeOK
<1>2. raydium'[q].sol = moved
  <2>1. /\ raydium' = [raydium EXCEPT ![q] =
              [creator |-> s, withPermission |-> config.raydiumPermission,
               sol |-> Deposited(q, "wsol", InitAmounts(q, moved, handed)),
               tokens |-> Deposited(q, "agent", InitAmounts(q, moved, handed)),
               burned |-> b.realTok - handed]]
        /\ raydium \in [Pools -> Listing]
    BY DEF Graduate, IndInv, TypeOK
  <2>2. raydium'[q].sol = Deposited(q, "wsol", InitAmounts(q, moved, handed))
    BY <2>1
  <2> QED
    BY <2>2, DepositsMatch
<1>3. /\ b2.status = "Graduated" /\ b2.realTok = 0 /\ b2.realSol = Unclaimed(b)
      /\ b2.creatorEarned = b.creatorEarned /\ b2.creatorClaimed = b.creatorClaimed
      /\ b2.platformEarned = b.platformEarned /\ b2.platformClaimed = b.platformClaimed
  <2>1. b2 = Graduated(b)
    BY <1>1
  <2> QED
    BY <1>1, <2>1 DEF Graduated, CurvePool
<1>4. CreatorUnclaimed(b2) = CreatorUnclaimed(b) /\ PlatformUnclaimed(b2) = PlatformUnclaimed(b)
  BY <1>3 DEF CreatorUnclaimed, PlatformUnclaimed
<1>5. NetSol(b2) = 0
  <2>1. Unclaimed(b) \in Int
    BY <1>1, PoolNumbers
  <2>2. NetSol(b2) = Unclaimed(b) - Unclaimed(b)
    BY <1>3, <1>4 DEF NetSol, Unclaimed
  <2> QED
    BY <2>1, <2>2
<1>6. b.status = "Active" /\ moved = NetSol(b) - RentReimbursement /\ paid' = paid
  BY <1>1 DEF IsActive, SolForRaydium
<1> QED
  BY <1>1, <1>2, <1>3, <1>4, <1>5, <1>6 DEF Ledger!List

\* Closing leaves nothing due behind.
LEMMA CloseIsClose ==
    ASSUME IndInv, NEW s \in Admins \cup Treasuries, NEW q \in Pools, CloseGraduatedPool(s, q)
    PROVE  Ledger(q)!Close
<1> DEFINE b == pools[q]
           b2 == pools'[q]
<1>1. /\ b.status = "Graduated" /\ CreatorUnclaimed(b) = 0 /\ PlatformUnclaimed(b) = 0
      /\ pools' = [pools EXCEPT ![q].status = "Closed"] /\ UNCHANGED raydium
      /\ paid' = [paid EXCEPT ![q].treasury = @ + sol[q]]
      /\ b \in CurvePool /\ pools \in [Pools -> CurvePool] /\ sol[q] \in Nat
      /\ paid \in [Pools -> [creator : Nat, treasury : Nat]]
  BY DEF CloseGraduatedPool, Closable, IndInv, TypeOK
<1>2. /\ b2.status = "Closed" /\ b2.realTok = b.realTok /\ b2.realSol = b.realSol
      /\ b2.creatorEarned = b.creatorEarned /\ b2.creatorClaimed = b.creatorClaimed
      /\ b2.platformEarned = b.platformEarned /\ b2.platformClaimed = b.platformClaimed
  BY <1>1 DEF CurvePool
<1>3. /\ CreatorUnclaimed(b2) = CreatorUnclaimed(b) /\ PlatformUnclaimed(b2) = PlatformUnclaimed(b)
      /\ NetSol(b2) = NetSol(b)
  BY <1>2 DEF CreatorUnclaimed, PlatformUnclaimed, Unclaimed, NetSol
<1>4. paid'[q].creator = paid[q].creator /\ paid'[q].treasury >= paid[q].treasury
  <2>1. PICK r : r = [paid[q] EXCEPT !.treasury = @ + sol[q]]
    OBVIOUS
  <2>2. paid'[q] = r
    BY <1>1, <2>1
  <2>3. paid[q] \in [creator : Nat, treasury : Nat]
    BY <1>1
  <2>4. r.creator = paid[q].creator /\ r.treasury = paid[q].treasury + sol[q]
    BY <2>1, <2>3
  <2> QED
    BY <1>1, <2>2, <2>3, <2>4
<1>5. raydium' = raydium
  BY <1>1
<1> QED
  BY <1>1, <1>2, <1>3, <1>4, <1>5 DEF Ledger!Close, Ledger!Nothing

----------------------------------------------------------------------------
(* Every step *)

\* A step of the program is, for every pool, a step of its ledger or none.
LEMMA LedgerStep ==
    ASSUME IndInv, [Next]_vars, NEW q \in Pools
    PROVE  [Ledger(q)!Next]_(Ledger(q)!vars)
<1> DEFINE Goal == [Ledger(q)!Next]_(Ledger(q)!vars)
           Kept == pools'[q] = pools[q] /\ paid'[q] = paid[q] /\ raydium'[q] = raydium[q]
<1>0. Kept => Goal
  BY LedgerKept
<1>t. /\ pools \in [Pools -> CurvePool] /\ raydium \in [Pools -> Listing]
      /\ paid \in [Pools -> [creator : Nat, treasury : Nat]] /\ quote[q] \in Quote
  BY DEF IndInv, TypeOK
<1>1. ASSUME AdminStep \/ StrayStep \/ UNCHANGED vars PROVE Goal
  <2>1. AdminStep => UNCHANGED <<pools, paid, raydium>>
    BY AdminKeepsAccounts DEF accounts
  <2>2. StrayStep \/ UNCHANGED vars => UNCHANGED <<pools, paid, raydium>>
    BY DEF StrayStep, StraySol, StrayToken, vars
  <2>3. Kept
    BY <1>1, <2>1, <2>2
  <2> QED
    BY <1>0, <2>3
<1>2. ASSUME NEW c \in Creators, NEW p \in Pools, NEW d \in SolAmounts \cup {0},
             CreateToken(c, p, d)
      PROVE  Goal
  <2>1. CASE p = q
    BY <1>2, <2>1, CreateIsLaunch DEF Ledger!Next
  <2>2. CASE p # q
    <3>1. Kept
      BY <1>t, <1>2, <2>2 DEF CreateToken
    <3> QED
      BY <1>0, <3>1
  <2> QED
    BY <2>1, <2>2
<1>3. ASSUME NEW p \in Pools, NEW n \in Nat, NEW m, Buy(p, n, m) \/ Sell(p, n, m)
      PROVE  Goal
  <2>1. CASE p = q
    BY <1>3, <2>1, BuyIsBuy, SellIsSell DEF Ledger!Next
  <2>2. CASE p # q
    <3>1. Kept
      BY <1>t, <1>3, <2>2 DEF Buy, Sell
    <3> QED
      BY <1>0, <3>1
  <2> QED
    BY <2>1, <2>2
<1>4. ASSUME TradeStep PROVE Goal
  <2>1. PICK p \in Pools :
          \/ \E n \in SolAmounts : Buy(p, n, 0)
          \/ \E n \in TokenAmounts : Sell(p, n, 0)
          \/ \E side \in {"buy", "sell"}, n \in QuotedAmounts : SignQuote(p, side, n)
          \/ LandQuote(p)
    BY <1>4 DEF TradeStep
  <2>2. SolAmounts \subseteq Nat /\ TokenAmounts \subseteq Nat
    BY ParameterAssumption
  <2>3. ASSUME NEW side \in {"buy", "sell"}, NEW n \in QuotedAmounts, SignQuote(p, side, n)
        PROVE  Goal
    <3>1. Kept
      BY <2>3 DEF SignQuote
    <3> QED
      BY <1>0, <3>1
  <2>4. ASSUME LandQuote(p) PROVE Goal
    <3>1. quote[p].amount \in Nat
      BY DEF IndInv, TypeOK, Quote
    <3>2. Buy(p, quote[p].amount, quote[p].min) \/ Sell(p, quote[p].amount, quote[p].min)
      BY <2>4 DEF LandQuote
    <3> QED
      BY <1>3, <3>1, <3>2
  <2> QED
    BY <1>3, <2>1, <2>2, <2>3, <2>4
<1>5. ASSUME NEW c \in Creators, NEW p \in Pools, ClaimCreatorFees(c, p) PROVE Goal
  <2>1. CASE p = q
    BY <1>5, <2>1, CreatorIsPaid DEF Ledger!Next
  <2>2. CASE p # q
    <3>1. Kept
      BY <1>t, <1>5, <2>2 DEF ClaimCreatorFees
    <3> QED
      BY <1>0, <3>1
  <2> QED
    BY <2>1, <2>2
<1>6. ASSUME NEW t \in Treasuries, NEW batch \in SUBSET Pools, ClaimPlatform(t, batch)
      PROVE  Goal
  <2> DEFINE due == DueIn(batch)
  <2>1. /\ \A p \in batch : Exists(p)
        /\ pools' = [p \in Pools |-> IF p \in due THEN PlatformClaimed(pools[p]) ELSE pools[p]]
        /\ paid' = [p \in Pools |-> IF p \in due
                    THEN [paid[p] EXCEPT !.treasury = @ + PlatformUnclaimed(pools[p])]
                    ELSE paid[p]]
        /\ raydium' = raydium
    BY <1>6 DEF ClaimPlatform
  <2>2. CASE q \in due
    <3>1. /\ Exists(q) /\ PlatformUnclaimed(pools[q]) > 0
          /\ pools'[q] = PlatformClaimed(pools[q])
          /\ paid'[q] = [paid[q] EXCEPT !.treasury = @ + PlatformUnclaimed(pools[q])]
      BY <2>1, <2>2 DEF DueIn
    <3> QED
      BY <2>1, <3>1, TreasuryIsPaid DEF Ledger!Next
  <2>3. CASE q \notin due
    <3>1. Kept
      <4> HIDE DEF due
      <4> QED
        BY <2>1, <2>3
    <3> QED
      BY <1>0, <3>1
  <2> QED
    BY <2>2, <2>3
<1>7. ASSUME FeeStep PROVE Goal
  BY <1>5, <1>6, <1>7, FeeSteps
<1>8. ASSUME NEW s \in Admins \cup Treasuries, NEW p \in Pools,
             Graduate(s, p) \/ CloseGraduatedPool(s, p)
      PROVE  Goal
  <2>1. CASE p = q
    BY <1>8, <2>1, GraduateIsList, CloseIsClose DEF Ledger!Next
  <2>2. CASE p # q
    <3>1. Kept
      BY <1>t, <1>8, <2>2 DEF Graduate, CloseGraduatedPool
    <3> QED
      BY <1>0, <3>1
  <2> QED
    BY <2>1, <2>2
<1> HIDE DEF Goal
<1>9. Goal
  BY <1>1, <1>2, <1>4, <1>7, <1>8 DEF Next, CreateStep, EndStep
<1> QED
  BY <1>9 DEF Goal

LEMMA LedgerStarts ==
    ASSUME Init, NEW q \in Pools PROVE Ledger(q)!Init
<1>1. pools[q] = NoPool /\ raydium[q] = NotOnRaydium /\ paid[q] = [creator |-> 0, treasury |-> 0]
  BY DEF Init
<1>2. NetSol(NoPool) = 0 /\ CreatorUnclaimed(NoPool) = 0 /\ PlatformUnclaimed(NoPool) = 0
  BY DEF NoPool, NetSol, Unclaimed, CreatorUnclaimed, PlatformUnclaimed
<1> QED
  BY <1>1, <1>2 DEF Ledger!Init, Ledger!Nothing, NoPool, NotOnRaydium

\* The program keeps the ledger's promise for every pool: fees come from trades
\* and are at most a tenth, a claim pays one party all its due and nothing
\* else, the listing takes the curve's SOL and leaves the dues alone, and
\* nothing is due when the accounts are closed.
THEOREM LedgerImplemented == Spec => ImplementsLedger
<1>1. Init => \A p \in Pools : Ledger(p)!Init
  BY LedgerStarts
<1>2. IndInv /\ [Next]_vars => \A p \in Pools : [Ledger(p)!Next]_(Ledger(p)!vars)
  BY LedgerStep
<1> QED
  BY <1>1, <1>2, Invariance, PTL DEF Spec, ImplementsLedger

----------------------------------------------------------------------------
(* Supply *)

\* All tokens of a mint that are not burned; those on Raydium are outside too.
Minted(q) == tokens[q].vault + tokens[q].outside

SupplyOf(q) ==
    /\ pools[q].status \in {"None", "Active"} => raydium[q].burned = 0
    /\ pools[q].status # "None" => /\ Minted(q) + raydium[q].burned = RawSupply
                                   /\ RawSupply <= MaxU64

\* The ways in which a step treats the tokens of a mint.
SupplyKept(q) ==
    /\ Minted(q)' = Minted(q) /\ raydium'[q].burned = raydium[q].burned
    /\ \/ pools'[q].status = pools[q].status
       \/ pools[q].status = "Graduated" /\ pools'[q].status = "Closed"
SupplyMinted(q) ==
    /\ pools[q].status = "None" /\ pools'[q].status = "Active"
    /\ Minted(q)' = RawSupply /\ RawSupply \in U64 /\ config.layout # "absent"
    /\ raydium'[q].burned = raydium[q].burned
SupplySplit(q) ==
    /\ pools[q].status = "Active" /\ pools'[q].status = "Graduated"
    /\ Minted(q)' + raydium'[q].burned = Minted(q)

\* Of a configuration that exists, no instruction changes supply, decimals or
\* the initial reserve.
LEMMA SupplyFixed ==
    ASSUME IndInv, [Next]_vars, config.layout # "absent"
    PROVE  RawSupply' = RawSupply /\ config'.virtualSol = config.virtualSol
<1> DEFINE Goal == /\ config'.totalSupply = config.totalSupply
                   /\ config'.decimals = config.decimals
                   /\ config'.virtualSol = config.virtualSol
<1>0. config \in CurveConfig
  BY DEF IndInv, TypeOK
<1>1. ASSUME AdminStep PROVE Goal
  <2>1. ASSUME NEW a \in Admins, MigrateConfig(a) \/ AcceptAdmin(a) PROVE Goal
    BY <1>0, <2>1 DEF MigrateConfig, AcceptAdmin, Handover, CurveConfig
  <2>2. ASSUME NEW a \in Admins, NEW c \in CreatorFees, NEW f \in PlatformFees,
               NEW g \in Thresholds, NEW t \in Treasuries, NEW n \in Admins \cup {Default},
               NEW x \in Switches, NEW y \in Switches, NEW z \in Switches,
               UpdateConfig(a, c, f, g, t, n, x, y, z)
        PROVE  Goal
    BY <1>0, <2>2 DEF UpdateConfig, CurveConfig
  <2> QED
    BY <1>1, <2>1, <2>2 DEF AdminStep, Initialize
<1>2. ASSUME CreateStep \/ EndStep PROVE Goal
  <2>1. \/ config' = config
        \/ config' = [config EXCEPT !.tokensCreated = @ + 1]
        \/ config' = [config EXCEPT !.tokensGraduated = @ + 1]
    <3>1. CASE CreateStep
      BY <3>1 DEF CreateStep, CreateToken
    <3>2. ASSUME NEW s \in Admins \cup Treasuries, NEW p \in Pools, Graduate(s, p)
          PROVE  config' = [config EXCEPT !.tokensGraduated = @ + 1]
      BY <3>2 DEF Graduate
    <3>3. ASSUME NEW s \in Admins \cup Treasuries, NEW p \in Pools, CloseGraduatedPool(s, p)
          PROVE  config' = config
      BY <3>3 DEF CloseGraduatedPool
    <3> QED
      BY <1>2, <3>1, <3>2, <3>3 DEF EndStep
  <2> QED
    BY <1>0, <2>1 DEF CurveConfig
<1>3. ASSUME TradeStep \/ FeeStep \/ StrayStep \/ UNCHANGED vars PROVE Goal
  <2>1. TradeStep => config' = config
    <3>1. ASSUME NEW p, NEW n, NEW m, Buy(p, n, m) \/ Sell(p, n, m) PROVE config' = config
      BY <3>1 DEF Buy, Sell
    <3>2. ASSUME NEW p, NEW side, NEW n, SignQuote(p, side, n) PROVE config' = config
      BY <3>2 DEF SignQuote
    <3> QED
      BY <3>1, <3>2 DEF TradeStep, LandQuote
  <2>2. FeeStep => config' = config
    BY FeeSteps DEF ClaimCreatorFees, ClaimPlatform
  <2>3. StrayStep \/ UNCHANGED vars => config' = config
    BY DEF StrayStep, StraySol, StrayToken, vars
  <2> QED
    BY <1>3, <2>1, <2>2, <2>3
<1>4. Goal
  BY <1>1, <1>2, <1>3 DEF Next
<1> QED
  BY <1>4 DEF RawSupply

\* Moving n tokens between the vault and the outside.
LEMMA TokensMove ==
    ASSUME IndInv, NEW q \in Pools, NEW n \in Int,
           tokens'[q].vault = tokens[q].vault - n, tokens'[q].outside = tokens[q].outside + n
    PROVE  Minted(q)' = Minted(q)
<1>1. tokens[q].vault \in Int /\ tokens[q].outside \in Int
  BY PoolAccounts DEF PoolTyped
<1> QED
  BY <1>1 DEF Minted

LEMMA BuyKeepsSupply ==
    ASSUME IndInv, NEW q \in Pools, NEW n \in Nat, NEW m, Buy(q, n, m)
    PROVE  SupplyKept(q)
<1> DEFINE b == pools[q]
           out == TokensOut(b, n)
<1>1. /\ PoolTyped(q) /\ b \in CurvePool /\ sol[q] \in Int /\ tokens[q].vault \in Int
      /\ IsActive(q) /\ MayBuy(b, n) /\ UNCHANGED raydium
      /\ pools' = [pools EXCEPT ![q] = Bought(b, n)]
      /\ tokens' = [tokens EXCEPT ![q].vault = @ - out, ![q].outside = @ + out]
  BY PoolAccounts DEF Buy, PoolTyped
<1>2. pools'[q] = Bought(b, n)
  BY <1>1 DEF IndInv, TypeOK
<1>3. out \in Int
  BY <1>1, ActiveIsSound, BoughtSound
<1>4. pools'[q].status = b.status
  BY <1>1, <1>2, BoughtMoves DEF TradeMoves
<1> HIDE DEF out
<1>5. PICK r : r = [tokens[q] EXCEPT !.vault = @ - out, !.outside = @ + out]
  OBVIOUS
<1>6. r.vault = tokens[q].vault - out /\ r.outside = tokens[q].outside + out
  BY <1>1, <1>5 DEF PoolTyped
<1>7. tokens'[q] = r
  BY <1>1, <1>5 DEF IndInv, TypeOK
<1>8. Minted(q)' = Minted(q)
  BY <1>3, <1>6, <1>7, TokensMove
<1> QED
  BY <1>1, <1>4, <1>8 DEF SupplyKept

LEMMA SellKeepsSupply ==
    ASSUME IndInv, NEW q \in Pools, NEW n \in Nat, NEW m, Sell(q, n, m)
    PROVE  SupplyKept(q)
<1> DEFINE b == pools[q]
<1>1. /\ PoolTyped(q) /\ b \in CurvePool /\ UNCHANGED raydium
      /\ pools' = [pools EXCEPT ![q] = Sold(b, n)]
      /\ tokens' = [tokens EXCEPT ![q].vault = @ + n, ![q].outside = @ - n]
  BY PoolAccounts DEF Sell, PoolTyped
<1>2. pools'[q] = Sold(b, n)
  BY <1>1 DEF IndInv, TypeOK
<1>3. pools'[q].status = b.status
  BY <1>1, <1>2, SoldFields
<1>4. PICK r : r = [tokens[q] EXCEPT !.vault = @ + n, !.outside = @ - n]
  OBVIOUS
<1>5. r.vault = tokens[q].vault + n /\ r.outside = tokens[q].outside - n
  BY <1>1, <1>4 DEF PoolTyped
<1>6. tokens'[q] = r
  BY <1>1, <1>4 DEF IndInv, TypeOK
<1>7. tokens[q].vault \in Int /\ tokens[q].outside \in Int
  BY <1>1 DEF PoolTyped
<1>8. Minted(q)' = Minted(q)
  BY <1>5, <1>6, <1>7 DEF Minted
<1> QED
  BY <1>1, <1>3, <1>8 DEF SupplyKept

LEMMA CreateMints ==
    ASSUME IndInv, NEW c \in Creators, NEW q \in Pools, NEW d \in SolAmounts \cup {0},
           CreateToken(c, q, d)
    PROVE  SupplyMinted(q)
<1> DEFINE new == NewPool(c)
           out == TokensOut(new, d)
<1>1. /\ pools[q].status = "None" /\ RawSupply \in U64 /\ UNCHANGED raydium
      /\ config.layout # "absent"
      /\ pools \in [Pools -> CurvePool]
      /\ tokens \in [Pools -> [vault : Nat, outside : Nat]]
  BY DEF CreateToken, ConfigLoads, IndInv, TypeOK
<1>2. tokens[q].outside = 0
  BY <1>1, PoolAccounts DEF PoolSound, Untouched
<1>3. new \in CurvePool /\ ActiveSound(q, new, 0, RawSupply)
  BY <1>1, NewPoolSound
<1>4. RawSupply \in Int /\ RawSupply <= MaxU64
  BY <1>1, ParameterAssumption DEF U64
<1> HIDE DEF new
<1>5. CASE d = 0
  <2>1. pools'[q] = new /\ tokens' = [tokens EXCEPT ![q].vault = RawSupply]
    BY <1>1, <1>5 DEF CreateToken, new
  <2>2. tokens'[q].vault = RawSupply /\ tokens'[q].outside = 0
    BY <1>1, <1>2, <2>1
  <2> QED
    BY <1>1, <1>3, <1>4, <2>1, <2>2 DEF SupplyMinted, Minted, ActiveSound
<1>6. CASE d # 0
  <2>1. d \in Nat
    <3>1. d \in SolAmounts
      BY <1>6
    <3> QED
      BY <3>1, ParameterAssumption
  <2>2. /\ MayBuy(new, d) /\ pools'[q] = Bought(new, d)
        /\ tokens'[q] = [vault |-> RawSupply - out, outside |-> out]
    BY <1>1, <1>6 DEF CreateToken, new
  <2>3. out \in Int
    BY <1>3, <1>4, <2>1, <2>2, BoughtSound
  <2>4. pools'[q].status = "Active"
    BY <1>3, <2>1, <2>2, BoughtMoves DEF TradeMoves, ActiveSound
  <2> HIDE DEF out
  <2>5. Minted(q)' = RawSupply
    BY <1>4, <2>2, <2>3 DEF Minted
  <2> QED
    BY <1>1, <1>4, <2>4, <2>5 DEF SupplyMinted
<1> QED
  BY <1>5, <1>6

LEMMA GraduateSplits ==
    ASSUME IndInv, NEW s \in Admins \cup Treasuries, NEW q \in Pools, Graduate(s, q)
    PROVE  SupplySplit(q)
<1> DEFINE b == pools[q]
           handed == TokensForRaydium(b)
           real == b.realTok
<1>1. /\ IsActive(q) /\ NetSol(b) >= 0 /\ SolForRaydium(b) >= 0 /\ b.vSol > 0
      /\ pools' = [pools EXCEPT ![q] = Graduated(b)]
      /\ tokens' = [tokens EXCEPT ![q].vault = @ - real, ![q].outside = @ + handed]
      /\ raydium'[q].burned = real - handed
      /\ pools \in [Pools -> CurvePool] /\ tokens[q] \in [vault : Nat, outside : Nat]
  BY DEF Graduate, IndInv, TypeOK
<1>2. handed \in Int /\ real \in Int
  BY <1>1, HandedBounds, PoolNumbers
<1>3. b.status = "Active" /\ pools'[q].status = "Graduated"
  BY <1>1 DEF IsActive, Graduated, CurvePool
<1> HIDE DEF handed, real
<1>4. PICK r : r = [tokens[q] EXCEPT !.vault = @ - real, !.outside = @ + handed]
  OBVIOUS
<1>5. r.vault = tokens[q].vault - real /\ r.outside = tokens[q].outside + handed
  BY <1>1, <1>4
<1>6. tokens'[q] = r
  BY <1>1, <1>4 DEF IndInv, TypeOK
<1>7. tokens[q].vault \in Int /\ tokens[q].outside \in Int
  BY <1>1
<1>8. Minted(q)' + raydium'[q].burned = Minted(q)
  BY <1>1, <1>2, <1>5, <1>6, <1>7 DEF Minted
<1> QED
  BY <1>3, <1>8 DEF SupplySplit

\* Every step keeps a mint's tokens, mints them, or splits them at graduation.
LEMMA SupplyStep ==
    ASSUME IndInv, [Next]_vars, NEW q \in Pools
    PROVE  SupplyKept(q) \/ SupplyMinted(q) \/ SupplySplit(q)
<1> DEFINE Goal == SupplyKept(q) \/ SupplyMinted(q) \/ SupplySplit(q)
           Same == pools'[q].status = pools[q].status /\ tokens'[q] = tokens[q]
                   /\ raydium'[q] = raydium[q]
<1>0. Same => Goal
  BY DEF SupplyKept, Minted
<1>t. /\ pools \in [Pools -> CurvePool] /\ raydium \in [Pools -> Listing]
      /\ tokens \in [Pools -> [vault : Nat, outside : Nat]] /\ quote[q] \in Quote
  BY DEF IndInv, TypeOK
<1>1. ASSUME AdminStep \/ UNCHANGED vars PROVE Goal
  <2>1. AdminStep => UNCHANGED <<pools, tokens, raydium>>
    BY AdminKeepsAccounts DEF accounts
  <2> QED
    BY <1>0, <1>1, <2>1 DEF vars
<1>2. ASSUME NEW c \in Creators, NEW p \in Pools, NEW d \in SolAmounts \cup {0},
             CreateToken(c, p, d)
      PROVE  Goal
  <2>1. CASE p = q
    BY <1>2, <2>1, CreateMints
  <2>2. CASE p # q
    <3>1. Same
      BY <1>t, <1>2, <2>2 DEF CreateToken
    <3> QED
      BY <1>0, <3>1
  <2> QED
    BY <2>1, <2>2
<1>3. ASSUME NEW p \in Pools, NEW n \in Nat, NEW m, Buy(p, n, m) \/ Sell(p, n, m)
      PROVE  Goal
  <2>1. CASE p = q
    BY <1>3, <2>1, BuyKeepsSupply, SellKeepsSupply
  <2>2. CASE p # q
    <3>1. Same
      BY <1>t, <1>3, <2>2 DEF Buy, Sell
    <3> QED
      BY <1>0, <3>1
  <2> QED
    BY <2>1, <2>2
<1>4. ASSUME TradeStep PROVE Goal
  <2>1. PICK p \in Pools :
          \/ \E n \in SolAmounts : Buy(p, n, 0)
          \/ \E n \in TokenAmounts : Sell(p, n, 0)
          \/ \E side \in {"buy", "sell"}, n \in QuotedAmounts : SignQuote(p, side, n)
          \/ LandQuote(p)
    BY <1>4 DEF TradeStep
  <2>2. SolAmounts \subseteq Nat /\ TokenAmounts \subseteq Nat
    BY ParameterAssumption
  <2>3. ASSUME NEW side \in {"buy", "sell"}, NEW n \in QuotedAmounts, SignQuote(p, side, n)
        PROVE  Goal
    <3>1. Same
      BY <2>3 DEF SignQuote
    <3> QED
      BY <1>0, <3>1
  <2>4. ASSUME LandQuote(p) PROVE Goal
    <3>1. quote[p].amount \in Nat
      BY DEF IndInv, TypeOK, Quote
    <3>2. Buy(p, quote[p].amount, quote[p].min) \/ Sell(p, quote[p].amount, quote[p].min)
      BY <2>4 DEF LandQuote
    <3> QED
      BY <1>3, <3>1, <3>2
  <2> QED
    BY <1>3, <2>1, <2>2, <2>3, <2>4
<1>5. ASSUME NEW c \in Creators, NEW p \in Pools, ClaimCreatorFees(c, p) PROVE Goal
  <2>1. Same
    BY <1>t, <1>5 DEF ClaimCreatorFees, CurvePool
  <2> QED
    BY <1>0, <2>1
<1>6. ASSUME NEW t \in Treasuries, NEW batch \in SUBSET Pools, ClaimPlatform(t, batch)
      PROVE  Goal
  <2> DEFINE due == DueIn(batch)
  <2>1. /\ pools' = [p \in Pools |-> IF p \in due THEN PlatformClaimed(pools[p]) ELSE pools[p]]
        /\ tokens' = tokens /\ raydium' = raydium
    BY <1>6 DEF ClaimPlatform
  <2> HIDE DEF due
  <2>2. PlatformClaimed(pools[q]).status = pools[q].status
    BY <1>t DEF PlatformClaimed, CurvePool
  <2>3. Same
    BY <2>1, <2>2
  <2> QED
    BY <1>0, <2>3
<1>7. ASSUME FeeStep PROVE Goal
  BY <1>5, <1>6, <1>7, FeeSteps
<1>8. ASSUME NEW s \in Admins \cup Treasuries, NEW p \in Pools, Graduate(s, p) PROVE Goal
  <2>1. CASE p = q
    BY <1>8, <2>1, GraduateSplits
  <2>2. CASE p # q
    <3>1. Same
      BY <1>t, <1>8, <2>2 DEF Graduate
    <3> QED
      BY <1>0, <3>1
  <2> QED
    BY <2>1, <2>2
<1>9. ASSUME NEW s \in Admins \cup Treasuries, NEW p \in Pools, CloseGraduatedPool(s, p)
      PROVE  Goal
  <2>1. /\ pools[p].status = "Graduated" /\ pools' = [pools EXCEPT ![p].status = "Closed"]
        /\ tokens' = tokens /\ raydium' = raydium
    BY <1>9 DEF CloseGraduatedPool, Closable
  <2>2. \/ pools'[q].status = pools[q].status
        \/ pools[q].status = "Graduated" /\ pools'[q].status = "Closed"
    BY <1>t, <2>1 DEF CurvePool
  <2> QED
    BY <2>1, <2>2 DEF SupplyKept, Minted
<1>10. ASSUME NEW p \in Pools, NEW n \in 1..MaxStray, StraySol(p, n) PROVE Goal
  <2>1. Same
    BY <1>10 DEF StraySol
  <2> QED
    BY <1>0, <2>1
<1>11. ASSUME NEW p \in Pools, StrayToken(p) PROVE Goal
  <2>1. /\ tokens' = [tokens EXCEPT ![p].vault = @ + 1, ![p].outside = @ - 1]
        /\ pools' = pools /\ raydium' = raydium
    BY <1>11 DEF StrayToken
  <2>2. CASE p # q
    <3>1. Same
      BY <1>t, <2>1, <2>2
    <3> QED
      BY <1>0, <3>1
  <2>3. CASE p = q
    <3>1. PICK r : r = [tokens[q] EXCEPT !.vault = @ + 1, !.outside = @ - 1]
      OBVIOUS
    <3>2. tokens'[q] = r
      BY <1>t, <2>1, <2>3, <3>1
    <3>3. r.vault = tokens[q].vault + 1 /\ r.outside = tokens[q].outside - 1
          /\ tokens[q].vault \in Int /\ tokens[q].outside \in Int
      BY <1>t, <3>1
    <3>4. Minted(q)' = Minted(q)
      BY <3>2, <3>3 DEF Minted
    <3> QED
      BY <2>1, <3>4 DEF SupplyKept
  <2> QED
    BY <2>2, <2>3
<1> HIDE DEF Goal
<1>12. Goal
  BY <1>1, <1>2, <1>4, <1>7, <1>8, <1>9, <1>10, <1>11
     DEF Next, CreateStep, EndStep, StrayStep
<1> QED
  BY <1>12 DEF Goal

LEMMA SupplyPreserved ==
    ASSUME IndInv, [Next]_vars, NEW q \in Pools, SupplyOf(q) PROVE SupplyOf(q)'
<1>1. /\ raydium[q].burned \in Int /\ Minted(q) \in Int
      /\ pools[q].status \in {"None", "Active", "Graduated", "Closed"}
      /\ pools[q].status # "None" => config.layout # "absent"
  BY PoolAccounts DEF PoolTyped, Listing, CurvePool, IndInv, Minted
<1>2. CASE SupplyKept(q)
  <2>1. CASE pools[q].status = "None"
    BY <1>2, <2>1 DEF SupplyKept, SupplyOf
  <2>2. CASE pools[q].status # "None"
    <3>1. RawSupply' = RawSupply
      BY <1>1, <2>2, SupplyFixed
    <3> QED
      BY <1>2, <2>2, <3>1 DEF SupplyKept, SupplyOf
  <2> QED
    BY <2>1, <2>2
<1>3. CASE SupplyMinted(q)
  <2>1. RawSupply' = RawSupply
    BY <1>3, SupplyFixed DEF SupplyMinted
  <2>2. RawSupply \in Int /\ RawSupply <= MaxU64
    BY <1>3, ParameterAssumption DEF SupplyMinted, U64
  <2> QED
    BY <1>3, <2>1, <2>2 DEF SupplyMinted, SupplyOf
<1>4. CASE SupplySplit(q)
  <2>1. RawSupply' = RawSupply
    BY <1>1, <1>4, SupplyFixed DEF SupplySplit
  <2> QED
    BY <1>1, <1>4, <2>1 DEF SupplySplit, SupplyOf
<1> QED
  BY <1>2, <1>3, <1>4, SupplyStep

\* No token of a mint is added or lost after the mint, and the supply fits u64.
THEOREM SupplyIsConserved == Spec => []SupplyConserved
<1> DEFINE SupplyInv == IndInv /\ \A p \in Pools : SupplyOf(p)
<1>1. Init => SupplyInv
  <2> SUFFICES ASSUME Init, NEW p \in Pools PROVE SupplyOf(p)
    BY InitIndInv
  <2>1. pools[p].status = "None" /\ raydium[p].burned = 0
    BY DEF Init, NoPool, NotOnRaydium
  <2> QED
    BY <2>1 DEF SupplyOf
<1>2. SupplyInv /\ [Next]_vars => SupplyInv'
  BY NextPreserves, SupplyPreserved
<1>3. SupplyInv => SupplyConserved
  BY DEF SupplyOf, SupplyConserved, Minted, RawSupply
<1> HIDE DEF SupplyInv
<1> QED
  BY <1>1, <1>2, <1>3, PTL DEF Spec
=============================================================================
