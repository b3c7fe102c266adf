--------------------------- MODULE SolvencyProofs ---------------------------
(***************************************************************************)
(* The curve pays: what rounding can cost a pool over its whole life, what *)
(* it can give a trader who turns straight back, and that the fees of a    *)
(* pool that graduated can be claimed.                                     *)
(***************************************************************************)
EXTENDS LedgerProofs

----------------------------------------------------------------------------
(* What rounding can cost *)

\* The product of the reserves is the initial one, less at most the supply for
\* every trade; the supply is not below the initial reserve.
RoundingOf(p) ==
    IsActive(p) =>
        /\ config.virtualSol <= RawSupply
        /\ config.virtualSol * RawSupply
             <= pools[p].vSol * pools[p].vTok + pools[p].trades * RawSupply

\* The invariant that is inductive while the reserve stays below the supply.
SolvencyInv ==
    /\ IndInv
    /\ \A p \in Pools : SupplyOf(p) /\ RoundingOf(p)

\* On the curve, what is outside can come back: the two make the supply, but
\* for what was sent to the vault.
LEMMA ReserveWithinSupply ==
    ASSUME IndInv, NEW p \in Pools, SupplyOf(p), IsActive(p)
    PROVE  /\ pools[p].vSol \in Nat /\ pools[p].vTok \in Nat /\ pools[p].trades \in Nat
           /\ config.virtualSol \in Nat /\ RawSupply \in Nat
           /\ tokens[p].outside \in Nat
           /\ pools[p].vTok + tokens[p].outside <= RawSupply
           /\ NetSol(pools[p]) = pools[p].vSol - config.virtualSol
<1>1. /\ ActiveSound(p, pools[p], sol[p], tokens[p].vault) /\ PoolTyped(p)
      /\ pools[p] \in CurvePool
  BY ActiveIsSound, PoolAccounts DEF PoolTyped
<1>2. /\ pools[p].vSol \in Nat /\ pools[p].vTok \in Nat /\ pools[p].realTok \in Nat
      /\ tokens[p].vault \in Nat /\ tokens[p].outside \in Nat
  BY <1>1, PoolNumbers DEF PoolTyped
<1>3. pools[p].trades \in Nat
  <2>1. pools[p].trades \in 0..MaxTrades
    BY <1>1 DEF CurvePool
  <2> QED
    BY <2>1, ParameterAssumption
<1>4. config.virtualSol \in Nat /\ stray[p].tokens \in Nat
  <2>1. config.virtualSol \in VirtualSols \cup {0}
    BY DEF IndInv, TypeOK, CurveConfig
  <2> QED
    BY <2>1, PoolHistoryTyped, ParameterAssumption
<1>5. tokens[p].vault + tokens[p].outside = RawSupply
  <2>1. raydium[p].burned = 0 /\ Minted(p) + raydium[p].burned = RawSupply
    BY DEF SupplyOf, IsActive
  <2> QED
    BY <1>2, <2>1 DEF Minted
<1>6. pools[p].vTok + stray[p].tokens = tokens[p].vault
  BY <1>1, <1>2, <1>4 DEF ActiveSound
<1>7. RawSupply \in Nat /\ pools[p].vTok + tokens[p].outside <= RawSupply
  <2> DEFINE S == RawSupply  t == pools[p].vTok  o == tokens[p].outside
             w == tokens[p].vault  y == stray[p].tokens
  <2>1. t \in Nat /\ o \in Nat /\ w \in Nat /\ y \in Nat /\ w + o = S /\ t + y = w
    BY <1>2, <1>4, <1>5, <1>6
  <2> HIDE DEF S, t, o, w, y
  <2>2. S \in Nat /\ t + o <= S
    BY <2>1
  <2> QED
    BY <2>2 DEF S, t, o
<1>8. NetSol(pools[p]) = pools[p].vSol - config.virtualSol
  BY <1>1 DEF ActiveSound
<1> QED
  BY <1>2, <1>3, <1>4, <1>7, <1>8

\* One more trade, one more supply.
LEMMA RoundingGrows ==
    ASSUME NEW floor \in Nat, NEW k \in Nat, NEW k2 \in Nat, NEW trades \in Nat,
           NEW supply \in Nat, k - k2 <= supply, floor <= k + trades * supply
    PROVE  floor <= k2 + (trades + 1) * supply
<1> DEFINE n == trades * supply
<1>1. n \in Nat /\ (trades + 1) * supply = n + supply
  BY Z3
<1>2. floor <= k + n
  OBVIOUS
<1> HIDE DEF n
<1>3. floor <= k2 + (n + supply)
  BY <1>1, <1>2
<1> QED
  BY <1>1, <1>3

\* A purchase costs the product less than the new SOL reserve.
LEMMA BuyCosts ==
    ASSUME IndInv, NEW q \in Pools, NEW n \in Nat, NEW m \in Nat, Buy(q, n, m),
           NEW supply \in Nat, pools'[q].vSol <= supply
    PROVE  /\ pools'[q].vSol \in Nat /\ pools'[q].vTok \in Nat
           /\ pools'[q].trades = pools[q].trades + 1
           /\ pools[q].vSol * pools[q].vTok - pools'[q].vSol * pools'[q].vTok <= supply
<1> DEFINE b == pools[q]
           b2 == pools'[q]
<1>1. /\ b \in CurvePool /\ b2 = Bought(b, n) /\ IsActive(q) /\ MayBuy(b, n)
      /\ sol[q] \in Int /\ tokens[q].vault \in Int
  BY PoolAccounts DEF Buy, IndInv, TypeOK, PoolTyped
<1>2. b2 \in CurvePool
  BY <1>1, ActiveIsSound, BoughtSound
<1>3. b2.trades = b.trades + 1 /\ b2.vSol = b.vSol + AfterFee(n)
  BY <1>1, BoughtFields
<1>4. /\ b.vSol \in Nat /\ b.vTok \in Nat /\ b2.vSol \in Nat /\ b2.vTok \in Nat
  BY <1>1, <1>2, PoolNumbers
<1>5. b2.vSol > b.vSol
  <2> DEFINE x == AfterFee(n)
  <2>1. x \in 0..n /\ x > 0
    BY TradeFee DEF Buy, MayBuy, BuyAnswers
  <2> HIDE DEF x
  <2>2. b.vSol + x > b.vSol
    BY <1>4, <2>1
  <2> QED
    BY <1>3, <2>2 DEF x
<1>6. b.vSol * b.vTok - b2.vSol * b2.vTok < b2.vSol
  BY <1>5, BuyRounds DEF ProductKept
<1>7. b.vSol * b.vTok \in Nat /\ b2.vSol * b2.vTok \in Nat
  BY <1>4, ProductOrder
<1>8. b.vSol * b.vTok - b2.vSol * b2.vTok <= supply
  <2> DEFINE k == b.vSol * b.vTok  k2 == b2.vSol * b2.vTok  v == b2.vSol
  <2>1. k \in Nat /\ k2 \in Nat /\ k - k2 < v /\ v \in Nat /\ v <= supply
    BY <1>4, <1>6, <1>7
  <2> HIDE DEF k, k2, v
  <2>2. k - k2 <= supply
    BY <2>1
  <2> QED
    BY <2>2 DEF k, k2
<1> QED
  BY <1>3, <1>4, <1>8

\* A sale costs it less than the new token reserve, which the supply bounds.
LEMMA SellCosts ==
    ASSUME IndInv, NEW q \in Pools, SupplyOf(q), NEW n \in Nat, NEW m \in Nat, Sell(q, n, m)
    PROVE  /\ pools'[q].vSol \in Nat /\ pools'[q].vTok \in Nat
           /\ pools'[q].trades = pools[q].trades + 1
           /\ pools[q].vSol * pools[q].vTok - pools'[q].vSol * pools'[q].vTok <= RawSupply
<1> DEFINE b == pools[q]
           b2 == pools'[q]
           out == SolOut(b, n)
<1>1. /\ b \in CurvePool /\ b2 = Sold(b, n) /\ IsActive(q) /\ SellAnswers(b, n)
      /\ Representable(Sold(b, n)) /\ n > 0 /\ out > 0 /\ tokens[q].outside >= n
      /\ sol[q] \in Int /\ tokens[q].vault \in Int
  BY PoolAccounts DEF Sell, SellAnswers, IndInv, TypeOK, PoolTyped
<1>2. b2 \in CurvePool /\ out \in 0..b.vSol
  BY <1>1, ActiveIsSound, SoldSound
<1>3. /\ b2.trades = b.trades + 1 /\ b2.vSol = b.vSol - out /\ b2.vTok = b.vTok + n
  BY <1>1, SoldFields
<1>4. /\ b.vSol \in Nat /\ b.vTok \in Nat /\ b2.vSol \in Nat /\ b2.vTok \in Nat
  BY <1>1, <1>2, PoolNumbers
<1>5. ~ (b2.vSol > b.vSol)
  <2> HIDE DEF out
  <2>1. ~ (b.vSol - out > b.vSol)
    BY <1>2, <1>4
  <2> QED
    BY <1>3, <2>1
<1>6. b.vSol * b.vTok - b2.vSol * b2.vTok < b2.vTok
  BY <1>5, SellRounds DEF ProductKept
<1>7. b.vSol * b.vTok \in Nat /\ b2.vSol * b2.vTok \in Nat
  BY <1>4, ProductOrder
<1>8. RawSupply \in Nat /\ b2.vTok <= RawSupply
  <2>1. /\ tokens[q].outside \in Nat /\ RawSupply \in Nat
        /\ b.vTok + tokens[q].outside <= RawSupply
    BY <1>1, ReserveWithinSupply
  <2> DEFINE t == b.vTok  o == tokens[q].outside  S == RawSupply
  <2>2. t \in Nat /\ o \in Nat /\ S \in Nat /\ t + o <= S /\ o >= n
    BY <1>1, <1>4, <2>1
  <2> HIDE DEF t, o, S
  <2>3. t + n <= S
    BY <2>2
  <2> QED
    BY <1>3, <2>1, <2>3 DEF t, S
<1>9. b.vSol * b.vTok - b2.vSol * b2.vTok <= RawSupply
  <2> DEFINE k == b.vSol * b.vTok  k2 == b2.vSol * b2.vTok  v == b2.vTok  S == RawSupply
  <2>1. k \in Nat /\ k2 \in Nat /\ k - k2 < v /\ v \in Nat /\ v <= S /\ S \in Nat
    BY <1>4, <1>6, <1>7, <1>8
  <2> HIDE DEF k, k2, v, S
  <2>2. k - k2 <= S
    BY <2>1
  <2> QED
    BY <2>2 DEF k, k2, S
<1> QED
  BY <1>3, <1>4, <1>9
\* The first purchase is charged like any other, on the reserves of a new pool.
LEMMA CreateRounds ==
    ASSUME IndInv, NEW c \in Creators, NEW q \in Pools, NEW d \in SolAmounts \cup {0},
           CreateToken(c, q, d), pools'[q].vSol <= RawSupply
    PROVE  /\ config.virtualSol <= RawSupply
           /\ config.virtualSol * RawSupply
                <= pools'[q].vSol * pools'[q].vTok + pools'[q].trades * RawSupply
<1> DEFINE new == NewPool(c)
           b2 == pools'[q]
           v0 == config.virtualSol
           S == RawSupply
<1>1. pools[q].status = "None" /\ RawSupply \in U64 /\ pools \in [Pools -> CurvePool]
  BY DEF CreateToken, IndInv, TypeOK
<1>2. new \in CurvePool /\ ActiveSound(q, new, 0, S)
  BY <1>1, NewPoolSound
<1>3. new.vSol = v0 /\ new.vTok = S /\ new.trades = 0
  BY DEF NewPool, NoPool
<1>4. v0 \in Nat /\ S \in Nat
  BY <1>2, <1>3, PoolNumbers
<1>5. v0 * S \in Nat
  BY <1>4, ProductOrder
<1>6. CASE d = 0
  <2>1. b2 = new
    BY <1>1, <1>6 DEF CreateToken
  <2>2. b2.vSol = v0 /\ b2.vTok = S /\ b2.trades = 0
    BY <1>3, <2>1
  <2> HIDE DEF v0, S, new
  <2>3. 0 * S = 0
    BY <1>4
  <2>4. v0 * S <= v0 * S + 0 * S
    BY <1>5, <2>3
  <2>5. v0 <= S
    BY <2>2 DEF S
  <2> QED
    BY <2>2, <2>4, <2>5 DEF v0, S
<1>7. CASE d # 0
  <2> DEFINE x == AfterFee(d)
             left == S - SwapOut(x, v0, S)
  <2>1. d \in Nat
    <3>1. d \in SolAmounts
      BY <1>7
    <3> QED
      BY <3>1, ParameterAssumption
  <2>2. MayBuy(new, d) /\ b2 = Bought(new, d)
    BY <1>1, <1>7 DEF CreateToken
  <2>3. x \in Nat /\ x > 0
    <3>1. x \in 0..d
      BY <2>1, TradeFee
    <3>2. x > 0
      BY <2>2 DEF MayBuy, BuyAnswers
    <3> QED
      BY <3>1, <3>2
  <2> HIDE DEF new
  <2>4. b2.vSol = v0 + x /\ b2.vTok = left /\ b2.trades = 1
    <3>1. /\ b2.vSol = new.vSol + x /\ b2.vTok = new.vTok - SwapOut(x, new.vSol, new.vTok)
          /\ b2.trades = new.trades + 1
      BY <1>2, <2>2, BoughtFields DEF TokensOut
    <3> QED
      BY <1>3, <3>1
  <2>5. v0 * S - (v0 + x) * left < v0 + x /\ SwapOut(x, v0, S) \in 0..S
    <3> HIDE DEF v0, S, x
    <3>1. v0 + x > 0
      BY <1>4, <2>3
    <3> QED
      BY <1>4, <2>3, <3>1, SwapBounds, SwapRounding
  <2>6. v0 + x <= S
    BY <2>4
  <2>7. left \in Nat
    <3> DEFINE o == SwapOut(x, v0, S)
    <3> HIDE DEF o, S
    <3>1. S - o \in Nat
      BY <1>4, <2>5 DEF o
    <3> QED
      BY <3>1 DEF o, S
  <2> HIDE DEF v0, S, x, left, b2
  <2>8. (v0 + x) * left \in Nat
    BY <1>4, <2>3, <2>7, ProductOrder
  <2>9. v0 <= S /\ v0 * S <= (v0 + x) * left + 1 * S
    <3> DEFINE k == v0 * S  k2 == (v0 + x) * left
    <3>1. k \in Nat /\ k2 \in Nat /\ k - k2 < v0 + x
      BY <1>5, <2>5, <2>8
    <3> HIDE DEF k, k2
    <3>2. k <= k2 + S
      BY <1>4, <2>3, <2>6, <3>1
    <3>3. v0 <= S /\ 1 * S = S
      BY <1>4, <2>3, <2>6
    <3> QED
      BY <3>2, <3>3 DEF k, k2
  <2> QED
    BY <2>4, <2>9 DEF v0, S, b2
<1> QED
  BY <1>6, <1>7

\* While the reserve stays below the supply, no step costs the curve more than
\* one supply of the product, and only a trade costs anything.
LEMMA RoundingPreserved ==
    ASSUME IndInv, [Next]_vars, NEW q \in Pools, SupplyOf(q), RoundingOf(q),
           ReserveBelowSupply'
    PROVE  RoundingOf(q)'
<1> SUFFICES ASSUME pools'[q].status = "Active" PROVE RoundingOf(q)'
  BY DEF RoundingOf, IsActive
<1> DEFINE b == pools[q]
           b2 == pools'[q]
<1>1. pools'[q].vSol <= RawSupply'
  BY DEF ReserveBelowSupply, IsActive
<1>2. ASSUME config.layout # "absent",
             config.virtualSol <= RawSupply,
             config.virtualSol * RawSupply <= b2.vSol * b2.vTok + b2.trades * RawSupply
      PROVE  RoundingOf(q)'
  <2>1. RawSupply' = RawSupply /\ config'.virtualSol = config.virtualSol
    BY <1>2, SupplyFixed
  <2> QED
    BY <1>2, <2>1 DEF RoundingOf
<1>3. ASSUME NEW c \in Creators, NEW d \in SolAmounts \cup {0}, CreateToken(c, q, d)
      PROVE  RoundingOf(q)'
  <2>1. config.layout # "absent"
    BY <1>3 DEF CreateToken, ConfigLoads
  <2>2. pools'[q].vSol <= RawSupply
    BY <1>1, <2>1, SupplyFixed
  <2> QED
    BY <1>2, <1>3, <2>1, <2>2, CreateRounds
<1>4. ASSUME IsActive(q), b2.vSol = b.vSol, b2.vTok = b.vTok, b2.trades = b.trades
      PROVE  RoundingOf(q)'
  <2>1. config.layout # "absent"
    BY <1>4, ActiveIsSound
  <2> QED
    BY <1>2, <1>4, <2>1 DEF RoundingOf
<1>5. ASSUME NEW n \in Nat, NEW m \in Nat, Buy(q, n, m) \/ Sell(q, n, m)
      PROVE  RoundingOf(q)'
  <2>1. IsActive(q)
    BY <1>5 DEF Buy, Sell
  <2>2. config.layout # "absent" /\ RawSupply' = RawSupply
    BY <2>1, ActiveIsSound, SupplyFixed
  <2>3. /\ b.vSol \in Nat /\ b.vTok \in Nat /\ b.trades \in Nat
        /\ config.virtualSol \in Nat /\ RawSupply \in Nat
    BY <2>1, ReserveWithinSupply
  <2>4. pools'[q].vSol <= RawSupply
    BY <1>1, <2>2
  <2>5. /\ b2.vSol \in Nat /\ b2.vTok \in Nat /\ b2.trades = b.trades + 1
        /\ b.vSol * b.vTok - b2.vSol * b2.vTok <= RawSupply
    BY <1>5, <2>3, <2>4, BuyCosts, SellCosts
  <2>6. /\ config.virtualSol * RawSupply \in Nat
        /\ b.vSol * b.vTok \in Nat /\ b2.vSol * b2.vTok \in Nat
    BY <2>3, <2>5, ProductOrder
  <2>7. config.virtualSol <= RawSupply
        /\ config.virtualSol * RawSupply <= b.vSol * b.vTok + b.trades * RawSupply
    BY <2>1 DEF RoundingOf
  <2>8. config.virtualSol * RawSupply <= b2.vSol * b2.vTok + (b.trades + 1) * RawSupply
    <3> DEFINE f == config.virtualSol * RawSupply  k == b.vSol * b.vTok
               k2 == b2.vSol * b2.vTok  t == b.trades
    <3>1. /\ f \in Nat /\ k \in Nat /\ k2 \in Nat /\ t \in Nat /\ RawSupply \in Nat
          /\ k - k2 <= RawSupply /\ f <= k + t * RawSupply
      BY <2>3, <2>5, <2>6, <2>7
    <3> HIDE DEF f, k, k2, t
    <3>2. f <= k2 + (t + 1) * RawSupply
      BY <3>1, RoundingGrows
    <3> QED
      BY <3>2 DEF f, k2, t
  <2> QED
    BY <1>2, <2>2, <2>5, <2>7, <2>8
<1>6. CASE pools'[q] = pools[q]
  BY <1>4, <1>6 DEF IsActive
<1>7. CASE PaysFees(q)
  BY <1>4, <1>7 DEF PaysFees, IsActive
<1>8. CASE pools[q].status = "Graduated" /\ pools'[q] = [pools[q] EXCEPT !.status = "Closed"]
  <2>1. pools[q] \in CurvePool
    BY PoolAccounts DEF PoolTyped
  <2> QED
    BY <1>8, <2>1 DEF CurvePool
<1> QED
  BY <1>3, <1>5, <1>6, <1>7, <1>8, StepByPool DEF PoolStep

\* A bound on the product is one on what the curve owes.
LEMMA ProductBacks ==
    ASSUME NEW v0 \in Nat, NEW s \in Nat, NEW v \in Nat, NEW t \in Nat, NEW n \in Nat,
           NEW trades \in Nat, v0 <= s, t + n <= s, v0 * s <= v * t + trades * s
    PROVE  /\ v0 <= v + trades
           /\ n > 0 => SwapOut(n, t, v) <= v - v0 + trades
<1>1. CASE v0 <= trades
  <2>1. v0 <= v + trades
    BY <1>1
  <2>2. ASSUME n > 0 PROVE SwapOut(n, t, v) <= v - v0 + trades
    <3> DEFINE out == SwapOut(n, t, v)
    <3>1. out \in 0..v
      <4>1. t + n > 0
        BY <2>2
      <4> QED
        BY <4>1, SwapBounds
    <3> HIDE DEF out
    <3>2. out <= v - v0 + trades
      BY <1>1, <3>1
    <3> QED
      BY <3>2 DEF out
  <2> QED
    BY <2>1, <2>2
<1>2. CASE v0 > trades
  <2> DEFINE m == v0 - trades
  <2>1. m \in Nat /\ m > 0 /\ v0 = m + trades
    BY <1>2
  <2> HIDE DEF m
  <2>2. /\ (m + trades) * s = m * s + trades * s
        /\ m * s \in Nat /\ trades * s \in Nat /\ v * t \in Nat
    BY <2>1, Z3
  <2>3. m * s <= v * t
    <3> DEFINE ms == m * s  ts == trades * s  vt == v * t
    <3>1. ms \in Nat /\ ts \in Nat /\ vt \in Nat /\ ms + ts <= vt + ts
      BY <2>1, <2>2
    <3> HIDE DEF ms, ts, vt
    <3>2. ms <= vt
      BY <3>1
    <3> QED
      BY <3>2 DEF ms, vt
  <2>4. t <= s /\ s > 0
    BY <1>2
  <2>5. v * t <= v * s /\ v * s \in Nat
    BY <2>4, ProductOrder
  <2>6. m <= v
    <3>1. CASE v + 1 <= m
      <4>1. (v + 1) * s <= m * s
        BY <2>1, <3>1, ProductOrder
      <4>2. (v + 1) * s = v * s + s
        BY Z3
      <4> DEFINE ms == m * s  vs == v * s  vt == v * t
      <4>3. ms \in Nat /\ vs \in Nat /\ vt \in Nat /\ vs + s <= ms /\ ms <= vt /\ vt <= vs
        BY <2>2, <2>3, <2>5, <4>1, <4>2
      <4> HIDE DEF ms, vs, vt
      <4> QED
        BY <2>4, <4>3
    <3> QED
      BY <2>1, <3>1
  <2>7. ASSUME n > 0 PROVE SwapOut(n, t, v) <= v - v0 + trades
    <3> DEFINE q == (t * v) \div (t + n)
    <3>1. (t + n) * m <= s * m /\ (t + n) * m \in Nat /\ s * m \in Nat
      BY <2>1, ProductOrder
    <3>2. s * m = m * s /\ t * v = v * t
      BY <2>1, Z3
    <3>3. (t + n) * m <= t * v
      <4> DEFINE l == (t + n) * m  c == s * m  r == t * v
      <4>1. l <= c /\ c <= r /\ l \in Nat /\ c \in Nat /\ r \in Nat
        BY <2>2, <2>3, <3>1, <3>2
      <4> HIDE DEF l, c, r
      <4>2. l <= r
        BY <4>1
      <4> QED
        BY <4>2 DEF l, r
    <3>4. t * v \in Nat /\ t + n \in Nat /\ t + n > 0
      BY <2>2, <2>7, <3>2
    <3>5. m <= q /\ q \in Nat
      BY <2>1, <3>3, <3>4, QuotientAbove, DivisionBounds
    <3>6. SwapOut(n, t, v) = v - q
      BY DEF SwapOut
    <3> HIDE DEF q
    <3>7. v - q <= v - v0 + trades
      BY <2>1, <3>5
    <3> QED
      BY <3>6, <3>7
  <2> QED
    BY <2>1, <2>6, <2>7
<1> QED
  BY <1>1, <1>2

LEMMA SolvencyInit == Init => SolvencyInv
<1> SUFFICES ASSUME Init, NEW p \in Pools PROVE SupplyOf(p) /\ RoundingOf(p)
  BY InitIndInv DEF SolvencyInv
<1>1. pools[p].status = "None" /\ raydium[p].burned = 0
  BY DEF Init, NoPool, NotOnRaydium
<1> QED
  BY <1>1 DEF SupplyOf, RoundingOf, IsActive

LEMMA SolvencyPreserved == SolvencyInv /\ [Next]_vars /\ ReserveBelowSupply' => SolvencyInv'
BY NextPreserves, SupplyPreserved, RoundingPreserved DEF SolvencyInv

LEMMA InvariantBacks == SolvencyInv => SoldTokensBacked
<1> SUFFICES ASSUME SolvencyInv, NEW p \in Pools, IsActive(p)
             PROVE  LET backed == NetSol(pools[p]) + pools[p].trades
                    IN  /\ backed >= 0
                        /\ \A n \in 1..tokens[p].outside : SolOut(pools[p], n) <= backed
  BY DEF SoldTokensBacked
<1> DEFINE v0 == config.virtualSol
           v == pools[p].vSol
           t == pools[p].vTok
           k == pools[p].trades
           o == tokens[p].outside
           S == RawSupply
<1>1. IndInv /\ SupplyOf(p) /\ RoundingOf(p)
  BY DEF SolvencyInv
<1>2. /\ v \in Nat /\ t \in Nat /\ k \in Nat /\ v0 \in Nat /\ S \in Nat /\ o \in Nat
      /\ t + o <= S /\ NetSol(pools[p]) = v - v0
  BY <1>1, ReserveWithinSupply
<1>3. v0 <= S /\ v0 * S <= v * t + k * S
  BY <1>1 DEF RoundingOf
<1>4. ASSUME NEW n \in 0..o
      PROVE  v0 <= v + k /\ (n > 0 => SolOut(pools[p], n) <= v - v0 + k)
  <2>1. SolOut(pools[p], n) = SwapOut(n, t, v)
    BY DEF SolOut
  <2> HIDE DEF v0, v, t, k, o, S
  <2>2. n \in Nat /\ t + n <= S
    BY <1>2
  <2>3. v0 <= v + k /\ (n > 0 => SwapOut(n, t, v) <= v - v0 + k)
    BY <1>2, <1>3, <2>2, ProductBacks, ZenonT(60)
  <2> QED
    BY <2>1, <2>3
<1> HIDE DEF v0, v, t, k, o
<1>5. (v - v0) + k >= 0
  <2>1. v0 <= v + k
    BY <1>2, <1>4
  <2> QED
    BY <1>2, <2>1
<1>6. ASSUME NEW n \in 1..o PROVE SolOut(pools[p], n) <= (v - v0) + k
  <2>1. n \in 0..o /\ n > 0
    BY <1>2
  <2> QED
    BY <1>4, <2>1
<1> QED
  BY <1>2, <1>5, <1>6 DEF k, o

\* The curve stays solvent to within a lamport per trade, over any sequence of
\* steps in which the reserve stays below the supply.
THEOREM CurveIsSolvent == Spec => CurveSolvent
BY SolvencyInit, SolvencyPreserved, InvariantBacks, PTL DEF Spec, CurveSolvent

----------------------------------------------------------------------------
(* Trade stays open *)

\* A swap on a reserve that holds anything takes something out.
LEMMA SwapPositive ==
    ASSUME NEW x \in Nat, x > 0, NEW rin \in Nat, NEW rout \in Nat, rout > 0
    PROVE  SwapOut(x, rin, rout) > 0
<1> DEFINE out == SwapOut(x, rin, rout)
<1>1. rin + x \in Nat /\ rin + x > 0
  OBVIOUS
<1>2. out \in Nat
  BY <1>1, SwapBounds
<1>3. x * rout <= (rin + x) * out
  BY <1>1, SwapIsCeiling
<1>4. x * rout > 0
  BY Z3
<1> HIDE DEF out
<1>5. CASE out = 0
  <2>1. (rin + x) * out = 0
    BY <1>1, <1>5
  <2> QED
    BY <1>3, <1>4, <2>1
<1> QED
  BY <1>2, <1>5 DEF out

\* The books of a purchase, at its event.
LEMMA EventPasses ==
    ASSUME SolvencyInv, NEW p \in Pools, IsActive(p), NEW n \in Nat,
           AfterFee(n) >= pools[p].trades
    PROVE  NetSol(Bought(pools[p], n)) >= 0
<1> DEFINE b == pools[p]
           k == b.trades
           x == AfterFee(n)
           net == NetSol(b)
           net2 == NetSol(Bought(b, n))
<1>1. IndInv /\ SupplyOf(p) /\ b \in CurvePool
  BY PoolAccounts DEF SolvencyInv, PoolTyped
<1>2. net2 = net + x /\ x \in Nat
  BY <1>1, BoughtMoves, FeeSplit DEF TradeMoves
<1>3. net \in Int /\ k \in Nat
  BY <1>1, PoolNumbers, ReserveWithinSupply
<1>4. net + k >= 0
  BY InvariantBacks DEF SoldTokensBacked
<1>5. x >= k
  OBVIOUS
<1> HIDE DEF k, x, net, net2
<1>6. net2 >= 0
  BY <1>2, <1>3, <1>4, <1>5
<1> QED
  BY <1>6 DEF net2

\* A sale covered by the fees due: what the curve gives is in the vault.
LEMMA SalePays ==
    ASSUME SolvencyInv, NEW p \in Pools, IsActive(p), NEW n \in 1..tokens[p].outside,
           pools[p].vSol > 0, pools[p].vTok > 0,
           Unclaimed(pools[p]) >= pools[p].trades
    PROVE  /\ SellAnswers(pools[p], n) /\ SolOut(pools[p], n) \in 1..pools[p].vSol
           /\ AfterFee(SolOut(pools[p], n)) \in 0..pools[p].realSol
           /\ AfterFee(SolOut(pools[p], n)) <= sol[p]
<1> DEFINE b == pools[p]
           k == b.trades
           out == SolOut(b, n)
           got == AfterFee(out)
           net == NetSol(b)
           rs == b.realSol
           u == Unclaimed(b)
           st == stray[p].sol
<1>1. /\ IndInv /\ SupplyOf(p) /\ b \in CurvePool
      /\ ActiveSound(p, b, sol[p], tokens[p].vault)
  BY PoolAccounts, ActiveIsSound DEF SolvencyInv, PoolTyped
<1>2. /\ b.vSol \in Nat /\ b.vTok \in Nat /\ tokens[p].outside \in Nat /\ k \in Nat
      /\ rs \in Nat /\ u \in Int /\ net \in Int /\ st \in Nat
  BY <1>1, PoolNumbers, PoolHistoryTyped, ReserveWithinSupply
<1>3. n \in Nat /\ n > 0
  BY <1>2
<1>4. out = SwapOut(n, b.vTok, b.vSol)
  BY DEF SolOut
<1>5. out \in Nat /\ out > 0 /\ out <= b.vSol
  <2>1. b.vTok + n > 0
    BY <1>2, <1>3
  <2>2. out \in 0..b.vSol
    BY <1>2, <1>3, <1>4, <2>1, SwapBounds
  <2>3. out > 0
    BY <1>2, <1>3, <1>4, SwapPositive
  <2> HIDE DEF out
  <2> QED
    BY <1>2, <2>2, <2>3
<1>6. out <= net + k
  BY InvariantBacks DEF SoldTokensBacked
<1>7. net = rs - u /\ u >= k
  BY DEF NetSol
<1>8. sol[p] = rs + st
  BY <1>1 DEF ActiveSound
<1>9. got \in 0..out
  <2> HIDE DEF out
  <2> QED
    BY <1>1, <1>5, TradeFee
<1>10. SellAnswers(b, n)
  <2>1. out <= rs
    <3> HIDE DEF out, net, k, rs, u
    <3> QED
      BY <1>2, <1>5, <1>6, <1>7
  <2> QED
    BY <1>3, <1>4, <2>1 DEF SellAnswers
<1>11. out <= rs
  BY <1>4, <1>10 DEF SellAnswers
<1> HIDE DEF out, got, rs, st
<1>12. got \in 0..rs /\ got <= rs + st
  BY <1>2, <1>5, <1>9, <1>11
<1>13. out \in 1..b.vSol
  BY <1>2, <1>5
<1> QED
  BY <1>8, <1>10, <1>12, <1>13 DEF out, got, rs, st

\* Its books can be recorded, if the two counters of fees can.
LEMMA SaleRecorded ==
    ASSUME SolvencyInv, NEW p \in Pools, IsActive(p), NEW n \in 1..tokens[p].outside,
           NEW sold, sold = Sold(pools[p], n),
           {sold.creatorEarned, sold.platformEarned} \subseteq U64,
           sold.trades <= MaxTrades,
           SolOut(pools[p], n) \in 1..pools[p].vSol,
           AfterFee(SolOut(pools[p], n)) \in 0..pools[p].realSol
    PROVE  Representable(sold)
<1> DEFINE b == pools[p]
           out == SolOut(b, n)
           got == AfterFee(out)
           M == MaxU64
           v == b.vSol
           t == b.vTok
           rs == b.realSol
           o == tokens[p].outside
           S == RawSupply
<1>1. /\ IndInv /\ SupplyOf(p) /\ b \in CurvePool
      /\ ActiveSound(p, b, sol[p], tokens[p].vault)
  BY PoolAccounts, ActiveIsSound DEF SolvencyInv, PoolTyped
<1>2. /\ v \in 0..M /\ rs \in 0..M /\ M \in Nat
  BY <1>1, ParameterAssumption DEF CurvePool, U64
<1>3. t \in Nat /\ o \in Nat /\ S \in Nat /\ t + o <= S /\ S <= M
  <2>1. S <= M
    BY <1>1 DEF SupplyOf, IsActive
  <2> QED
    BY <1>1, <2>1, ReserveWithinSupply
<1>4. b.realTok = t
  BY <1>1 DEF ActiveSound
<1>5. /\ sold.vSol = v - out /\ sold.vTok = t + n
      /\ sold.realSol = rs - got /\ sold.realTok = t + n
  BY <1>1, <1>4, SoldFields
<1>6. n \in 1..o /\ out \in 1..v /\ got \in 0..rs
  OBVIOUS
<1> HIDE DEF b, out, got, M, v, t, rs, o, S
<1>7. v - out \in 0..M /\ t + n \in 0..M /\ rs - got \in 0..M
  BY <1>2, <1>3, <1>6
<1>8. {sold.vSol, sold.vTok, sold.realSol, sold.realTok} \subseteq U64
  BY <1>5, <1>7 DEF U64, M
<1> QED
  BY <1>8 DEF Representable

LEMMA InvariantOpens == SolvencyInv => TradesOpen
<1> SUFFICES ASSUME SolvencyInv, NEW p \in Pools, IsActive(p)
             PROVE  /\ \A n \in SolAmounts :
                          AfterFee(n) >= pools[p].trades => NetSol(Bought(pools[p], n)) >= 0
                    /\ \A n \in 1..tokens[p].outside :
                          ( /\ pools[p].vSol > 0 /\ pools[p].vTok > 0
                            /\ {Sold(pools[p], n).creatorEarned,
                                Sold(pools[p], n).platformEarned} \subseteq U64
                            /\ Sold(pools[p], n).trades <= MaxTrades
                            /\ Unclaimed(pools[p]) >= pools[p].trades ) =>
                                /\ SellAnswers(pools[p], n) /\ SolOut(pools[p], n) > 0
                                /\ Representable(Sold(pools[p], n))
                                /\ AfterFee(SolOut(pools[p], n)) <= sol[p]
  BY DEF TradesOpen
<1>1. ASSUME NEW n \in SolAmounts, AfterFee(n) >= pools[p].trades
      PROVE  NetSol(Bought(pools[p], n)) >= 0
  <2>1. n \in Nat
    BY ParameterAssumption
  <2> QED
    BY <1>1, <2>1, EventPasses
<1>2. ASSUME NEW n \in 1..tokens[p].outside,
             pools[p].vSol > 0, pools[p].vTok > 0,
             {Sold(pools[p], n).creatorEarned,
              Sold(pools[p], n).platformEarned} \subseteq U64,
             Sold(pools[p], n).trades <= MaxTrades,
             Unclaimed(pools[p]) >= pools[p].trades
      PROVE  /\ SellAnswers(pools[p], n) /\ SolOut(pools[p], n) > 0
             /\ Representable(Sold(pools[p], n))
             /\ AfterFee(SolOut(pools[p], n)) <= sol[p]
  <2>1. /\ SellAnswers(pools[p], n) /\ SolOut(pools[p], n) \in 1..pools[p].vSol
        /\ AfterFee(SolOut(pools[p], n)) \in 0..pools[p].realSol
        /\ AfterFee(SolOut(pools[p], n)) <= sol[p]
    BY <1>2, SalePays
  <2>2. Representable(Sold(pools[p], n))
    BY <1>2, <2>1, SaleRecorded
  <2>3. SolOut(pools[p], n) > 0
    BY <2>1
  <2> QED
    BY <2>1, <2>2, <2>3
<1> QED
  BY <1>1, <1>2

\* Through any steps in which the reserve stays below the supply, buyers are
\* not refused by the test made for the event, and holders can sell.
THEOREM CurveIsOpen == Spec => CurveStaysOpen
BY SolvencyInit, SolvencyPreserved, InvariantOpens, PTL DEF Spec, CurveStaysOpen


----------------------------------------------------------------------------
(* Buying and selling straight back *)

LEMMA RoundTripByInvariant == IndInv => RoundTripCosts
<1> SUFFICES ASSUME IndInv, NEW p \in Pools, NEW n \in SolAmounts,
                    IsActive(p), MayBuy(pools[p], n), Fee(n, TotalFeeBps) > 0,
                    Bought(pools[p], n).vSol <= pools[p].vTok
             PROVE  AfterFee(SolOut(Bought(pools[p], n), TokensOut(pools[p], n))) <= n
  BY DEF RoundTripCosts
<1> DEFINE b == pools[p]
           s == b.vSol
           t == b.vTok
           x == AfterFee(n)
           fee == Fee(n, TotalFeeBps)
           out == TokensOut(b, n)
           back == SolOut(Bought(b, n), out)
<1>1. n \in Nat /\ b \in CurvePool
  BY ParameterAssumption, PoolAccounts DEF PoolTyped
<1>2. s \in Nat /\ t \in Nat
  BY <1>1, PoolNumbers
<1>3. PICK after : after = Bought(b, n)
  OBVIOUS
<1>4. after.vSol = s + x /\ after.vTok = t - out
  BY <1>1, <1>3, BoughtFields
<1>5. fee \in Nat /\ fee > 0 /\ x \in Nat /\ x = n - fee /\ x > 0
  BY <1>1, FeeSplit DEF MayBuy, BuyAnswers
<1>6. s + x <= t
  BY <1>3, <1>4
<1>7. back \in x..(x + 1)
  <2>1. out = SwapOut(x, s, t) /\ back = SwapOut(out, t - out, s + x)
    BY <1>3, <1>4 DEF TokensOut, SolOut
  <2> HIDE DEF s, t, x, out, back
  <2>2. s + x > 0
    BY <1>2, <1>5
  <2>3. SwapOut(SwapOut(x, s, t), t - SwapOut(x, s, t), s + x) \in x..(x + 1)
    BY <1>2, <1>5, <1>6, <2>2, RoundTripBounds
  <2> QED
    BY <2>1, <2>3
<1> HIDE DEF x, fee, back
<1>8. back \in Nat /\ back <= n
  BY <1>1, <1>5, <1>7
<1>9. AfterFee(back) \in 0..back
  BY <1>8, TradeFee
<1>10. AfterFee(back) <= n
  <2> DEFINE got == AfterFee(back)
  <2>1. got \in 0..back
    BY <1>9
  <2> HIDE DEF got
  <2>2. got <= n
    BY <1>1, <1>8, <2>1
  <2> QED
    BY <2>2 DEF got
<1> QED
  BY <1>10 DEF back

\* Buying and selling straight back leaves no profit, in any state a pool can be
\* in: the fee, once it is a lamport, is worth more than both roundings.
THEOREM RoundTripsCost == Spec => []RoundTripCosts
BY RoundTripByInvariant, Invariance, PTL

----------------------------------------------------------------------------
(* The fees of a graduated pool *)

LEMMA ClaimOpenByInvariant == IndInv => FeesClaimOpen
<1> SUFFICES ASSUME IndInv, NEW p \in Pools, pools[p].status = "Graduated",
                    Unclaimed(pools[p]) > 0, ~StrayRemainder(p), ~PartsTooSmall(p)
             PROVE  \/ CreatorUnclaimed(pools[p]) > 0 /\ MayClaimCreator(p)
                    \/ PlatformUnclaimed(pools[p]) > 0 /\ MayClaimPlatform(p)
  BY DEF FeesClaimOpen
<1> DEFINE c == CreatorUnclaimed(pools[p])
           t == PlatformUnclaimed(pools[p])
           rs == pools[p].realSol
           st == stray[p].sol
           R == RentExempt
<1>1. PoolTyped(p) /\ PoolSound(p) /\ pools[p] \in CurvePool /\ Exists(p)
  BY PoolAccounts DEF PoolTyped, Exists, PoolStatus
<1>2. c \in Nat /\ t \in Nat /\ rs \in Nat
  <2>1. /\ pools[p].creatorEarned \in Nat /\ pools[p].creatorClaimed \in Nat
        /\ pools[p].platformEarned \in Nat /\ pools[p].platformClaimed \in Nat
        /\ rs \in Nat
    BY <1>1, PoolNumbers
  <2>2. /\ pools[p].creatorClaimed <= pools[p].creatorEarned
        /\ pools[p].platformClaimed <= pools[p].platformEarned
    BY <1>1 DEF PoolSound, FeesOf
  <2> QED
    BY <2>1, <2>2 DEF CreatorUnclaimed, PlatformUnclaimed
<1>3. rs = c + t
  <2>1. rs - (c + t) = 0
    BY <1>1 DEF PoolSound, BooksOf, NetSol, Unclaimed
  <2> HIDE DEF rs, c, t
  <2> QED
    BY <1>2, <2>1
<1>4. st \in Nat /\ sol[p] = rs + st /\ R \in Nat
  BY <1>1, PoolHistoryTyped, ParameterAssumption DEF PoolSound, VaultsOf
<1>5. c + t > 0 /\ (st = 0 \/ st >= R)
  BY <1>4 DEF Unclaimed, StrayRemainder
<1>6. ~ (c \in 1..(R - 1) /\ t \in 1..(R - 1))
  BY DEF PartsTooSmall
<1> HIDE DEF c, t, rs, st, R
<1>7. sol[p] - c = t + st /\ sol[p] - t = c + st
  BY <1>2, <1>3, <1>4
<1>8. c <= sol[p] /\ c <= rs /\ t <= sol[p] /\ t <= rs
  BY <1>2, <1>3, <1>4
<1>9. ASSUME c > 0, t + st = 0 \/ t + st >= R PROVE c > 0 /\ MayClaimCreator(p)
  BY <1>7, <1>8, <1>9 DEF MayClaimCreator, MayPay, VaultMayHold, c, rs, R
<1>10. ASSUME t > 0, c + st = 0 \/ c + st >= R PROVE t > 0 /\ MayClaimPlatform(p)
  BY <1>7, <1>8, <1>10 DEF MayClaimPlatform, MayPay, VaultMayHold, t, rs, R
<1>11. \/ c > 0 /\ (t + st = 0 \/ t + st >= R)
       \/ t > 0 /\ (c + st = 0 \/ c + st >= R)
  BY <1>2, <1>4, <1>5, <1>6
<1> QED
  BY <1>9, <1>10, <1>11 DEF c, t

\* The fees of a graduated pool can be claimed, by one party or the other.
THEOREM FeesClaimIsOpen == Spec => []FeesClaimOpen
BY ClaimOpenByInvariant, Invariance, PTL
=============================================================================
