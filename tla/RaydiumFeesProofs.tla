-------------------------- MODULE RaydiumFeesProofs --------------------------
(***************************************************************************)
(* Theorems about RaydiumFees for every number of pools and all amounts:   *)
(* composing the claim with the curve disturbs nothing of the curve, and   *)
(* creator fees are neither lost nor paid twice.                           *)
(***************************************************************************)
EXTENDS RaydiumFees, BondingCurveProofs

\* No instruction of the composition steps outside the curve program.
LEMMA RaydiumStepsCurve ==
    ASSUME [RaydiumNext]_allVars PROVE [Next]_vars
<1>1. CASE CurveStep
  BY <1>1 DEF CurveStep
<1>2. CASE RaydiumStep
  BY <1>2 DEF RaydiumStep, NameCreator, Accrue, Gift, ClaimRaydiumFees
<1>3. CASE UNCHANGED allVars
  BY <1>3 DEF allVars
<1> QED
  BY <1>1, <1>2, <1>3 DEF RaydiumNext

\* Whatever holds of the curve program alone holds of it with Raydium.
THEOREM RaydiumRefinesCurve == RaydiumSpec => Spec
<1>1. RaydiumInit => Init
  BY DEF RaydiumInit
<1>2. [RaydiumNext]_allVars => [Next]_vars
  BY RaydiumStepsCurve
<1> QED
  BY <1>1, <1>2, PTL DEF RaydiumSpec, Spec

----------------------------------------------------------------------------
(* The invariant *)

\* Of pool p and token i: where the fees are, and how they were shared.
AccountedAt(p, i) ==
    /\ owed[p][i] + claimed[p][i] = accrued[p][i]
    /\ held[p][i] = gifts[p][i]
SharedAt(p, i) ==
    LET share == shared[p][i]
    IN  /\ share.creator + share.treasury = claimed[p][i]
        /\ share.creator <= share.treasury
        /\ share.treasury - share.creator <= claims[p]

\* Nothing was claimed before graduation starts the counters, so that starting
\* them loses nothing.
NothingClaimedYet(p) ==
    pools[p].status \in {"None", "Active"} => \A i \in Sides : claimed[p][i] = 0

FeesSound(p) == NothingClaimedYet(p) /\ \A i \in Sides : AccountedAt(p, i) /\ SharedAt(p, i)

RaydiumInv ==
    /\ IndInv
    /\ RaydiumTypeOK
    /\ \A p \in Pools : FeesSound(p)

LEMMA RaydiumInvImplies ==
    RaydiumInv => RaydiumTypeOK /\ RaydiumFeesAccounted /\ RaydiumSplitFair
BY DEF RaydiumInv, FeesSound, AccountedAt, SharedAt, RaydiumFeesAccounted, RaydiumSplitFair

LEMMA RaydiumInitInv == RaydiumInit => RaydiumInv
<1> SUFFICES ASSUME RaydiumInit PROVE RaydiumInv
  OBVIOUS
<1>1. IndInv
  BY InitIndInv DEF RaydiumInit
<1>2. 0 \in U64
  BY ParameterAssumption DEF U64
<1>3. RaydiumTypeOK
  BY <1>2 DEF RaydiumInit, RaydiumTypeOK, NoFees, NoShares
<1>4. ASSUME NEW p \in Pools PROVE FeesSound(p)
  BY DEF RaydiumInit, FeesSound, NothingClaimedYet, AccountedAt, SharedAt, NoFees, NoShares
<1> QED
  BY <1>1, <1>3, <1>4 DEF RaydiumInv

\* Numbers of pool p and token i.
LEMMA FeeNumbers ==
    ASSUME RaydiumInv, NEW p \in Pools, NEW i \in Sides
    PROVE  /\ owed[p][i] \in Nat /\ held[p][i] \in Nat /\ claimed[p][i] \in Nat
           /\ shared[p][i].creator \in Nat /\ shared[p][i].treasury \in Nat
           /\ accrued[p][i] \in Nat /\ gifts[p][i] \in Nat /\ claims[p] \in Nat
<1>1. claimed[p][i] \in U64
  BY DEF RaydiumInv, RaydiumTypeOK
<1>2. claimed[p][i] \in Nat
  BY <1>1, ParameterAssumption DEF U64
<1> QED
  BY <1>2 DEF RaydiumInv, RaydiumTypeOK

----------------------------------------------------------------------------
(* Steps of the curve *)

\* Graduation puts counters to zero that are zero.
LEMMA CounterStartsEmpty ==
    ASSUME RaydiumInv, CurveStep PROVE UNCHANGED fees
<1>1. \A p \in Pools : Graduates(p) => claimed[p] = NoFees
  <2> SUFFICES ASSUME NEW p \in Pools, Graduates(p) PROVE claimed[p] = NoFees
    OBVIOUS
  <2>1. \A i \in Sides : claimed[p][i] = 0
    BY DEF Graduates, RaydiumInv, FeesSound, NothingClaimedYet
  <2>2. claimed[p] \in [Sides -> U64]
    BY DEF RaydiumInv, RaydiumTypeOK
  <2> QED
    BY <2>1, <2>2 DEF NoFees
<1>2. claimed = [p \in Pools |-> claimed[p]]
  BY DEF RaydiumInv, RaydiumTypeOK
<1>3. claimed' = [p \in Pools |-> claimed[p]]
  BY <1>1 DEF CurveStep
<1> QED
  BY <1>2, <1>3 DEF CurveStep, fees

\* A pool that left the curve does not come back.
LEMMA NeverBack ==
    ASSUME IndInv, [Next]_vars, NEW p \in Pools, pools'[p].status \in {"None", "Active"}
    PROVE  pools[p].status \in {"None", "Active"}
<1>1. pools[p].status \in {"None", "Active", "Graduated", "Closed"}
  BY DEF IndInv, TypeOK, CurvePool
<1>2. CASE pools[p].status \in {"Graduated", "Closed"}
  BY <1>2, LeftForGoodStep
<1> QED
  BY <1>1, <1>2

LEMMA CurveStepKeepsFees ==
    ASSUME RaydiumInv, [Next]_vars, UNCHANGED fees PROVE RaydiumInv'
<1>1. IndInv'
  BY NextPreserves DEF RaydiumInv
<1>2. RaydiumTypeOK'
  BY DEF fees, RaydiumInv, RaydiumTypeOK
<1>3. ASSUME NEW p \in Pools PROVE FeesSound(p)'
  <2>1. FeesSound(p)
    BY DEF RaydiumInv
  <2>2. NothingClaimedYet(p)'
    BY <2>1, NeverBack DEF RaydiumInv, FeesSound, NothingClaimedYet, fees
  <2> QED
    BY <2>1, <2>2 DEF FeesSound, AccountedAt, SharedAt, fees
<1> QED
  BY <1>1, <1>2, <1>3 DEF RaydiumInv

----------------------------------------------------------------------------
(* The claim *)

\* One claim halves what it received, the odd unit to the treasury.
LEMMA HalvesMatch ==
    ASSUME NEW n \in Nat
    PROVE  /\ CreatorHalf(n) \in Nat /\ TreasuryHalf(n) \in Nat
           /\ CreatorHalf(n) + TreasuryHalf(n) = n
           /\ CreatorHalf(n) <= TreasuryHalf(n)
           /\ TreasuryHalf(n) - CreatorHalf(n) <= 1
<1> DEFINE h == n \div 2
<1>1. h \in Nat /\ 2 * h <= n /\ n < 2 * h + 2
  BY DivisionBounds
<1>2. CreatorHalf(n) = h /\ TreasuryHalf(n) = n - h
  BY DEF CreatorHalf, TreasuryHalf
<1> HIDE DEF h
<1> QED
  BY <1>1, <1>2

\* What a claim does to the accounts of its pool: all that Raydium kept is
\* counted and passed on, and nothing of what lay there before.
LEMMA ClaimPassesOn ==
    ASSUME RaydiumInv, NEW s, NEW p \in Pools, ClaimRaydiumFees(s, p), NEW i \in Sides
    PROVE  LET n == owed[p][i]
           IN  /\ owed'[p][i] = 0 /\ held'[p][i] = held[p][i]
               /\ claimed'[p][i] = claimed[p][i] + n /\ claimed[p][i] + n <= MaxU64
               /\ shared'[p][i] = [creator  |-> shared[p][i].creator + CreatorHalf(n),
                                   treasury |-> shared[p][i].treasury + TreasuryHalf(n)]
               /\ claims'[p] = claims[p] + 1
               /\ accrued' = accrued /\ gifts' = gifts
<1> DEFINE n == owed[p][i]
           h == held[p][i]
           after == [j \in Sides |-> held[p][j] + owed[p][j]]
           received == [j \in Sides |-> Received(held[p][j], after[j])]
<1>1. n \in Nat /\ h \in Nat /\ RaydiumTypeOK
  BY FeeNumbers DEF RaydiumInv
<1>2. received[i] = n /\ after[i] = h + n
  <2>1. received[i] = (h + n) - h /\ after[i] = h + n
    BY DEF Received
  <2> HIDE DEF received, after, n, h
  <2> QED
    BY <1>1, <2>1
<1>3. /\ \A j \in Sides : CounterFits(claimed[p][j], received[j])
      /\ owed' = [owed EXCEPT ![p] = NoFees]
      /\ held' = [held EXCEPT ![p] =
            [j \in Sides |-> after[j] - CreatorHalf(received[j]) - TreasuryHalf(received[j])]]
      /\ claimed' = [claimed EXCEPT ![p] = [j \in Sides |-> claimed[p][j] + received[j]]]
      /\ shared' = [shared EXCEPT ![p] =
            [j \in Sides |-> [creator  |-> shared[p][j].creator + CreatorHalf(received[j]),
                              treasury |-> shared[p][j].treasury + TreasuryHalf(received[j])]]]
      /\ claims' = [claims EXCEPT ![p] = @ + 1]
      /\ accrued' = accrued /\ gifts' = gifts
  BY DEF ClaimRaydiumFees, Collected
<1> HIDE DEF received, after
<1>4. owed'[p][i] = 0 /\ claims'[p] = claims[p] + 1
  BY <1>1, <1>3 DEF RaydiumTypeOK, NoFees
<1>5. held'[p][i] = (h + n) - CreatorHalf(n) - TreasuryHalf(n)
  <2>1. held'[p][i] = after[i] - CreatorHalf(received[i]) - TreasuryHalf(received[i])
    BY <1>1, <1>3 DEF RaydiumTypeOK
  <2> QED
    BY <1>2, <2>1
<1>6. claimed'[p][i] = claimed[p][i] + n /\ claimed[p][i] + n <= MaxU64
  <2>1. claimed'[p][i] = claimed[p][i] + received[i] /\ CounterFits(claimed[p][i], received[i])
    BY <1>1, <1>3 DEF RaydiumTypeOK
  <2> QED
    BY <1>2, <2>1 DEF CounterFits
<1>7. shared'[p][i] = [creator  |-> shared[p][i].creator + CreatorHalf(n),
                      treasury |-> shared[p][i].treasury + TreasuryHalf(n)]
  <2>1. shared'[p][i] = [creator  |-> shared[p][i].creator + CreatorHalf(received[i]),
                        treasury |-> shared[p][i].treasury + TreasuryHalf(received[i])]
    BY <1>1, <1>3 DEF RaydiumTypeOK
  <2> QED
    BY <1>2, <2>1
<1> HIDE DEF n, h
<1>8. (h + n) - CreatorHalf(n) - TreasuryHalf(n) = h
  <2> DEFINE c == CreatorHalf(n)  t == TreasuryHalf(n)
  <2>1. c \in Int /\ t \in Int /\ c + t = n /\ h \in Int
    BY <1>1, HalvesMatch
  <2> HIDE DEF c, t
  <2>2. (h + n) - c - t = h
    BY <2>1
  <2> QED
    BY <2>2 DEF c, t
<1>9. held'[p][i] = h /\ accrued' = accrued /\ gifts' = gifts
  BY <1>3, <1>5, <1>8
<1> QED
  BY <1>4, <1>6, <1>7, <1>9 DEF n, h

LEMMA ClaimRaydiumPreserves ==
    ASSUME RaydiumInv, NEW s, NEW p \in Pools, ClaimRaydiumFees(s, p)
    PROVE  RaydiumInv'
<1>1. UNCHANGED <<vars, named>> /\ pools[p].status = "Graduated" /\ RaydiumTypeOK
  BY DEF ClaimRaydiumFees, RaydiumInv
<1>2. IndInv'
  BY <1>1, NextPreserves DEF RaydiumInv
<1>3. ASSUME NEW q \in Pools, q # p
      PROVE  /\ owed'[q] = owed[q] /\ held'[q] = held[q] /\ claimed'[q] = claimed[q]
             /\ shared'[q] = shared[q] /\ accrued'[q] = accrued[q] /\ gifts'[q] = gifts[q]
             /\ claims'[q] = claims[q]
  BY <1>1, <1>3 DEF ClaimRaydiumFees, RaydiumTypeOK
<1>4. RaydiumTypeOK'
  <2>1. /\ owed' \in [Pools -> [Sides -> Nat]] /\ accrued' = accrued /\ gifts' = gifts
        /\ claims' \in [Pools -> Nat]
    BY <1>1 DEF ClaimRaydiumFees, RaydiumTypeOK, NoFees
  <2>2. ASSUME NEW i \in Sides
        PROVE  /\ held'[p][i] \in Nat /\ claimed'[p][i] \in U64
               /\ shared'[p][i] \in [creator : Nat, treasury : Nat]
    <3> DEFINE n == owed[p][i]
    <3>1. /\ held'[p][i] = held[p][i]
          /\ claimed'[p][i] = claimed[p][i] + n /\ claimed[p][i] + n <= MaxU64
          /\ shared'[p][i] = [creator  |-> shared[p][i].creator + CreatorHalf(n),
                              treasury |-> shared[p][i].treasury + TreasuryHalf(n)]
      BY ClaimPassesOn
    <3>2. n \in Nat /\ held[p][i] \in Nat /\ claimed[p][i] \in Nat
          /\ shared[p][i].creator \in Nat /\ shared[p][i].treasury \in Nat
      BY FeeNumbers
    <3> HIDE DEF n
    <3>3. CreatorHalf(n) \in Nat /\ TreasuryHalf(n) \in Nat
      BY <3>2, HalvesMatch
    <3>4. claimed'[p][i] \in U64
      BY <3>1, <3>2, ParameterAssumption DEF U64
    <3> QED
      BY <3>1, <3>2, <3>3, <3>4
  <2>3. ASSUME NEW f, NEW g, NEW S, NEW new, f \in [Pools -> [Sides -> S]],
               g = [f EXCEPT ![p] = [i \in Sides |-> new[i]]], \A i \in Sides : g[p][i] \in S
        PROVE  g \in [Pools -> [Sides -> S]]
    <3>1. g[p] = [i \in Sides |-> new[i]] /\ \A i \in Sides : new[i] \in S
      BY <2>3
    <3> QED
      BY <2>3, <3>1
  <2>4. /\ held' \in [Pools -> [Sides -> Nat]] /\ claimed' \in [Pools -> [Sides -> U64]]
        /\ shared' \in [Pools -> [Sides -> [creator : Nat, treasury : Nat]]]
    <3> DEFINE after == [j \in Sides |-> held[p][j] + owed[p][j]]
               received == [j \in Sides |-> Received(held[p][j], after[j])]
               h2 == [j \in Sides |-> after[j] - CreatorHalf(received[j]) - TreasuryHalf(received[j])]
               c2 == [j \in Sides |-> claimed[p][j] + received[j]]
               s2 == [j \in Sides |-> [creator  |-> shared[p][j].creator + CreatorHalf(received[j]),
                                       treasury |-> shared[p][j].treasury + TreasuryHalf(received[j])]]
    <3>1. /\ held' = [held EXCEPT ![p] = h2] /\ claimed' = [claimed EXCEPT ![p] = c2]
          /\ shared' = [shared EXCEPT ![p] = s2]
      BY DEF ClaimRaydiumFees, Collected
    <3>2. /\ h2 = [i \in Sides |-> h2[i]] /\ c2 = [i \in Sides |-> c2[i]]
          /\ s2 = [i \in Sides |-> s2[i]]
      OBVIOUS
    <3> HIDE DEF h2, c2, s2
    <3>3. held' \in [Pools -> [Sides -> Nat]]
      BY <1>1, <2>2, <2>3, <3>1, <3>2 DEF RaydiumTypeOK
    <3>4. claimed' \in [Pools -> [Sides -> U64]]
      BY <1>1, <2>2, <2>3, <3>1, <3>2 DEF RaydiumTypeOK
    <3>5. shared' \in [Pools -> [Sides -> [creator : Nat, treasury : Nat]]]
      BY <1>1, <2>2, <2>3, <3>1, <3>2 DEF RaydiumTypeOK
    <3> QED
      BY <3>3, <3>4, <3>5
  <2> QED
    BY <1>1, <2>1, <2>4 DEF RaydiumTypeOK
<1>5. ASSUME NEW i \in Sides PROVE AccountedAt(p, i)' /\ SharedAt(p, i)'
  <2> DEFINE n == owed[p][i]  c == shared[p][i].creator  t == shared[p][i].treasury
             ch == CreatorHalf(n)  th == TreasuryHalf(n)
  <2>1. /\ owed'[p][i] = 0 /\ held'[p][i] = held[p][i]
        /\ claimed'[p][i] = claimed[p][i] + n
        /\ shared'[p][i] = [creator |-> c + ch, treasury |-> t + th]
        /\ claims'[p] = claims[p] + 1 /\ accrued' = accrued /\ gifts' = gifts
    BY ClaimPassesOn
  <2>2. /\ n \in Nat /\ c \in Nat /\ t \in Nat /\ claimed[p][i] \in Nat /\ claims[p] \in Nat
        /\ accrued[p][i] \in Nat /\ held[p][i] \in Nat
    BY FeeNumbers
  <2>3. /\ n + claimed[p][i] = accrued[p][i] /\ held[p][i] = gifts[p][i]
        /\ c + t = claimed[p][i] /\ c <= t /\ t - c <= claims[p]
    BY DEF RaydiumInv, FeesSound, AccountedAt, SharedAt
  <2>4. ch \in Nat /\ th \in Nat /\ ch + th = n /\ ch <= th /\ th - ch <= 1
    BY <2>2, HalvesMatch
  <2> HIDE DEF n, c, t, ch, th
  <2>5. AccountedAt(p, i)'
    BY <2>1, <2>2, <2>3 DEF AccountedAt
  <2>6. /\ (c + ch) + (t + th) = claimed[p][i] + n /\ c + ch <= t + th
        /\ (t + th) - (c + ch) <= claims[p] + 1
    BY <2>2, <2>3, <2>4
  <2>7. shared'[p][i].creator = c + ch /\ shared'[p][i].treasury = t + th
    BY <2>1
  <2>8. SharedAt(p, i)'
    BY <2>1, <2>6, <2>7 DEF SharedAt
  <2> QED
    BY <2>5, <2>8
<1>6. ASSUME NEW q \in Pools PROVE FeesSound(q)'
  <2>1. FeesSound(q) /\ pools'[q] = pools[q]
    BY <1>1 DEF RaydiumInv, vars
  <2>2. CASE q = p
    BY <1>1, <1>5, <2>1, <2>2 DEF FeesSound, NothingClaimedYet
  <2>3. CASE q # p
    BY <1>3, <2>1, <2>3 DEF FeesSound, NothingClaimedYet, AccountedAt, SharedAt
  <2> QED
    BY <2>2, <2>3
<1> QED
  BY <1>2, <1>4, <1>6 DEF RaydiumInv

----------------------------------------------------------------------------
(* Raydium and strangers *)

LEMMA NamePreserves ==
    ASSUME RaydiumInv, NEW p \in Pools, NameCreator(p) PROVE RaydiumInv'
<1>1. UNCHANGED <<vars, owed, held, claimed, shared, accrued, gifts, claims>>
      /\ named' \in [Pools -> BOOLEAN]
  BY DEF NameCreator, RaydiumInv, RaydiumTypeOK
<1>2. IndInv'
  BY <1>1, NextPreserves DEF RaydiumInv
<1>3. RaydiumTypeOK'
  BY <1>1 DEF RaydiumInv, RaydiumTypeOK
<1>4. ASSUME NEW q \in Pools PROVE FeesSound(q)'
  BY <1>1 DEF RaydiumInv, FeesSound, NothingClaimedYet, AccountedAt, SharedAt, vars
<1> QED
  BY <1>2, <1>3, <1>4 DEF RaydiumInv

LEMMA AccruePreserves ==
    ASSUME RaydiumInv, NEW p \in Pools, NEW i \in Sides, NEW n \in Accruals, Accrue(p, i, n)
    PROVE  RaydiumInv'
<1>1. /\ UNCHANGED <<vars, named, held, claimed, shared, gifts, claims>>
      /\ owed' = [owed EXCEPT ![p][i] = @ + n] /\ accrued' = [accrued EXCEPT ![p][i] = @ + n]
      /\ n \in Nat /\ RaydiumTypeOK
  BY RaydiumAssumption DEF Accrue, RaydiumInv
<1>2. IndInv'
  BY <1>1, NextPreserves DEF RaydiumInv
<1>3. /\ owed' \in [Pools -> [Sides -> Nat]] /\ accrued' \in [Pools -> [Sides -> Nat]]
  BY <1>1 DEF RaydiumTypeOK
<1>4. RaydiumTypeOK'
  BY <1>1, <1>3 DEF RaydiumTypeOK
<1>5. ASSUME NEW q \in Pools, NEW j \in Sides PROVE AccountedAt(q, j)'
  <2>1. AccountedAt(q, j) /\ owed[q][j] \in Nat /\ claimed[q][j] \in Nat
    BY FeeNumbers DEF RaydiumInv, FeesSound
  <2>2. CASE q = p /\ j = i
    <3>1. owed'[q][j] = owed[q][j] + n /\ accrued'[q][j] = accrued[q][j] + n
      BY <1>1, <2>2 DEF RaydiumTypeOK
    <3> QED
      BY <1>1, <2>1, <3>1 DEF AccountedAt
  <2>3. CASE ~ (q = p /\ j = i)
    <3>1. owed'[q][j] = owed[q][j] /\ accrued'[q][j] = accrued[q][j]
      BY <1>1, <2>3 DEF RaydiumTypeOK
    <3> QED
      BY <1>1, <2>1, <3>1 DEF AccountedAt
  <2> QED
    BY <2>2, <2>3
<1>6. ASSUME NEW q \in Pools PROVE FeesSound(q)'
  BY <1>1, <1>5 DEF RaydiumInv, FeesSound, NothingClaimedYet, SharedAt, vars
<1> QED
  BY <1>2, <1>4, <1>6 DEF RaydiumInv

LEMMA GiftPreserves ==
    ASSUME RaydiumInv, NEW p \in Pools, NEW i \in Sides, Gift(p, i) PROVE RaydiumInv'
<1>1. /\ UNCHANGED <<vars, named, owed, claimed, shared, accrued, claims>>
      /\ held' = [held EXCEPT ![p][i] = @ + 1] /\ gifts' = [gifts EXCEPT ![p][i] = @ + 1]
      /\ RaydiumTypeOK
  BY DEF Gift, RaydiumInv
<1>2. IndInv'
  BY <1>1, NextPreserves DEF RaydiumInv
<1>3. /\ held' \in [Pools -> [Sides -> Nat]] /\ gifts' \in [Pools -> [Sides -> Nat]]
  BY <1>1 DEF RaydiumTypeOK
<1>4. RaydiumTypeOK'
  BY <1>1, <1>3 DEF RaydiumTypeOK
<1>5. ASSUME NEW q \in Pools, NEW j \in Sides PROVE AccountedAt(q, j)'
  <2>1. AccountedAt(q, j)
    BY DEF RaydiumInv, FeesSound
  <2>2. CASE q = p /\ j = i
    <3>1. held'[q][j] = held[q][j] + 1 /\ gifts'[q][j] = gifts[q][j] + 1
      BY <1>1, <2>2 DEF RaydiumTypeOK
    <3> QED
      BY <1>1, <2>1, <3>1 DEF AccountedAt
  <2>3. CASE ~ (q = p /\ j = i)
    <3>1. held'[q][j] = held[q][j] /\ gifts'[q][j] = gifts[q][j]
      BY <1>1, <2>3 DEF RaydiumTypeOK
    <3> QED
      BY <1>1, <2>1, <3>1 DEF AccountedAt
  <2> QED
    BY <2>2, <2>3
<1>6. ASSUME NEW q \in Pools PROVE FeesSound(q)'
  BY <1>1, <1>5 DEF RaydiumInv, FeesSound, NothingClaimedYet, SharedAt, vars
<1> QED
  BY <1>2, <1>4, <1>6 DEF RaydiumInv

----------------------------------------------------------------------------
(* The theorems *)

LEMMA RaydiumNextPreserves ==
    ASSUME RaydiumInv, [RaydiumNext]_allVars PROVE RaydiumInv'
<1>1. [Next]_vars
  BY RaydiumStepsCurve
<1>2. CASE CurveStep \/ UNCHANGED allVars
  <2>1. UNCHANGED fees
    BY <1>2, CounterStartsEmpty DEF allVars, fees
  <2> QED
    BY <1>1, <2>1, CurveStepKeepsFees
<1>3. CASE RaydiumStep
  BY <1>3, NamePreserves, AccruePreserves, GiftPreserves, ClaimRaydiumPreserves DEF RaydiumStep
<1> QED
  BY <1>2, <1>3 DEF RaydiumNext

\* No claim, accrual, gift or instruction of the curve leaves the invariant.
THEOREM RaydiumInvariance == RaydiumSpec => []RaydiumInv
BY RaydiumInitInv, RaydiumNextPreserves, PTL DEF RaydiumSpec

\* Counters of claimed fees never overflow, and no balance goes below zero.
THEOREM RaydiumTypes == RaydiumSpec => []RaydiumTypeOK
BY RaydiumInvImplies, RaydiumInvariance, PTL

\* Creator fees are at Raydium or were claimed, once, and nothing else that
\* lies in the PDA's accounts is ever split.
THEOREM RaydiumFeesAreAccounted == RaydiumSpec => []RaydiumFeesAccounted
BY RaydiumInvImplies, RaydiumInvariance, PTL

\* Over all claims the halves differ by the odd units only.
THEOREM RaydiumSplitIsFair == RaydiumSpec => []RaydiumSplitFair
BY RaydiumInvImplies, RaydiumInvariance, PTL
=============================================================================
