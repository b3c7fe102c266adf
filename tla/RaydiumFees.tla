---------------------------- MODULE RaydiumFees ----------------------------
(***************************************************************************)
(* claim_raydium_fees, composed with the curve program and with Raydium.   *)
(*                                                                         *)
(* Raydium keeps creator fees for the key a Raydium pool names as its      *)
(* creator, in the pool's two tokens, and pays them when that key signs.   *)
(* claim_raydium_fees signs as the curve pool's PDA, measures what arrived *)
(* in the PDA's two token accounts, and passes on one half each.           *)
(* Graduation names its payer as the creator (PoolCreatedOnRaydium), so    *)
(* the Raydium pool the claim is about is one that somebody else creates   *)
(* in the PDA's name: Raydium takes the creator without a signature        *)
(* (raydium_cpi.rs).  The claim accepts any: it does not compare the       *)
(* Raydium pool with the one graduation recorded.                          *)
(***************************************************************************)
EXTENDS BondingCurve

CONSTANTS
    Accruals,     \* creator fees a trade on Raydium may leave
    MaxAccrued,   \* bound on the creator fees of one token, over all time
    MaxGifts      \* bound on what is sent to a PDA's token account

ASSUME RaydiumAssumption ==
    /\ Accruals \subseteq Nat \ {0}
    /\ {MaxAccrued, MaxGifts} \subseteq Nat

VARIABLES
    named,     \* whether Raydium has a pool that names the PDA as its creator
    owed,      \* external: the creator fees Raydium keeps for the PDA
    held,      \* balances of pda_token_0_account and pda_token_1_account
    claimed,   \* raydium_fees_claimed_token_0 and _token_1
    shared,    \* history: what went to the accounts passed for the two parties
    accrued,   \* history: all creator fees Raydium ever kept for the PDA
    gifts,     \* history: what was sent to the PDA's token accounts
    claims     \* history: how many claims there were

fees == <<named, owed, held, claimed, shared, accrued, gifts, claims>>
allVars == <<vars, fees>>

\* Token 0 and token 1 of the Raydium pool.
Sides == {0, 1}
NoFees == [i \in Sides |-> 0]
NoShares == [i \in Sides |-> [creator |-> 0, treasury |-> 0]]

RaydiumInit ==
    /\ Init
    /\ named = [p \in Pools |-> FALSE]
    /\ owed = [p \in Pools |-> NoFees]
    /\ held = [p \in Pools |-> NoFees]
    /\ claimed = [p \in Pools |-> NoFees]
    /\ shared = [p \in Pools |-> NoShares]
    /\ accrued = [p \in Pools |-> NoFees]
    /\ gifts = [p \in Pools |-> NoFees]
    /\ claims = [p \in Pools |-> 0]

----------------------------------------------------------------------------
(* The instruction *)

MayClaimRaydium_Both(signer, p) ==   \* mutant: creator and treasury at once
    ConfigLoads /\ signer = pools[p].creator /\ signer = config.treasury
MayClaimRaydium(signer, p) == ConfigLoads /\ signer \in {pools[p].creator, config.treasury}

\* The balance after Raydium's payment, less the balance before it.
Received_Balance(before, after) == after   \* mutant: the whole balance is split
Received(before, after) == after - before

CreatorHalf(received) == received \div 2
TreasuryHalf_RoundedDown(received) == received \div 2   \* mutant: the odd unit stays
TreasuryHalf(received) == received - CreatorHalf(received)

\* checked_add of the counter.
CounterFits_Unchecked(counter, received) == TRUE   \* mutant
CounterFits(counter, received) == counter + received <= MaxU64

\* collect_creator_fee: Raydium pays all it keeps for the signing creator into
\* the two accounts, which then hold this.
Collected(p) == [i \in Sides |-> held[p][i] + owed[p][i]]

ClaimRaydiumFees(signer, p) ==
    LET after == Collected(p)
        received == [i \in Sides |-> Received(held[p][i], after[i])]
    IN  /\ MayClaimRaydium(signer, p)
        /\ pools[p].status = "Graduated"
        /\ named[p]
        /\ \E i \in Sides : received[i] > 0
        /\ \A i \in Sides : CounterFits(claimed[p][i], received[i])
        /\ owed' = [owed EXCEPT ![p] = NoFees]
        /\ held' = [held EXCEPT ![p] =
                [i \in Sides |-> after[i] - CreatorHalf(received[i]) - TreasuryHalf(received[i])]]
        /\ claimed' = [claimed EXCEPT ![p] = [i \in Sides |-> claimed[p][i] + received[i]]]
        /\ shared' = [shared EXCEPT ![p] =
                [i \in Sides |->
                    [creator  |-> shared[p][i].creator + CreatorHalf(received[i]),
                     treasury |-> shared[p][i].treasury + TreasuryHalf(received[i])]]]
        /\ claims' = [claims EXCEPT ![p] = @ + 1]
        /\ UNCHANGED <<vars, named, accrued, gifts>>

\* Graduation starts the two counters at zero; no other instruction of the
\* curve touches them.
Graduates(p) == pools[p].status = "Active" /\ pools'[p].status = "Graduated"
CurveStep ==
    /\ Next
    /\ claimed' = [p \in Pools |-> IF Graduates(p) THEN NoFees ELSE claimed[p]]
    /\ UNCHANGED <<named, owed, held, shared, accrued, gifts, claims>>

----------------------------------------------------------------------------
(* Raydium and its users: outside the program *)

NameCreator(p) ==
    /\ pools[p].status # "None"
    /\ ~named[p]
    /\ named' = [named EXCEPT ![p] = TRUE]
    /\ UNCHANGED <<vars, owed, held, claimed, shared, accrued, gifts, claims>>

Accrue(p, i, n) ==
    /\ named[p]
    /\ accrued[p][i] + n <= MaxAccrued
    /\ owed' = [owed EXCEPT ![p][i] = @ + n]
    /\ accrued' = [accrued EXCEPT ![p][i] = @ + n]
    /\ UNCHANGED <<vars, named, held, claimed, shared, gifts, claims>>

Gift(p, i) ==
    /\ pools[p].status # "None"
    /\ gifts[p][i] < MaxGifts
    /\ held' = [held EXCEPT ![p][i] = @ + 1]
    /\ gifts' = [gifts EXCEPT ![p][i] = @ + 1]
    /\ UNCHANGED <<vars, named, owed, claimed, shared, accrued, claims>>

----------------------------------------------------------------------------

RaydiumStep ==
    \E p \in Pools :
        \/ NameCreator(p)
        \/ \E i \in Sides, n \in Accruals : Accrue(p, i, n)
        \/ \E i \in Sides : Gift(p, i)
        \/ \E s \in Creators \cup Treasuries : ClaimRaydiumFees(s, p)

RaydiumNext == CurveStep \/ RaydiumStep

RaydiumSpec == RaydiumInit /\ [][RaydiumNext]_allVars

\* Creator or treasury claims what stays claimable: either may, and gains by it.
FairRaydiumSpec ==
    /\ RaydiumSpec
    /\ \A p \in Pools :
         WF_allVars(\E s \in Creators \cup Treasuries : ClaimRaydiumFees(s, p))

----------------------------------------------------------------------------
(* Properties *)

\* Counters fit u64, and no balance goes below zero.
RaydiumTypeOK ==
    /\ named \in [Pools -> BOOLEAN]
    /\ owed \in [Pools -> [Sides -> Nat]]
    /\ held \in [Pools -> [Sides -> Nat]]
    /\ claimed \in [Pools -> [Sides -> U64]]
    /\ shared \in [Pools -> [Sides -> [creator : Nat, treasury : Nat]]]
    /\ accrued \in [Pools -> [Sides -> Nat]]
    /\ gifts \in [Pools -> [Sides -> Nat]]
    /\ claims \in [Pools -> Nat]

\* Every unit of creator fees is still at Raydium or was claimed once, and the
\* counters say so, although graduation resets them; what else lies in the
\* PDA's token accounts is what strangers sent there, and it is never split.
RaydiumFeesAccounted ==
    \A p \in Pools, i \in Sides :
        /\ owed[p][i] + claimed[p][i] = accrued[p][i]
        /\ held[p][i] = gifts[p][i]

\* The two shares of each token add up to what was claimed, and however many
\* claims it took the treasury is ahead of the creator by no more than the odd
\* unit of each.
RaydiumSplitFair ==
    \A p \in Pools, i \in Sides :
        LET share == shared[p][i]
        IN  /\ share.creator + share.treasury = claimed[p][i]
            /\ share.creator <= share.treasury
            /\ share.treasury - share.creator <= claims[p]

\* Creator fees that Raydium keeps for a graduated pool are collected, as long
\* as creator or treasury keeps asking.  Two things end that: the counter of
\* a token is full, or the pool is closed, which looks at the curve's fees only
\* and takes away the account the claim needs.
RaydiumFeesCollected ==
    \A p \in Pools :
        (pools[p].status = "Graduated" /\ owed[p] # NoFees)
          ~> \/ owed[p] = NoFees
             \/ \E i \in Sides : claimed[p][i] + owed[p][i] > MaxU64
             \/ pools[p].status = "Closed"
=============================================================================
