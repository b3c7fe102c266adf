------------------------------ MODULE CurveMath ------------------------------
(***************************************************************************)
(* The arithmetic of the bonding-curve program: a constant product market  *)
(* over virtual reserves, fees in basis points, and the split of a pool    *)
(* that graduates.  All divisions are those of u64 and u128: they round    *)
(* down.                                                                   *)
(***************************************************************************)
EXTENDS Integers

BpsDenominator == 10000

\* A fee of bps basis points on amount.
Fee(amount, bps) == (amount * bps) \div BpsDenominator

\* The creator's part of a fee; the platform has the rest.
CreatorShare(fee, creatorBps, totalBps) == (fee * creatorBps) \div totalBps

\* What a swap of x takes out of the opposite reserve: calculate_buy with the
\* SOL reserve as rin and the token reserve as rout, calculate_sell with the
\* two exchanged.  The remaining reserve is rounded down, so that the amount
\* out is rounded up, in favour of the trader.
SwapOut_OnOldReserve(x, rin, rout) == (x * rout) \div rin   \* mutant: the spot price
SwapOut(x, rin, rout) == rout - (rin * rout) \div (rin + x)

\* Tokens that go with sol to Raydium, at the curve's last price.
TokensAtSpot(sol, vSol, vTok) == (sol * vTok) \div vSol
=============================================================================
