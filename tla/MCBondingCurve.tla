--------------------------- MODULE MCBondingCurve ---------------------------
(* BondingCurve for TLC: pools that nothing tells apart are symmetric. *)
EXTENDS BondingCurve, TLC

PoolSymmetry == Permutations(Pools)
=============================================================================
