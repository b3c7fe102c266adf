------------------------- MODULE MCAgenticCommerce -------------------------
(* AgenticCommerce for TLC: roles that nothing tells apart are symmetric. *)
EXTENDS AgenticCommerce, TLC

RoleSymmetry == Permutations(Clients) \cup Permutations(Providers)
=============================================================================
