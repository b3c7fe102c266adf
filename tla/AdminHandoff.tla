---------------------------- MODULE AdminHandoff ----------------------------
(***************************************************************************)
(* What both programs promise of the key that administers them: it is set *)
(* once, by initialize, and from then on changes hands only in two steps: *)
(* a proposal, which leaves the administrator in office, and an           *)
(* acceptance by the key last proposed, which uses the proposal up.       *)
(***************************************************************************)
CONSTANTS Keys,     \* public keys that can sign
          NoKey     \* Pubkey::default(), which no one can sign for

VARIABLES admin, pending

vars == <<admin, pending>>

Init == /\ admin \in Keys \cup {NoKey}
        /\ pending = NoKey

\* The administrator takes office; nothing can have been proposed before.
Appoint == /\ admin = NoKey
           /\ admin' \in Keys
           /\ pending' = NoKey

\* A proposal replaces the last one; proposing NoKey withdraws it.
Propose == /\ admin # NoKey
           /\ pending' \in Keys \cup {NoKey}
           /\ UNCHANGED admin

Accept == /\ pending # NoKey
          /\ admin' = pending
          /\ pending' = NoKey

Next == Appoint \/ Propose \/ Accept

Spec == Init /\ [][Next]_vars
=============================================================================
