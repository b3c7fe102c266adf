----------------------------- MODULE PoolLedger -----------------------------
(***************************************************************************)
(* What the curve program promises creator and treasury of one pool,       *)
(* whatever its instructions compute: fees are earned only by trading, at  *)
(* most a tenth of what a trade moves; a party is paid all that is due to  *)
(* it or nothing, out of its own due and never out of the curve's SOL or   *)
(* the other's due; the listing takes the curve's SOL, all of it, and      *)
(* leaves the dues alone; a pool is closed only when nothing is due.       *)
(*                                                                         *)
(* The actions say which next values are allowed, not how they come about. *)
(***************************************************************************)
EXTENDS Integers

CONSTANT Reimbursement   \* what the listing may cost the curve

VARIABLES phase,    \* where the pool stands
          curve,    \* SOL that belongs to the curve
          unsold,   \* tokens the curve still offers
          due,      \* fees earned and not paid, per party
          got,      \* SOL each party has had
          listed    \* SOL that was listed

vars == <<phase, curve, unsold, due, got, listed>>

Nothing == [creator |-> 0, treasury |-> 0]
Total(amounts) == amounts.creator + amounts.treasury

Init == /\ phase = "None" /\ curve = 0 /\ unsold = 0
        /\ due = Nothing /\ got = Nothing /\ listed = 0

\* A trade that moves amount leaves at most a tenth of it as fees.
Earn(amount) ==
    LET fees == Total(due') - Total(due)
    IN  /\ due'.creator >= due.creator
        /\ due'.treasury >= due.treasury
        /\ 10 * fees <= amount

\* A buyer pays the curve's part and the fees.
Paid == (curve' + Total(due')) - (curve + Total(due))

Launch == /\ phase = "None" /\ phase' = "Active"
          /\ unsold' >= 0 /\ curve' >= 0
          /\ Earn(Paid)
          /\ UNCHANGED <<got, listed>>

Buy == /\ phase = "Active"
       /\ unsold' >= 0 /\ unsold' < unsold /\ curve' >= curve
       /\ Earn(Paid)
       /\ UNCHANGED <<phase, got, listed>>

\* A seller is paid by the curve, and the fees come out of that.
Sell == /\ phase = "Active"
        /\ unsold' > unsold /\ curve' <= curve
        /\ Earn(curve - curve')
        /\ UNCHANGED <<phase, got, listed>>

PayCreator == /\ phase \in {"Active", "Graduated"}
              /\ due.creator > 0
              /\ due' = [due EXCEPT !.creator = 0]
              /\ got' = [got EXCEPT !.creator = @ + due.creator]
              /\ UNCHANGED <<phase, curve, unsold, listed>>

PayTreasury == /\ phase \in {"Active", "Graduated"}
               /\ due.treasury > 0
               /\ due' = [due EXCEPT !.treasury = 0]
               /\ got' = [got EXCEPT !.treasury = @ + due.treasury]
               /\ UNCHANGED <<phase, curve, unsold, listed>>

List == /\ phase = "Active" /\ phase' = "Graduated"
        /\ listed' = curve - Reimbursement /\ listed' >= 0
        /\ curve' = 0 /\ unsold' = 0
        /\ UNCHANGED <<due, got>>

\* Whatever else is left in the pool goes to the treasury.
Close == /\ phase = "Graduated" /\ phase' = "Closed"
         /\ due = Nothing
         /\ got'.creator = got.creator /\ got'.treasury >= got.treasury
         /\ UNCHANGED <<curve, unsold, due, listed>>

Next == Launch \/ Buy \/ Sell \/ PayCreator \/ PayTreasury \/ List \/ Close

Spec == Init /\ [][Next]_vars
=============================================================================
