--------------------------- MODULE EscrowContract ---------------------------
(***************************************************************************)
(* What the commerce program promises the parties of a job, whatever its   *)
(* instructions are: a deposit is held in full until it leaves in one     *)
(* step, either to the worker and the house, the house taking at most a   *)
(* tenth, or back to the client in full; it never leaves twice, a job that *)
(* holds a deposit never disappears, and a settled job never holds again.  *)
(***************************************************************************)
EXTENDS Integers

CONSTANT Jobs

VARIABLES phase,   \* where each job stands
          held,    \* what its vault holds for the parties
          out      \* what has left the vault: to the worker, house and client

vars == <<phase, held, out>>

Nothing == [worker |-> 0, house |-> 0, client |-> 0]

Init == /\ phase = [j \in Jobs |-> "none"]
        /\ held = [j \in Jobs |-> 0]
        /\ out = [j \in Jobs |-> Nothing]

Move(j, from, to) == /\ phase[j] = from
                     /\ phase' = [phase EXCEPT ![j] = to]

Open(j) == /\ Move(j, "none", "open")
           /\ UNCHANGED <<held, out>>

Deposit(j) == /\ Move(j, "open", "held")
              /\ held'[j] \in Nat \ {0}
              /\ held' = [held EXCEPT ![j] = held'[j]]
              /\ UNCHANGED out

\* The worker is paid, and the house takes a tenth at most.
Release(j) == /\ Move(j, "held", "released")
              /\ held' = [held EXCEPT ![j] = 0]
              /\ \E fee \in 0..held[j] :
                   /\ 10 * fee <= held[j]
                   /\ out' = [out EXCEPT ![j] =
                        [Nothing EXCEPT !.worker = held[j] - fee, !.house = fee]]

Return(j) == /\ Move(j, "held", "returned")
             /\ held' = [held EXCEPT ![j] = 0]
             /\ out' = [out EXCEPT ![j] = [Nothing EXCEPT !.client = held[j]]]

\* An offer that was never funded is withdrawn; nothing moves.
Withdraw(j) == /\ Move(j, "open", "returned")
               /\ UNCHANGED <<held, out>>

Close(j) == /\ phase[j] \in {"released", "returned"}
            /\ phase' = [phase EXCEPT ![j] = "closed"]
            /\ UNCHANGED <<held, out>>

Next == \E j \in Jobs : \/ Open(j)
                        \/ Deposit(j)
                        \/ Release(j)
                        \/ Return(j)
                        \/ Withdraw(j)
                        \/ Close(j)

Spec == Init /\ [][Next]_vars
=============================================================================
