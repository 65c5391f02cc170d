-------------------------- MODULE MCTelegramUpdates --------------------------
(***************************************************************************)
(* TelegramUpdates for TLC.  Two requests deliver one update, or two       *)
(* presses of one button: unrelated updates share no state.  Two presses   *)
(* share the token and nothing of the ledger, so the request that refuses  *)
(* beside its own job, and the operator, are looked at with one update.    *)
(***************************************************************************)
EXTENDS TelegramUpdates

Delivered == {update[d] : d \in Deliveries} \ {None}
OneUpdate == \A u, v \in Delivered : u = v
OnlyJobs == (\A o \in Operators : opc[o] = Idle) /\ \A d \in Deliveries : pc[d] # "refuse"
Related == OneUpdate \/ (Delivered \subseteq Presses /\ OnlyJobs)
=============================================================================
