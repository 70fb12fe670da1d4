----------------------------- MODULE MCAdReward -----------------------------
(* AdReward on a small instance: every ad is shown to one user. *)
EXTENDS AdReward

MCOpening == [u \in Users |-> 0]
MCOwner == [t \in Transactions |-> CHOOSE u \in Users : TRUE]
=============================================================================
