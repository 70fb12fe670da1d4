------------------------------ MODULE MCWallet ------------------------------
(* Wallet on a small instance. *)
EXTENDS Wallet

MCOpening == [u \in Users |-> 1]
=============================================================================
