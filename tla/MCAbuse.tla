------------------------------ MODULE MCAbuse ------------------------------
(* Abuse on a small instance. *)
EXTENDS Abuse, TLC

MCOriginOf == [u \in Users |-> CHOOSE o \in Origins : TRUE]

Symmetric == Permutations(Sweeps)
=============================================================================
