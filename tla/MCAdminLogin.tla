---------------------------- MODULE MCAdminLogin ----------------------------
(* AdminLogin on a small instance. *)
EXTENDS AdminLogin, TLC

Symmetric == Permutations(Logins)
=============================================================================
