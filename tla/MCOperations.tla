----------------------------- MODULE MCOperations -----------------------------
(* Operations on small instances: two migrations and the ledger's, two databases,
   three images, three admins. *)
EXTENDS Operations, TLC

MCPlans == {{"migrate"}, {"migrate", "dump", "restore"}, {"live", "copy", "dump"}, {"dashboard"}}
=============================================================================
