------------------------------ MODULE Operations ------------------------------
(* The scripts an operator runs and the figure the dashboard shows, together:
   migrations over the databases, a dump and a storage copy of production, their
   restoration, and the application and the admins in the meantime.

   What goes on in one behaviour is chosen when it begins: plan, one of Plans, is
   a set of activities that overlap freely. The bound is on how many are mixed. *)
EXTENDS Backups, StorageUsage

CONSTANT Plans      \* sets of "migrate", "copy", "dump", "restore", "live", "dashboard"

VARIABLE plan

vars == <<mvars, bvars, uvars, plan>>

Init ==
    /\ plan \in Plans
    /\ MigrationsInit /\ BackupsInit /\ UsageInit
    \* What takes no part starts in one state; what is mixed starts complete.
    /\ plan # {"migrate"} => listed = LastFile
    /\ "live" \notin plan => Rows = Objects

\* A database that was restored is migrated like production.
Targets == {Production} \cup {d \in Databases : base[d] # NewBase}

Migrate == "migrate" \in plan /\ MigrationsNext(Targets) /\ UNCHANGED <<bvars, uvars, plan>>
Live == "live" \in plan /\ ApplicationNext /\ UNCHANGED <<mvars, uvars, plan>>
Copy == "copy" \in plan /\ CopyNext /\ UNCHANGED <<mvars, uvars, plan>>
Dump == "dump" \in plan /\ DumpNext /\ UNCHANGED <<mvars, uvars, plan>>
Decay == {"copy", "dump"} \subseteq plan /\ Rot /\ UNCHANGED <<mvars, uvars, plan>>
Recover ==
    /\ "restore" \in plan
    /\ \E lost \in {{}, Files} : Restore(lost)
    /\ UNCHANGED <<bvars, uvars, plan>>
Dashboard == "dashboard" \in plan /\ UsageNext /\ UNCHANGED <<mvars, bvars, plan>>

Next == Migrate \/ Live \/ Copy \/ Dump \/ Decay \/ Recover \/ Dashboard

Spec == Init /\ [][Next]_vars

StateOK == MigrationsTypeOK /\ BackupsTypeOK /\ UsageTypeOK
=============================================================================
