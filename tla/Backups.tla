-------------------------------- MODULE Backups -------------------------------
(* The two halves of a backup and what they bring back: the database dump
   (src/utils/backupDatabase.js), the copy of the object storage
   (src/utils/backupStorage.js), and their rows in backup_runs
   (src/models/backupRunModel.js), while the application goes on storing and
   deleting images. A dump takes the migration ledger along, so a restored
   database is one more database of Migrations.

   One dump and one copy, in either order or overlapping. Objects are numbered
   as their names sort, which is how a bucket is listed; one bucket stands for
   the three, which are copied one after the other, and nested folders, which
   are listed the same way, for none. External: the application's uploads and
   deletions (Assets has them), pg_dump, the storage service, disks that decay,
   and the operator who restores by the runbook. *)
EXTENDS Migrations

CONSTANTS
    Objects,        \* a set of naturals, in the order of their names
    PageSize,       \* PAGE_SIZE
    MaxPages,       \* maxPages
    Scratch,        \* the database a dump is restored to
    MaxUploads,     \* bound: images stored during a behaviour
    MaxFaults       \* bound: calls of a script that fail, files that decay

ASSUME BackupsAssumption ==
    /\ Objects \subseteq Nat /\ IsFiniteSet(Objects)
    /\ PageSize \in Nat \ {0} /\ MaxPages \in Nat \ {0}
    /\ Scratch \in Databases \ {Production}
    /\ MaxUploads \in Nat /\ MaxFaults \in Nat

VARIABLES
    life,       \* [Objects -> where the image and its row are]
    copy,       \* the run of backupStorage
    dump,       \* the run of backupDatabase
    recorded,   \* backup_runs: kind and status
    faults

bvars == <<life, copy, dump, recorded, faults>>

InBucket == {o \in Objects : life[o] \in {"uploaded", "shown", "dropped"}}
Rows == {o \in Objects : life[o] = "shown"}
Rank(o) == Cardinality({p \in InBucket : p < o})
\* storage.from(bucket).list(prefix, { limit, offset }).
Page(offset) == {o \in InBucket : Rank(o) \in offset .. offset + PageSize - 1}

NoCopy == [pc |-> "idle", offset |-> 0, page |-> 0, found |-> {}, todo |-> {}, got |-> {},
           failed |-> FALSE, truncated |-> FALSE, rotten |-> {}, began |-> {}, slid |-> FALSE]
NoDump == [pc |-> "idle", rows |-> {}, base |-> NewBase, rotten |-> FALSE]

BackupsInit ==
    /\ life \in [Objects -> {"unborn", "shown"}]
    /\ Cardinality({o \in Objects : life[o] = "unborn"}) <= MaxUploads
    /\ copy = NoCopy /\ dump = NoDump
    /\ recorded = {} /\ faults = 0

Fault == faults < MaxFaults /\ faults' = faults + 1

-----------------------------------------------------------------------------
(* The application *)

Upload(o) ==
    /\ life[o] = "unborn"
    /\ life' = [life EXCEPT ![o] = "uploaded"]
    /\ UNCHANGED <<copy, dump, recorded, faults>>

Show(o) ==      \* the creation's row is inserted
    /\ life[o] = "uploaded"
    /\ life' = [life EXCEPT ![o] = "shown"]
    /\ UNCHANGED <<copy, dump, recorded, faults>>

Drop(o) ==      \* the row is deleted
    /\ life[o] = "shown"
    /\ life' = [life EXCEPT ![o] = "dropped"]
    /\ UNCHANGED <<copy, dump, recorded, faults>>

\* The object goes too. slid: it stood before the offset of a listing under way.
Remove(o) ==
    /\ life[o] \in {"dropped", "uploaded"}
    /\ life' = [life EXCEPT ![o] = "gone"]
    /\ copy' = [copy EXCEPT !.slid = @ \/ (copy.pc = "listing" /\ Rank(o) < copy.offset)]
    /\ UNCHANGED <<dump, recorded, faults>>

-----------------------------------------------------------------------------
(* backupStorage *)

StartCopy ==
    /\ copy.pc = "idle"
    /\ copy' = [NoCopy EXCEPT !.pc = "listing", !.began = InBucket]
    /\ UNCHANGED <<life, dump, recorded, faults>>

\* A short page ends the listing; so does the cap, which is never silent.
ListPageUnbounded ==    \* a regression: pages until one is short, with no cap
    LET p == Page(copy.offset)
        found == copy.found \cup p
        short == Cardinality(p) < PageSize IN
    /\ copy.pc = "listing"
    /\ copy' = [copy EXCEPT !.found = found, !.offset = @ + PageSize, !.page = @ + 1,
                            !.pc = IF short THEN "copying" ELSE "listing",
                            !.todo = IF short THEN found ELSE {}]
    /\ UNCHANGED <<life, dump, recorded, faults>>
ListPage ==
    LET p == Page(copy.offset)
        found == copy.found \cup p
        short == Cardinality(p) < PageSize
        capped == ~short /\ copy.page = MaxPages - 1 IN
    /\ copy.pc = "listing"
    /\ copy' = [copy EXCEPT !.found = found, !.offset = @ + PageSize, !.page = @ + 1,
                            !.truncated = capped,
                            !.pc = IF short \/ capped THEN "copying" ELSE "listing",
                            !.todo = IF short \/ capped THEN found ELSE {}]
    /\ UNCHANGED <<life, dump, recorded, faults>>

\* In listing order, which is the order of names. An object that cannot be read
\* is recorded, and the rest go on.
Download(o) ==
    /\ copy.pc = "copying" /\ o \in copy.todo /\ \A p \in copy.todo : o <= p
    /\ \/ /\ o \in InBucket
          /\ copy' = [copy EXCEPT !.todo = @ \ {o}, !.got = @ \cup {o}]
          /\ UNCHANGED faults
       \/ /\ o \notin InBucket
          /\ copy' = [copy EXCEPT !.todo = @ \ {o}, !.failed = TRUE]
          /\ UNCHANGED faults
       \/ /\ Fault
          /\ copy' = [copy EXCEPT !.todo = @ \ {o}, !.failed = TRUE]
    /\ UNCHANGED <<life, dump, recorded>>

Complete == ~copy.failed /\ ~copy.truncated     \* manifest.complete

WriteManifest ==
    /\ copy.pc = "copying" /\ copy.todo = {}
    /\ copy' = [copy EXCEPT !.pc = "written"]
    /\ UNCHANGED <<life, dump, recorded, faults>>

RecordCopySuccess ==    \* a regression: the script finished, so it succeeded
    /\ copy.pc = "written"
    /\ copy' = [copy EXCEPT !.pc = "done"]
    /\ recorded' = recorded \cup {<<"storage", "success">>}
    /\ UNCHANGED <<life, dump, faults>>
RecordCopy ==
    /\ copy.pc = "written"
    /\ copy' = [copy EXCEPT !.pc = "done"]
    /\ recorded' = recorded \cup {<<"storage", IF Complete THEN "success" ELSE "failed">>}
    /\ UNCHANGED <<life, dump, faults>>

\* A listing that fails, a disk that fills or a kill: no manifest and no row.
\* After the manifest, a row that cannot be written is logged and forgotten.
CopyFails ==
    /\ copy.pc \in {"listing", "copying", "written"} /\ Fault
    /\ copy' = [copy EXCEPT !.pc = IF copy.pc = "written" THEN "done" ELSE "aborted"]
    /\ UNCHANGED <<life, dump, recorded>>

-----------------------------------------------------------------------------
(* backupDatabase *)

(* pg_dump reads one snapshot. Taken over a run of the migrations it has what the
   run had done, and not what the run was about to record or report. *)
Snapshot == [base[Production] EXCEPT !.cut =
                @ \cup {f \in Files : Executing(Production, f) \/ Noticed(Production, f)}]

TakeDump ==
    /\ dump.pc = "idle"
    /\ dump' = [pc |-> "dumped", rows |-> Rows, base |-> Snapshot, rotten |-> FALSE]
    /\ UNCHANGED <<life, copy, recorded, faults>>

WriteDumpManifest ==
    /\ dump.pc = "dumped"
    /\ dump' = [dump EXCEPT !.pc = "written"]
    /\ UNCHANGED <<life, copy, recorded, faults>>

RecordDump ==
    /\ dump.pc = "written"
    /\ dump' = [dump EXCEPT !.pc = "done"]
    /\ recorded' = recorded \cup {<<"database", "success">>}
    /\ UNCHANGED <<life, copy, faults>>

\* A dump that fails leaves its file, without a manifest; nothing records it.
DumpFails ==
    /\ dump.pc \in {"idle", "dumped", "written"} /\ Fault
    /\ dump' = [dump EXCEPT !.pc = IF dump.pc = "written" THEN "done" ELSE "aborted"]
    /\ UNCHANGED <<life, copy, recorded>>

-----------------------------------------------------------------------------
(* Keeping and restoring *)

DumpIsIntact == dump.pc \in {"written", "done"} /\ ~dump.rotten
CopyIsIntact == copy.pc \in {"written", "done"} /\ copy.rotten = {}

Rot ==
    /\ Fault
    /\ \/ /\ dump.pc \in {"written", "done"} /\ ~dump.rotten
          /\ dump' = [dump EXCEPT !.rotten = TRUE]
          /\ UNCHANGED copy
       \/ /\ copy.pc \in {"written", "done"}
          /\ \E o \in copy.got \ copy.rotten : copy' = [copy EXCEPT !.rotten = @ \cup {o}]
          /\ UNCHANGED dump
    /\ UNCHANGED <<life, recorded>>

(* The runbook: verify the dump, then pg_restore. Constraints come after the
   data, so a restore that stops on the way is without some of them. *)
Restore(lost) ==
    /\ DumpIsIntact
    /\ base[Scratch] = NewBase
    /\ \A r \in Runners : run[r].pc # "idle" => run[r].db # Scratch
    /\ base' = [base EXCEPT ![Scratch] = [dump.base EXCEPT !.lost = @ \cup lost]]
    /\ UNCHANGED <<disk, listed, text, run, edits, accidents>>

ApplicationNext == \E o \in Objects : Upload(o) \/ Show(o) \/ Drop(o) \/ Remove(o)

CopyNext ==
    \/ StartCopy \/ ListPage \/ WriteManifest \/ RecordCopy \/ CopyFails
    \/ \E o \in Objects : Download(o)

DumpNext == TakeDump \/ WriteDumpManifest \/ RecordDump \/ DumpFails

-----------------------------------------------------------------------------
BackupsTypeOK ==
    /\ life \in [Objects -> {"unborn", "uploaded", "shown", "dropped", "gone"}]
    /\ copy.pc \in {"idle", "listing", "copying", "written", "done", "aborted"}
    /\ copy.todo \cup copy.got \subseteq copy.found /\ copy.rotten \subseteq copy.got
    /\ copy.page \in 0..MaxPages /\ copy.offset = copy.page * PageSize
    /\ dump.pc \in {"idle", "dumped", "written", "done", "aborted"}
    /\ dump.base \in Base
    /\ recorded \subseteq {"database", "storage"} \X {"success", "failed"}
    /\ faults \in 0..MaxFaults

(* The recovery unit: of a dump and a copy that verify as intact, the copy as
   complete, the images that the dump's rows show come back, except those that
   were deleted, that were stored after the copy began, or that changed pages
   when another object was deleted under the listing. *)
GalleriesComeBack ==
    DumpIsIntact /\ CopyIsIntact /\ Complete /\ ~copy.slid =>
        \A o \in dump.rows \ (copy.got \ copy.rotten) :
            life[o] = "gone" \/ o \notin copy.began

(* What the dashboard calls the last successful backup is one that is on disk
   with its manifest and, for storage, complete. *)
SuccessIsOnDisk ==
    /\ <<"storage", "success">> \in recorded => copy.pc = "done" /\ Complete
    /\ <<"database", "success">> \in recorded => dump.pc = "done"

BackupsAreHonest == GalleriesComeBack /\ SuccessIsOnDisk

(* What backupStorage.js says of a truncated listing: "a partial backup
   presented as complete is worse than an obvious failure". A copy that calls
   itself complete has every image that stood in the bucket from its beginning
   to its end. *)
CompleteIsComplete ==
    copy.pc \in {"written", "done"} /\ Complete =>
        \A o \in copy.began : o \in copy.got \/ life[o] = "gone"
=============================================================================
