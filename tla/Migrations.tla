------------------------------ MODULE Migrations ------------------------------
(* The migration runner (src/utils/runMigration.js), the ledger it keeps in
   schema_migrations, and the verifier that compares a database with the
   repository (src/utils/verifyRestore.js, src/utils/dr/schemaExpectations.js).

   File 0 is the ledger migration; files 1..listed are MIGRATIONS in order. A
   file is sent as one query, so it takes effect as a whole or not at all; the
   INSERT that records it is a query of its own. Every migration is guarded, so
   what a second, edited version changes in a schema that has the first is
   unknown: a database is known by the set of versions of a file it has run, and
   it is what the repository would build when that set is the current version.

   External: the engineers, who add, list and edit files, and the accidents that
   end a run. *)
EXTENDS Naturals, FiniteSets

CONSTANTS
    LastFile,       \* the files are 0..LastFile
    Versions,       \* what a file may say: its text, as its checksum tells it apart
    Databases,
    Production,     \* the database the application runs on
    Runners,        \* the processes that run the script
    Critical,       \* files that make a constraint of CRITICAL_CONSTRAINTS
    None,
    MaxEdits,       \* bound: edits of files that exist
    MaxAccidents    \* bound: queries that fail, processes that die

ASSUME MigrationsAssumption ==
    /\ LastFile \in Nat /\ Versions # {}
    /\ Production \in Databases
    /\ Critical \subseteq 0..LastFile
    /\ None \notin Versions
    /\ MaxEdits \in Nat /\ MaxAccidents \in Nat

VARIABLES
    disk,       \* migration files in the working tree
    listed,     \* length of MIGRATIONS
    text,       \* [Files -> Versions]: what each file says now
    base,       \* [Databases -> Base]
    run,        \* [Runners -> Run]
    edits, accidents

mvars == <<disk, listed, text, base, run, edits, accidents>>

Files == 0..LastFile
Scheduled == 0..listed              \* allMigrationFiles()

(* ran: versions of each file executed. ledger: its row's checksum. lost: files
   whose constraints a restore did not bring back. For the properties, warned:
   files a finished run reported as drifted; cut: files executed by a run that
   could not record them or ended before its report. *)
Base == [ran: [Files -> SUBSET Versions], ledger: [Files -> Versions \cup {None}],
         lost: SUBSET Files, warned: SUBSET Files, cut: SUBSET Files]

Run == [pc: {"idle", "apply", "record"}, db: Databases, at: Files, upto: Files,
        sql: Versions \cup {None}, drift: SUBSET Files]

NewBase == [ran |-> [f \in Files |-> {}], ledger |-> [f \in Files |-> None],
            lost |-> {}, warned |-> {}, cut |-> {}]

\* Checksums of different files are never compared: they may start alike.
MigrationsInit ==
    /\ listed \in 0..LastFile /\ disk = 1..listed
    /\ text = [f \in Files |-> CHOOSE v \in Versions : TRUE]
    /\ base = [d \in Databases |-> NewBase]
    /\ run = [r \in Runners |-> [pc |-> "idle", db |-> Production, at |-> 0, upto |-> 0,
                                 sql |-> None, drift |-> {}]]
    /\ edits = 0 /\ accidents = 0

-----------------------------------------------------------------------------
(* The repository *)

AddFile(f) ==
    /\ f \in 1..LastFile \ disk
    /\ disk' = disk \cup {f}
    /\ UNCHANGED <<listed, text, base, run, edits, accidents>>

\* New migrations are appended at the end of the list.
ListFile ==
    /\ listed < LastFile
    /\ listed' = listed + 1
    /\ UNCHANGED <<disk, text, base, run, edits, accidents>>

\* Against the append-only rule, which nothing enforces.
EditFile(f, v) ==
    /\ edits < MaxEdits
    /\ f = 0 \/ f \in disk
    /\ v # text[f]
    /\ text' = [text EXCEPT ![f] = v]
    /\ edits' = edits + 1
    /\ UNCHANGED <<disk, listed, base, run, accidents>>

-----------------------------------------------------------------------------
(* The runner *)

(* assertScheduleIsComplete: every file on disk is listed, every listed file is
   on disk; otherwise the process exits before it connects. *)
ScheduleIsComplete == disk = 1..listed

Start(r, d) ==
    /\ run[r].pc = "idle"
    /\ ScheduleIsComplete
    /\ run' = [run EXCEPT ![r] = [pc |-> "apply", db |-> d, at |-> 0, upto |-> listed,
                                  sql |-> None, drift |-> {}]]
    /\ UNCHANGED <<disk, listed, text, base, edits, accidents>>

\* client.query(sql), of the text the file has when the loop comes to it.
Apply(r) ==
    LET d == run[r].db
        f == run[r].at IN
    /\ run[r].pc = "apply"
    /\ base' = [base EXCEPT ![d].ran[f] = @ \cup {text[f]}]
    /\ run' = [run EXCEPT ![r].pc = "record", ![r].sql = text[f]]
    /\ UNCHANGED <<disk, listed, text, edits, accidents>>

(* After a file: the next one, or the end, where the drifted files are printed. *)
Advance(r, b, drift) ==
    LET f == run[r].at IN
    IF f < run[r].upto
    THEN /\ run' = [run EXCEPT ![r].pc = "apply", ![r].at = f + 1, ![r].drift = drift]
         /\ base' = [base EXCEPT ![run[r].db] = b]
    ELSE /\ run' = [run EXCEPT ![r].pc = "idle", ![r].drift = {}, ![r].at = 0,
                               ![r].upto = 0, ![r].sql = None]
         /\ base' = [base EXCEPT ![run[r].db] = [b EXCEPT !.warned = @ \cup drift]]

\* ON CONFLICT keeps the checksum of the first application.
RecordUpdating(r) ==    \* a regression: the row takes the checksum of the replay
    LET f == run[r].at
        b == base[run[r].db] IN
    /\ run[r].pc = "record"
    /\ Advance(r, [b EXCEPT !.ledger[f] = run[r].sql], run[r].drift)
    /\ UNCHANGED <<disk, listed, text, edits, accidents>>
Record(r) ==
    LET f == run[r].at
        b == base[run[r].db]
        stored == IF b.ledger[f] = None THEN run[r].sql ELSE b.ledger[f] IN
    /\ run[r].pc = "record"
    /\ Advance(r, [b EXCEPT !.ledger[f] = stored],
               run[r].drift \cup {g \in {f} \ {0} : stored # run[r].sql})
    /\ UNCHANGED <<disk, listed, text, edits, accidents>>

\* recordMigration swallows the error; without a row there is no comparison.
RecordFails(r) ==
    LET b == base[run[r].db] IN
    /\ run[r].pc = "record" /\ accidents < MaxAccidents
    /\ Advance(r, [b EXCEPT !.cut = @ \cup {run[r].at}], run[r].drift)
    /\ accidents' = accidents + 1
    /\ UNCHANGED <<disk, listed, text, edits>>

(* A migration fails, or the process dies: what ran before stays, the file in
   hand may have run without its row, and no report is printed. *)
Stop(r) ==
    /\ run[r].pc # "idle" /\ accidents < MaxAccidents
    /\ base' = [base EXCEPT ![run[r].db].cut =
                    @ \cup run[r].drift
                      \cup {f \in {run[r].at} : run[r].pc = "record"}]
    /\ run' = [run EXCEPT ![r].pc = "idle", ![r].drift = {}, ![r].at = 0,
                          ![r].upto = 0, ![r].sql = None]
    /\ accidents' = accidents + 1
    /\ UNCHANGED <<disk, listed, text, edits>>

MigrationsNext(targets) ==
    \/ ListFile
    \/ \E f \in Files : AddFile(f)
    \/ \E f \in Files, v \in Versions : EditFile(f, v)
    \/ \E r \in Runners :
        \/ \E d \in targets : Start(r, d)
        \/ Apply(r)
        \/ Record(r)
        \/ RecordFails(r)
        \/ Stop(r)

-----------------------------------------------------------------------------
(* The verifier *)

TablesExist(b) == \A f \in Scheduled : b.ran[f] # {}
LedgerCurrent(b) == \A f \in Scheduled : b.ledger[f] = text[f]
ConstraintsHold(b) == b.lost \cap Critical = {}

\* verify(): exit 0. A missing index is a warning, and row counts are for people.
Usable(b) == TablesExist(b) /\ LedgerCurrent(b) /\ ConstraintsHold(b)

-----------------------------------------------------------------------------
MigrationsTypeOK ==
    /\ disk \subseteq 1..LastFile
    /\ listed \in Files
    /\ text \in [Files -> Versions]
    /\ base \in [Databases -> Base]
    /\ run \in [Runners -> Run]
    /\ edits \in 0..MaxEdits /\ accidents \in 0..MaxAccidents

Executing(d, f) == \E r \in Runners : run[r].db = d /\ run[r].pc = "record" /\ run[r].at = f
Noticed(d, f) == \E r \in Runners : run[r].db = d /\ f \in run[r].drift

(* A database that ran anything but what the files say now does not pass as
   their result in silence: the verifier refuses it, or a run has printed (or
   still will) that the file drifted, or a run was cut short over the file. The
   ledger migration is left out: the runner drops what recording it returns. *)
NoSilentDrift ==
    \A d \in Databases : Usable(base[d]) =>
        \A f \in Scheduled \ {0} :
            \/ base[d].ran[f] = {text[f]}
            \/ f \in base[d].warned \cup base[d].cut
            \/ Executing(d, f) \/ Noticed(d, f)
=============================================================================
