--------------------------- MODULE OperationsProofs ---------------------------
(* No database passes in silence for what the repository would build, whatever
   the numbers of files, versions, databases, runners and accidents. The argument
   follows a version that a database has run: either its ledger row names it, or
   somebody answers for it, and a dump takes both along. *)
EXTENDS Operations, FiniteSetTheorems, FunctionTheorems, TLAPS

RunTypeOK ==
    /\ listed \in Files
    /\ text \in [Files -> Versions]
    /\ base \in [Databases -> Base]
    /\ run \in [Runners -> Run]

\* An idle runner has nothing to report; one that is about to record did run it.
RunsAnswer ==
    \A r \in Runners :
        /\ run[r].pc = "idle" => run[r].drift = {}
        /\ run[r].pc = "record" => run[r].sql \in base[run[r].db].ran[run[r].at]

Recording(d, f, v) ==
    \E r \in Runners :
        run[r].db = d /\ run[r].pc = "record" /\ run[r].at = f /\ run[r].sql = v

Reported(b, f) == f \in b.warned \cup b.cut

\* A row names a version that was run.
RowsAreTrue(b) == \A f \in Files : b.ledger[f] = None \/ b.ledger[f] \in b.ran[f]

\* Every version that was run is the row's, or is answered for.
VersionsAnswered ==
    \A d \in Databases : \A f \in Files \ {0} : \A v \in base[d].ran[f] :
        \/ v = base[d].ledger[f]
        \/ Reported(base[d], f)
        \/ Recording(d, f, v)
        \/ Noticed(d, f)

DumpType == [pc: {"idle", "dumped", "written", "done", "aborted"}, rows: SUBSET Objects,
         base: Base, rotten: BOOLEAN]

\* A dump answers for its versions without the runs it was taken over.
DumpAnswers ==
    /\ dump \in DumpType
    /\ RowsAreTrue(dump.base)
    /\ \A f \in Files \ {0} : \A v \in dump.base.ran[f] :
        v = dump.base.ledger[f] \/ Reported(dump.base, f)

DriftInv ==
    /\ RunTypeOK
    /\ RunsAnswer
    /\ \A d \in Databases : RowsAreTrue(base[d])
    /\ VersionsAnswered
    /\ DumpAnswers

-----------------------------------------------------------------------------
LEMMA NewBaseType == NewBase \in Base
  BY DEF NewBase, Base

(* Nothing has run, and nothing is dumped. *)
LEMMA DriftInit == Init => DriftInv
<1> SUFFICES ASSUME Init PROVE DriftInv
  OBVIOUS
<1> USE MigrationsAssumption
<1>1. RunTypeOK
  <2>1. listed \in Files /\ text \in [Files -> Versions]
    BY SMT DEF Init, MigrationsInit, Files
  <2>2. base \in [Databases -> Base]
    BY NewBaseType DEF Init, MigrationsInit
  <2>3. run \in [Runners -> Run]
    BY DEF Init, MigrationsInit, Run, Files
  <2> QED BY <2>1, <2>2, <2>3 DEF RunTypeOK
<1>2. \A d \in Databases : base[d] = NewBase
  BY DEF Init, MigrationsInit
<1>3. RunsAnswer
  BY DEF Init, MigrationsInit, RunsAnswer
<1>4. RowsAreTrue(NewBase) /\ \A f \in Files : NewBase.ran[f] = {}
  BY DEF RowsAreTrue, NewBase
<1>5. VersionsAnswered
  BY <1>2, <1>4 DEF VersionsAnswered
<1>6. DumpAnswers
  BY <1>4, NewBaseType DEF Init, BackupsInit, NoDump, DumpAnswers, DumpType
<1> QED BY <1>1, <1>2, <1>3, <1>4, <1>5, <1>6 DEF DriftInv

-----------------------------------------------------------------------------
(* What a runner does between two files leaves every version answered for: the
   row takes the version it has just run or keeps the one it had, and whatever
   the runner had noticed it still knows or has reported. *)
LEMMA RunnerMovesOn ==
    ASSUME DriftInv, NEW r \in Runners, NEW stored,
           \A e \in Databases : e # run[r].db => base'[e] = base[e],
           base'[run[r].db].ran = base[run[r].db].ran,
           base'[run[r].db].ledger = [base[run[r].db].ledger EXCEPT ![run[r].at] = stored],
           \A g \in Files : Reported(base[run[r].db], g) => Reported(base'[run[r].db], g),
           \/ stored = base[run[r].db].ledger[run[r].at]
           \/ /\ base[run[r].db].ledger[run[r].at] = None
              /\ run[r].pc = "record" /\ stored = run[r].sql,
           \A s \in Runners : s # r => run'[s] = run[s],
           run'[r].db = run[r].db,
           \A g \in Files \ {0} :
              \/ g \in run[r].drift
              \/ run[r].pc = "record" /\ g = run[r].at /\ run[r].sql # stored
              => Reported(base'[run[r].db], g) \/ g \in run'[r].drift
    PROVE  VersionsAnswered' /\ \A d \in Databases : RowsAreTrue(base'[d])
<1> USE MigrationsAssumption
<1>1. /\ run[r].db \in Databases /\ run[r].at \in Files
      /\ \A d \in Databases : base[d] \in Base
  BY DEF DriftInv, RunTypeOK, Run
<1>2. VersionsAnswered'
  <2> SUFFICES ASSUME NEW d \in Databases, NEW f \in Files \ {0}, NEW v \in base'[d].ran[f]
               PROVE  \/ v = base'[d].ledger[f]
                      \/ Reported(base'[d], f)
                      \/ Recording(d, f, v)'
                      \/ Noticed(d, f)'
    BY DEF VersionsAnswered
  <2>1. base'[d].ran = base[d].ran /\ v \in Versions
    BY <1>1 DEF Base
  <2>2. \/ v = base[d].ledger[f]
        \/ Reported(base[d], f)
        \/ Recording(d, f, v)
        \/ Noticed(d, f)
    BY <2>1 DEF DriftInv, VersionsAnswered
  <2>3. CASE v = base[d].ledger[f]
    <3>1. CASE d = run[r].db /\ f = run[r].at
      BY <2>1, <2>3, <3>1, <1>1, SMTT(30) DEF Base
    <3>2. CASE ~(d = run[r].db /\ f = run[r].at)
      BY <2>3, <3>2, <1>1 DEF Base
    <3> QED BY <3>1, <3>2
  <2>4. CASE Reported(base[d], f)
    BY <2>4
  <2>5. CASE Recording(d, f, v)
    <3>1. PICK s \in Runners :
            run[s].db = d /\ run[s].pc = "record" /\ run[s].at = f /\ run[s].sql = v
      BY <2>5 DEF Recording
    <3>2. CASE s # r
      BY <3>1, <3>2 DEF Recording
    <3>3. CASE s = r /\ v = stored
      BY <3>1, <3>3, <1>1 DEF Base
    <3>4. CASE s = r /\ v # stored
      BY <3>1, <3>4 DEF Noticed
    <3> QED BY <3>2, <3>3, <3>4
  <2>6. CASE Noticed(d, f)
    <3>1. PICK s \in Runners : run[s].db = d /\ f \in run[s].drift
      BY <2>6 DEF Noticed
    <3>2. CASE s # r
      BY <3>1, <3>2 DEF Noticed
    <3>3. CASE s = r
      BY <3>1, <3>3 DEF Noticed
    <3> QED BY <3>2, <3>3
  <2> QED BY <2>2, <2>3, <2>4, <2>5, <2>6
<1>3. ASSUME NEW d \in Databases PROVE RowsAreTrue(base'[d])
  <2>1. RowsAreTrue(base[d])
    BY DEF DriftInv
  <2>2. CASE d # run[r].db
    BY <2>1, <2>2
  <2>3. CASE d = run[r].db
    <3>1. run[r].pc = "record" => run[r].sql \in base[d].ran[run[r].at]
      BY <2>3 DEF DriftInv, RunsAnswer
    <3> QED BY <2>1, <2>3, <3>1, <1>1, SMTT(30) DEF RowsAreTrue, Base
  <2> QED BY <2>2, <2>3
<1> QED BY <1>2, <1>3

-----------------------------------------------------------------------------
\* The repository changes nothing that the invariant says of a database.
LEMMA RepositoryKeeps ==
    ASSUME DriftInv, UNCHANGED dump, NEW f \in Files, NEW v \in Versions,
           ListFile \/ AddFile(f) \/ EditFile(f, v)
    PROVE  DriftInv'
<1> USE MigrationsAssumption
<1>1. base' = base /\ run' = run
  BY DEF ListFile, AddFile, EditFile
<1>2. RunTypeOK'
  <2>1. listed' \in Files
    BY DEF DriftInv, RunTypeOK, ListFile, AddFile, EditFile, Files
  <2>2. text' \in [Files -> Versions]
    BY DEF DriftInv, RunTypeOK, ListFile, AddFile, EditFile
  <2> QED BY <1>1, <2>1, <2>2 DEF DriftInv, RunTypeOK
<1>3. RunsAnswer' /\ VersionsAnswered' /\ DumpAnswers' /\ \A d \in Databases : RowsAreTrue(base[d])'
  BY <1>1 DEF DriftInv, RunsAnswer, VersionsAnswered, Recording, Noticed, DumpAnswers
<1> QED BY <1>2, <1>3 DEF DriftInv

LEMMA StartKeeps ==
    ASSUME DriftInv, UNCHANGED dump, NEW r \in Runners, NEW d \in Databases, Start(r, d)
    PROVE  DriftInv'
<1> USE MigrationsAssumption
<1>1. base' = base /\ listed' = listed /\ text' = text
  BY DEF Start
<1>2. /\ run[r].pc = "idle" /\ run[r].drift = {}
      /\ run' = [run EXCEPT ![r] = [pc |-> "apply", db |-> d, at |-> 0, upto |-> listed,
                                    sql |-> None, drift |-> {}]]
  BY DEF Start, DriftInv, RunsAnswer
<1>3. RunTypeOK'
  <2>1. [pc |-> "apply", db |-> d, at |-> 0, upto |-> listed, sql |-> None, drift |-> {}] \in Run
    BY DEF Run, DriftInv, RunTypeOK, Files
  <2> QED BY <1>1, <1>2, <2>1 DEF DriftInv, RunTypeOK
<1>4. RunsAnswer'
  BY <1>1, <1>2 DEF DriftInv, RunTypeOK, RunsAnswer
<1>5. VersionsAnswered'
  <2>1. \A e \in Databases, f \in Files, v \in Versions : Recording(e, f, v) => Recording(e, f, v)'
    BY <1>2 DEF DriftInv, RunTypeOK, Recording
  <2>2. \A e \in Databases, f \in Files : Noticed(e, f) => Noticed(e, f)'
    BY <1>2 DEF DriftInv, RunTypeOK, Noticed
  <2>3. \A e \in Databases, f \in Files : base[e].ran[f] \subseteq Versions
    BY DEF DriftInv, RunTypeOK, Base
  <2> QED BY <1>1, <2>1, <2>2, <2>3 DEF DriftInv, VersionsAnswered
<1> QED BY <1>1, <1>3, <1>4, <1>5 DEF DriftInv, DumpAnswers

LEMMA ApplyKeeps ==
    ASSUME DriftInv, UNCHANGED dump, NEW r \in Runners, Apply(r)
    PROVE  DriftInv'
<1> USE MigrationsAssumption
<1> DEFINE d == run[r].db
           f == run[r].at
<1>1. /\ run[r].pc = "apply" /\ listed' = listed /\ text' = text
      /\ base' = [base EXCEPT ![d].ran[f] = @ \cup {text[f]}]
      /\ run' = [run EXCEPT ![r].pc = "record", ![r].sql = text[f]]
  BY DEF Apply
<1>2. /\ d \in Databases /\ f \in Files /\ text[f] \in Versions
      /\ base \in [Databases -> Base] /\ run \in [Runners -> Run]
      /\ \A e \in Databases : base[e] \in Base
  BY DEF DriftInv, RunTypeOK, Run
<1>3. /\ base' \in [Databases -> Base]
      /\ \A e \in Databases, g \in Files :
            /\ base'[e].ran[g] = IF e = d /\ g = f THEN base[e].ran[g] \cup {text[f]}
                                 ELSE base[e].ran[g]
            /\ base'[e].ledger = base[e].ledger
            /\ base'[e].warned = base[e].warned /\ base'[e].cut = base[e].cut
  <2>1. base[d].ran \in [Files -> SUBSET Versions]
    BY <1>2 DEF Base
  <2>2. [base[d].ran EXCEPT ![f] = @ \cup {text[f]}] \in [Files -> SUBSET Versions]
    BY <2>1, <1>2
  <2>3. base' = [base EXCEPT ![d] = [base[d] EXCEPT !.ran = [base[d].ran EXCEPT ![f] = @ \cup {text[f]}]]]
    BY <1>1, <1>2
  <2>4. [base[d] EXCEPT !.ran = [base[d].ran EXCEPT ![f] = @ \cup {text[f]}]] \in Base
    BY <2>2, <1>2 DEF Base
  <2>5. base' \in [Databases -> Base]
    BY <2>3, <2>4, <1>2
  <2>6. base'[d] = [base[d] EXCEPT !.ran = [base[d].ran EXCEPT ![f] = @ \cup {text[f]}]]
    BY <2>3, <1>2
  <2>7. \A e \in Databases : e # d => base'[e] = base[e]
    BY <2>3, <1>2
  <2>8. /\ base'[d].ran = [base[d].ran EXCEPT ![f] = @ \cup {text[f]}]
        /\ base'[d].ledger = base[d].ledger
        /\ base'[d].warned = base[d].warned /\ base'[d].cut = base[d].cut
    BY <2>6, <1>2 DEF Base
  <2> QED BY <2>1, <2>5, <2>7, <2>8, <1>2, SMTT(30)
<1>4. /\ run' \in [Runners -> Run]
      /\ \A s \in Runners :
            /\ run'[s].db = run[s].db
            /\ run'[s].at = run[s].at
            /\ run'[s].drift = run[s].drift
            /\ s # r => run'[s] = run[s]
      /\ run'[r].pc = "record" /\ run'[r].sql = text[f]
  BY <1>1, <1>2 DEF Run
<1>9. /\ text[f] \in base'[d].ran[f]
      /\ \A e \in Databases, g \in Files : \A v \in base[e].ran[g] : v \in base'[e].ran[g]
      /\ \A e \in Databases, g \in Files : \A v \in base'[e].ran[g] :
            v \in base[e].ran[g] \/ (e = d /\ g = f /\ v = text[f])
  <2>1. base'[d].ran[f] = base[d].ran[f] \cup {text[f]}
    BY <1>2, <1>3
  <2>2. \A e \in Databases, g \in Files :
          ~(e = d /\ g = f) => base'[e].ran[g] = base[e].ran[g]
    BY <1>3
  <2> HIDE DEF d, f
  <2> QED BY <2>1, <2>2
<1>5. RunsAnswer'
  <2> SUFFICES ASSUME NEW s \in Runners
               PROVE  /\ run'[s].pc = "idle" => run'[s].drift = {}
                      /\ run'[s].pc = "record" => run'[s].sql \in base'[run'[s].db].ran[run'[s].at]
    BY DEF RunsAnswer
  <2>1. run[s].db \in Databases /\ run[s].at \in Files
    BY <1>2 DEF Run
  <2>2. CASE s = r
    <3>1. run'[r].db = d /\ run'[r].at = f
      BY <1>4
    <3> QED BY <2>2, <3>1, <1>4, <1>9
  <2>3. CASE s # r
    <3>1. run'[s] = run[s]
      BY <2>3, <1>4
    <3>2. /\ run[s].pc = "idle" => run[s].drift = {}
          /\ run[s].pc = "record" => run[s].sql \in base[run[s].db].ran[run[s].at]
      BY DEF DriftInv, RunsAnswer
    <3> QED BY <2>1, <3>1, <3>2, <1>9
  <2> QED BY <2>2, <2>3
<1>6. VersionsAnswered'
  <2> SUFFICES ASSUME NEW e \in Databases, NEW g \in Files \ {0}, NEW v \in base'[e].ran[g]
               PROVE  \/ v = base'[e].ledger[g]
                      \/ Reported(base'[e], g)
                      \/ Recording(e, g, v)'
                      \/ Noticed(e, g)'
    BY DEF VersionsAnswered
  <2>1. CASE v \in base[e].ran[g]
    <3>1. Recording(e, g, v) => Recording(e, g, v)'
      <4> SUFFICES ASSUME Recording(e, g, v) PROVE Recording(e, g, v)'
        OBVIOUS
      <4>1. PICK s \in Runners :
              run[s].db = e /\ run[s].pc = "record" /\ run[s].at = g /\ run[s].sql = v
        BY DEF Recording
      <4>2. run'[s] = run[s]
        BY <4>1, <1>1, <1>4
      <4> QED BY <4>1, <4>2 DEF Recording
    <3>2. Noticed(e, g) => Noticed(e, g)'
      <4> SUFFICES ASSUME Noticed(e, g) PROVE Noticed(e, g)'
        OBVIOUS
      <4>1. PICK s \in Runners : run[s].db = e /\ g \in run[s].drift
        BY DEF Noticed
      <4>2. run'[s].db = e /\ g \in run'[s].drift
        BY <4>1, <1>4
      <4> QED BY <4>2 DEF Noticed
    <3>3. Reported(base[e], g) => Reported(base'[e], g)
      BY <1>3 DEF Reported
    <3>4. base'[e].ledger = base[e].ledger
      BY <1>3
    <3> QED BY <2>1, <3>1, <3>2, <3>3, <3>4 DEF DriftInv, VersionsAnswered
  <2>2. CASE e = d /\ g = f /\ v = text[f]
    <3>1. run'[r].db = e /\ run'[r].at = g /\ run'[r].pc = "record" /\ run'[r].sql = v
      BY <2>2, <1>4
    <3> QED BY <3>1 DEF Recording
  <2> QED BY <2>1, <2>2, <1>9
<1>7. \A e \in Databases : RowsAreTrue(base'[e])
  BY <1>3, ZenonT(40) DEF DriftInv, RowsAreTrue
<1>8. RunTypeOK'
  BY <1>1, <1>3, <1>4 DEF DriftInv, RunTypeOK
<1> QED BY <1>5, <1>6, <1>7, <1>8 DEF DriftInv, DumpAnswers

-----------------------------------------------------------------------------
(* What the last statement of a file makes of the database, b, and of what the
   runner knows, drift: every version is answered for as before. *)
Answers(r, b, drift, stored) ==
    LET was == base[run[r].db] IN
    /\ b \in Base /\ b.ran = was.ran
    /\ stored \in Versions \cup {None}
    /\ b.ledger = [was.ledger EXCEPT ![run[r].at] = stored]
    /\ \A g \in Files : Reported(was, g) => Reported(b, g)
    /\ \/ stored = was.ledger[run[r].at]
       \/ was.ledger[run[r].at] = None /\ run[r].pc = "record" /\ stored = run[r].sql
    /\ \A g \in Files \ {0} :
          \/ g \in run[r].drift
          \/ run[r].pc = "record" /\ g = run[r].at /\ run[r].sql # stored
          => Reported(b, g) \/ g \in drift

LEMMA RunnerEnds ==
    ASSUME DriftInv, UNCHANGED <<dump, listed, text>>,
           NEW r \in Runners, NEW b, NEW q \in Run, NEW stored,
           Answers(r, b, q.drift, stored),
           base' = [base EXCEPT ![run[r].db] = b],
           run' = [run EXCEPT ![r] = q],
           q.db = run[r].db, q.pc # "record", q.pc = "idle" => q.drift = {}
    PROVE  DriftInv'
<1>1. /\ run[r].db \in Databases /\ run[r].at \in Files
      /\ base \in [Databases -> Base] /\ run \in [Runners -> Run]
  BY DEF DriftInv, RunTypeOK, Run
<1>2. /\ base' \in [Databases -> Base] /\ run' \in [Runners -> Run]
      /\ base'[run[r].db] = b /\ run'[r] = q
      /\ \A e \in Databases : e # run[r].db => base'[e] = base[e]
      /\ \A s \in Runners : s # r => run'[s] = run[s]
  BY <1>1 DEF Answers
<1>3. VersionsAnswered' /\ \A d \in Databases : RowsAreTrue(base'[d])
  <2>1. /\ base'[run[r].db].ran = base[run[r].db].ran
        /\ base'[run[r].db].ledger = [base[run[r].db].ledger EXCEPT ![run[r].at] = stored]
    BY <1>2 DEF Answers
  <2>2. \A g \in Files : Reported(base[run[r].db], g) => Reported(base'[run[r].db], g)
    BY <1>2 DEF Answers
  <2>3. run'[r].db = run[r].db
    BY <1>2
  <2>4. \A g \in Files \ {0} :
          \/ g \in run[r].drift
          \/ run[r].pc = "record" /\ g = run[r].at /\ run[r].sql # stored
          => Reported(base'[run[r].db], g) \/ g \in run'[r].drift
    BY <1>2 DEF Answers
  <2>5. \/ stored = base[run[r].db].ledger[run[r].at]
        \/ /\ base[run[r].db].ledger[run[r].at] = None
           /\ run[r].pc = "record" /\ stored = run[r].sql
    BY DEF Answers
  <2> QED BY <1>2, <2>1, <2>2, <2>3, <2>4, <2>5, RunnerMovesOn, ZenonT(40)
<1>4. RunsAnswer'
  <2> SUFFICES ASSUME NEW s \in Runners
               PROVE  /\ run'[s].pc = "idle" => run'[s].drift = {}
                      /\ run'[s].pc = "record" => run'[s].sql \in base'[run'[s].db].ran[run'[s].at]
    BY DEF RunsAnswer
  <2>1. CASE s = r
    BY <2>1, <1>2
  <2>2. CASE s # r
    <3>1. run'[s] = run[s] /\ run[s].db \in Databases
      BY <2>2, <1>1, <1>2 DEF Run
    <3>2. base'[run[s].db].ran = base[run[s].db].ran
      BY <3>1, <1>2 DEF Answers
    <3> QED BY <3>1, <3>2 DEF DriftInv, RunsAnswer
  <2> QED BY <2>1, <2>2
<1>5. RunTypeOK' /\ DumpAnswers'
  BY <1>2 DEF DriftInv, RunTypeOK, DumpAnswers
<1> QED BY <1>3, <1>4, <1>5 DEF DriftInv

Idle(db) == [pc |-> "idle", db |-> db, at |-> 0, upto |-> 0, sql |-> None, drift |-> {}]

LEMMA IdleAgain ==
    ASSUME NEW q \in Run
    PROVE  /\ Idle(q.db) \in Run
           /\ [q EXCEPT !.pc = "idle", !.drift = {}, !.at = 0, !.upto = 0, !.sql = None] = Idle(q.db)
<1> USE MigrationsAssumption
<1>1. 0 \in Files
  BY DEF Files
<1>2. Idle(q.db) \in Run
  BY <1>1 DEF Run, Idle
<1>3. /\ DOMAIN q = {"pc", "db", "at", "upto", "sql", "drift"}
      /\ q = [x \in {"pc", "db", "at", "upto", "sql", "drift"} |-> q[x]]
  BY DEF Run
<1> DEFINE p == [q EXCEPT !.pc = "idle", !.drift = {}, !.at = 0, !.upto = 0, !.sql = None]
<1>5. /\ p = [x \in {"pc", "db", "at", "upto", "sql", "drift"} |-> p[x]]
      /\ p["pc"] = "idle" /\ p["db"] = q["db"] /\ p["at"] = 0
      /\ p["upto"] = 0 /\ p["sql"] = None /\ p["drift"] = {}
  BY <1>3
<1>4. p = Idle(q.db)
  <2> DEFINE i == Idle(q.db)
  <2>1. /\ i = [x \in {"pc", "db", "at", "upto", "sql", "drift"} |-> i[x]]
        /\ i["pc"] = "idle" /\ i["db"] = q["db"] /\ i["at"] = 0
        /\ i["upto"] = 0 /\ i["sql"] = None /\ i["drift"] = {}
    BY DEF Idle
  <2> HIDE DEF p, i
  <2>2. \A x \in {"pc", "db", "at", "upto", "sql", "drift"} : p[x] = i[x]
    BY <1>5, <2>1
  <2>3. p = i
    BY <1>5, <2>1, <2>2, Zenon
  <2> QED BY <2>3 DEF i
<1> QED BY <1>2, <1>4

\* Advance: to the next file with its drift in hand, or to the end with it reported.
LEMMA AdvanceEnds ==
    ASSUME DriftInv, UNCHANGED <<dump, listed, text>>, NEW r \in Runners,
           NEW b, NEW drift \in SUBSET Files, NEW stored,
           Answers(r, b, drift, stored), Advance(r, b, drift)
    PROVE  DriftInv'
<1> USE MigrationsAssumption
<1>1. run[r] \in Run /\ run \in [Runners -> Run]
  BY DEF DriftInv, RunTypeOK
<1>2. CASE run[r].at < run[r].upto
  <2> DEFINE q == [run[r] EXCEPT !.pc = "apply", !.at = run[r].at + 1, !.drift = drift]
  <2>1. base' = [base EXCEPT ![run[r].db] = b]
    BY <1>2 DEF Advance
  <2>2. run' = [run EXCEPT ![r] = q]
    BY <1>1, <1>2 DEF Advance
  <2>3. run[r].at + 1 \in Files
    BY <1>1, <1>2 DEF Run, Files
  <2>4. q \in Run /\ q.db = run[r].db /\ q.pc = "apply" /\ q.drift = drift
    BY <1>1, <2>3 DEF Run
  <2> HIDE DEF q
  <2> QED BY <2>1, <2>2, <2>4, RunnerEnds
<1>3. CASE ~(run[r].at < run[r].upto)
  <2> DEFINE q == Idle(run[r].db)
             c == [b EXCEPT !.warned = @ \cup drift]
  <2>1. base' = [base EXCEPT ![run[r].db] = c]
    BY <1>3 DEF Advance
  <2>2. run' = [run EXCEPT ![r] = q]
    BY <1>1, <1>3, IdleAgain, ZenonT(40) DEF Advance
  <2>3. q \in Run /\ q.db = run[r].db /\ q.pc = "idle" /\ q.drift = {}
    BY <1>1, IdleAgain DEF Idle
  <2>4. /\ c \in Base /\ c.ran = b.ran /\ c.ledger = b.ledger
        /\ c.warned = b.warned \cup drift /\ c.cut = b.cut
    BY DEF Base, Answers
  <2> HIDE DEF q, c
  <2>5. Answers(r, c, q.drift, stored)
    BY <2>3, <2>4 DEF Reported, Answers
  <2> QED BY <2>1, <2>2, <2>3, <2>5, RunnerEnds
<1> QED BY <1>2, <1>3

LEMMA RecordKeeps ==
    ASSUME DriftInv, UNCHANGED dump, NEW r \in Runners, Record(r)
    PROVE  DriftInv'
<1> DEFINE f == run[r].at
           b == base[run[r].db]
           stored == IF b.ledger[f] = None THEN run[r].sql ELSE b.ledger[f]
           c == [b EXCEPT !.ledger[f] = stored]
           drift == run[r].drift \cup {g \in {f} \ {0} : stored # run[r].sql}
<1>1. Advance(r, c, drift) /\ run[r].pc = "record" /\ UNCHANGED <<listed, text>>
  BY DEF Record
<1>2. /\ f \in Files /\ b \in Base /\ run[r].drift \subseteq Files
      /\ run[r].sql \in Versions \cup {None}
  BY DEF DriftInv, RunTypeOK, Run
<1>3. stored \in Versions \cup {None} /\ drift \in SUBSET Files
  BY <1>2 DEF Base
<1>4. [b.ledger EXCEPT ![f] = stored] \in [Files -> Versions \cup {None}]
  <2>1. b.ledger \in [Files -> Versions \cup {None}]
    BY <1>2 DEF Base
  <2> HIDE DEF stored, b, f
  <2> QED BY <1>2, <1>3, <2>1
<1>5. c = [b EXCEPT !.ledger = [b.ledger EXCEPT ![f] = stored]]
  BY <1>2 DEF Base
<1>6. /\ c \in Base /\ c.ran = b.ran /\ c.ledger = [b.ledger EXCEPT ![f] = stored]
      /\ c.warned = b.warned /\ c.cut = b.cut
  <2> HIDE DEF c, b, f, stored
  <2> QED BY <1>2, <1>4, <1>5 DEF Base
<1>7. \/ stored = b.ledger[f]
      \/ b.ledger[f] = None /\ stored = run[r].sql
  OBVIOUS
<1>8. \A g \in Files \ {0} :
        g \in run[r].drift \/ (g = f /\ run[r].sql # stored) => g \in drift
  OBVIOUS
<1> HIDE DEF c, drift, stored
<1>9. Answers(r, c, drift, stored)
  BY <1>1, <1>3, <1>6, <1>7, <1>8 DEF Answers, Reported
<1> QED BY <1>1, <1>3, <1>9, AdvanceEnds

LEMMA RecordFailsKeeps ==
    ASSUME DriftInv, UNCHANGED dump, NEW r \in Runners, RecordFails(r)
    PROVE  DriftInv'
<1> DEFINE f == run[r].at
           b == base[run[r].db]
           stored == b.ledger[f]
           c == [b EXCEPT !.cut = @ \cup {f}]
<1>1. Advance(r, c, run[r].drift) /\ UNCHANGED <<listed, text>>
  BY DEF RecordFails
<1>2. f \in Files /\ b \in Base /\ run[r].drift \in SUBSET Files
  BY DEF DriftInv, RunTypeOK, Run
<1>3. /\ c \in Base /\ c.ran = b.ran /\ c.ledger = b.ledger
      /\ c.warned = b.warned /\ c.cut = b.cut \cup {f}
  BY <1>2 DEF Base
<1>4. stored \in Versions \cup {None} /\ c.ledger = [b.ledger EXCEPT ![f] = stored]
  BY <1>2, <1>3 DEF Base
<1> HIDE DEF c
<1>5. Answers(r, c, run[r].drift, stored)
  BY <1>3, <1>4 DEF Answers, Reported
<1> HIDE DEF stored
<1> QED BY <1>1, <1>2, <1>5, AdvanceEnds

LEMMA StopKeeps ==
    ASSUME DriftInv, UNCHANGED dump, NEW r \in Runners, Stop(r)
    PROVE  DriftInv'
<1> DEFINE f == run[r].at
           b == base[run[r].db]
           stored == b.ledger[f]
           c == [b EXCEPT !.cut = @ \cup run[r].drift \cup {g \in {f} : run[r].pc = "record"}]
           q == Idle(run[r].db)
<1>1. /\ f \in Files /\ b \in Base /\ run[r] \in Run /\ run[r].drift \in SUBSET Files
      /\ run[r].db \in Databases /\ base \in [Databases -> Base] /\ run \in [Runners -> Run]
  BY DEF DriftInv, RunTypeOK, Run
<1>2. base' = [base EXCEPT ![run[r].db] = c] /\ UNCHANGED <<listed, text>>
  BY <1>1 DEF Stop
<1>3. run' = [run EXCEPT ![r] = q]
  <2>1. run' = [run EXCEPT ![r] = [run[r] EXCEPT !.pc = "idle", !.drift = {}, !.at = 0,
                                                 !.upto = 0, !.sql = None]]
    BY <1>1 DEF Stop
  <2> QED BY <2>1, <1>1, IdleAgain
<1>4. /\ c \in Base /\ c.ran = b.ran /\ c.ledger = b.ledger /\ c.warned = b.warned
      /\ c.cut = b.cut \cup run[r].drift \cup {g \in {f} : run[r].pc = "record"}
  BY <1>1 DEF Base
<1>5. q \in Run /\ q.db = run[r].db /\ q.pc = "idle" /\ q.drift = {}
  BY <1>1, IdleAgain DEF Idle
<1>6. stored \in Versions \cup {None} /\ c.ledger = [b.ledger EXCEPT ![f] = stored]
  BY <1>1, <1>4 DEF Base
<1> HIDE DEF c, q
<1>7. Answers(r, c, q.drift, stored)
  BY <1>4, <1>6 DEF Answers, Reported
<1> HIDE DEF stored
<1> QED BY <1>2, <1>3, <1>5, <1>7, RunnerEnds

-----------------------------------------------------------------------------
\* A dump has the versions of production, and answers for what a run had in hand.
LEMMA TakeDumpKeeps ==
    ASSUME DriftInv, UNCHANGED mvars, TakeDump
    PROVE  DriftInv'
<1> USE MigrationsAssumption
<1> DEFINE b == base[Production]
           S == {f \in Files : Executing(Production, f) \/ Noticed(Production, f)}
<1>1. b \in Base /\ S \subseteq Files
  BY DEF DriftInv, RunTypeOK
<1>2. Snapshot = [b EXCEPT !.cut = @ \cup S]
  BY DEF Snapshot
<1> HIDE DEF b, S
<1>3. /\ Snapshot \in Base /\ Snapshot.ran = b.ran /\ Snapshot.ledger = b.ledger
      /\ Snapshot.warned = b.warned /\ Snapshot.cut = b.cut \cup S
  BY <1>1, <1>2 DEF Base
<1>4. RowsAreTrue(Snapshot)
  BY <1>3 DEF DriftInv, RowsAreTrue, b
<1>5. \A f \in Files \ {0} : \A v \in Snapshot.ran[f] :
        v = Snapshot.ledger[f] \/ Reported(Snapshot, f)
  <2> SUFFICES ASSUME NEW f \in Files \ {0}, NEW v \in Snapshot.ran[f]
               PROVE  v = Snapshot.ledger[f] \/ Reported(Snapshot, f)
    OBVIOUS
  <2>1. \/ v = b.ledger[f] \/ Reported(b, f)
        \/ Recording(Production, f, v) \/ Noticed(Production, f)
    BY <1>3 DEF DriftInv, VersionsAnswered, b
  <2>2. Recording(Production, f, v) => f \in S
    BY DEF Recording, Executing, S
  <2>3. Noticed(Production, f) => f \in S
    BY DEF S
  <2> QED BY <2>1, <2>2, <2>3, <1>3 DEF Reported
<1>6. dump' = [pc |-> "dumped", rows |-> Rows, base |-> Snapshot, rotten |-> FALSE]
  BY DEF TakeDump
<1>7. DumpAnswers'
  <2>1. Rows \subseteq Objects
    BY DEF Rows
  <2>2. dump' \in DumpType /\ dump'.base = Snapshot
    BY <1>3, <1>6, <2>1 DEF DumpType
  <2> QED BY <2>2, <1>4, <1>5 DEF DumpAnswers
<1>8. RunTypeOK' /\ RunsAnswer' /\ VersionsAnswered' /\ \A d \in Databases : RowsAreTrue(base[d])'
  BY DEF mvars, DriftInv, RunTypeOK, RunsAnswer, VersionsAnswered, Recording, Noticed
<1> QED BY <1>7, <1>8 DEF DriftInv

\* Everything else that happens to a dump leaves what it holds.
LEMMA DumpStays ==
    ASSUME DriftInv, UNCHANGED mvars, UNCHANGED dump \/ WriteDumpManifest \/ RecordDump \/ DumpFails \/ Rot
    PROVE  DriftInv'
<1>1. dump \in DumpType
  BY DEF DriftInv, DumpAnswers
<1>2. dump' \in DumpType /\ dump'.base = dump.base
  <2>1. CASE UNCHANGED dump
    BY <1>1, <2>1
  <2>2. CASE WriteDumpManifest
    BY <1>1, <2>2 DEF WriteDumpManifest, DumpType
  <2>3. CASE RecordDump
    BY <1>1, <2>3 DEF RecordDump, DumpType
  <2>4. CASE DumpFails
    BY <1>1, <2>4 DEF DumpFails, DumpType
  <2>5. CASE Rot
    BY <1>1, <2>5 DEF Rot, DumpType
  <2> QED BY <2>1, <2>2, <2>3, <2>4, <2>5
<1>3. DumpAnswers'
  BY <1>2 DEF DriftInv, DumpAnswers
<1>4. RunTypeOK' /\ RunsAnswer' /\ VersionsAnswered' /\ \A d \in Databases : RowsAreTrue(base[d])'
  BY DEF mvars, DriftInv, RunTypeOK, RunsAnswer, VersionsAnswered, Recording, Noticed
<1> QED BY <1>3, <1>4 DEF DriftInv

\* What is restored answers as the dump did, and no runner was at the target.
LEMMA RestoreKeeps ==
    ASSUME DriftInv, UNCHANGED dump, NEW lost \in SUBSET Files, Restore(lost)
    PROVE  DriftInv'
<1> USE MigrationsAssumption, BackupsAssumption
<1> DEFINE c == [dump.base EXCEPT !.lost = @ \cup lost]
<1>1. /\ base' = [base EXCEPT ![Scratch] = c] /\ UNCHANGED <<run, listed, text>>
      /\ \A r \in Runners : run[r].pc # "idle" => run[r].db # Scratch
  BY DEF Restore
<1>2. dump.base \in Base /\ base \in [Databases -> Base] /\ run \in [Runners -> Run]
  BY DEF DriftInv, DumpAnswers, DumpType, RunTypeOK
<1>3. /\ c \in Base /\ c.ran = dump.base.ran /\ c.ledger = dump.base.ledger
      /\ c.warned = dump.base.warned /\ c.cut = dump.base.cut
  BY <1>2 DEF Base
<1> HIDE DEF c
<1>4. base' \in [Databases -> Base] /\ base'[Scratch] = c
      /\ \A d \in Databases \ {Scratch} : base'[d] = base[d]
  BY <1>1, <1>2, <1>3
<1>5. RunTypeOK'
  BY <1>1, <1>4 DEF DriftInv, RunTypeOK
<1>6. RunsAnswer'
  <2> SUFFICES ASSUME NEW r \in Runners
               PROVE  /\ run[r].pc = "idle" => run[r].drift = {}
                      /\ run[r].pc = "record" => run[r].sql \in base'[run[r].db].ran[run[r].at]
    BY <1>1 DEF RunsAnswer
  <2>1. run[r].pc = "record" => run[r].db \in Databases \ {Scratch}
    BY <1>1, <1>2 DEF Run
  <2> QED BY <2>1, <1>4 DEF DriftInv, RunsAnswer
<1>7. \A d \in Databases : RowsAreTrue(base'[d])
  <2>1. RowsAreTrue(c)
    BY <1>3 DEF DriftInv, DumpAnswers, RowsAreTrue
  <2> QED BY <2>1, <1>4 DEF DriftInv
<1>8. VersionsAnswered'
  <2> SUFFICES ASSUME NEW d \in Databases, NEW f \in Files \ {0}, NEW v \in base'[d].ran[f]
               PROVE  \/ v = base'[d].ledger[f]
                      \/ Reported(base'[d], f)
                      \/ Recording(d, f, v)'
                      \/ Noticed(d, f)'
    BY DEF VersionsAnswered
  <2>1. CASE d = Scratch
    <3>1. v = c.ledger[f] \/ Reported(c, f)
      BY <2>1, <1>3, <1>4 DEF DriftInv, DumpAnswers, Reported
    <3> QED BY <2>1, <3>1, <1>4
  <2>2. CASE d # Scratch
    <3>1. base'[d] = base[d]
      BY <2>2, <1>4
    <3> QED BY <3>1, <1>1 DEF DriftInv, VersionsAnswered, Recording, Noticed
  <2> QED BY <2>1, <2>2
<1> QED BY <1>1, <1>5, <1>6, <1>7, <1>8 DEF DriftInv, DumpAnswers

-----------------------------------------------------------------------------
LEMMA DriftNext == DriftInv /\ [Next]_vars => DriftInv'
<1> SUFFICES ASSUME DriftInv, [Next]_vars PROVE DriftInv'
  OBVIOUS
<1> USE MigrationsAssumption
<1>1. CASE Migrate
  <2>1. UNCHANGED dump /\ MigrationsNext(Targets) /\ Targets \subseteq Databases
    BY <1>1 DEF Migrate, bvars, Targets
  <2>2. CASE ListFile
    <3>1. PICK v \in Versions : TRUE
      OBVIOUS
    <3>2. 0 \in Files
      BY DEF Files
    <3> QED BY <2>1, <2>2, <3>1, <3>2, RepositoryKeeps
  <2>3. CASE \E f \in Files : AddFile(f)
    <3>1. PICK v \in Versions : TRUE
      OBVIOUS
    <3> QED BY <2>1, <2>3, <3>1, RepositoryKeeps
  <2>4. CASE \E f \in Files, v \in Versions : EditFile(f, v)
    BY <2>1, <2>4, RepositoryKeeps
  <2>5. CASE \E r \in Runners, d \in Targets : Start(r, d)
    BY <2>1, <2>5, StartKeeps
  <2>6. CASE \E r \in Runners : Apply(r)
    BY <2>1, <2>6, ApplyKeeps
  <2>7. CASE \E r \in Runners : Record(r)
    BY <2>1, <2>7, RecordKeeps
  <2>8. CASE \E r \in Runners : RecordFails(r)
    BY <2>1, <2>8, RecordFailsKeeps
  <2>9. CASE \E r \in Runners : Stop(r)
    BY <2>1, <2>9, StopKeeps
  <2> QED BY <2>1, <2>2, <2>3, <2>4, <2>5, <2>6, <2>7, <2>8, <2>9 DEF MigrationsNext
<1>2. CASE Live
  BY <1>2, DumpStays DEF Live, ApplicationNext, Upload, Show, Drop, Remove
<1>3. CASE Copy
  BY <1>3, DumpStays DEF Copy, CopyNext, StartCopy, ListPage, WriteManifest, RecordCopy,
                         CopyFails, Download
<1>4. CASE Dump
  BY <1>4, DumpStays, TakeDumpKeeps DEF Dump, DumpNext
<1>5. CASE Decay
  BY <1>5, DumpStays DEF Decay
<1>6. CASE Recover
  <2>1. \E lost \in SUBSET Files : Restore(lost)
    BY <1>6 DEF Recover
  <2> QED BY <1>6, <2>1, RestoreKeeps DEF Recover, bvars
<1>7. CASE Dashboard
  BY <1>7, DumpStays DEF Dashboard, bvars
<1>8. CASE UNCHANGED vars
  BY <1>8, DumpStays DEF vars, bvars
<1> QED BY <1>1, <1>2, <1>3, <1>4, <1>5, <1>6, <1>7, <1>8 DEF Next

\* If the rows are what the files say now, a version that is not goes unanswered
\* by its row.
LEMMA DriftSuffices == DriftInv => NoSilentDrift
<1> SUFFICES ASSUME DriftInv, NEW d \in Databases, Usable(base[d]), NEW f \in Scheduled \ {0}
             PROVE  \/ base[d].ran[f] = {text[f]}
                    \/ f \in base[d].warned \cup base[d].cut
                    \/ Executing(d, f) \/ Noticed(d, f)
  BY DEF NoSilentDrift
<1> USE MigrationsAssumption
<1>1. f \in Files \ {0} /\ base[d] \in Base /\ text[f] \in Versions
  BY DEF DriftInv, RunTypeOK, Scheduled, Files
<1>2. base[d].ledger[f] = text[f]
  BY DEF Usable, LedgerCurrent
<1>3. text[f] \in base[d].ran[f]
  BY <1>1, <1>2 DEF DriftInv, RowsAreTrue
<1>4. CASE base[d].ran[f] = {text[f]}
  BY <1>4
<1>5. CASE base[d].ran[f] # {text[f]}
  <2>1. PICK v \in base[d].ran[f] : v # text[f]
    BY <1>3, <1>5
  <2>2. Reported(base[d], f) \/ Recording(d, f, v) \/ Noticed(d, f)
    BY <1>1, <1>2, <2>1 DEF DriftInv, VersionsAnswered
  <2>3. Recording(d, f, v) => Executing(d, f)
    BY DEF Recording, Executing
  <2> QED BY <2>2, <2>3 DEF Reported
<1> QED BY <1>4, <1>5

(* verify:restore does not pass, in silence, a database that ran anything but
   what the repository says now: for any schedule, any databases and runners, with
   dumps and restores in between. *)
THEOREM DriftIsNoticed == Spec => []NoSilentDrift
<1>1. Spec => []DriftInv
  BY DriftInit, DriftNext, PTL DEF Spec
<1> QED BY <1>1, DriftSuffices, PTL

-----------------------------------------------------------------------------
(* The dashboard's walks. Whoever waits is counted with the walk it waits for,
   and unless a failure has just started several, the latch names the only one. *)
WalkInv ==
    /\ UsageTypeOK
    /\ WalksAreShared
    /\ \A c \in Callers : joined[c] # Nobody => caller[c] = "asked"
    /\ forked \/ Walking \subseteq {inFlight}

-----------------------------------------------------------------------------
(* The copy. While it lists, what stood in the bucket from the beginning and
   ranks before the offset is found; a listing that ends has found all of it,
   and what is found is got, to be got, or has failed. *)
CopyType ==
    [pc: {"idle", "listing", "copying", "written", "done", "aborted"}, offset: Nat,
     page: 0..MaxPages, found: SUBSET Objects, todo: SUBSET Objects, got: SUBSET Objects,
     failed: BOOLEAN, truncated: BOOLEAN, rotten: SUBSET Objects, began: SUBSET Objects,
     slid: BOOLEAN]

Listed == copy.pc \in {"copying", "written", "done"}

FoundSoFar ==
    copy.pc = "listing" /\ ~copy.slid =>
        \A o \in copy.began \cap InBucket : Rank(o) < copy.offset => o \in copy.found
FoundAll ==
    Listed /\ ~copy.slid /\ ~copy.truncated =>
        \A o \in copy.began : o \in copy.found \/ life[o] = "gone"

CopyShape ==
    /\ copy \in CopyType
    /\ copy.offset = copy.page * PageSize
    /\ copy.todo \cup copy.got \subseteq copy.found /\ copy.rotten \subseteq copy.got
    /\ copy.pc = "listing" =>
          copy.page < MaxPages /\ ~copy.failed /\ copy.todo = {} /\ copy.got = {}
    /\ Listed /\ ~copy.failed => copy.found = copy.todo \cup copy.got
    /\ copy.pc \in {"written", "done"} => copy.todo = {}

CopyInv ==
    /\ life \in [Objects -> {"unborn", "uploaded", "shown", "dropped", "gone"}]
    /\ CopyShape
    /\ \A o \in copy.began : life[o] # "unborn"
    /\ FoundSoFar /\ FoundAll

RecordsInv ==
    /\ recorded \subseteq {"database", "storage"} \X {"success", "failed"}
    /\ SuccessIsOnDisk
    /\ faults \in 0..MaxFaults

FilesInv ==
    /\ disk \subseteq 1..LastFile
    /\ edits \in 0..MaxEdits /\ accidents \in 0..MaxAccidents

UpkeepInv == WalkInv /\ CopyInv /\ RecordsInv /\ FilesInv

-----------------------------------------------------------------------------
(* Ranks *)

Below(B, o) == {p \in B : p < o}

LEMMA BelowIsFinite ==
    ASSUME NEW B \in SUBSET Objects, NEW o
    PROVE  /\ IsFiniteSet(B) /\ IsFiniteSet(Below(B, o))
           /\ Cardinality(Below(B, o)) \in Nat
<1>1. IsFiniteSet(B)
  BY BackupsAssumption, FS_Subset
<1>2. Below(B, o) \in SUBSET B
  BY DEF Below
<1> QED BY <1>1, <1>2, FS_Subset, FS_CardinalityType

LEMMA RankGrows ==
    ASSUME NEW B \in SUBSET Objects, NEW o \in B, NEW q \in Objects, o < q
    PROVE  Cardinality(Below(B, o)) < Cardinality(Below(B, q))
<1> USE BackupsAssumption
<1>1. /\ IsFiniteSet(Below(B, o)) /\ IsFiniteSet(Below(B, q))
      /\ Cardinality(Below(B, o)) \in Nat /\ Cardinality(Below(B, q)) \in Nat
  BY BelowIsFinite
<1>2. Cardinality(Below(B, o) \cup {o}) = Cardinality(Below(B, o)) + 1
  <2>1. o \notin Below(B, o)
    BY SMT DEF Below
  <2> QED BY <1>1, <2>1, FS_AddElement
<1>3. Below(B, o) \cup {o} \in SUBSET Below(B, q)
  <2>1. \A p \in Below(B, o) : p \in B /\ p < o /\ p \in Nat
    BY DEF Below
  <2>2. \A p \in Below(B, o) : p \in Below(B, q)
    BY <2>1 DEF Below
  <2>3. o \in Below(B, q)
    BY DEF Below
  <2> QED BY <2>2, <2>3
<1>4. Cardinality(Below(B, o) \cup {o}) <= Cardinality(Below(B, q))
  BY <1>1, <1>3, FS_Subset
<1> QED BY <1>1, <1>2, <1>4

\* What joins the bucket moves nobody forward.
LEMMA RankAfterGain ==
    ASSUME NEW B \in SUBSET Objects, NEW C \in SUBSET Objects, B \subseteq C, NEW o \in B
    PROVE  Cardinality(Below(B, o)) <= Cardinality(Below(C, o))
<1>1. IsFiniteSet(Below(C, o))
  BY BelowIsFinite
<1>2. Below(B, o) \in SUBSET Below(C, o)
  BY DEF Below
<1> QED BY <1>1, <1>2, FS_Subset

\* What leaves the bucket at or after an offset moves nobody across it.
LEMMA RankAfterLoss ==
    ASSUME NEW B \in SUBSET Objects, NEW p \in B, NEW o \in B \ {p}, NEW offset \in Nat,
           offset <= Cardinality(Below(B, p)),
           Cardinality(Below(B \ {p}, o)) < offset
    PROVE  Cardinality(Below(B, o)) < offset
<1> USE BackupsAssumption
<1>1. o \in Nat /\ p \in Nat /\ o # p
  OBVIOUS
<1>2. CASE o < p
  <2>1. Below(B \ {p}, o) = Below(B, o)
    BY <1>1, <1>2 DEF Below
  <2> QED BY <2>1
<1>3. CASE p < o
  <2>1. Cardinality(Below(B, p)) < Cardinality(Below(B, o))
    BY <1>3, RankGrows
  <2>2. Below(B \ {p}, o) = Below(B, o) \ {p} /\ p \in Below(B, o)
    BY <1>3 DEF Below
  <2>3. IsFiniteSet(Below(B, o)) /\ Cardinality(Below(B, o)) \in Nat
    BY BelowIsFinite
  <2>4. Cardinality(Below(B, o) \ {p}) = Cardinality(Below(B, o)) - 1
    BY <2>2, <2>3, FS_RemoveElement
  <2>5. Cardinality(Below(B, p)) \in Nat
    BY BelowIsFinite
  <2>6. Cardinality(Below(B \ {p}, o)) = Cardinality(Below(B, o)) - 1
    BY <2>2, <2>4, Zenon
  <2> QED BY <2>1, <2>3, <2>5, <2>6
<1> QED BY <1>1, <1>2, <1>3

LEMMA LeastObject ==
    ASSUME NEW T \in SUBSET Objects, T # {}
    PROVE  \E q \in T : \A p \in T : q <= p
<1>1. T \subseteq Nat
  BY BackupsAssumption
<1>2. \E q \in T : \A p \in T : ~(<<p, q>> \in OpToRel(<, Nat))
  BY <1>1, NatLessThanWellFounded, WFMin
<1>3. PICK q \in T : \A p \in T : ~(<<p, q>> \in OpToRel(<, Nat))
  BY <1>2
<1>4. \A p \in T : ~(p < q)
  BY <1>1, <1>3 DEF OpToRel
<1>5. \A p \in T : q <= p
  BY <1>1, <1>4
<1> QED BY <1>5

(* At most as many objects as the offset rank before it: they have different ranks. *)
LEMMA FewBefore ==
    ASSUME NEW B \in SUBSET Objects, NEW offset \in Nat
    PROVE  LET L == {p \in B : Cardinality(Below(B, p)) < offset}
           IN  IsFiniteSet(L) /\ Cardinality(L) <= offset
<1> DEFINE L == {p \in B : Cardinality(Below(B, p)) < offset}
           rank == [p \in L |-> Cardinality(Below(B, p))]
<1> USE BackupsAssumption
<1>1. \A p \in L : Cardinality(Below(B, p)) \in 0 .. offset - 1
  BY BelowIsFinite
<1>2. \A p, q \in L : rank[p] = rank[q] => p = q
  <2> SUFFICES ASSUME NEW p \in L, NEW q \in L, rank[p] = rank[q] PROVE p = q
    OBVIOUS
  <2>1. Cardinality(Below(B, p)) = Cardinality(Below(B, q))
    OBVIOUS
  <2>2. p \in B /\ q \in B /\ p \in Nat /\ q \in Nat
    OBVIOUS
  <2>3. Cardinality(Below(B, p)) \in Nat
    BY BelowIsFinite
  <2>4. ~(p < q)
    BY <2>1, <2>2, <2>3, RankGrows
  <2>5. ~(q < p)
    BY <2>1, <2>2, <2>3, RankGrows
  <2> QED BY <2>2, <2>4, <2>5
<1>3. rank \in [L -> 0 .. offset - 1]
  BY <1>1
<1> HIDE DEF rank, L
<1>4. rank \in Injection(L, 0 .. offset - 1)
  BY <1>2, <1>3, Fun_IsInj
<1>5. IsFiniteSet(0 .. offset - 1) /\ Cardinality(0 .. offset - 1) = offset
  BY FS_Interval
<1>6. IsFiniteSet(L) /\ Cardinality(L) <= Cardinality(0 .. offset - 1)
  BY <1>4, <1>5, FS_Injection
<1> QED BY <1>5, <1>6 DEF L

(* After a short page there is nothing more in the bucket. The least object that
   ranked after the page would have the whole page below it. *)
LEMMA ShortPageIsLast ==
    ASSUME NEW offset \in Nat, Cardinality(Page(offset)) < PageSize, NEW o \in InBucket
    PROVE  Rank(o) < offset + PageSize
<1> USE BackupsAssumption
<1> DEFINE B == InBucket
           T == {p \in B : ~(Cardinality(Below(B, p)) < offset + PageSize)}
           L == {p \in B : Cardinality(Below(B, p)) < offset}
<1>1. /\ B \in SUBSET Objects
      /\ \A p \in B : Rank(p) = Cardinality(Below(B, p))
      /\ Page(offset) = {p \in B : Cardinality(Below(B, p)) \in offset .. offset + PageSize - 1}
  BY DEF InBucket, Rank, Below, Page
<1>2. SUFFICES ASSUME T # {} PROVE FALSE
  BY <1>1
<1> HIDE DEF B
<1>3. PICK q \in T : \A p \in T : q <= p
  BY <1>1, <1>2, LeastObject
<1>4. q \in B /\ ~(Cardinality(Below(B, q)) < offset + PageSize)
  OBVIOUS
<1>5. Below(B, q) \subseteq L \cup Page(offset)
  <2> SUFFICES ASSUME NEW p \in Below(B, q) PROVE p \in L \cup Page(offset)
    OBVIOUS
  <2>1. p \in B /\ p < q /\ p \in Nat /\ q \in Nat
    BY <1>1, <1>4 DEF Below
  <2>2. p \notin T
    BY <2>1, <1>3
  <2>3. Cardinality(Below(B, p)) \in Nat
    BY <1>1, BelowIsFinite
  <2> QED BY <1>1, <2>1, <2>2, <2>3
<1>6. IsFiniteSet(L) /\ Cardinality(L) <= offset
  BY <1>1, FewBefore
<1>7. IsFiniteSet(Page(offset))
  <2>1. Page(offset) \in SUBSET Objects
    BY <1>1
  <2> QED BY <2>1, FS_Subset
<1>8. /\ Cardinality(L) \in Nat /\ Cardinality(Page(offset)) \in Nat
      /\ Cardinality(Below(B, q)) \in Nat
  BY <1>1, <1>6, <1>7, FS_CardinalityType, BelowIsFinite
<1>9. /\ IsFiniteSet(L \cup Page(offset))
      /\ Cardinality(L \cup Page(offset)) <= Cardinality(L) + Cardinality(Page(offset))
  <2>1. IsFiniteSet(L \cap Page(offset)) /\ Cardinality(L \cap Page(offset)) \in Nat
    BY <1>6, FS_Intersection, FS_CardinalityType
  <2>2. /\ IsFiniteSet(L \cup Page(offset))
        /\ Cardinality(L \cup Page(offset)) =
              Cardinality(L) + Cardinality(Page(offset)) - Cardinality(L \cap Page(offset))
    BY <1>6, <1>7, FS_Union
  <2> HIDE DEF L
  <2> QED BY <1>8, <2>1, <2>2
<1>10. Cardinality(Below(B, q)) <= Cardinality(L \cup Page(offset))
  BY <1>5, <1>9, FS_Subset
<1>11. Cardinality(L \cup Page(offset)) \in Nat
  BY <1>9, FS_CardinalityType
<1> HIDE DEF L, T
<1> QED BY <1>4, <1>6, <1>8, <1>9, <1>10, <1>11

-----------------------------------------------------------------------------
(* The copy, action by action *)

\* What is said of a copy while nothing but the images moves.
LEMMA CopyInit == Init => CopyInv
<1> SUFFICES ASSUME Init PROVE CopyInv
  OBVIOUS
<1> USE BackupsAssumption
<1>1. copy = NoCopy /\ life \in [Objects -> {"unborn", "shown"}]
  BY DEF Init, BackupsInit
<1>2. NoCopy \in CopyType
  BY DEF NoCopy, CopyType
<1> QED BY <1>1, <1>2 DEF CopyInv, CopyShape, FoundSoFar, FoundAll, NoCopy, Listed

\* An image that arrives is in no copy's beginning, and moves nobody forward.
LEMMA UploadKeeps ==
    ASSUME CopyInv, NEW p \in Objects, Upload(p)
    PROVE  CopyInv'
<1>1. /\ copy' = copy /\ life[p] = "unborn" /\ life' = [life EXCEPT ![p] = "uploaded"]
      /\ p \notin copy.began
  BY DEF Upload, CopyInv
<1>2. life' \in [Objects -> {"unborn", "uploaded", "shown", "dropped", "gone"}]
  BY <1>1 DEF CopyInv
<1>3. \A o \in Objects : o # p => life'[o] = life[o]
  BY <1>1 DEF CopyInv
<1>4. copy.began \subseteq Objects /\ copy.offset \in Nat
  BY DEF CopyInv, CopyShape, CopyType
<1>5. InBucket \subseteq Objects /\ InBucket' = InBucket \cup {p}
  BY <1>1, <1>3 DEF InBucket, CopyInv
<1>6. FoundSoFar'
  <2> SUFFICES ASSUME copy.pc = "listing", ~copy.slid, NEW o \in copy.began \cap InBucket',
                      Rank(o)' < copy.offset
               PROVE  o \in copy.found
    BY <1>1 DEF FoundSoFar
  <2>1. o \in InBucket
    BY <1>1, <1>5
  <2>2. Cardinality(Below(InBucket, o)) <= Cardinality(Below(InBucket', o))
    BY <1>5, <2>1, RankAfterGain
  <2>3. /\ Cardinality(Below(InBucket, o)) \in Nat
        /\ Cardinality(Below(InBucket', o)) \in Nat
    BY <1>5, BelowIsFinite
  <2>4. Rank(o) = Cardinality(Below(InBucket, o)) /\ Rank(o)' = Cardinality(Below(InBucket', o))
    BY DEF Rank, Below
  <2>5. Rank(o) < copy.offset
    BY <1>4, <2>2, <2>3, <2>4
  <2> QED BY <2>1, <2>5 DEF CopyInv, FoundSoFar
<1>7. FoundAll' /\ \A o \in copy'.began : life'[o] # "unborn"
  BY <1>1, <1>3, <1>4 DEF CopyInv, FoundAll, Listed
<1>8. CopyShape'
  BY <1>1 DEF CopyInv, CopyShape, Listed
<1> QED BY <1>2, <1>6, <1>7, <1>8 DEF CopyInv

\* A row comes or goes: the image stays where it stood.
LEMMA RowKeeps ==
    ASSUME CopyInv, NEW p \in Objects, Show(p) \/ Drop(p)
    PROVE  CopyInv'
<1>1. /\ copy' = copy /\ life[p] \in {"uploaded", "shown"}
      /\ \E w \in {"shown", "dropped"} : life' = [life EXCEPT ![p] = w]
  BY DEF Show, Drop
<1>2. life' \in [Objects -> {"unborn", "uploaded", "shown", "dropped", "gone"}]
  BY <1>1 DEF CopyInv
<1>3. \A o \in Objects : /\ o # p => life'[o] = life[o]
                         /\ life'[p] \in {"shown", "dropped"}
  BY <1>1 DEF CopyInv
<1>4. copy.began \subseteq Objects
  BY DEF CopyInv, CopyShape, CopyType
<1>5. InBucket' = InBucket
  BY <1>1, <1>3 DEF InBucket
<1>6. FoundSoFar'
  BY <1>1, <1>5 DEF CopyInv, FoundSoFar, Rank
<1>7. FoundAll' /\ \A o \in copy'.began : life'[o] # "unborn"
  BY <1>1, <1>3, <1>4 DEF CopyInv, FoundAll, Listed
<1>8. CopyShape'
  BY <1>1 DEF CopyInv, CopyShape, Listed
<1> QED BY <1>2, <1>6, <1>7, <1>8 DEF CopyInv

\* An image that goes either stood before the offset, and the copy slid, or moves
\* nobody across it.
LEMMA RemoveKeeps ==
    ASSUME CopyInv, NEW p \in Objects, Remove(p)
    PROVE  CopyInv'
<1> DEFINE slid == copy.slid \/ (copy.pc = "listing" /\ Rank(p) < copy.offset)
<1>1. /\ life[p] \in {"dropped", "uploaded"} /\ life' = [life EXCEPT ![p] = "gone"]
      /\ copy' = [copy EXCEPT !.slid = slid]
  BY DEF Remove
<1>2. life' \in [Objects -> {"unborn", "uploaded", "shown", "dropped", "gone"}]
  BY <1>1 DEF CopyInv
<1>3. life'[p] = "gone" /\ \A o \in Objects : o # p => life'[o] = life[o]
  BY <1>1 DEF CopyInv
<1>4. copy \in CopyType /\ copy.began \subseteq Objects /\ copy.offset \in Nat
  BY DEF CopyInv, CopyShape, CopyType
<1>5. /\ InBucket \subseteq Objects /\ p \in InBucket /\ InBucket' = InBucket \ {p}
  BY <1>1, <1>3 DEF InBucket
<1>6. slid \in BOOLEAN
  BY <1>4 DEF CopyType
<1>7. /\ copy' \in CopyType /\ copy'.slid = slid
      /\ copy'.pc = copy.pc /\ copy'.offset = copy.offset /\ copy'.page = copy.page
      /\ copy'.found = copy.found /\ copy'.todo = copy.todo /\ copy'.got = copy.got
      /\ copy'.failed = copy.failed /\ copy'.truncated = copy.truncated
      /\ copy'.rotten = copy.rotten /\ copy'.began = copy.began
  <2> HIDE DEF slid
  <2> QED BY <1>1, <1>4, <1>6 DEF CopyType
<1>8. FoundSoFar'
  <2> SUFFICES ASSUME copy.pc = "listing", ~slid, NEW o \in copy.began \cap InBucket',
                      Rank(o)' < copy.offset
               PROVE  o \in copy.found
    BY <1>7 DEF FoundSoFar
  <2>1. ~copy.slid /\ ~(Rank(p) < copy.offset)
    OBVIOUS
  <2>2. /\ Rank(o) = Cardinality(Below(InBucket, o)) /\ Rank(p) = Cardinality(Below(InBucket, p))
        /\ Rank(o)' = Cardinality(Below(InBucket', o))
    BY DEF Rank, Below
  <2>3. Cardinality(Below(InBucket, p)) \in Nat
    BY <1>5, BelowIsFinite
  <2>4. copy.offset <= Cardinality(Below(InBucket, p))
    BY <1>4, <2>1, <2>2, <2>3
  <2>5. o \in InBucket \ {p} /\ Cardinality(Below(InBucket \ {p}, o)) < copy.offset
    BY <1>5, <2>2
  <2>6. Cardinality(Below(InBucket, o)) < copy.offset
    BY <1>4, <1>5, <2>4, <2>5, RankAfterLoss
  <2> QED BY <2>1, <2>2, <2>5, <2>6 DEF CopyInv, FoundSoFar
<1> HIDE DEF slid
<1>9. FoundAll'
  <2>1. slid = copy.slid \/ copy.pc = "listing"
    BY <1>4 DEF slid, CopyType
  <2> QED BY <1>3, <1>4, <1>7, <2>1 DEF CopyInv, FoundAll, Listed
<1>10. \A o \in copy'.began : life'[o] # "unborn"
  BY <1>3, <1>4, <1>7 DEF CopyInv
<1>11. CopyShape'
  BY <1>7 DEF CopyInv, CopyShape, Listed
<1> QED BY <1>2, <1>8, <1>9, <1>10, <1>11 DEF CopyInv

\* A copy whose images stand still keeps what is said of it if its own record does.
LEMMA CopyMoves ==
    ASSUME CopyInv, life' = life, CopyShape', copy'.began = copy.began, FoundSoFar', FoundAll'
    PROVE  CopyInv'
BY DEF CopyInv

LEMMA StartCopyKeeps ==
    ASSUME CopyInv, StartCopy
    PROVE  CopyInv'
<1> USE BackupsAssumption
<1>1. life' = life /\ copy' = [NoCopy EXCEPT !.pc = "listing", !.began = InBucket]
  BY DEF StartCopy
<1>2. /\ copy' = [pc |-> "listing", offset |-> 0, page |-> 0, found |-> {}, todo |-> {},
                  got |-> {}, failed |-> FALSE, truncated |-> FALSE, rotten |-> {},
                  began |-> InBucket, slid |-> FALSE]
  BY <1>1 DEF NoCopy
<1>3. InBucket \subseteq Objects /\ InBucket' = InBucket
  BY <1>1 DEF InBucket
<1>4. copy' \in CopyType
  BY <1>2, <1>3 DEF CopyType
<1>5. CopyShape'
  BY <1>2, <1>4 DEF CopyShape, Listed
<1>6. FoundAll' /\ \A o \in copy'.began : life'[o] # "unborn"
  BY <1>1, <1>2 DEF FoundAll, Listed, InBucket
<1>7. FoundSoFar'
  <2> SUFFICES ASSUME NEW o \in InBucket', Rank(o)' < 0 PROVE FALSE
    BY <1>2 DEF FoundSoFar
  <2>1. Rank(o)' = Cardinality(Below(InBucket', o)) /\ Cardinality(Below(InBucket', o)) \in Nat
    BY <1>3, BelowIsFinite DEF Rank, Below
  <2> QED BY <2>1
<1> QED BY <1>1, <1>5, <1>6, <1>7 DEF CopyInv

(* Whatever ranks before the next offset is found with this page; if the page is
   short, that is everything. *)
LEMMA ListPageKeeps ==
    ASSUME CopyInv, ListPage
    PROVE  CopyInv'
<1> USE BackupsAssumption
<1> DEFINE pg == Page(copy.offset)
           found == copy.found \cup pg
           short == Cardinality(pg) < PageSize
           capped == ~short /\ copy.page = MaxPages - 1
<1>1. /\ life' = life /\ copy.pc = "listing"
      /\ copy' = [copy EXCEPT !.found = found, !.offset = @ + PageSize, !.page = @ + 1,
                              !.truncated = capped,
                              !.pc = IF short \/ capped THEN "copying" ELSE "listing",
                              !.todo = IF short \/ capped THEN found ELSE {}]
  BY DEF ListPage
<1>2. /\ copy \in CopyType /\ copy.offset = copy.page * PageSize /\ copy.page \in 0..MaxPages
      /\ copy.offset \in Nat /\ copy.page < MaxPages
      /\ ~copy.failed /\ copy.todo = {} /\ copy.got = {} /\ copy.rotten \subseteq copy.got
      /\ copy.began \subseteq Objects
  BY <1>1 DEF CopyInv, CopyShape, CopyType
<1>3. /\ pg \subseteq Objects /\ found \in SUBSET Objects
      /\ \A o \in InBucket : Rank(o) \in copy.offset .. copy.offset + PageSize - 1 => o \in pg
  BY <1>2 DEF Page, InBucket, CopyType
<1>4. /\ short => \A o \in InBucket : Rank(o) < copy.offset + PageSize
  BY <1>2, ShortPageIsLast
<1>5. ~copy.slid =>
        \A o \in copy.began \cap InBucket : Rank(o) < copy.offset + PageSize => o \in found
  <2> SUFFICES ASSUME ~copy.slid, NEW o \in copy.began \cap InBucket,
                      Rank(o) < copy.offset + PageSize
               PROVE  o \in found
    OBVIOUS
  <2>1. Rank(o) = Cardinality(Below(InBucket, o)) /\ InBucket \in SUBSET Objects
    BY DEF Rank, Below, InBucket
  <2>2. Rank(o) \in Nat
    BY <2>1, BelowIsFinite
  <2>3. CASE Rank(o) < copy.offset
    BY <1>1, <2>3 DEF CopyInv, FoundSoFar
  <2>4. CASE ~(Rank(o) < copy.offset)
    BY <1>2, <1>3, <2>2, <2>4
  <2> QED BY <2>3, <2>4
<1>6. short \in BOOLEAN /\ capped \in BOOLEAN
  OBVIOUS
<1>7. capped <=> ~short /\ copy.page = MaxPages - 1
  OBVIOUS
<1> HIDE DEF pg, found, short, capped
<1>8. /\ copy'.found = found /\ copy'.offset = copy.offset + PageSize
      /\ copy'.page = copy.page + 1 /\ copy'.truncated = capped
      /\ copy'.pc = IF short \/ capped THEN "copying" ELSE "listing"
      /\ copy'.todo = IF short \/ capped THEN found ELSE {}
      /\ copy'.got = copy.got /\ copy'.failed = copy.failed /\ copy'.rotten = copy.rotten
      /\ copy'.began = copy.began /\ copy'.slid = copy.slid
  BY <1>1, <1>2 DEF CopyType
<1>9. copy.page + 1 \in 0..MaxPages /\ copy.offset + PageSize \in Nat
  BY <1>2
<1>10. copy' \in CopyType
  BY <1>1, <1>2, <1>3, <1>6, <1>9 DEF CopyType
<1>11. copy.offset + PageSize = (copy.page + 1) * PageSize
  <2>1. \A n, m \in Nat : n * m + m = (n + 1) * m
    OBVIOUS
  <2> QED BY <1>2, <2>1
<1>12. CopyShape'
  <2>1. copy'.pc = "listing" => copy'.page < MaxPages
    BY <1>2, <1>7, <1>8
  <2>2. copy'.offset = copy'.page * PageSize
    BY <1>8, <1>11
  <2>3. /\ copy'.todo \cup copy'.got \subseteq copy'.found /\ copy'.rotten \subseteq copy'.got
        /\ copy'.pc = "listing" => ~copy'.failed /\ copy'.todo = {} /\ copy'.got = {}
        /\ Listed' /\ ~copy'.failed => copy'.found = copy'.todo \cup copy'.got
        /\ copy'.pc \notin {"written", "done"}
    BY <1>2, <1>8 DEF Listed
  <2> QED BY <1>10, <2>1, <2>2, <2>3 DEF CopyShape
<1>13. InBucket' = InBucket /\ \A o : Rank(o)' = Rank(o)
  BY <1>1 DEF InBucket, Rank
<1>14. FoundSoFar'
  BY <1>5, <1>8, <1>13 DEF FoundSoFar
<1>15. FoundAll'
  <2> SUFFICES ASSUME Listed', ~copy.slid, ~capped, NEW o \in copy.began
               PROVE  o \in found \/ life[o] = "gone"
    BY <1>1, <1>8 DEF FoundAll
  <2>1. short
    BY <1>8 DEF Listed
  <2>2. o \in InBucket \/ life[o] = "gone"
    BY <1>2 DEF CopyInv, InBucket
  <2> QED BY <1>4, <1>5, <2>1, <2>2
<1> QED BY <1>1, <1>8, <1>12, <1>14, <1>15, CopyMoves

\* After the listing only what was got, what failed and the phase change.
LEMMA ScriptKeeps ==
    ASSUME CopyInv, (\E o \in Objects : Download(o)) \/ WriteManifest \/ RecordCopy \/ CopyFails
                    \/ Rot
    PROVE  CopyInv'
<1>1. life' = life /\ copy \in CopyType
  BY DEF Download, WriteManifest, RecordCopy, CopyFails, Rot, CopyInv, CopyShape
<1>2. InBucket' = InBucket
  BY <1>1 DEF InBucket
<1>3. CASE \E o \in Objects : Download(o)
  <2>1. PICK o \in Objects : Download(o)
    BY <1>3
  <2>2. /\ copy.pc = "copying" /\ o \in copy.todo
        /\ \/ copy' = [copy EXCEPT !.todo = @ \ {o}, !.got = @ \cup {o}]
           \/ copy' = [copy EXCEPT !.todo = @ \ {o}, !.failed = TRUE]
    BY <2>1 DEF Download
  <2>3. CopyShape' /\ copy'.began = copy.began
    <3>1. CASE copy' = [copy EXCEPT !.todo = @ \ {o}, !.got = @ \cup {o}]
      <4>1. copy' \in CopyType
        BY <1>1, <3>1 DEF CopyType
      <4> QED BY <1>1, <2>2, <3>1, <4>1 DEF CopyInv, CopyShape, Listed, CopyType
    <3>2. CASE copy' = [copy EXCEPT !.todo = @ \ {o}, !.failed = TRUE]
      <4>1. copy' \in CopyType
        BY <1>1, <3>2 DEF CopyType
      <4> QED BY <1>1, <2>2, <3>2, <4>1 DEF CopyInv, CopyShape, Listed, CopyType
    <3> QED BY <2>2, <3>1, <3>2
  <2>4. FoundSoFar' /\ FoundAll'
    BY <1>1, <2>2 DEF CopyInv, FoundSoFar, FoundAll, Listed, CopyType
  <2> QED BY <1>1, <2>3, <2>4, CopyMoves
<1>4. CASE WriteManifest
  <2>1. copy.pc = "copying" /\ copy.todo = {} /\ copy' = [copy EXCEPT !.pc = "written"]
    BY <1>4 DEF WriteManifest
  <2>2. copy' \in CopyType
    BY <1>1, <2>1 DEF CopyType
  <2>3. CopyShape' /\ copy'.began = copy.began
    BY <1>1, <2>1, <2>2 DEF CopyInv, CopyShape, Listed, CopyType
  <2>4. FoundSoFar' /\ FoundAll'
    BY <1>1, <2>1 DEF CopyInv, FoundSoFar, FoundAll, Listed, CopyType
  <2> QED BY <1>1, <2>3, <2>4, CopyMoves
<1>5. CASE RecordCopy \/ CopyFails
  <2>1. /\ copy.pc \in {"listing", "copying", "written"}
        /\ \/ copy.pc = "written" /\ copy' = [copy EXCEPT !.pc = "done"]
           \/ copy' = [copy EXCEPT !.pc = "aborted"]
    BY <1>5 DEF RecordCopy, CopyFails
  <2>2. copy' \in CopyType
    BY <1>1, <2>1 DEF CopyType
  <2>3. CopyShape' /\ copy'.began = copy.began
    BY <1>1, <2>1, <2>2 DEF CopyInv, CopyShape, Listed, CopyType
  <2>4. FoundSoFar' /\ FoundAll'
    BY <1>1, <2>1 DEF CopyInv, FoundSoFar, FoundAll, Listed, CopyType
  <2> QED BY <1>1, <2>3, <2>4, CopyMoves
<1>6. CASE Rot
  <2>1. \/ copy' = copy
        \/ \E o \in copy.got \ copy.rotten : copy' = [copy EXCEPT !.rotten = @ \cup {o}]
    BY <1>6 DEF Rot
  <2>2. CASE copy' = copy
    BY <1>1, <1>2, <2>2 DEF CopyInv, CopyShape, FoundSoFar, FoundAll, Listed, Rank
  <2>3. CASE \E o \in copy.got \ copy.rotten : copy' = [copy EXCEPT !.rotten = @ \cup {o}]
    <3>1. PICK o \in copy.got : copy' = [copy EXCEPT !.rotten = @ \cup {o}]
      BY <2>3
    <3>2. copy' \in CopyType
      BY <1>1, <3>1 DEF CopyType
    <3>3. /\ copy'.rotten = copy.rotten \cup {o} /\ copy'.pc = copy.pc
          /\ copy'.offset = copy.offset /\ copy'.page = copy.page /\ copy'.found = copy.found
          /\ copy'.todo = copy.todo /\ copy'.got = copy.got /\ copy'.failed = copy.failed
          /\ copy'.truncated = copy.truncated /\ copy'.began = copy.began
          /\ copy'.slid = copy.slid
      BY <1>1, <3>1 DEF CopyType
    <3>4. CopyShape'
      BY <3>2, <3>3 DEF CopyInv, CopyShape, Listed
    <3>5. FoundSoFar' /\ FoundAll'
      BY <1>1, <1>2, <3>3 DEF CopyInv, FoundSoFar, FoundAll, Listed, Rank
    <3> QED BY <1>1, <3>3, <3>4, <3>5, CopyMoves
  <2> QED BY <2>1, <2>2, <2>3
<1> QED BY <1>3, <1>4, <1>5, <1>6

-----------------------------------------------------------------------------
(* The rows of backup_runs *)

LEMMA RecordsInit == Init => RecordsInv /\ FilesInv
<1> SUFFICES ASSUME Init PROVE RecordsInv /\ FilesInv
  OBVIOUS
<1> USE MigrationsAssumption, BackupsAssumption
<1>1. recorded = {} /\ faults = 0 /\ edits = 0 /\ accidents = 0
  BY DEF Init, BackupsInit, MigrationsInit
<1>2. disk \subseteq 1..LastFile
  BY SMT DEF Init, MigrationsInit
<1> QED BY <1>1, <1>2 DEF RecordsInv, SuccessIsOnDisk, FilesInv

\* What is recorded of a copy stays true: nothing moves a copy that is done.
LEMMA RecordsNext ==
    ASSUME DriftInv, CopyInv, RecordsInv, [Next]_vars
    PROVE  RecordsInv'
<1> USE BackupsAssumption
<1>1. /\ copy \in CopyType /\ dump \in DumpType /\ faults \in Nat /\ MaxFaults \in Nat
      /\ Listed /\ ~copy.failed => copy.found = copy.todo \cup copy.got
      /\ copy.pc \in {"written", "done"} => copy.todo = {}
  BY DEF CopyInv, CopyShape, DriftInv, DumpAnswers, RecordsInv
<1>2. ASSUME UNCHANGED <<copy, dump, recorded, faults>> PROVE RecordsInv'
  BY <1>2 DEF RecordsInv, SuccessIsOnDisk, Complete
<1>3. CASE Live
  <2>1. CASE \E o \in Objects : Upload(o) \/ Show(o) \/ Drop(o)
    BY <1>2, <2>1 DEF Upload, Show, Drop
  <2>2. CASE \E o \in Objects : Remove(o)
    <3>1. /\ copy'.pc = copy.pc /\ copy'.failed = copy.failed
          /\ copy'.truncated = copy.truncated /\ UNCHANGED <<dump, recorded, faults>>
      BY <1>1, <2>2 DEF Remove, CopyType
    <3> QED BY <3>1 DEF RecordsInv, SuccessIsOnDisk, Complete
  <2> QED BY <1>3, <2>1, <2>2 DEF Live, ApplicationNext
<1>4. CASE Copy
  <2>1. CASE RecordCopy
    <3>1. /\ copy.pc = "written" /\ copy'.pc = "done" /\ copy'.failed = copy.failed
          /\ copy'.truncated = copy.truncated /\ dump' = dump /\ faults' = faults
          /\ recorded' = recorded \cup {<<"storage", IF Complete THEN "success" ELSE "failed">>}
      BY <1>1, <2>1 DEF RecordCopy, CopyType
    <3> QED BY <3>1 DEF RecordsInv, SuccessIsOnDisk, Complete
  <2>2. CASE StartCopy \/ ListPage \/ WriteManifest \/ CopyFails \/ \E o \in Objects : Download(o)
    <3>1. dump' = dump /\ recorded' = recorded
      BY <2>2 DEF StartCopy, ListPage, WriteManifest, CopyFails, Download
    <3>3. faults' = faults \/ (faults < MaxFaults /\ faults' = faults + 1)
      BY <2>2 DEF StartCopy, ListPage, WriteManifest, CopyFails, Download, Fault
    <3>4. faults' \in 0..MaxFaults
      BY <1>1, <3>3 DEF RecordsInv
    <3>2. copy.pc # "done"
      BY <2>2 DEF StartCopy, ListPage, WriteManifest, CopyFails, Download
    <3> QED BY <3>1, <3>2, <3>4 DEF RecordsInv, SuccessIsOnDisk
  <2> QED BY <1>4, <2>1, <2>2 DEF Copy, CopyNext
<1>5. CASE Dump
  <2>1. CASE RecordDump
    <3>1. /\ dump'.pc = "done" /\ copy' = copy /\ faults' = faults
          /\ recorded' = recorded \cup {<<"database", "success">>}
      BY <1>1, <2>1 DEF RecordDump, DumpType
    <3> QED BY <3>1 DEF RecordsInv, SuccessIsOnDisk, Complete
  <2>2. CASE TakeDump \/ WriteDumpManifest \/ DumpFails
    <3>1. copy' = copy /\ recorded' = recorded /\ faults' \in 0..MaxFaults
      BY <1>1, <2>2 DEF TakeDump, WriteDumpManifest, DumpFails, Fault, RecordsInv
    <3>2. dump.pc # "done"
      BY <2>2 DEF TakeDump, WriteDumpManifest, DumpFails
    <3> QED BY <3>1, <3>2 DEF RecordsInv, SuccessIsOnDisk, Complete
  <2> QED BY <1>5, <2>1, <2>2 DEF Dump, DumpNext
<1>6. CASE Decay
  <2>1. /\ copy'.pc = copy.pc /\ copy'.failed = copy.failed /\ copy'.truncated = copy.truncated
        /\ dump'.pc = dump.pc /\ recorded' = recorded /\ faults' \in 0..MaxFaults
    BY <1>1, <1>6 DEF Decay, Rot, Fault, CopyType, DumpType, RecordsInv
  <2> QED BY <2>1 DEF RecordsInv, SuccessIsOnDisk, Complete
<1>7. CASE Migrate \/ Recover \/ Dashboard \/ UNCHANGED vars
  BY <1>2, <1>7 DEF Migrate, Recover, Dashboard, vars, bvars
<1> QED BY <1>3, <1>4, <1>5, <1>6, <1>7 DEF Next

LEMMA FilesNext ==
    ASSUME FilesInv, DriftInv, [Next]_vars
    PROVE  FilesInv'
<1> USE MigrationsAssumption
<1>1. ASSUME UNCHANGED <<disk, edits, accidents>> PROVE FilesInv'
  BY <1>1 DEF FilesInv
<1>2. CASE Migrate
  <2>1. CASE \/ ListFile \/ \E r \in Runners, d \in Targets : Start(r, d)
             \/ \E r \in Runners : Apply(r) \/ Record(r)
    BY <1>1, <2>1 DEF ListFile, Start, Apply, Record
  <2>2. CASE \E f \in Files : AddFile(f)
    BY <2>2 DEF AddFile, FilesInv
  <2>3. CASE \E f \in Files, v \in Versions : EditFile(f, v)
    BY <2>3 DEF EditFile, FilesInv
  <2>4. CASE \E r \in Runners : RecordFails(r) \/ Stop(r)
    <3>1. disk' = disk /\ edits' = edits /\ accidents < MaxAccidents /\ accidents' = accidents + 1
      BY <2>4 DEF RecordFails, Stop
    <3> QED BY <3>1 DEF FilesInv
  <2> QED BY <1>2, <2>1, <2>2, <2>3, <2>4 DEF Migrate, MigrationsNext
<1>3. CASE Recover
  BY <1>1, <1>3 DEF Recover, Restore
<1>4. CASE Live \/ Copy \/ Dump \/ Decay \/ Dashboard \/ UNCHANGED vars
  BY <1>1, <1>4 DEF Live, Copy, Dump, Decay, Dashboard, vars, mvars
<1> QED BY <1>2, <1>3, <1>4 DEF Next

LEMMA CopyNextKeeps ==
    ASSUME CopyInv, [Next]_vars
    PROVE  CopyInv'
<1>1. ASSUME UNCHANGED <<life, copy>> PROVE CopyInv'
  BY <1>1 DEF CopyInv, CopyShape, FoundSoFar, FoundAll, Listed, Rank, InBucket
<1>2. CASE Live
  BY <1>2, UploadKeeps, RowKeeps, RemoveKeeps DEF Live, ApplicationNext
<1>3. CASE Copy
  BY <1>3, StartCopyKeeps, ListPageKeeps, ScriptKeeps DEF Copy, CopyNext
<1>4. CASE Decay
  BY <1>4, ScriptKeeps DEF Decay
<1>5. CASE Dump
  BY <1>1, <1>5 DEF Dump, DumpNext, TakeDump, WriteDumpManifest, RecordDump, DumpFails
<1>6. CASE Migrate \/ Recover \/ Dashboard \/ UNCHANGED vars
  BY <1>1, <1>6 DEF Migrate, Recover, Dashboard, vars, bvars
<1> QED BY <1>2, <1>3, <1>4, <1>5, <1>6 DEF Next

-----------------------------------------------------------------------------
(* The walks, step by step *)

LEMMA WalkInit == Init => WalkInv
<1> SUFFICES ASSUME Init PROVE WalkInv
  OBVIOUS
<1> USE StorageUsageAssumption
<1>1. UsageInit
  BY DEF Init
<1>2. Walking = {}
  BY <1>1 DEF UsageInit, Walking
<1>3. Cardinality(Walking) = 0
  BY <1>2, FS_EmptySet
<1>4. UsageTypeOK
  <2>1. walked \in [Callers -> 0..Pages] /\ outages \in 0..MaxOutages
    BY <1>1 DEF UsageInit
  <2>2. caller \in [Callers -> {"idle", "asked", "answered"}]
    BY <1>1 DEF UsageInit
  <2>3. joined \in [Callers -> Callers \cup {Nobody}]
    BY <1>1 DEF UsageInit
  <2> QED BY <1>1, <2>1, <2>2, <2>3 DEF UsageInit, UsageTypeOK
<1>5. \A c \in Callers : caller[c] = "idle" /\ joined[c] = Nobody
  BY <1>1 DEF UsageInit
<1> QED BY <1>1, <1>2, <1>3, <1>4, <1>5 DEF UsageInit, WalkInv, WalksAreShared

\* One who waits at most: the latch is that caller's after a failure.
LEMMA OneWaiter ==
    ASSUME NEW o \in Callers, ~(Cardinality(Waiting(o)) > 1), NEW w \in Waiting(o)
    PROVE  Waiting(o) = {w}
<1> USE StorageUsageAssumption
<1>1. IsFiniteSet(Waiting(o))
  <2>1. Waiting(o) \in SUBSET Callers
    BY DEF Waiting
  <2> QED BY <2>1, FS_Subset
<1>2. SUFFICES ASSUME NEW v \in Waiting(o), v # w PROVE FALSE
  OBVIOUS
<1>3. IsFiniteSet({v}) /\ Cardinality({v}) = 1
  BY FS_Singleton
<1>4. Cardinality({v} \cup {w}) = 2
  <2>1. w \notin {v}
    BY <1>2
  <2>2. Cardinality({v} \cup {w}) = Cardinality({v}) + 1
    BY <1>3, <2>1, FS_AddElement
  <2> QED BY <1>3, <2>2
<1>5. {v} \cup {w} \in SUBSET Waiting(o)
  OBVIOUS
<1>6. Cardinality({v} \cup {w}) <= Cardinality(Waiting(o)) /\ Cardinality(Waiting(o)) \in Nat
  BY <1>1, <1>5, FS_Subset, FS_CardinalityType
<1> QED BY <1>4, <1>6

LEMMA AskKeeps ==
    ASSUME WalkInv, NEW c \in Callers, Ask(c)
    PROVE  WalkInv'
<1> USE StorageUsageAssumption
<1>1. /\ caller[c] = "idle" /\ walked' = walked /\ cache' = cache /\ forked' = forked
      /\ outages' = outages
  BY DEF Ask
<1>2. UsageTypeOK /\ joined[c] = Nobody
  BY <1>1 DEF WalkInv, UsageTypeOK
<1>3. CASE /\ caller' = [caller EXCEPT ![c] = "answered"]
           /\ UNCHANGED <<joined, inFlight>>
  <2>1. UsageTypeOK'
    BY <1>1, <1>2, <1>3 DEF UsageTypeOK
  <2>2. Walking' = Walking
    BY <1>3 DEF Walking
  <2> QED BY <1>1, <1>2, <1>3, <2>1, <2>2 DEF WalkInv, WalksAreShared, UsageTypeOK
<1>4. CASE /\ inFlight # Nobody
           /\ caller' = [caller EXCEPT ![c] = "asked"]
           /\ joined' = [joined EXCEPT ![c] = inFlight]
           /\ UNCHANGED inFlight
  <2>1. UsageTypeOK'
    BY <1>1, <1>2, <1>4 DEF UsageTypeOK
  <2>2. inFlight \in Walking /\ inFlight # c
    BY <1>2, <1>4 DEF WalkInv, WalksAreShared, Walking
  <2>3. Walking' = Walking
    BY <1>2, <1>4, <2>2 DEF Walking, UsageTypeOK
  <2> QED BY <1>1, <1>2, <1>4, <2>1, <2>2, <2>3 DEF WalkInv, WalksAreShared, UsageTypeOK
<1>5. CASE /\ inFlight = Nobody
           /\ caller' = [caller EXCEPT ![c] = "asked"]
           /\ joined' = [joined EXCEPT ![c] = c]
           /\ inFlight' = c
  <2>1. UsageTypeOK'
    BY <1>1, <1>2, <1>5 DEF UsageTypeOK
  <2>2. Walking' = Walking \cup {c}
    BY <1>2, <1>5 DEF Walking, UsageTypeOK
  <2>3. forked \/ Walking = {}
    BY <1>5 DEF WalkInv, Walking
  <2>4. forked' \/ Walking' \subseteq {inFlight'}
    BY <1>1, <1>5, <2>2, <2>3
  <2>5. forked' \/ Cardinality(Walking') <= 1
    <3>1. Cardinality({c}) = 1
      BY FS_Singleton
    <3>2. Walking = {} => Walking' = {c}
      BY <2>2
    <3>3. Walking = {} => Cardinality(Walking') = 1
      BY <3>1, <3>2, Zenon
    <3> QED BY <1>1, <2>3, <3>3
  <2>6. \A d \in Callers : caller'[d] = "asked" => joined'[d] \in Walking'
    BY <1>2, <1>5, <2>2 DEF WalkInv, WalksAreShared, UsageTypeOK
  <2>7. \A d \in Callers : joined'[d] # Nobody => caller'[d] = "asked"
    BY <1>2, <1>5 DEF WalkInv, UsageTypeOK
  <2> QED BY <1>5, <2>1, <2>2, <2>4, <2>5, <2>6, <2>7 DEF WalkInv, WalksAreShared
<1> QED BY <1>3, <1>4, <1>5 DEF Ask

LEMMA QuietKeeps ==
    ASSUME WalkInv, UNCHANGED uvars \/ Expire \/ \E c \in Callers : Again(c) \/ WalkPage(c)
    PROVE  WalkInv'
<1> USE StorageUsageAssumption
<1>1. /\ joined' = joined /\ inFlight' = inFlight /\ forked' = forked
      /\ \A c \in Callers : caller'[c] = caller[c] \/ (caller[c] = "answered" /\ caller'[c] = "idle")
  BY DEF uvars, Expire, Again, WalkPage, WalkInv, UsageTypeOK
<1>2. UsageTypeOK'
  <2>1. CASE \E c \in Callers : WalkPage(c)
    <3>1. PICK c \in Callers : WalkPage(c)
      BY <2>1
    <3>2. /\ walked[c] < Pages /\ walked' = [walked EXCEPT ![c] = @ + 1]
          /\ walked \in [Callers -> 0..Pages]
      BY <3>1 DEF WalkPage, WalkInv, UsageTypeOK
    <3>3. walked[c] + 1 \in 0..Pages
      BY <3>2
    <3>4. walked' \in [Callers -> 0..Pages]
      BY <3>2, <3>3
    <3> QED BY <3>1, <3>4 DEF WalkPage, WalkInv, UsageTypeOK
  <2>2. CASE UNCHANGED uvars \/ Expire \/ \E c \in Callers : Again(c)
    BY <2>2 DEF uvars, Expire, Again, WalkInv, UsageTypeOK
  <2> QED BY <2>1, <2>2
<1>3. Walking' = Walking
  BY <1>1 DEF Walking
<1>4. \A c \in Callers : joined[c] # Nobody => caller'[c] = "asked"
  BY <1>1 DEF WalkInv
<1> QED BY <1>1, <1>2, <1>3, <1>4 DEF WalkInv, WalksAreShared

\* Those who are resumed leave the walks they were in; those who start have their own.
LEMMA EndWalkKeeps ==
    ASSUME WalkInv, NEW c \in Callers, EndWalk(c)
    PROVE  WalkInv'
<1> USE StorageUsageAssumption
<1> DEFINE S == {c} \cup Waiting(c)
<1>1. /\ c \in Walking /\ inFlight' = Nobody /\ outages' = outages
      /\ forked' = (forked /\ Walking # {c}) /\ cache' \in {"exact", "truncated"}
      /\ caller' = [d \in Callers |-> IF d \in S THEN "answered" ELSE caller[d]]
      /\ joined' = [d \in Callers |-> IF d \in S THEN Nobody ELSE joined[d]]
      /\ walked' = [d \in Callers |-> IF d \in S THEN 0 ELSE walked[d]]
  BY Zenon DEF EndWalk, Resume
<1>2. S \subseteq Callers /\ \A d \in Callers : d \in S <=> joined[d] = c
  BY <1>1 DEF Waiting, Walking
<1>3. UsageTypeOK
  BY DEF WalkInv
<1> HIDE DEF S
<1>4. Walking' = Walking \ {c}
  BY <1>1, <1>2 DEF Walking
<1>5. UsageTypeOK'
  BY <1>1, <1>3 DEF UsageTypeOK
<1>6. forked' \/ Walking' = {}
  BY <1>1, <1>4 DEF WalkInv
<1>7. forked' \/ Cardinality(Walking') <= 1
  BY <1>6, FS_EmptySet
<1>8. \A d \in Callers : caller'[d] = "asked" => joined'[d] \in Walking'
  BY <1>1, <1>2, <1>4 DEF WalkInv, WalksAreShared
<1>9. \A d \in Callers : joined'[d] # Nobody => caller'[d] = "asked"
  BY <1>1 DEF WalkInv
<1> QED BY <1>1, <1>5, <1>6, <1>7, <1>8, <1>9 DEF WalkInv, WalksAreShared

LEMMA WalkFailsKeeps ==
    ASSUME WalkInv, NEW c \in Callers, WalkFails(c)
    PROVE  WalkInv'
<1> USE StorageUsageAssumption
<1> DEFINE W == Waiting(c)
<1>1. /\ c \in Walking /\ outages < MaxOutages /\ outages' = outages + 1 /\ cache' = cache
      /\ forked' = ((forked /\ Walking # {c}) \/ Cardinality(W) > 1)
      /\ IF W = {} THEN inFlight' = Nobody ELSE inFlight' \in W
      /\ caller' = [d \in Callers |-> IF d \in {c} THEN "answered" ELSE caller[d]]
      /\ joined' = [d \in Callers |-> IF d \in W THEN d ELSE IF d \in {c} THEN Nobody ELSE joined[d]]
      /\ walked' = [d \in Callers |-> IF d \in {c} \cup W THEN 0 ELSE walked[d]]
  BY Zenon DEF WalkFails, Resume
<1>2. /\ W \subseteq Callers \ {c} /\ \A d \in Callers \ {c} : d \in W <=> joined[d] = c
      /\ ~(Cardinality(W) > 1) => \A w \in W : W = {w}
  BY <1>1, OneWaiter DEF Waiting
<1>3. UsageTypeOK
  BY DEF WalkInv
<1> HIDE DEF W
<1>4. Walking' = (Walking \ {c}) \cup W
  BY <1>1, <1>2 DEF Walking
<1>5. UsageTypeOK'
  <2>1. walked' \in [Callers -> 0..Pages] /\ outages' \in 0..MaxOutages
    BY <1>1, <1>3 DEF UsageTypeOK
  <2>2. joined' \in [Callers -> Callers \cup {Nobody}]
    BY <1>1, <1>3 DEF UsageTypeOK
  <2>3. caller' \in [Callers -> {"idle", "asked", "answered"}] /\ forked' \in BOOLEAN
    BY <1>1, <1>3 DEF UsageTypeOK
  <2>4. inFlight' \in Callers \cup {Nobody}
    BY <1>1, <1>2
  <2> QED BY <1>1, <1>3, <2>1, <2>2, <2>3, <2>4 DEF UsageTypeOK
<1>6. forked' \/ Walking' \subseteq {inFlight'}
  <2> SUFFICES ASSUME ~forked' PROVE Walking' \subseteq {inFlight'}
    OBVIOUS
  <2>1. Walking = {c} /\ ~(Cardinality(W) > 1)
    BY <1>1 DEF WalkInv
  <2>2. Walking' = W
    BY <1>2, <1>4, <2>1
  <2>3. CASE W = {}
    BY <2>2, <2>3
  <2>4. CASE W # {}
    BY <1>1, <1>2, <2>1, <2>2, <2>4
  <2> QED BY <2>3, <2>4
<1>7. forked' \/ Cardinality(Walking') <= 1
  <2>1. SUFFICES ASSUME Walking' \subseteq {inFlight'} PROVE Cardinality(Walking') <= 1
    BY <1>6
  <2>2. IsFiniteSet({inFlight'}) /\ Cardinality({inFlight'}) = 1
    BY FS_Singleton
  <2>3. Walking' \in SUBSET {inFlight'}
    BY <2>1
  <2> QED BY <2>2, <2>3, FS_Subset
<1>8. \A d \in Callers : caller'[d] = "asked" => joined'[d] \in Walking'
  <2> SUFFICES ASSUME NEW d \in Callers, caller'[d] = "asked" PROVE joined'[d] \in Walking'
    OBVIOUS
  <2>1. d # c /\ caller[d] = "asked"
    BY <1>1
  <2>2. CASE d \in W
    BY <1>1, <1>4, <2>2
  <2>3. CASE d \notin W
    BY <1>1, <1>2, <1>4, <2>1, <2>3 DEF WalkInv, WalksAreShared
  <2> QED BY <2>2, <2>3
<1>9. \A d \in Callers : joined'[d] # Nobody => caller'[d] = "asked"
  <2> SUFFICES ASSUME NEW d \in Callers, joined'[d] # Nobody PROVE caller'[d] = "asked"
    OBVIOUS
  <2>1. d # c
    BY <1>1, <1>2
  <2>2. joined[d] # Nobody
    BY <1>1, <1>2, <2>1
  <2> QED BY <1>1, <2>1, <2>2 DEF WalkInv
<1>10. inFlight' # Nobody => inFlight' \in Walking'
  BY <1>1, <1>4
<1> QED BY <1>5, <1>6, <1>7, <1>8, <1>9, <1>10 DEF WalkInv, WalksAreShared

LEMMA WalkNext ==
    ASSUME WalkInv, [Next]_vars
    PROVE  WalkInv'
<1>1. CASE Dashboard
  BY <1>1, AskKeeps, QuietKeeps, EndWalkKeeps, WalkFailsKeeps DEF Dashboard, UsageNext
<1>2. CASE Live \/ Copy \/ Dump \/ Decay \/ Migrate \/ Recover \/ UNCHANGED vars
  <2>1. UNCHANGED uvars
    BY <1>2 DEF Live, Copy, Dump, Decay, Migrate, Recover, vars
  <2> QED BY <2>1, QuietKeeps
<1> QED BY <1>1, <1>2 DEF Next

-----------------------------------------------------------------------------
LEMMA UpkeepHolds == Spec => [](DriftInv /\ UpkeepInv)
<1>1. Init => DriftInv /\ UpkeepInv
  BY DriftInit, CopyInit, RecordsInit, WalkInit DEF UpkeepInv
<1>2. DriftInv /\ UpkeepInv /\ [Next]_vars => (DriftInv /\ UpkeepInv)'
  BY DriftNext, CopyNextKeeps, RecordsNext, FilesNext, WalkNext DEF UpkeepInv
<1> QED BY <1>1, <1>2, PTL DEF Spec

(* Every record of the scripts and of the dashboard keeps its shape, and the
   counts of a listing, a walk and a schedule stay within their caps. *)
THEOREM ScriptsAreWellTyped == Spec => []StateOK
<1>1. DriftInv /\ UpkeepInv => StateOK
  <2> SUFFICES ASSUME DriftInv, UpkeepInv PROVE StateOK
    OBVIOUS
  <2>1. MigrationsTypeOK
    BY DEF MigrationsTypeOK, DriftInv, RunTypeOK, UpkeepInv, FilesInv
  <2>2. BackupsTypeOK
    <3>1. dump.base \in Base /\ dump.pc \in {"idle", "dumped", "written", "done", "aborted"}
      BY DEF DriftInv, DumpAnswers, DumpType
    <3>2. /\ copy.pc \in {"idle", "listing", "copying", "written", "done", "aborted"}
          /\ copy.page \in 0..MaxPages
      BY DEF UpkeepInv, CopyInv, CopyShape, CopyType
    <3> QED BY <3>1, <3>2 DEF BackupsTypeOK, UpkeepInv, CopyInv, CopyShape, RecordsInv
  <2>3. UsageTypeOK
    BY DEF UpkeepInv, WalkInv
  <2> QED BY <2>1, <2>2, <2>3 DEF StateOK
<1> QED BY <1>1, UpkeepHolds, PTL

(* Of a dump and a copy that verify, the copy as complete, every image that the
   dump shows comes back but those the property names, whatever the bucket's
   size, the page and its cap; and a success on the dashboard is on disk. *)
THEOREM BackupsKeepTheirWord == Spec => []BackupsAreHonest
<1>1. DriftInv /\ UpkeepInv => BackupsAreHonest
  <2> SUFFICES ASSUME UpkeepInv PROVE BackupsAreHonest
    OBVIOUS
  <2>1. GalleriesComeBack
    <3> SUFFICES ASSUME CopyIsIntact, Complete, ~copy.slid, NEW o \in dump.rows,
                        o \notin copy.got \ copy.rotten, o \in copy.began
                 PROVE  life[o] = "gone"
      BY DEF GalleriesComeBack
    <3>1. /\ copy.pc \in {"written", "done"} /\ copy.rotten = {} /\ ~copy.failed
          /\ ~copy.truncated
      BY DEF CopyIsIntact, Complete
    <3>2. copy.found = copy.got
      BY <3>1 DEF UpkeepInv, CopyInv, CopyShape, Listed
    <3>3. o \in copy.found \/ life[o] = "gone"
      BY <3>1 DEF UpkeepInv, CopyInv, FoundAll, Listed
    <3> QED BY <3>1, <3>2, <3>3
  <2>2. SuccessIsOnDisk
    BY DEF UpkeepInv, RecordsInv
  <2> QED BY <2>1, <2>2 DEF BackupsAreHonest
<1> QED BY <1>1, UpkeepHolds, PTL

(* Callers of the storage figure share one walk unless a failure has started
   several, and whoever waits has a walk to wait for: any number of callers. *)
THEOREM WalksShared == Spec => []WalksAreShared
<1>1. DriftInv /\ UpkeepInv => WalksAreShared
  BY DEF UpkeepInv, WalkInv
<1> QED BY <1>1, UpkeepHolds, PTL
=============================================================================
