----------------------------- MODULE AbuseProofs -----------------------------
(***************************************************************************)
(* Theorems about RiskScore and Abuse.                                     *)
(***************************************************************************)
EXTENDS Abuse, FiniteSetTheorems, TLAPS

(* Neither spending more than was earned and never having spent nor both
   together are worth more than 20 points: the factors exclude each other. *)
LEMMA CreditFactorsExclude ==
    ASSUME NEW s \in Signals
    PROVE  /\ RatioPoints(s) \in 0..20
           /\ NeverGeneratedPoints(s) \in 0..10
           /\ RatioPoints(s) = 0 \/ NeverGeneratedPoints(s) = 0
<1>1. s.generations \in Nat /\ s.rewards \in Nat
  BY DEF Signals
<1>2. RatioPoints(s) \in 0..20
  BY <1>1, SMT DEF RatioPoints, AtMost
<1>3. NeverGeneratedPoints(s) \in 0..10
  BY <1>1, SMT DEF NeverGeneratedPoints
<1>4. RatioPoints(s) = 0 \/ NeverGeneratedPoints(s) = 0
  BY <1>1, SMT DEF RatioPoints, NeverGeneratedPoints
<1>5. QED
  BY <1>2, <1>3, <1>4

LEMMA RampWithinWeight == \A n \in 1..24 : Ramp[n] \in 0..30
  BY SMT DEF Ramp

LEMMA SiblingsWithinWeight ==
    ASSUME NEW s \in Signals
    PROVE  SiblingPoints(s) \in 0..30
<1>1. s.originSiblings \in Nat
  BY DEF Signals
<1>2. CASE s.originSiblings = 0
  BY <1>2, SMT DEF SiblingPoints
<1>3. CASE s.originSiblings # 0
  <2>1. AtMost(s.originSiblings, 24) \in 1..24
    BY <1>1, <1>3, SMT DEF AtMost
  <2>2. SiblingPoints(s) = Ramp[AtMost(s.originSiblings, 24)]
    BY <1>3 DEF SiblingPoints
  <2>3. QED
    BY <2>1, <2>2, RampWithinWeight
<1>4. QED
  BY <1>2, <1>3

LEMMA AgeWithinWeight ==
    ASSUME NEW s \in Signals
    PROVE  AgePoints(s) \in 0..15
<1>1. s.ageDays \in Nat
  BY DEF Signals
<1>2. QED
  BY <1>1, SMT DEF AgePoints

(* Every factor has its ceiling and two exclude each other, so no account
   scores more than 90 and the clamp to 0..100 never changes a score: what
   factors lists always adds up to the score that is stored. *)
THEOREM ScoreIsItsFactors ==
    ASSUME NEW s \in Signals
    PROVE  Total(s) \in 0..90 /\ ScoreAccount(s) = Total(s)
<1>1. /\ SiblingPoints(s) \in 0..30 /\ AgePoints(s) \in 0..15
  BY SiblingsWithinWeight, AgeWithinWeight
<1>2. UnverifiedPoints(s) \in 0..15 /\ StatusPoints(s) \in 0..10
  BY SMT DEF UnverifiedPoints, StatusPoints
<1>3. /\ RatioPoints(s) \in 0..20 /\ NeverGeneratedPoints(s) \in 0..10
      /\ RatioPoints(s) = 0 \/ NeverGeneratedPoints(s) = 0
  BY CreditFactorsExclude
<1>4. Total(s) \in 0..90
  BY <1>1, <1>2, <1>3, SMT DEF Total
<1>5. QED
  BY <1>4, SMT DEF ScoreAccount, AtMost

-----------------------------------------------------------------------------
(* What a sweep is suspending an account for is on file; it marks only what it
   did; and a sweep that is over has let go of the gate. *)
SuspendsOnFile ==
    \A s \in Sweeps : At(s, "suspending") \/ At(s, "marking") =>
        /\ sweep[s].row.subject \in Users
        /\ \E f \in findings : Named(f, Detector(s), sweep[s].row.subject, sweep[s].now)

Deed(s) == [detector |-> Detector(s), subject |-> sweep[s].row.subject, window |-> sweep[s].now]
MarksItsDeeds == \A s \in Sweeps : At(s, "marking") => Deed(s) \in acted

IdleIsUngated == \A s \in Sweeps : At(s, "idle") => ~sweep[s].gated

AbuseInv == /\ TypeOK /\ IsFiniteSet(log) /\ GateHolds /\ IdleIsUngated
            /\ SuspendsOnFile /\ MarksItsDeeds /\ SuspensionsAreOnFile

-----------------------------------------------------------------------------
(* The detectors and their turns. *)
LEMMA TurnsAreTurns ==
    /\ Turns \subseteq 1..5 /\ Turns # {}
    /\ \A i \in Turns : Detectors[i] \in Watched /\ Detectors[i] \in DetectorNames
<1>1. DOMAIN Detectors = 1..5
    BY DEF Detectors
<1>2. \A d \in DetectorNames : \E i \in 1..5 : Detectors[i] = d
    <2>1. /\ Detectors[1] = "registration_velocity" /\ Detectors[2] = "generation_velocity"
          /\ Detectors[3] = "reward_farming_origin" /\ Detectors[4] = "admin_adjustment_volume"
          /\ Detectors[5] = "concurrent_session_origins"
        BY DEF Detectors
    <2>2. 1 \in 1..5 /\ 2 \in 1..5 /\ 3 \in 1..5 /\ 4 \in 1..5 /\ 5 \in 1..5
        OBVIOUS
    <2> QED BY <2>1, <2>2 DEF DetectorNames
<1> QED BY <1>1, <1>2, PolicyAssumption DEF Turns

LEMMA EarliestIsOne ==
    ASSUME NEW turns \in SUBSET Turns, turns # {}
    PROVE  Earliest(turns) \in turns
<1>1. turns \subseteq 1..5
    BY TurnsAreTurns
<1>2. ASSUME NEW n \in 1..5, n \in turns, \A m \in 1..5 : m < n => m \notin turns
      PROVE  \E i \in turns : \A j \in turns : i <= j
    <2>1. \A j \in turns : n <= j
        BY <1>1, <1>2
    <2> QED BY <1>2, <2>1
<1>3. \E n \in 1..5 : n \in turns /\ \A m \in 1..5 : m < n => m \notin turns
    <2> SUFFICES ASSUME \A n \in 1..5 : n \in turns => \E m \in 1..5 : m < n /\ m \in turns
                 PROVE  FALSE
        OBVIOUS
    <2>1. 1 \notin turns
        OBVIOUS
    <2>2. 2 \notin turns
        BY <2>1
    <2>3. 3 \notin turns
        BY <2>1, <2>2
    <2>4. 4 \notin turns
        BY <2>1, <2>2, <2>3
    <2>5. 5 \notin turns
        BY <2>1, <2>2, <2>3, <2>4
    <2>6. PICK x \in turns : TRUE
        OBVIOUS
    <2>7. x = 1 \/ x = 2 \/ x = 3 \/ x = 4 \/ x = 5
        BY <1>1
    <2> QED BY <2>1, <2>2, <2>3, <2>4, <2>5, <2>6, <2>7
<1>4. \E i \in turns : \A j \in turns : i <= j
    BY <1>2, <1>3
<1> QED BY <1>4 DEF Earliest

LEMMA DetectorIsOne ==
    ASSUME TypeOK, NEW s \in Sweeps
    PROVE  Detector(s) \in DetectorNames /\ sweep[s] \in Progress
BY TurnsAreTurns DEF TypeOK, Progress, Detector

LEMMA SubjectsAreSubjects ==
    ASSUME NEW d \in DetectorNames
    PROVE  /\ Subjects(d) \subseteq Users \cup Origins \cup {Everyone}
           /\ \A x \in Subjects(d) \cup Users : Implicated(d, x) \subseteq Users
BY DEF DetectorNames, Subjects, Implicated

LEMMA IdleIsProgress == Idle \in Progress /\ Idle.at = "idle" /\ ~Idle.gated /\ Idle.rows = {}
<1>1. Earliest(Turns) \in Turns
    BY EarliestIsOne, TurnsAreTurns
<1>2. NoRow \in Found
    BY DEF NoRow, Found
<1>3. 0 \in Ticks
    BY AbuseBoundsAssumption DEF Ticks
<1> QED BY <1>1, <1>2, <1>3 DEF Idle, Progress

-----------------------------------------------------------------------------
(* What a step makes of the sweeps. *)
SweepTypes ==
    /\ sweep \in [Sweeps -> Progress]
    /\ \A s \in Sweeps : \A row \in sweep[s].rows : row.subject \in Subjects(Detector(s))

LEMMA ProceedEffect ==
    ASSUME SweepTypes, NEW s \in Sweeps, NEW r \in Progress, Proceed(s, r),
           \A row \in r.rows : row.subject \in Subjects(Detectors[r.next])
    PROVE  /\ SweepTypes' /\ sweep'[s] = r
           /\ \A t \in Sweeps \ {s} : sweep'[t] = sweep[t]
<1>1. sweep' = [sweep EXCEPT ![s] = r]
    BY DEF Proceed
<1>2. /\ sweep' \in [Sweeps -> Progress]
      /\ \A t \in Sweeps : sweep'[t] = IF t = s THEN r ELSE sweep[t]
    BY <1>1 DEF SweepTypes
<1> QED BY <1>2 DEF SweepTypes, Detector

\* A sweep goes on, past its detector or with the rows that are left.
Onward(s) ==
    /\ SweepTypes'
    /\ \A t \in Sweeps \ {s} : sweep'[t] = sweep[t]
    /\ sweep'[s].at \in {"querying", "handling", "scoring", "upserting"}
    /\ sweep'[s].gated = sweep[s].gated

LEMMA NextDetectorEffect ==
    ASSUME SweepTypes, NEW s \in Sweeps, NEW touched \in SUBSET Users, NextDetector(s, touched)
    PROVE  Onward(s)
<1> DEFINE later == {i \in Turns : i > sweep[s].next}
           past == [sweep[s] EXCEPT !.rows = {}, !.row = NoRow, !.touched = touched]
<1>1. sweep[s] \in Progress /\ NoRow \in Found
    BY DEF SweepTypes, NoRow, Found
<1>2. past \in Progress /\ past.rows = {} /\ past.gated = sweep[s].gated
    BY <1>1 DEF Progress
<1>3. \/ later # {} /\ Proceed(s, [past EXCEPT !.at = "querying", !.next = Earliest(later)])
      \/ Proceed(s, [past EXCEPT !.at = "scoring"])
    BY DEF NextDetector
<1>4. later # {} => Earliest(later) \in Turns
    BY EarliestIsOne
<1> HIDE DEF past, later
<1>5. ASSUME NEW next \in Turns, Proceed(s, [past EXCEPT !.at = "querying", !.next = next])
      PROVE  Onward(s)
    <2> DEFINE r == [past EXCEPT !.at = "querying", !.next = next]
    <2>1. r \in Progress /\ r.rows = {} /\ r.at = "querying" /\ r.gated = sweep[s].gated
        BY <1>2 DEF Progress
    <2>2. Proceed(s, r)
        BY <1>5
    <2> HIDE DEF r
    <2> QED BY <2>1, <2>2, ProceedEffect DEF Onward
<1>6. ASSUME Proceed(s, [past EXCEPT !.at = "scoring"]) PROVE Onward(s)
    <2> DEFINE r == [past EXCEPT !.at = "scoring"]
    <2>1. r \in Progress /\ r.rows = {} /\ r.at = "scoring" /\ r.gated = sweep[s].gated
        BY <1>2 DEF Progress
    <2>2. Proceed(s, r)
        BY <1>6
    <2> HIDE DEF r
    <2> QED BY <2>1, <2>2, ProceedEffect DEF Onward
<1> QED BY <1>3, <1>4, <1>5, <1>6

LEMMA HandledEffect ==
    ASSUME SweepTypes, NEW s \in Sweeps, NEW row, Handled(s, row),
           Implicated(Detector(s), row.subject) \subseteq Users
    PROVE  Onward(s)
<1> DEFINE touched == sweep[s].touched \cup Implicated(Detector(s), row.subject)
           r == [sweep[s] EXCEPT !.at = "handling", !.rows = @ \ {row}, !.row = NoRow,
                                 !.touched = touched]
<1>1. sweep[s] \in Progress /\ NoRow \in Found
    BY DEF SweepTypes, NoRow, Found
<1>2. touched \in SUBSET Users
    BY <1>1 DEF Progress
<1>3. NextDetector(s, touched) \/ Proceed(s, r)
    BY DEF Handled
<1>4. ASSUME Proceed(s, r) PROVE Onward(s)
    <2> HIDE DEF touched
    <2>1. /\ r \in Progress /\ r.rows = sweep[s].rows \ {row} /\ r.at = "handling"
          /\ r.gated = sweep[s].gated /\ r.next = sweep[s].next
        BY <1>1, <1>2 DEF Progress
    <2> HIDE DEF r
    <2>2. \A x \in r.rows : x.subject \in Subjects(Detectors[r.next])
        BY <2>1 DEF SweepTypes, Detector
    <2> QED BY <1>4, <2>1, <2>2, ProceedEffect DEF Onward
<1> QED BY <1>2, <1>3, <1>4, NextDetectorEffect

\* The steps of a detector.
LEMMA QueryEffect ==
    ASSUME TypeOK, NEW s \in Sweeps, Query(s)
    PROVE  Onward(s)
<1>1. /\ SweepTypes /\ sweep[s] \in Progress /\ Detector(s) \in DetectorNames
    BY DetectorIsOne DEF TypeOK, SweepTypes
<1>2. PICK answer \in Answers(Detector(s), sweep[s].now) :
        IF answer = {} THEN NextDetector(s, sweep[s].touched)
        ELSE Proceed(s, [sweep[s] EXCEPT !.at = "handling",
                !.rows = {[subject |-> x,
                           severity |-> Severity(Detector(s), Count(Detector(s), x, sweep[s].now))]
                          : x \in answer}])
    BY DEF Query
<1>3. answer \subseteq Subjects(Detector(s))
    BY DEF Answers
<1> DEFINE sev(x) == Severity(Detector(s), Count(Detector(s), x, sweep[s].now))
           found == {[subject |-> x, severity |-> sev(x)] : x \in answer}
           r == [sweep[s] EXCEPT !.at = "handling", !.rows = found]
<1>4. CASE NextDetector(s, sweep[s].touched)
    <2>1. sweep[s].touched \in SUBSET Users
        BY <1>1 DEF Progress
    <2> QED BY <1>1, <1>4, <2>1, NextDetectorEffect
<1>5. CASE Proceed(s, r)
    <2>1. \A x : sev(x) \in {"medium", "high"}
        BY DEF Severity
    <2> HIDE DEF sev
    <2>2. \A row \in found : row \in Found /\ row.subject \in Subjects(Detector(s))
        BY <1>1, <1>3, <2>1, SubjectsAreSubjects DEF Found
    <2>3. found \in SUBSET Found
        BY <2>2
    <2> HIDE DEF found
    <2>4. /\ r \in Progress /\ r.rows = found /\ r.at = "handling"
          /\ r.gated = sweep[s].gated /\ r.next = sweep[s].next
        BY <1>1, <2>3 DEF Progress
    <2> HIDE DEF r
    <2>5. \A row \in r.rows : row.subject \in Subjects(Detectors[r.next])
        BY <2>2, <2>4 DEF Detector
    <2> QED BY <1>1, <1>5, <2>4, <2>5, ProceedEffect DEF Onward
<1> QED BY <1>2, <1>4, <1>5

\* A finding is recorded; the sweep goes on with it or past it.
Suspending(s, row) ==
    /\ SweepTypes'
    /\ \A t \in Sweeps \ {s} : sweep'[t] = sweep[t]
    /\ sweep'[s].at = "suspending" /\ sweep'[s].gated = sweep[s].gated
    /\ sweep'[s].next = sweep[s].next /\ sweep'[s].now = sweep[s].now /\ sweep'[s].row = row
    /\ row.subject \in Users

LEMMA RecordEffect ==
    ASSUME TypeOK, NEW s \in Sweeps, Record(s)
    PROVE  \E row \in Found :
              /\ findings' = Recorded(Detector(s), row, sweep[s].now)
              /\ Onward(s) \/ Suspending(s, row)
<1>1. /\ SweepTypes /\ sweep[s] \in Progress /\ Detector(s) \in DetectorNames
    BY DetectorIsOne DEF TypeOK, SweepTypes
<1>2. PICK row \in sweep[s].rows :
        /\ findings' = Recorded(Detector(s), row, sweep[s].now)
        /\ IF ShouldAutoSuspend(Detector(s), row)
           THEN Proceed(s, [sweep[s] EXCEPT !.at = "suspending", !.row = row])
           ELSE Handled(s, row)
    BY DEF Record
<1>3. row \in Found /\ row.subject \in Subjects(Detector(s))
    BY <1>1 DEF Progress, SweepTypes
<1>4. CASE Handled(s, row)
    <2>1. Implicated(Detector(s), row.subject) \subseteq Users
        BY <1>1, <1>3, SubjectsAreSubjects
    <2> QED BY <1>1, <1>2, <1>3, <1>4, <2>1, HandledEffect
<1>5. CASE /\ ShouldAutoSuspend(Detector(s), row)
           /\ Proceed(s, [sweep[s] EXCEPT !.at = "suspending", !.row = row])
    <2> DEFINE r == [sweep[s] EXCEPT !.at = "suspending", !.row = row]
    <2>1. /\ r \in Progress /\ r.rows = sweep[s].rows /\ r.at = "suspending" /\ r.row = row
          /\ r.gated = sweep[s].gated /\ r.next = sweep[s].next /\ r.now = sweep[s].now
        BY <1>1, <1>3 DEF Progress
    <2>2. Proceed(s, r) /\ row.subject \in Users
        BY <1>5 DEF ShouldAutoSuspend
    <2> HIDE DEF r
    <2>3. \A x \in r.rows : x.subject \in Subjects(Detectors[r.next])
        BY <1>1, <2>1 DEF SweepTypes, Detector
    <2>4. Suspending(s, row)
        BY <1>1, <2>1, <2>2, <2>3, ProceedEffect DEF Suspending
    <2> QED BY <1>2, <1>3, <2>4
<1> QED BY <1>2, <1>4, <1>5

LEMMA AutoSuspendEffect ==
    ASSUME TypeOK, NEW s \in Sweeps, AutoSuspend(s)
    PROVE  /\ SweepTypes'
           /\ \A t \in Sweeps \ {s} : sweep'[t] = sweep[t]
           /\ sweep'[s].at = "marking" /\ sweep'[s].gated = sweep[s].gated
           /\ sweep'[s].row = sweep[s].row /\ sweep'[s].next = sweep[s].next
           /\ sweep'[s].now = sweep[s].now
<1>1. /\ SweepTypes /\ sweep[s] \in Progress
    BY DEF TypeOK, SweepTypes
<1> DEFINE r == [sweep[s] EXCEPT !.at = "marking"]
<1>2. /\ r \in Progress /\ r.rows = sweep[s].rows /\ r.at = "marking" /\ r.row = sweep[s].row
      /\ r.gated = sweep[s].gated /\ r.next = sweep[s].next /\ r.now = sweep[s].now
    BY <1>1 DEF Progress
<1>3. Proceed(s, r)
    BY DEF AutoSuspend
<1> HIDE DEF r
<1>4. \A x \in r.rows : x.subject \in Subjects(Detectors[r.next])
    BY <1>1, <1>2 DEF SweepTypes, Detector
<1> QED BY <1>1, <1>2, <1>3, <1>4, ProceedEffect

\* A suspension that was refused, failed or has been marked ends there.
LEMMA SuspensionEnds ==
    ASSUME TypeOK, SuspendsOnFile, NEW s \in Sweeps, At(s, "suspending") \/ At(s, "marking"),
           Handled(s, sweep[s].row)
    PROVE  Onward(s)
<1>1. /\ SweepTypes /\ sweep[s] \in Progress /\ Detector(s) \in DetectorNames
    BY DetectorIsOne DEF TypeOK, SweepTypes
<1>2. Implicated(Detector(s), sweep[s].row.subject) \subseteq Users
    BY <1>1, SubjectsAreSubjects DEF SuspendsOnFile
<1> QED BY <1>1, <1>2, HandledEffect

LEMMA DetectorFailsEffect ==
    ASSUME TypeOK, NEW s \in Sweeps, DetectorFails(s)
    PROVE  Onward(s)
<1>1. SweepTypes /\ sweep[s].touched \in SUBSET Users
    BY DEF TypeOK, SweepTypes, Progress
<1> QED BY <1>1, NextDetectorEffect DEF DetectorFails, Aborted

-----------------------------------------------------------------------------
(* What the score is made of. *)
LEMMA SignalsAreSignals ==
    ASSUME TypeOK, IsFiniteSet(log), NEW u \in Users, NEW g \in SignalsOf(u)
    PROVE  ScoreAccount(g) \in 0..90
<1>1. Cardinality({v \in Users : OriginOf[v] = OriginOf[u]}) \in Nat
    <2>1. {v \in Users : OriginOf[v] = OriginOf[u]} \in SUBSET Users
        OBVIOUS
    <2> QED BY <2>1, OriginOfAssumption, FS_Subset, FS_CardinalityType
<1>2. \A d, x : Cardinality(EventsOf(d, x)) \in Nat
    <2>1. \A d, x : EventsOf(d, x) \in SUBSET log
        BY DEF EventsOf
    <2> QED BY <2>1, FS_Subset, FS_CardinalityType
<1>3. g \in Signals
    <2>1. PICK siblings \in Nat, generations \in Nat, rewards \in Nat :
            g \in [originSiblings : {siblings}, emailVerified : {TRUE}, ageDays : {0},
                  generations : {generations}, rewards : {rewards},
                  active : {user[u].status = "active"}]
        BY <1>1, <1>2, ZenonT(40) DEF SignalsOf
    <2>2. PICK active \in BOOLEAN : active = (user[u].status = "active")
        OBVIOUS
    <2>3. g \in [originSiblings : {siblings}, emailVerified : {TRUE}, ageDays : {0},
                generations : {generations}, rewards : {rewards}, active : {active}]
        BY <2>1, <2>2
    <2>4. /\ {siblings} \subseteq Nat /\ {generations} \subseteq Nat /\ {rewards} \subseteq Nat
          /\ {0} \subseteq Nat /\ {TRUE} \subseteq BOOLEAN /\ {active} \subseteq BOOLEAN
        OBVIOUS
    <2> QED BY <2>3, <2>4 DEF Signals
<1> QED BY <1>3, ScoreIsItsFactors

LEMMA ScoringEffect ==
    ASSUME TypeOK, IsFiniteSet(log), NEW s \in Sweeps,
           Score(s) \/ UpsertRiskScore(s) \/ ScoringFails(s)
    PROVE  /\ \/ Onward(s) /\ UNCHANGED gate
              \/ Finish(s)
           /\ risk' \in [Users -> -1..90]
<1>1. /\ SweepTypes /\ sweep[s] \in Progress
    BY DEF TypeOK, SweepTypes
<1>2. CASE Score(s)
    <2>1. risk' \in [Users -> -1..90]
        BY <1>2 DEF Score, rows, TypeOK
    <2>2. CASE sweep[s].touched = {}
        BY <1>2, <2>1, <2>2 DEF Score
    <2>3. CASE sweep[s].touched # {}
        <3>1. PICK T \in SUBSET sweep[s].touched :
                Proceed(s, [sweep[s] EXCEPT !.at = "upserting", !.scores =
                    UNION {{[user |-> u, score |-> ScoreAccount(g)] : g \in SignalsOf(u)} : u \in T}])
            BY <1>2, <2>3 DEF Score
        <3> DEFINE scores == UNION {{[user |-> u, score |-> ScoreAccount(g)] : g \in SignalsOf(u)}
                                    : u \in T}
                   r == [sweep[s] EXCEPT !.at = "upserting", !.scores = scores]
        <3>2. T \subseteq Users
            BY <1>1 DEF Progress
        <3>3. \A u \in T : \A g \in SignalsOf(u) : ScoreAccount(g) \in 0..90
            BY <3>2, SignalsAreSignals
        <3>4. scores \in SUBSET [user : Users, score : 0..90]
            BY <3>2, <3>3
        <3> HIDE DEF scores
        <3>5. /\ r \in Progress /\ r.rows = sweep[s].rows /\ r.at = "upserting"
              /\ r.gated = sweep[s].gated /\ r.next = sweep[s].next
            BY <1>1, <3>4 DEF Progress
        <3>6. Proceed(s, r)
            BY <3>1 DEF scores
        <3> HIDE DEF r
        <3>7. \A x \in r.rows : x.subject \in Subjects(Detectors[r.next])
            BY <1>1, <3>5 DEF SweepTypes, Detector
        <3>8. Onward(s)
            BY <1>1, <3>5, <3>6, <3>7, ProceedEffect DEF Onward
        <3> QED BY <1>2, <2>1, <2>3, <3>8 DEF Score
    <2> QED BY <2>2, <2>3
<1>3. CASE UpsertRiskScore(s)
    <2>1. PICK e \in sweep[s].scores :
            /\ risk' = [risk EXCEPT ![e.user] = e.score]
            /\ \/ Finish(s)
               \/ Proceed(s, [sweep[s] EXCEPT !.scores = @ \ {e}]) /\ UNCHANGED gate
        BY <1>3 DEF UpsertRiskScore
    <2>2. e.user \in Users /\ e.score \in 0..90
        BY <1>1 DEF Progress
    <2>3. risk' \in [Users -> -1..90]
        BY <2>1, <2>2 DEF TypeOK
    <2> DEFINE r == [sweep[s] EXCEPT !.scores = @ \ {e}]
    <2>4. /\ r \in Progress /\ r.rows = sweep[s].rows /\ r.at = "upserting"
          /\ r.gated = sweep[s].gated /\ r.next = sweep[s].next
        BY <1>1, <1>3 DEF Progress, UpsertRiskScore, At
    <2>5. Finish(s) \/ (Proceed(s, r) /\ UNCHANGED gate)
        BY <2>1
    <2> HIDE DEF r
    <2>6. \A x \in r.rows : x.subject \in Subjects(Detectors[r.next])
        BY <1>1, <2>4 DEF SweepTypes, Detector
    <2>7. Proceed(s, r) => Onward(s)
        BY <1>1, <2>4, <2>6, ProceedEffect DEF Onward
    <2> QED BY <2>3, <2>5, <2>7
<1>4. CASE ScoringFails(s)
    BY <1>4 DEF ScoringFails, rows, TypeOK
<1> QED BY <1>2, <1>3, <1>4

LEMMA FinishEffect ==
    ASSUME TypeOK, NEW s \in Sweeps, Finish(s)
    PROVE  /\ SweepTypes' /\ sweep'[s] = Idle
           /\ \A t \in Sweeps \ {s} : sweep'[t] = sweep[t]
           /\ gate' = IF sweep[s].gated THEN [gate EXCEPT !.sweeping = FALSE] ELSE gate
<1>1. SweepTypes /\ Proceed(s, Idle)
    BY DEF TypeOK, SweepTypes, Finish
<1>2. \A x \in Idle.rows : x.subject \in Subjects(Detectors[Idle.next])
    BY IdleIsProgress
<1> QED BY <1>1, <1>2, IdleIsProgress, ProceedEffect DEF Finish

LEMMA StartEffect ==
    ASSUME TypeOK, NEW s \in Sweeps, NEW gated \in BOOLEAN, Start(s, gated)
    PROVE  /\ SweepTypes' /\ At(s, "idle")
           /\ sweep'[s].at = "querying" /\ sweep'[s].gated = gated
           /\ \A t \in Sweeps \ {s} : sweep'[t] = sweep[t]
<1> DEFINE r == [Idle EXCEPT !.at = "querying", !.gated = gated, !.now = clock]
<1>1. SweepTypes /\ Proceed(s, r) /\ At(s, "idle") /\ clock \in Ticks
    BY DEF TypeOK, SweepTypes, Start
<1>2. r \in Progress /\ r.rows = {} /\ r.at = "querying" /\ r.gated = gated
    BY <1>1, IdleIsProgress DEF Progress
<1> HIDE DEF r
<1> QED BY <1>1, <1>2, ProceedEffect

-----------------------------------------------------------------------------
(* What a step makes of the findings. *)
SameFinding(f, g) == f.detector = g.detector /\ f.subject = g.subject /\ f.window = g.window

\* No finding is lost, and none is taken back.
FindingsStay ==
    /\ findings' \subseteq Finding
    /\ \A f \in findings : \E g \in findings' :
          SameFinding(f, g) /\ (f.action = "suspended" => g.action = "suspended")

\* None says "suspended" that did not say so before.
NoneMarked ==
    \A g \in findings' : g.action = "suspended" =>
        \E f \in findings : SameFinding(f, g) /\ f.action = "suspended"

LEMMA RecordedEffect ==
    ASSUME findings \subseteq Finding, NEW d \in DetectorNames, NEW row \in Found,
           NEW now \in Ticks, findings' = Recorded(d, row, now)
    PROVE  /\ FindingsStay /\ NoneMarked
           /\ \E g \in findings' : Named(g, d, row.subject, now)
<1> DEFINE old == {f \in findings : Named(f, d, row.subject, now)}
           action == IF \E f \in old : f.action = "suspended" THEN "suspended" ELSE "flagged"
           reviewed == \E f \in old : f.reviewed
           new == [detector |-> d, subject |-> row.subject, window |-> now,
                   severity |-> row.severity, action |-> action, reviewed |-> reviewed]
<1>1. findings' = (findings \ old) \cup {new}
    BY DEF Recorded
<1>2. action \in {"flagged", "suspended"} /\ reviewed \in BOOLEAN
    OBVIOUS
<1>3. /\ row.subject \in Users \cup Origins \cup {Everyone}
      /\ row.severity \in {"medium", "high"}
    BY DEF Found
<1>4. action = "suspended" => \E f \in old : f.action = "suspended"
    OBVIOUS
<1>5. \A f \in old : f.action = "suspended" => action = "suspended"
    OBVIOUS
<1> HIDE DEF action, reviewed
<1>6. /\ new \in Finding /\ new.detector = d /\ new.subject = row.subject /\ new.window = now
      /\ new.action = action
    BY <1>2, <1>3 DEF Finding
<1> HIDE DEF new
<1>7. FindingsStay
    <2>1. ASSUME NEW f \in findings
          PROVE  \E g \in findings' :
                    SameFinding(f, g) /\ (f.action = "suspended" => g.action = "suspended")
        <3>1. CASE f \in old
            <4>1. SameFinding(f, new)
                BY <1>6, <3>1 DEF SameFinding, Named
            <4> QED BY <1>1, <1>5, <1>6, <3>1, <4>1
        <3>2. CASE f \notin old
            BY <1>1, <3>2 DEF SameFinding
        <3> QED BY <3>1, <3>2
    <2> QED BY <1>1, <1>6, <2>1 DEF FindingsStay
<1>8. NoneMarked
    <2> SUFFICES ASSUME NEW g \in findings', g.action = "suspended"
                 PROVE  \E f \in findings : SameFinding(f, g) /\ f.action = "suspended"
        BY DEF NoneMarked
    <2>1. CASE g = new
        BY <1>4, <1>6, <2>1 DEF SameFinding, Named
    <2>2. CASE g \in findings
        BY <2>2 DEF SameFinding
    <2> QED BY <1>1, <2>1, <2>2
<1>9. \E g \in findings' : Named(g, d, row.subject, now)
    BY <1>1, <1>6 DEF Named
<1> QED BY <1>7, <1>8, <1>9

LEMMA MarkEffect ==
    ASSUME TypeOK, NEW s \in Sweeps, Mark(s)
    PROVE  /\ findings' \subseteq Finding
           /\ \A f \in findings : \E g \in findings' :
                /\ SameFinding(f, g) /\ (f.action = "suspended" => g.action = "suspended")
                /\ Named(f, Detector(s), sweep[s].row.subject, sweep[s].now) =>
                        g.action = "suspended"
           /\ \A g \in findings' : g.action = "suspended" =>
                \/ \E f \in findings : SameFinding(f, g) /\ f.action = "suspended"
                \/ Named(g, Detector(s), sweep[s].row.subject, sweep[s].now)
<1> DEFINE named(f) == Named(f, Detector(s), sweep[s].row.subject, sweep[s].now)
           marked(f) == [f EXCEPT !.action = IF named(f) THEN "suspended" ELSE @]
<1>1. findings' = {marked(f) : f \in findings}
    BY DEF Mark
<1>2. ASSUME NEW f \in findings
      PROVE  /\ marked(f) \in Finding /\ SameFinding(f, marked(f))
             /\ marked(f).action = IF named(f) THEN "suspended" ELSE f.action
    <2>1. f \in Finding
        BY DEF TypeOK
    <2> HIDE DEF named
    <2> QED BY <2>1 DEF Finding, SameFinding
<1>3. \A f, g : SameFinding(f, g) => (named(f) <=> named(g))
    BY DEF SameFinding, Named
<1> HIDE DEF marked
<1>4. \A g \in findings' : \E f \in findings : g = marked(f)
    BY <1>1
<1>5. \A f \in findings : marked(f) \in findings'
    BY <1>1
<1>6. findings' \subseteq Finding
    BY <1>2, <1>4
<1>7. \A f \in findings : \E g \in findings' :
        /\ SameFinding(f, g) /\ (f.action = "suspended" => g.action = "suspended")
        /\ named(f) => g.action = "suspended"
    BY <1>2, <1>5
<1>8. \A g \in findings' : g.action = "suspended" =>
        \/ \E f \in findings : SameFinding(f, g) /\ f.action = "suspended"
        \/ named(g)
    BY <1>2, <1>3, <1>4
<1> QED BY <1>6, <1>7, <1>8

LEMMA ReviewEffect ==
    ASSUME TypeOK, NEW f \in findings, ReviewFinding(f)
    PROVE  FindingsStay /\ NoneMarked
<1> DEFINE new == [f EXCEPT !.reviewed = TRUE]
<1>1. findings' = (findings \ {f}) \cup {new} /\ f \in Finding /\ findings \subseteq Finding
    BY DEF ReviewFinding, TypeOK
<1>2. new \in Finding /\ SameFinding(f, new) /\ new.action = f.action
    BY <1>1 DEF Finding, SameFinding
<1> HIDE DEF new
<1>3. \A g \in findings : SameFinding(g, g)
    BY DEF SameFinding
<1>4. FindingsStay
    BY <1>1, <1>2, <1>3 DEF FindingsStay
<1>5. NoneMarked
    BY <1>1, <1>2, <1>3 DEF NoneMarked
<1> QED BY <1>4, <1>5

LEMMA FindingsUntouched ==
    ASSUME TypeOK, UNCHANGED findings
    PROVE  FindingsStay /\ NoneMarked
BY DEF TypeOK, FindingsStay, NoneMarked, SameFinding

\* What the transaction of autoSuspend writes.
LEMMA SuspendRowEffect ==
    ASSUME TypeOK, IsFiniteSet(log), NEW s \in Sweeps, SuspendRow(s),
           sweep[s].row.subject \in Users
    PROVE  /\ user' \in [Users -> User] /\ log' \subseteq Events /\ IsFiniteSet(log')
           /\ acted' = acted \cup {Deed(s)}
           /\ acted' \subseteq [detector : DetectorNames, subject : Users, window : Ticks]
<1>1. Detector(s) \in DetectorNames /\ sweep[s].now \in Ticks
    BY DetectorIsOne DEF Progress
<1>2. PICK u \in Users : u = sweep[s].row.subject
    OBVIOUS
<1>3. Suspended(u, Detector(s)) \in User
    <2>1. user[u].token_version \in Nat
        BY DEF TypeOK, User
    <2> QED BY <1>1, <2>1 DEF Suspended, User
<1>4. user' = [user EXCEPT ![u] = Suspended(u, Detector(s))]
    BY <1>2 DEF SuspendRow
<1>5. user' \in [Users -> User]
    BY <1>3, <1>4 DEF TypeOK
<1>6. log' \in SUBSET log
    BY DEF SuspendRow, RevokeAll
<1>7. IsFiniteSet(log') /\ log' \subseteq Events
    BY <1>6, FS_Subset DEF TypeOK
<1>8. acted' = acted \cup {Deed(s)}
    BY DEF SuspendRow, Deed
<1>9. Deed(s) \in [detector : DetectorNames, subject : Users, window : Ticks]
    BY <1>1 DEF Deed
<1> QED BY <1>5, <1>7, <1>8, <1>9 DEF TypeOK

\* What an administrator's decision writes.
LEMMA SetUserStatusEffect ==
    ASSUME TypeOK, IsFiniteSet(log), NEW u \in Users, NEW status \in Verdicts,
           SetUserStatus(u, status)
    PROVE  user' \in [Users -> User] /\ log' \subseteq Events /\ IsFiniteSet(log')
<1> DEFINE new == [status |-> status, token_version |-> user[u].token_version + 1,
                   reason |-> IF status = "active" THEN "none" ELSE "admin"]
<1>1. user' = [user EXCEPT ![u] = new]
    BY DEF SetUserStatus
<1>2. new \in User
    <2>1. user[u].token_version \in Nat
        BY DEF TypeOK, User
    <2> QED BY <2>1, PolicyAssumption DEF User
<1> HIDE DEF new
<1>3. user' \in [Users -> User]
    BY <1>1, <1>2 DEF TypeOK
<1>4. log' \in SUBSET log
    BY DEF SetUserStatus, RevokeAll
<1> QED BY <1>3, <1>4, FS_Subset DEF TypeOK

LEMMA EventEffect ==
    ASSUME TypeOK, IsFiniteSet(log), NEW d \in Watched, NEW x \in Subjects(d), Event(d, x)
    PROVE  log' \subseteq Events /\ IsFiniteSet(log')
<1> DEFINE same == {e \in EventsOf(d, x) : e.tick = clock}
           new == [detector |-> d, subject |-> x, tick |-> clock, number |-> Cardinality(same) + 1]
<1>1. log' = log \cup {new} /\ Cardinality(log) < MaxEvents
    BY DEF Event
<1>2. same \in SUBSET log
    BY DEF EventsOf
<1>3. Cardinality(same) \in Nat /\ Cardinality(log) \in Nat /\ Cardinality(same) <= Cardinality(log)
    BY <1>2, FS_Subset, FS_CardinalityType
<1> HIDE DEF same
<1>4. Cardinality(same) + 1 \in 1..MaxEvents
    BY <1>1, <1>3, AbuseBoundsAssumption
<1>5. d \in DetectorNames /\ x \in Users \cup Origins \cup {Everyone} /\ clock \in Ticks
    BY PolicyAssumption, SubjectsAreSubjects DEF TypeOK
<1>6. new \in Events
    BY <1>4, <1>5 DEF Events
<1> HIDE DEF new
<1>7. IsFiniteSet(log \cup {new})
    BY FS_AddElement
<1> QED BY <1>1, <1>6, <1>7 DEF TypeOK

-----------------------------------------------------------------------------
(* The invariant, part by part. *)
Working(s) ==
    \/ Query(s) \/ Record(s) \/ AutoSuspend(s) \/ AutoSuspendRefused(s) \/ AutoSuspendFails(s)
    \/ SetAction(s) \/ DetectorFails(s)
Scores(s) == Score(s) \/ UpsertRiskScore(s) \/ ScoringFails(s)

\* A step of a detector: it goes on, suspends, or is to mark.
LEMMA WorkingEffect ==
    ASSUME TypeOK, SuspendsOnFile, NEW s \in Sweeps, Working(s)
    PROVE  /\ SweepTypes' /\ ~At(s, "idle")
           /\ \A t \in Sweeps \ {s} : sweep'[t] = sweep[t]
           /\ sweep'[s].at # "idle" /\ sweep'[s].gated = sweep[s].gated
           /\ \/ Onward(s)
              \/ Record(s) /\ sweep'[s].at = "suspending"
              \/ AutoSuspend(s) /\ sweep'[s].at = "marking"
<1>1. ~At(s, "idle")
    BY DEF Working, Query, Record, AutoSuspend, AutoSuspendRefused, AutoSuspendFails, SetAction,
           DetectorFails, At
<1>2. CASE Query(s)
    BY <1>1, <1>2, QueryEffect DEF Onward
<1>3. CASE Record(s)
    BY <1>1, <1>3, RecordEffect DEF Onward, Suspending
<1>4. CASE AutoSuspend(s)
    BY <1>1, <1>4, AutoSuspendEffect
<1>5. CASE AutoSuspendRefused(s) \/ AutoSuspendFails(s) \/ SetAction(s)
    <2>1. (At(s, "suspending") \/ At(s, "marking")) /\ Handled(s, sweep[s].row)
        BY <1>5 DEF AutoSuspendRefused, AutoSuspendFails, SetAction
    <2> QED BY <1>1, <2>1, SuspensionEnds DEF Onward
<1>6. CASE DetectorFails(s)
    BY <1>1, <1>6, DetectorFailsEffect DEF Onward
<1> QED BY <1>2, <1>3, <1>4, <1>5, <1>6 DEF Working

\* What is written, in parts.
AccountTypes ==
    /\ user \in [Users -> User] /\ log \subseteq Events /\ IsFiniteSet(log)
    /\ risk \in [Users -> -1..90]
    /\ acted \subseteq [detector : DetectorNames, subject : Users, window : Ticks]
    /\ quiet \subseteq Users
ProcessTypes ==
    /\ gate \in [sweeping : BOOLEAN, last : -Interval..LastTick] /\ clock \in Ticks
    /\ decisions \in 0..MaxDecisions /\ faults \in 0..MaxFaults

LEMMA TypeParts ==
    /\ TypeOK /\ IsFiniteSet(log) <=>
            AccountTypes /\ ProcessTypes /\ SweepTypes /\ findings \subseteq Finding
    /\ (TypeOK /\ IsFiniteSet(log))' <=>
            AccountTypes' /\ ProcessTypes' /\ SweepTypes' /\ findings' \subseteq Finding
BY DEF TypeOK, AccountTypes, ProcessTypes, SweepTypes

LEMMA AbuseTypesKept ==
    ASSUME TypeOK, IsFiniteSet(log), SuspendsOnFile, [Next]_vars
    PROVE  /\ TypeOK' /\ IsFiniteSet(log)'
           /\ FindingsStay \/ \E s \in Sweeps : SetAction(s)
<1> DEFINE Goal == /\ AccountTypes' /\ ProcessTypes' /\ SweepTypes' /\ findings' \subseteq Finding
                   /\ FindingsStay \/ \E s \in Sweeps : SetAction(s)
<1>1. /\ AccountTypes /\ ProcessTypes /\ SweepTypes
    BY TypeParts
<1>2. ASSUME UNCHANGED <<user, log, risk, historyVars>> PROVE AccountTypes'
    BY <1>1, <1>2 DEF AccountTypes, historyVars
<1>3. ASSUME UNCHANGED findings PROVE FindingsStay
    BY <1>3, FindingsUntouched
<1>4. Fault => faults' \in 0..MaxFaults
    BY <1>1, AbuseBoundsAssumption DEF Fault, ProcessTypes
<1>5. FindingsStay => findings' \subseteq Finding
    BY DEF FindingsStay
<1>6. ASSUME NEW s \in Sweeps, Working(s) PROVE Goal
    <2>1. SweepTypes'
        BY <1>6, WorkingEffect
    <2>2. ProcessTypes'
        <3>1. UNCHANGED <<gate, clock, decisions>>
            BY <1>6 DEF Working, Query, Record, AutoSuspend, AutoSuspendRefused, AutoSuspendFails,
                        SetAction, DetectorFails, Aborted
        <3>2. faults' = faults \/ Fault
            BY <1>6 DEF Working, Query, Record, AutoSuspend, AutoSuspendRefused, AutoSuspendFails,
                        SetAction, DetectorFails, Aborted
        <3> QED BY <1>1, <1>4, <3>1, <3>2 DEF ProcessTypes
    <2>3. CASE Query(s) \/ AutoSuspendRefused(s) \/ DetectorFails(s)
        <3>1. UNCHANGED <<rows, historyVars>>
            BY <2>3 DEF Query, AutoSuspendRefused, DetectorFails, Aborted
        <3> QED BY <1>2, <1>3, <1>5, <2>1, <2>2, <3>1 DEF rows
    <2>4. CASE Record(s)
        <3>1. PICK row \in Found : findings' = Recorded(Detector(s), row, sweep[s].now)
            BY <2>4, RecordEffect
        <3>2. Detector(s) \in DetectorNames /\ sweep[s].now \in Ticks
            BY DetectorIsOne DEF Progress
        <3>3. FindingsStay
            BY <3>1, <3>2, RecordedEffect DEF TypeOK
        <3> QED BY <1>2, <1>5, <2>1, <2>2, <2>4, <3>3 DEF Record
    <2>5. CASE AutoSuspend(s) \/ AutoSuspendFails(s)
        <3>1. /\ UNCHANGED <<findings, risk, quiet>> /\ At(s, "suspending")
              /\ \/ UNCHANGED <<user, log, acted>>
                 \/ SuspendRow(s)
            BY <2>5 DEF AutoSuspend, AutoSuspendFails
        <3>2. sweep[s].row.subject \in Users
            BY <3>1 DEF SuspendsOnFile
        <3>3. AccountTypes'
            BY <1>1, <3>1, <3>2, SuspendRowEffect DEF AccountTypes
        <3> QED BY <1>3, <1>5, <2>1, <2>2, <3>1, <3>3
    <2>6. CASE SetAction(s)
        <3>1. findings' \subseteq Finding
            BY <2>6, MarkEffect DEF SetAction
        <3> QED BY <1>2, <2>1, <2>2, <2>6, <3>1 DEF SetAction
    <2> QED BY <1>6, <2>3, <2>4, <2>5, <2>6 DEF Working
<1>7. ASSUME NEW s \in Sweeps, Scores(s) PROVE Goal
    <2>1. UNCHANGED <<user, log, findings, clock, historyVars, decisions>>
        BY <1>7 DEF Scores, Score, UpsertRiskScore, ScoringFails, rows
    <2>2. risk' \in [Users -> -1..90] /\ ((Onward(s) /\ UNCHANGED gate) \/ Finish(s))
        BY <1>7, ScoringEffect DEF Scores
    <2>3. AccountTypes'
        BY <1>1, <2>1, <2>2 DEF AccountTypes, historyVars
    <2>4. SweepTypes'
        BY <2>2, FinishEffect DEF Onward
    <2>5. gate' \in [sweeping : BOOLEAN, last : -Interval..LastTick]
        <3>1. gate' = gate \/ gate' = [gate EXCEPT !.sweeping = FALSE]
            BY <2>2, FinishEffect
        <3>2. gate \in [sweeping : BOOLEAN, last : -Interval..LastTick]
            BY <1>1 DEF ProcessTypes
        <3> QED BY <3>1, <3>2
    <2>6. faults' \in 0..MaxFaults
        BY <1>1, <1>4, <1>7 DEF Scores, Score, UpsertRiskScore, ScoringFails, ProcessTypes
    <2>7. ProcessTypes'
        BY <1>1, <2>1, <2>5, <2>6 DEF ProcessTypes
    <2> QED BY <1>3, <1>5, <2>1, <2>3, <2>4, <2>7
<1>8. ASSUME NEW s \in Sweeps, MaybeSweep(s) \/ RunSweepNow(s) PROVE Goal
    <2>1. PICK gated \in BOOLEAN : Start(s, gated)
        BY <1>8 DEF MaybeSweep, RunSweepNow
    <2>2. UNCHANGED <<rows, clock, historyVars, decisions, faults>>
        BY <2>1 DEF Start
    <2>3. gate' \in [sweeping : BOOLEAN, last : -Interval..LastTick]
        <3>1. clock \in -Interval..LastTick
            BY <1>1, PolicyAssumption, AbuseBoundsAssumption DEF ProcessTypes, Ticks
        <3>2. gate' = [sweeping |-> TRUE, last |-> clock] \/ gate' = gate
            BY <1>8 DEF MaybeSweep, RunSweepNow
        <3>3. gate \in [sweeping : BOOLEAN, last : -Interval..LastTick]
            BY <1>1 DEF ProcessTypes
        <3>4. [sweeping |-> TRUE, last |-> clock] \in [sweeping : BOOLEAN, last : -Interval..LastTick]
            BY <3>1, Zenon
        <3> QED BY <3>2, <3>3, <3>4
    <2>4. ProcessTypes'
        BY <1>1, <2>2, <2>3 DEF ProcessTypes
    <2> QED BY <1>2, <1>3, <1>5, <2>1, <2>2, <2>4, StartEffect DEF rows
<1>9. ASSUME UNCHANGED sweep PROVE SweepTypes'
    BY <1>1, <1>9 DEF SweepTypes, Detector
<1>10. ASSUME NEW d \in Watched, NEW x \in Subjects(d), Event(d, x) PROVE Goal
    <2>1. AccountTypes'
        BY <1>1, <1>10, EventEffect DEF Event, AccountTypes
    <2>2. UNCHANGED <<gate, clock, decisions, faults>>
        BY <1>10 DEF Event
    <2>3. ProcessTypes'
        BY <1>1, <2>2 DEF ProcessTypes
    <2> QED BY <1>3, <1>5, <1>9, <1>10, <2>1, <2>3 DEF Event
<1>11. Decide => decisions' \in 0..MaxDecisions
    BY <1>1, AbuseBoundsAssumption DEF Decide, ProcessTypes
<1>12. ASSUME NEW u \in Users, NEW status \in Verdicts, SetUserStatus(u, status) PROVE Goal
    <2>1. quiet' \subseteq Users
        BY <1>1, <1>12 DEF SetUserStatus, AccountTypes
    <2>2. AccountTypes'
        BY <1>1, <1>12, <2>1, SetUserStatusEffect DEF SetUserStatus, AccountTypes
    <2>3. ProcessTypes'
        BY <1>1, <1>11, <1>12 DEF SetUserStatus, ProcessTypes
    <2> QED BY <1>3, <1>5, <1>9, <1>12, <2>2, <2>3 DEF SetUserStatus
<1>13. ASSUME NEW f \in findings, ReviewFinding(f) PROVE Goal
    <2>1. ProcessTypes'
        BY <1>1, <1>11, <1>13 DEF ReviewFinding, ProcessTypes
    <2> QED BY <1>2, <1>5, <1>9, <1>13, <2>1, ReviewEffect DEF ReviewFinding
<1>14. ASSUME Tick PROVE Goal
    <2>1. ProcessTypes'
        <3>1. clock' \in Ticks
            BY <1>1, <1>14, AbuseBoundsAssumption DEF Tick, ProcessTypes, Ticks
        <3>2. UNCHANGED <<gate, decisions, faults>>
            BY <1>14 DEF Tick
        <3> QED BY <1>1, <3>1, <3>2 DEF ProcessTypes
    <2> QED BY <1>2, <1>3, <1>5, <1>9, <1>14, <2>1, TypeParts DEF Tick, rows
<1>15. ASSUME Crash PROVE Goal
    <2>1. UNCHANGED <<rows, clock, historyVars, decisions>> /\ Fault
        BY <1>15 DEF Crash
    <2>2. gate' \in [sweeping : BOOLEAN, last : -Interval..LastTick]
        BY <1>15, PolicyAssumption, AbuseBoundsAssumption DEF Crash
    <2>3. ProcessTypes'
        BY <1>1, <1>4, <2>1, <2>2 DEF ProcessTypes
    <2>4. SweepTypes'
        <3>1. sweep' = [s \in Sweeps |-> Idle]
            BY <1>15 DEF Crash
        <3> QED BY <3>1, IdleIsProgress DEF SweepTypes
    <2> QED BY <1>2, <1>3, <1>5, <2>1, <2>3, <2>4, TypeParts DEF rows
<1>16. ASSUME Rest \/ UNCHANGED vars PROVE Goal
    <2>1. ProcessTypes'
        BY <1>1, <1>16 DEF Rest, vars, ProcessTypes
    <2> QED BY <1>2, <1>3, <1>5, <1>9, <1>16, <2>1, TypeParts DEF Rest, vars, rows
<1> HIDE DEF Goal
<1>17. ASSUME NEW s \in Sweeps,
              \/ MaybeSweep(s) \/ RunSweepNow(s) \/ Step(s) \/ AutoSuspendFails(s)
              \/ DetectorFails(s) \/ ScoringFails(s)
       PROVE  Goal
    BY <1>6, <1>7, <1>8, <1>17 DEF Step, Working, Scores
<1>18. Goal => TypeOK' /\ IsFiniteSet(log)'
    BY TypeParts DEF Goal
<1> QED BY <1>10, <1>12, <1>13, <1>14, <1>15, <1>16, <1>17, <1>18 DEF Next, Goal

-----------------------------------------------------------------------------
(* The gate: a step of one sweep keeps it, gives it back or takes it. *)
LEMMA GateMoves ==
    ASSUME GateHolds, IdleIsUngated, NEW s \in Sweeps,
           \A t \in Sweeps \ {s} : sweep'[t] = sweep[t],
           sweep'[s].at = "idle" => ~sweep'[s].gated,
           \/ (sweep'[s].gated <=> sweep[s].gated) /\ (gate'.sweeping <=> gate.sweeping)
           \/ ~sweep'[s].gated /\ (gate'.sweeping <=> gate.sweeping /\ ~sweep[s].gated)
           \/ ~gate.sweeping /\ sweep'[s].gated /\ gate'.sweeping
    PROVE  GateHolds' /\ IdleIsUngated'
<1>1. IdleIsUngated'
    BY DEF IdleIsUngated, At
<1>2. \A t, v \in Sweeps : sweep'[t].gated /\ sweep'[v].gated => t = v
    BY DEF GateHolds
<1>3. gate'.sweeping <=> \E t \in Sweeps : sweep'[t].gated
    BY DEF GateHolds
<1> QED BY <1>1, <1>2, <1>3 DEF GateHolds

LEMMA GateKept ==
    ASSUME TypeOK, IsFiniteSet(log), SuspendsOnFile, GateHolds, IdleIsUngated, [Next]_vars
    PROVE  GateHolds' /\ IdleIsUngated'
<1> DEFINE Goal == GateHolds' /\ IdleIsUngated'
<1>1. ASSUME UNCHANGED <<sweep, gate>> PROVE Goal
    BY <1>1 DEF GateHolds, IdleIsUngated, At
<1>2. ASSUME NEW s \in Sweeps, Working(s) PROVE Goal
    <2>1. UNCHANGED gate
        BY <1>2 DEF Working, Query, Record, AutoSuspend, AutoSuspendRefused, AutoSuspendFails,
                    SetAction, DetectorFails, Aborted
    <2> QED BY <1>2, <2>1, WorkingEffect, GateMoves
<1>3. ASSUME NEW s \in Sweeps, Finish(s) PROVE Goal
    <2>1. /\ sweep'[s] = Idle /\ \A t \in Sweeps \ {s} : sweep'[t] = sweep[t]
          /\ gate' = IF sweep[s].gated THEN [gate EXCEPT !.sweeping = FALSE] ELSE gate
        BY <1>3, FinishEffect
    <2>2. ~sweep'[s].gated
        BY <2>1, IdleIsProgress
    <2>3. gate \in [sweeping : BOOLEAN, last : -Interval..LastTick]
        BY DEF TypeOK
    <2>4. gate'.sweeping <=> gate.sweeping /\ ~sweep[s].gated
        <3>1. CASE sweep[s].gated
            <4>1. ~gate'.sweeping
                BY <2>1, <2>3, <3>1
            <4> QED BY <3>1, <4>1
        <3>2. CASE ~sweep[s].gated
            BY <2>1, <3>2
        <3> QED BY <3>1, <3>2
    <2> QED BY <2>1, <2>2, <2>4, GateMoves
<1>4. ASSUME NEW s \in Sweeps, Scores(s) PROVE Goal
    <2>1. (Onward(s) /\ UNCHANGED gate) \/ Finish(s)
        BY <1>4, ScoringEffect DEF Scores
    <2>2. CASE Onward(s) /\ UNCHANGED gate
        BY <2>2, GateMoves DEF Onward
    <2> QED BY <1>3, <2>1, <2>2
<1>5. ASSUME NEW s \in Sweeps, MaybeSweep(s) PROVE Goal
    <2>1. ~gate.sweeping /\ gate'.sweeping /\ Start(s, TRUE)
        BY <1>5 DEF MaybeSweep
    <2>2. /\ sweep'[s].gated /\ sweep'[s].at # "idle"
          /\ \A t \in Sweeps \ {s} : sweep'[t] = sweep[t]
        BY <2>1, StartEffect
    <2> QED BY <2>1, <2>2, GateMoves
<1>6. ASSUME NEW s \in Sweeps, RunSweepNow(s) PROVE Goal
    <2>1. UNCHANGED gate /\ Start(s, FALSE)
        BY <1>6 DEF RunSweepNow
    <2>2. /\ ~sweep'[s].gated /\ At(s, "idle")
          /\ \A t \in Sweeps \ {s} : sweep'[t] = sweep[t]
        BY <2>1, StartEffect
    <2>3. ~sweep[s].gated
        BY <2>2 DEF IdleIsUngated
    <2> QED BY <2>1, <2>2, <2>3, GateMoves
<1>7. ASSUME Crash PROVE Goal
    <2>1. gate' = [sweeping |-> FALSE, last |-> -Interval] /\ sweep' = [s \in Sweeps |-> Idle]
        BY <1>7 DEF Crash
    <2>2. ~gate'.sweeping /\ \A s \in Sweeps : ~sweep'[s].gated
        BY <2>1, IdleIsProgress
    <2> QED BY <2>2 DEF GateHolds, IdleIsUngated
<1>8. ASSUME NEW s \in Sweeps,
             \/ MaybeSweep(s) \/ RunSweepNow(s) \/ Step(s) \/ AutoSuspendFails(s)
             \/ DetectorFails(s) \/ ScoringFails(s)
      PROVE  Goal
    <2> HIDE DEF Goal
    <2> QED BY <1>2, <1>4, <1>5, <1>6, <1>8 DEF Step, Working, Scores
<1>9. ASSUME \/ \E d \in Watched : \E x \in Subjects(d) : Event(d, x)
             \/ \E u \in Users, status \in Verdicts : SetUserStatus(u, status)
             \/ \E f \in findings : ReviewFinding(f)
             \/ Tick \/ Rest \/ UNCHANGED vars
      PROVE  Goal
    <2>1. UNCHANGED <<sweep, gate>>
        BY <1>9 DEF Event, SetUserStatus, ReviewFinding, Tick, Rest, vars
    <2> QED BY <1>1, <2>1
<1> HIDE DEF Goal
<1>10. Goal
    BY <1>7, <1>8, <1>9 DEF Next
<1> QED BY <1>10 DEF Goal

-----------------------------------------------------------------------------
(* What is on file.  A sweep stays where it is, leaves its suspension, reports
   what it will suspend, or suspends. *)
SameRow(t) == /\ sweep'[t].row = sweep[t].row /\ sweep'[t].next = sweep[t].next
              /\ sweep'[t].now = sweep[t].now
Stays(t) == sweep'[t].at = sweep[t].at /\ SameRow(t)
OfRow(f, t) == Named(f, Detector(t), sweep[t].row.subject, sweep[t].now)
Leaves(t) ==
    /\ sweep'[t].at \notin {"suspending", "marking"}
    /\ At(t, "marking") =>
        \/ faults' > 0
        \/ \A f \in findings : OfRow(f, t) =>
              \E g \in findings' : SameFinding(f, g) /\ g.action = "suspended"
Reports(t) ==
    /\ ~At(t, "marking") /\ sweep'[t].at = "suspending" /\ sweep'[t].row.subject \in Users
    /\ \E g \in findings' :
          Named(g, Detectors[sweep'[t].next], sweep'[t].row.subject, sweep'[t].now)
Does(t) == At(t, "suspending") /\ sweep'[t].at = "marking" /\ SameRow(t) /\ Deed(t) \in acted'

LEMMA OnFileMoves ==
    ASSUME SuspendsOnFile, MarksItsDeeds, SuspensionsAreOnFile, faults > 0 => faults' > 0,
           \A f \in findings : \E g \in findings' :
                SameFinding(f, g) /\ (f.action = "suspended" => g.action = "suspended"),
           \A t \in Sweeps : Stays(t) \/ Leaves(t) \/ Reports(t) \/ Does(t),
           acted \subseteq acted',
           \A a \in acted' \ acted : \E t \in Sweeps :
                a = Deed(t) /\ At(t, "suspending") /\ (faults' > 0 \/ Does(t)),
           \A g \in findings' : g.action = "suspended" =>
                \/ \E f \in findings : SameFinding(f, g) /\ f.action = "suspended"
                \/ \E t \in Sweeps : At(t, "marking") /\ OfRow(g, t)
    PROVE  SuspendsOnFile' /\ MarksItsDeeds' /\ SuspensionsAreOnFile'
<1>1. \A f, g, d, x, now : SameFinding(f, g) /\ Named(f, d, x, now) => Named(g, d, x, now)
    BY DEF SameFinding, Named
<1>2. SuspendsOnFile'
    <2> SUFFICES ASSUME NEW t \in Sweeps, sweep'[t].at \in {"suspending", "marking"}
                 PROVE  /\ sweep'[t].row.subject \in Users
                        /\ \E g \in findings' :
                              Named(g, Detectors[sweep'[t].next], sweep'[t].row.subject, sweep'[t].now)
        BY DEF SuspendsOnFile, Detector, At
    <2>1. CASE Reports(t)
        BY <2>1 DEF Reports
    <2>2. CASE Stays(t) \/ Does(t)
        <3>1. SameRow(t) /\ (At(t, "suspending") \/ At(t, "marking"))
            BY <2>2 DEF Stays, Does, At
        <3>2. PICK f \in findings : OfRow(f, t)
            BY <3>1 DEF SuspendsOnFile, OfRow
        <3>3. PICK g \in findings' : SameFinding(f, g)
            OBVIOUS
        <3>4. Named(g, Detector(t), sweep[t].row.subject, sweep[t].now)
            BY <1>1, <3>2, <3>3 DEF OfRow
        <3>5. sweep[t].row.subject \in Users
            BY <3>1 DEF SuspendsOnFile
        <3> QED BY <3>1, <3>4, <3>5 DEF SameRow, Detector
    <2> QED BY <2>1, <2>2 DEF Leaves
<1>3. MarksItsDeeds'
    <2> SUFFICES ASSUME NEW t \in Sweeps, sweep'[t].at = "marking"
                 PROVE  [detector |-> Detectors[sweep'[t].next], subject |-> sweep'[t].row.subject,
                         window |-> sweep'[t].now] \in acted'
        BY DEF MarksItsDeeds, Deed, Detector, At
    <2>1. SameRow(t) /\ (Stays(t) \/ Does(t))
        BY DEF Stays, Leaves, Reports, Does
    <2>2. Deed(t) \in acted'
        BY <2>1 DEF MarksItsDeeds, Stays, Does, At
    <2> QED BY <2>1, <2>2 DEF SameRow, Deed, Detector
<1>4. ASSUME NEW a \in acted'
      PROVE  \E g \in findings' :
                /\ Named(g, a.detector, a.subject, a.window)
                /\ \/ g.action = "suspended"
                   \/ faults' > 0
                   \/ \E t \in Sweeps :
                        /\ sweep'[t].at = "marking" /\ sweep'[t].row.subject = a.subject
                        /\ Detectors[sweep'[t].next] = a.detector /\ sweep'[t].now = a.window
    <2>1. CASE a \in acted
        <3>1. PICK f \in findings :
                /\ Named(f, a.detector, a.subject, a.window)
                /\ \/ f.action = "suspended"
                   \/ faults > 0
                   \/ \E t \in Sweeps : /\ At(t, "marking") /\ sweep[t].row.subject = a.subject
                                        /\ Detector(t) = a.detector /\ sweep[t].now = a.window
            BY <2>1 DEF SuspensionsAreOnFile
        <3>2. PICK g \in findings' :
                SameFinding(f, g) /\ (f.action = "suspended" => g.action = "suspended")
            OBVIOUS
        <3>3. Named(g, a.detector, a.subject, a.window)
            BY <1>1, <3>1, <3>2
        <3>4. CASE f.action = "suspended" \/ faults > 0
            BY <3>2, <3>3, <3>4
        <3>5. ASSUME NEW t \in Sweeps, At(t, "marking"), sweep[t].row.subject = a.subject,
                     Detector(t) = a.detector, sweep[t].now = a.window
              PROVE  \E h \in findings' :
                        /\ Named(h, a.detector, a.subject, a.window)
                        /\ \/ h.action = "suspended" \/ faults' > 0
                           \/ Stays(t)
            <4>1. Stays(t) \/ Leaves(t)
                BY <3>5 DEF Reports, Does, At
            <4>2. CASE Leaves(t)
                <5>1. OfRow(f, t)
                    BY <3>1, <3>5 DEF OfRow
                <5>2. \/ faults' > 0
                      \/ \E h \in findings' : SameFinding(f, h) /\ h.action = "suspended"
                    BY <3>5, <4>2, <5>1 DEF Leaves
                <5> QED BY <1>1, <3>1, <3>3, <5>2
            <4> QED BY <3>3, <4>1, <4>2
        <3>6. ASSUME NEW t \in Sweeps, Stays(t), At(t, "marking")
              PROVE  /\ sweep'[t].at = "marking" /\ sweep'[t].row.subject = sweep[t].row.subject
                     /\ Detectors[sweep'[t].next] = Detector(t) /\ sweep'[t].now = sweep[t].now
            BY <3>6 DEF Stays, SameRow, Detector, At
        <3> QED BY <3>1, <3>4, <3>5, <3>6
    <2>2. CASE a \notin acted
        <3>1. PICK t \in Sweeps : a = Deed(t) /\ At(t, "suspending") /\ (faults' > 0 \/ Does(t))
            BY <2>2
        <3>2. PICK f \in findings : OfRow(f, t)
            BY <3>1 DEF SuspendsOnFile, OfRow
        <3>3. PICK g \in findings' : SameFinding(f, g)
            OBVIOUS
        <3>4. /\ a.detector = Detector(t) /\ a.subject = sweep[t].row.subject
              /\ a.window = sweep[t].now
            BY <3>1 DEF Deed
        <3>5. Named(g, a.detector, a.subject, a.window)
            BY <1>1, <3>2, <3>3, <3>4 DEF OfRow
        <3> QED BY <3>1, <3>4, <3>5 DEF Does, SameRow, Detector
    <2> QED BY <2>1, <2>2
<1>5. ASSUME NEW g \in findings', g.action = "suspended"
      PROVE  [detector |-> g.detector, subject |-> g.subject, window |-> g.window] \in acted'
    <2>1. CASE \E f \in findings : SameFinding(f, g) /\ f.action = "suspended"
        BY <2>1 DEF SuspensionsAreOnFile, SameFinding
    <2>2. CASE \E t \in Sweeps : At(t, "marking") /\ OfRow(g, t)
        BY <2>2 DEF MarksItsDeeds, Deed, OfRow, Named
    <2> QED BY <1>5, <2>1, <2>2
<1>6. SuspensionsAreOnFile'
    BY <1>4, <1>5 DEF SuspensionsAreOnFile, At, Detector
<1> QED BY <1>2, <1>3, <1>6

\* A step that changes neither what was done nor any suspension under way.
LEMMA OnFileUntouched ==
    ASSUME SuspendsOnFile, MarksItsDeeds, SuspensionsAreOnFile, FindingsStay, NoneMarked,
           UNCHANGED acted, faults > 0 => faults' > 0,
           \A t \in Sweeps : Stays(t) \/ Leaves(t) \/ Reports(t)
    PROVE  SuspendsOnFile' /\ MarksItsDeeds' /\ SuspensionsAreOnFile'
<1>1. /\ \A f \in findings : \E g \in findings' :
            SameFinding(f, g) /\ (f.action = "suspended" => g.action = "suspended")
      /\ \A g \in findings' : g.action = "suspended" =>
            \E f \in findings : SameFinding(f, g) /\ f.action = "suspended"
    BY DEF FindingsStay, NoneMarked
<1>2. acted \subseteq acted' /\ acted' \ acted = {}
    OBVIOUS
<1> QED BY <1>1, <1>2, OnFileMoves

LEMMA OnFileKept ==
    ASSUME TypeOK, IsFiniteSet(log), SuspendsOnFile, MarksItsDeeds, SuspensionsAreOnFile,
           [Next]_vars
    PROVE  SuspendsOnFile' /\ MarksItsDeeds' /\ SuspensionsAreOnFile'
<1> DEFINE Goal == SuspendsOnFile' /\ MarksItsDeeds' /\ SuspensionsAreOnFile'
<1>1. Fault => faults' > 0
    BY DEF Fault, TypeOK
<1>2. ASSUME NEW t \in Sweeps, sweep'[t] = sweep[t] PROVE Stays(t)
    BY <1>2 DEF Stays, SameRow
<1>3. ASSUME UNCHANGED <<sweep, acted>>, FindingsStay, NoneMarked, UNCHANGED faults PROVE Goal
    BY <1>2, <1>3, OnFileUntouched
<1>4. ASSUME NEW s \in Sweeps, Query(s) \/ Record(s) PROVE Goal
    <2>1. UNCHANGED <<acted, faults>> /\ ~At(s, "marking")
        BY <1>4 DEF Query, Record, historyVars, At
    <2>2. CASE Query(s)
        <3>1. FindingsStay /\ NoneMarked
            BY <2>2, FindingsUntouched DEF Query, rows
        <3>2. Onward(s)
            BY <2>2, QueryEffect
        <3>3. Leaves(s) /\ \A t \in Sweeps \ {s} : sweep'[t] = sweep[t]
            BY <2>1, <3>2 DEF Leaves, Onward
        <3> QED BY <1>2, <2>1, <3>1, <3>3, OnFileUntouched
    <2>3. CASE Record(s)
        <3>1. PICK row \in Found :
                /\ findings' = Recorded(Detector(s), row, sweep[s].now)
                /\ Onward(s) \/ Suspending(s, row)
            BY <2>3, RecordEffect
        <3>2. Detector(s) \in DetectorNames /\ sweep[s].now \in Ticks
            BY DetectorIsOne DEF Progress
        <3>3. /\ FindingsStay /\ NoneMarked
              /\ \E g \in findings' : Named(g, Detector(s), row.subject, sweep[s].now)
            BY <3>1, <3>2, RecordedEffect DEF TypeOK
        <3>4. Leaves(s) \/ Reports(s)
            BY <2>1, <3>1, <3>3 DEF Leaves, Reports, Onward, Suspending, Detector
        <3>5. \A t \in Sweeps \ {s} : sweep'[t] = sweep[t]
            BY <3>1 DEF Onward, Suspending
        <3> QED BY <1>2, <2>1, <3>3, <3>4, <3>5, OnFileUntouched
    <2> QED BY <1>4, <2>2, <2>3
<1>5. ASSUME NEW s \in Sweeps, AutoSuspendRefused(s) \/ DetectorFails(s) PROVE Goal
    <2>1. UNCHANGED <<findings, acted>> /\ (faults > 0 => faults' > 0)
        BY <1>1, <1>5 DEF AutoSuspendRefused, DetectorFails, Aborted, rows, historyVars
    <2>2. FindingsStay /\ NoneMarked
        BY <2>1, FindingsUntouched
    <2>3. Onward(s)
        BY <1>5, SuspensionEnds, DetectorFailsEffect DEF AutoSuspendRefused
    <2>4. At(s, "marking") => faults' > 0
        BY <1>1, <1>5 DEF AutoSuspendRefused, DetectorFails, Aborted, At
    <2>5. Leaves(s) /\ \A t \in Sweeps \ {s} : sweep'[t] = sweep[t]
        BY <2>3, <2>4 DEF Leaves, Onward
    <2> QED BY <1>2, <2>1, <2>2, <2>5, OnFileUntouched
<1>6. ASSUME NEW s \in Sweeps, AutoSuspend(s) \/ AutoSuspendFails(s) PROVE Goal
    <2>1. UNCHANGED findings /\ At(s, "suspending") /\ (faults > 0 => faults' > 0)
        BY <1>1, <1>6 DEF AutoSuspend, AutoSuspendFails
    <2>2. acted' = acted \/ acted' = acted \cup {Deed(s)}
        BY <1>6 DEF AutoSuspend, AutoSuspendFails, SuspendRow, Deed
    <2>3. (faults' > 0 /\ Leaves(s)) \/ Does(s)
        <3>1. CASE AutoSuspend(s)
            <4>1. Deed(s) \in acted'
                BY <3>1 DEF AutoSuspend, SuspendRow, Deed
            <4> QED BY <2>1, <3>1, <4>1, AutoSuspendEffect DEF Does, SameRow
        <3>2. CASE AutoSuspendFails(s)
            <4>1. faults' > 0 /\ Handled(s, sweep[s].row)
                BY <1>1, <3>2 DEF AutoSuspendFails
            <4>2. Onward(s)
                BY <2>1, <4>1, SuspensionEnds
            <4> QED BY <4>1, <4>2 DEF Leaves, Onward
        <3> QED BY <1>6, <3>1, <3>2
    <2>4. \A t \in Sweeps \ {s} : sweep'[t] = sweep[t]
        BY <1>6, WorkingEffect DEF Working
    <2>5. \A t \in Sweeps : Stays(t) \/ Leaves(t) \/ Reports(t) \/ Does(t)
        BY <1>2, <2>3, <2>4
    <2>6. acted \subseteq acted' /\ \A a \in acted' \ acted : \E t \in Sweeps :
                a = Deed(t) /\ At(t, "suspending") /\ (faults' > 0 \/ Does(t))
        BY <2>1, <2>2, <2>3
    <2>7. \A f : SameFinding(f, f)
        BY DEF SameFinding
    <2> QED BY <2>1, <2>5, <2>6, <2>7, OnFileMoves
<1>7. ASSUME NEW s \in Sweeps, SetAction(s) PROVE Goal
    <2>1. Mark(s) /\ At(s, "marking") /\ UNCHANGED <<acted, faults>>
        BY <1>7 DEF SetAction, historyVars
    <2>2. /\ \A f \in findings : \E g \in findings' :
                /\ SameFinding(f, g) /\ (f.action = "suspended" => g.action = "suspended")
                /\ OfRow(f, s) => g.action = "suspended"
          /\ \A g \in findings' : g.action = "suspended" =>
                \/ \E f \in findings : SameFinding(f, g) /\ f.action = "suspended"
                \/ OfRow(g, s)
        BY <2>1, MarkEffect DEF OfRow
    <2>3. Onward(s)
        BY <1>7, SuspensionEnds DEF SetAction
    <2>4. Leaves(s)
        BY <2>2, <2>3 DEF Leaves, Onward
    <2>5. \A t \in Sweeps \ {s} : sweep'[t] = sweep[t]
        BY <2>3 DEF Onward
    <2>6. \A t \in Sweeps : Stays(t) \/ Leaves(t)
        BY <1>2, <2>4, <2>5
    <2>7. acted \subseteq acted' /\ acted' \ acted = {}
        BY <2>1
    <2> QED BY <2>1, <2>2, <2>6, <2>7, OnFileMoves
<1>8. ASSUME NEW s \in Sweeps, Scores(s) PROVE Goal
    <2>1. UNCHANGED <<findings, acted>> /\ (faults > 0 => faults' > 0) /\ ~At(s, "marking")
        BY <1>1, <1>8 DEF Scores, Score, UpsertRiskScore, ScoringFails, rows, historyVars, At
    <2>2. Onward(s) \/ Finish(s)
        BY <1>8, ScoringEffect DEF Scores
    <2>3. /\ sweep'[s].at \notin {"suspending", "marking"}
          /\ \A t \in Sweeps \ {s} : sweep'[t] = sweep[t]
        BY <2>2, FinishEffect, IdleIsProgress DEF Onward
    <2>4. Leaves(s)
        BY <2>1, <2>3 DEF Leaves
    <2> QED BY <1>2, <2>1, <2>3, <2>4, FindingsUntouched, OnFileUntouched
<1>9. ASSUME NEW s \in Sweeps, MaybeSweep(s) \/ RunSweepNow(s) PROVE Goal
    <2>1. PICK gated \in BOOLEAN : Start(s, gated)
        BY <1>9 DEF MaybeSweep, RunSweepNow
    <2>2. UNCHANGED <<findings, acted, faults>> /\ ~At(s, "marking")
        BY <2>1 DEF Start, rows, historyVars, At
    <2>3. sweep'[s].at = "querying" /\ \A t \in Sweeps \ {s} : sweep'[t] = sweep[t]
        BY <2>1, StartEffect
    <2>4. Leaves(s)
        BY <2>2, <2>3 DEF Leaves
    <2> QED BY <1>2, <2>2, <2>3, <2>4, FindingsUntouched, OnFileUntouched
<1>10. ASSUME Crash PROVE Goal
    <2>1. /\ UNCHANGED <<findings, acted>> /\ faults' > 0
          /\ sweep' = [s \in Sweeps |-> Idle]
        BY <1>1, <1>10 DEF Crash, rows, historyVars
    <2>2. \A t \in Sweeps : Leaves(t)
        BY <2>1, IdleIsProgress DEF Leaves
    <2> QED BY <2>1, <2>2, FindingsUntouched, OnFileUntouched
<1>11. ASSUME NEW f \in findings, ReviewFinding(f) PROVE Goal
    BY <1>3, <1>11, ReviewEffect DEF ReviewFinding, historyVars
<1>12. ASSUME \/ \E d \in Watched : \E x \in Subjects(d) : Event(d, x)
              \/ \E u \in Users, status \in Verdicts : SetUserStatus(u, status)
              \/ Tick \/ Rest \/ UNCHANGED vars
       PROVE  Goal
    <2>1. UNCHANGED <<sweep, acted, findings, faults>>
        BY <1>12 DEF Event, SetUserStatus, Tick, Rest, vars, rows, historyVars
    <2> QED BY <1>3, <2>1, FindingsUntouched
<1> HIDE DEF Goal
<1>13. ASSUME NEW s \in Sweeps,
              \/ MaybeSweep(s) \/ RunSweepNow(s) \/ Step(s) \/ AutoSuspendFails(s)
              \/ DetectorFails(s) \/ ScoringFails(s)
       PROVE  Goal
    BY <1>4, <1>5, <1>6, <1>7, <1>8, <1>9, <1>13 DEF Step, Scores
<1>14. Goal
    BY <1>10, <1>11, <1>12, <1>13 DEF Next
<1> QED BY <1>14 DEF Goal

-----------------------------------------------------------------------------
(* The theorems. *)
LEMMA AbuseInit == Init => AbuseInv
<1> SUFFICES ASSUME Init PROVE AbuseInv
    OBVIOUS
<1>1. /\ log = {} /\ findings = {} /\ acted = {} /\ quiet = {} /\ clock = 0
      /\ decisions = 0 /\ faults = 0
      /\ sweep = [s \in Sweeps |-> Idle] /\ gate = [sweeping |-> FALSE, last |-> -Interval]
      /\ user = [u \in Users |-> [status |-> "active", token_version |-> 0, reason |-> "none"]]
      /\ risk = [u \in Users |-> -1]
    BY DEF Init
<1>2. \A s \in Sweeps : sweep[s] = Idle /\ sweep[s].at = "idle" /\ ~sweep[s].gated /\ sweep[s].rows = {}
    BY <1>1, IdleIsProgress
<1>3. TypeOK
    <2>1. user \in [Users -> User] /\ risk \in [Users -> -1..90]
        BY <1>1 DEF User
    <2>2. sweep \in [Sweeps -> Progress]
        BY <1>1, IdleIsProgress
    <2>3. -Interval \in -Interval..LastTick
        BY PolicyAssumption, AbuseBoundsAssumption
    <2>4. gate \in [sweeping : BOOLEAN, last : -Interval..LastTick]
        BY <1>1, <2>3, Zenon
    <2>5. clock \in Ticks /\ decisions \in 0..MaxDecisions /\ faults \in 0..MaxFaults
        BY <1>1, AbuseBoundsAssumption DEF Ticks
    <2> QED BY <1>1, <1>2, <2>1, <2>2, <2>4, <2>5 DEF TypeOK
<1>4. IsFiniteSet(log)
    BY <1>1, FS_EmptySet
<1>5. GateHolds /\ IdleIsUngated
    BY <1>1, <1>2 DEF GateHolds, IdleIsUngated
<1>6. SuspendsOnFile /\ MarksItsDeeds
    BY <1>2 DEF SuspendsOnFile, MarksItsDeeds, At
<1>7. SuspensionsAreOnFile
    BY <1>1 DEF SuspensionsAreOnFile
<1> QED BY <1>3, <1>4, <1>5, <1>6, <1>7 DEF AbuseInv

LEMMA AbuseInvHolds == Spec => []AbuseInv
<1>1. AbuseInv /\ [Next]_vars => AbuseInv'
    BY AbuseTypesKept, GateKept, OnFileKept DEF AbuseInv
<1> QED BY <1>1, AbuseInit, PTL DEF Spec

(* Every row and every sweep is what it may be, and the flag that keeps
   opportunistic sweeps to one is up exactly while there is one: however a
   sweep ends, detection goes on (maybeSweep). *)
THEOREM GateIsNeitherStuckNorShared == Spec => []StateOK
<1>1. AbuseInv => StateOK
    BY DEF AbuseInv, StateOK
<1> QED BY <1>1, AbuseInvHolds, PTL

(* With any number of overlapping sweeps, every automatic suspension rests on
   a finding, and a finding says "suspended" only of a suspension that
   happened (handleFinding, record, setAction). *)
THEOREM SuspensionsRestOnFindings == Spec => []SuspensionsAreOnFile
<1>1. AbuseInv => SuspensionsAreOnFile
    BY DEF AbuseInv
<1> QED BY <1>1, AbuseInvHolds, PTL

(* No sweep touches an account that is not active, and whoever changes a
   status ends the account's tokens (autoSuspend, setUserStatus). *)
THEOREM StatusRespected == Spec => SweepsRespectStatus
<1> DEFINE Respects == \A u \in Users :
        /\ user[u].status # "active" /\ decisions' = decisions => user'[u] = user[u]
        /\ user'[u].status # user[u].status =>
              user'[u].token_version = user[u].token_version + 1
<1>1. ASSUME AbuseInv, [Next]_vars PROVE [Respects]_vars
    <2>1. /\ TypeOK /\ SuspendsOnFile /\ user \in [Users -> User] /\ decisions \in 0..MaxDecisions
        BY <1>1 DEF AbuseInv, TypeOK
    <2>2. ASSUME UNCHANGED user PROVE Respects
        BY <2>2
    <2>3. ASSUME NEW s \in Sweeps, SuspendRow(s), At(s, "suspending") PROVE Respects
        <3>1. PICK w \in Users : w = sweep[s].row.subject
            BY <2>1, <2>3 DEF SuspendsOnFile
        <3>2. /\ user[w].status = "active"
              /\ user' = [user EXCEPT ![w] = Suspended(w, Detector(s))]
            BY <2>3, <3>1 DEF SuspendRow, MaySuspend
        <3>3. /\ user'[w].token_version = user[w].token_version + 1
              /\ \A u \in Users \ {w} : user'[u] = user[u]
            BY <2>1, <3>2 DEF Suspended
        <3> QED BY <3>2, <3>3
    <2>4. ASSUME NEW w \in Users, NEW status \in Verdicts, SetUserStatus(w, status) PROVE Respects
        <3>1. decisions' # decisions
            BY <2>1, <2>4 DEF SetUserStatus, Decide
        <3>2. /\ user'[w].token_version = user[w].token_version + 1
              /\ \A u \in Users \ {w} : user'[u] = user[u]
            BY <2>1, <2>4 DEF SetUserStatus
        <3> QED BY <3>1, <3>2
    <2>5. ASSUME Next
          PROVE  \/ UNCHANGED user
                 \/ \E s \in Sweeps : SuspendRow(s) /\ At(s, "suspending")
                 \/ \E u \in Users, status \in Verdicts : SetUserStatus(u, status)
        <3>1. ASSUME NEW s \in Sweeps, MaybeSweep(s) \/ RunSweepNow(s)
              PROVE  UNCHANGED user
            BY <3>1 DEF MaybeSweep, RunSweepNow, Start, rows
        <3>2. ASSUME NEW s \in Sweeps, Step(s) \/ DetectorFails(s) \/ ScoringFails(s)
              PROVE  UNCHANGED user \/ AutoSuspend(s)
            BY <3>2 DEF Step, Query, Record, AutoSuspendRefused, SetAction, Score, UpsertRiskScore,
                        DetectorFails, Aborted, ScoringFails, rows
        <3>3. ASSUME NEW s \in Sweeps, AutoSuspend(s) \/ AutoSuspendFails(s)
              PROVE  UNCHANGED user \/ (SuspendRow(s) /\ At(s, "suspending"))
            BY <3>3 DEF AutoSuspend, AutoSuspendFails
        <3>4. ASSUME \/ \E d \in Watched : \E x \in Subjects(d) : Event(d, x)
                     \/ \E f \in findings : ReviewFinding(f)
                     \/ Tick \/ Crash \/ Rest
              PROVE  UNCHANGED user
            BY <3>4 DEF Event, ReviewFinding, Tick, Crash, Rest, vars, rows
        <3> QED BY <2>5, <3>1, <3>2, <3>3, <3>4 DEF Next
    <2> HIDE DEF Respects
    <2>6. Next => Respects
        BY <2>2, <2>3, <2>4, <2>5
    <2> QED BY <1>1, <2>6
<1> QED BY <1>1, AbuseInvHolds, PTL DEF Spec, SweepsRespectStatus
=============================================================================
