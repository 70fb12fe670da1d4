-------------------------------- MODULE Abuse --------------------------------
(***************************************************************************)
(* Abuse detection: the sweep that runs the detectors one after another,   *)
(* records what they find, suspends accounts and scores them               *)
(* (abuseDetection, detectors, enforcement, abuseFindingModel), beside the *)
(* administrators who suspend, reinstate and review (adminController,      *)
(* abuseController).                                                       *)
(*                                                                         *)
(* Sweeps are started by requests, one at a time in a process and at most  *)
(* one per interval, and by administrators whenever they like.  Every      *)
(* await of a sweep is an action of its own; a transaction is one action.  *)
(* What the detectors count is in log: the rows of the tables they query.  *)
(* How setUserStatus and a sign-in interleave is in Sessions; here both    *)
(* are single steps.                                                       *)
(***************************************************************************)
EXTENDS RiskScore, FiniteSets

CONSTANTS
    Users, Origins,
    OriginOf,     \* users.signup_origin_hash
    Sweeps,       \* invocations of runSweep at a time
    Enabled,      \* ABUSE_AUTO_SUSPEND
    Watched,      \* the detectors whose events happen
    Verdicts,     \* what administrators set users.status to
    Threshold,    \* events in a window that make a finding
    High,         \* events in a window that make it a high one
    Window,       \* windowHours, in ticks
    Interval,     \* sweepIntervalMs, in ticks
    MaxFindings,  \* maxFindingsPerSweep
    LastTick,     \* bound: the clock runs from 0 to LastTick
    MaxEvents,    \* bound: events that are counted
    MaxDecisions, \* bound: status changes and reviews by administrators
    MaxFaults     \* bound: statements that fail and processes that die

(* In the order of runSweep.  A detector whose events never happen finds
   nothing, and its turn is left out. *)
Detectors == <<"registration_velocity", "generation_velocity", "reward_farming_origin",
               "admin_adjustment_volume", "concurrent_session_origins">>
Turns == {i \in DOMAIN Detectors : Detectors[i] \in Watched}
Earliest(turns) == CHOOSE i \in turns : \A j \in turns : i <= j

DetectorNames == {"registration_velocity", "generation_velocity", "reward_farming_origin",
                  "admin_adjustment_volume", "concurrent_session_origins"}

(* Whom a finding names. *)
Everyone == "everyone"
Subjects(d) ==
    CASE d \in {"registration_velocity", "reward_farming_origin"} -> Origins
      [] d \in {"generation_velocity", "concurrent_session_origins"} -> Users
      [] d = "admin_adjustment_volume" -> {Everyone}

Ticks == 0..LastTick

ASSUME OriginOfAssumption == IsFiniteSet(Users) /\ OriginOf \in [Users -> Origins]
ASSUME SubjectsAssumption ==
    Everyone \notin Users \cup Origins /\ Users \cap Origins = {}
ASSUME PolicyAssumption ==
    /\ Enabled \in BOOLEAN /\ Watched \subseteq DetectorNames /\ Watched # {}
    /\ Verdicts \subseteq {"active", "suspended", "banned", "deleted"}
    /\ Threshold \in Nat \ {0} /\ High \in Nat /\ Threshold <= High
    /\ Window \in Nat \ {0} /\ Interval \in Nat \ {0} /\ MaxFindings \in Nat \ {0}
ASSUME AbuseBoundsAssumption ==
    {LastTick, MaxEvents, MaxDecisions, MaxFaults} \subseteq Nat

VARIABLES
    user,      \* the accounts' rows of public.users
    log,       \* the events the detectors count
    findings,  \* abuse_findings
    risk,      \* user_risk_scores.score; -1 without a row
    sweep,     \* what each invocation of runSweep is doing
    gate,      \* sweeping and lastSweepAt of the process
    clock,     \* the time
    acted,     \* the finding each automatic suspension rested on
    quiet,     \* accounts reinstated after a sweep, that have done nothing since
    decisions, \* how many an administrator has made
    faults     \* how many faults there were

rows == <<user, log, findings, risk>>
historyVars == <<acted, quiet>>
vars == <<rows, sweep, gate, clock, historyVars, decisions, faults>>

(* reason: what status_reason begins with. *)
User == [status : {"active", "suspended", "banned", "deleted"},
         token_version : Nat, reason : {"none", "admin"} \cup DetectorNames]

(* A row that some detector counts; number tells apart those of one tick. *)
Events == [detector : DetectorNames, subject : Users \cup Origins \cup {Everyone},
           tick : Ticks, number : 1..MaxEvents]

(* A row of abuse_findings; detector, subject and window identify it. *)
Finding == [detector : DetectorNames, subject : Users \cup Origins \cup {Everyone},
            window : Ticks, severity : {"medium", "high"},
            action : {"flagged", "suspended"}, reviewed : BOOLEAN]

(* A row a detector has found, and how far a sweep is. *)
Found == [subject : Users \cup Origins \cup {Everyone}, severity : {"medium", "high"}]
Progress ==
    [at : {"idle", "querying", "handling", "suspending", "marking", "scoring", "upserting"},
     gated : BOOLEAN, now : Ticks, next : Turns, rows : SUBSET Found, row : Found,
     touched : SUBSET Users, scores : SUBSET [user : Users, score : 0..90]]

NoRow == [subject |-> Everyone, severity |-> "medium"]

Idle == [at |-> "idle", gated |-> FALSE, now |-> 0, next |-> Earliest(Turns), rows |-> {},
         row |-> NoRow, touched |-> {}, scores |-> {}]

At(s, step) == sweep[s].at = step
Detector(s) == Detectors[sweep[s].next]

TypeOK ==
    /\ user \in [Users -> User]
    /\ log \subseteq Events
    /\ findings \subseteq Finding
    /\ risk \in [Users -> -1..90]
    /\ sweep \in [Sweeps -> Progress]
    /\ \A s \in Sweeps : \A row \in sweep[s].rows : row.subject \in Subjects(Detector(s))
    /\ gate \in [sweeping : BOOLEAN, last : -Interval..LastTick]
    /\ clock \in Ticks
    /\ acted \subseteq [detector : DetectorNames, subject : Users, window : Ticks]
    /\ quiet \subseteq Users
    /\ decisions \in 0..MaxDecisions /\ faults \in 0..MaxFaults

Init ==
    /\ user = [u \in Users |-> [status |-> "active", token_version |-> 0, reason |-> "none"]]
    /\ log = {} /\ findings = {}
    /\ risk = [u \in Users |-> -1]
    /\ sweep = [s \in Sweeps |-> Idle]
    /\ gate = [sweeping |-> FALSE, last |-> -Interval]
    /\ clock = 0
    /\ acted = {} /\ quiet = {} /\ decisions = 0 /\ faults = 0

-----------------------------------------------------------------------------
(* A sweep goes on as r. *)
Proceed(s, r) == sweep' = [sweep EXCEPT ![s] = r]

(* A statement fails, or its answer is lost. *)
Fault == faults < MaxFaults /\ faults' = faults + 1

EventsOf(d, x) == {e \in log : e.detector = d /\ e.subject = x}

(* The events of x in the window of a sweep at now. The sessions' has no end,
   the others end before now. *)
Count(d, x, now) ==
    Cardinality({e \in EventsOf(d, x) : /\ e.tick >= now - Window
                                        /\ e.tick < now \/ d = "concurrent_session_origins"})

(* HAVING COUNT(..) >= threshold ORDER BY COUNT(..) DESC LIMIT. *)
Answers(d, now) ==
    LET found == {x \in Subjects(d) : Count(d, x, now) >= Threshold} IN
    {answer \in SUBSET found :
        /\ Cardinality(answer) = AtMost(Cardinality(found), MaxFindings)
        /\ \A x \in answer, y \in found \ answer : Count(d, x, now) >= Count(d, y, now)}

(* The volume of adjustments is never more than medium. *)
Severity(d, n) ==
    IF n >= High /\ d # "admin_adjustment_volume" THEN "high" ELSE "medium"

NeverAutoSuspend == {"registration_velocity", "reward_farming_origin"}

ShouldAutoSuspend(d, row) ==
    /\ Enabled
    /\ row.subject \in Users
    /\ d \notin NeverAutoSuspend
    /\ row.severity = "high"

(* The accounts to be scored after a finding. *)
Implicated(d, x) ==
    CASE d = "registration_velocity" -> {u \in Users : OriginOf[u] = x}
      [] d \in {"generation_velocity", "concurrent_session_origins"} -> {x}
      [] OTHER -> {}

Named(f, d, x, now) == f.detector = d /\ f.subject = x /\ f.window = now

(* revokeAllUserRefreshTokens: what the session detector counts is gone. *)
RevokeAll(u) == log' = log \ EventsOf("concurrent_session_origins", u)

-----------------------------------------------------------------------------
(* runSweep. *)
Start(s, gated) ==
    /\ At(s, "idle")
    /\ Proceed(s, [Idle EXCEPT !.at = "querying", !.gated = gated, !.now = clock])
    /\ UNCHANGED <<rows, clock, historyVars, decisions, faults>>

(* maybeSweep, with the flag set only once the sweep is under way. *)
MaybeSweepUnflagged(s) ==
    /\ ~gate.sweeping /\ clock - gate.last >= Interval
    /\ gate' = [gate EXCEPT !.last = clock]
    /\ Start(s, TRUE)

MaybeSweep(s) ==
    /\ ~gate.sweeping
    /\ clock - gate.last >= Interval
    /\ gate' = [sweeping |-> TRUE, last |-> clock]
    /\ Start(s, TRUE)

(* POST /api/admin/abuse/sweep: no gate. *)
RunSweepNow(s) == Start(s, FALSE) /\ UNCHANGED gate

(* On to the next detector, or to the scores. *)
NextDetector(s, touched) ==
    LET later == {i \in Turns : i > sweep[s].next}
        past == [sweep[s] EXCEPT !.rows = {}, !.row = NoRow, !.touched = touched] IN
    IF later # {} THEN Proceed(s, [past EXCEPT !.at = "querying", !.next = Earliest(later)])
    ELSE Proceed(s, [past EXCEPT !.at = "scoring"])

(* Whatever a detector throws ends it, and no other. *)
Aborted(s) ==
    /\ Fault
    /\ NextDetector(s, sweep[s].touched)
    /\ UNCHANGED <<rows, gate, clock, historyVars, decisions>>

Query(s) ==
    /\ At(s, "querying")
    /\ \E answer \in Answers(Detector(s), sweep[s].now) :
        IF answer = {} THEN NextDetector(s, sweep[s].touched)
        ELSE Proceed(s, [sweep[s] EXCEPT !.at = "handling",
                !.rows = {[subject |-> x,
                           severity |-> Severity(Detector(s), Count(Detector(s), x, sweep[s].now))]
                          : x \in answer}])
    /\ UNCHANGED <<rows, gate, clock, historyVars, decisions, faults>>

(* A row has been handled; the last one ends the detector. *)
Handled(s, row) ==
    LET touched == sweep[s].touched \cup Implicated(Detector(s), row.subject) IN
    IF sweep[s].rows = {row} THEN NextDetector(s, touched)
    ELSE Proceed(s, [sweep[s] EXCEPT !.at = "handling", !.rows = @ \ {row}, !.row = NoRow,
                                     !.touched = touched])

(* INSERT ... ON CONFLICT DO UPDATE, taking the new action in any case. *)
RecordedAnew(d, row, now) ==
    LET old == {f \in findings : Named(f, d, row.subject, now)} IN
    (findings \ old) \cup
        {[detector |-> d, subject |-> row.subject, window |-> now, severity |-> row.severity,
          action |-> "flagged", reviewed |-> \E f \in old : f.reviewed]}

(* record: an action once recorded is not downgraded. *)
Recorded(d, row, now) ==
    LET old == {f \in findings : Named(f, d, row.subject, now)} IN
    (findings \ old) \cup
        {[detector |-> d, subject |-> row.subject, window |-> now, severity |-> row.severity,
          action |-> IF \E f \in old : f.action = "suspended" THEN "suspended" ELSE "flagged",
          reviewed |-> \E f \in old : f.reviewed]}

(* handleFinding, to its first await and past its decision. *)
Record(s) ==
    /\ At(s, "handling")
    /\ \E row \in sweep[s].rows :
        /\ findings' = Recorded(Detector(s), row, sweep[s].now)
        /\ IF ShouldAutoSuspend(Detector(s), row)
           THEN Proceed(s, [sweep[s] EXCEPT !.at = "suspending", !.row = row])
           ELSE Handled(s, row)
    /\ UNCHANGED <<user, log, risk, gate, clock, historyVars, decisions, faults>>

(* The transaction of autoSuspend. *)
Suspended(u, d) == [status |-> "suspended", token_version |-> user[u].token_version + 1, reason |-> d]

(* UPDATE public.users without AND status = 'active'. *)
MaySuspendAny(u) == TRUE
MaySuspend(u) == user[u].status = "active"

SuspendRow(s) ==
    LET u == sweep[s].row.subject IN
    /\ MaySuspend(u)
    /\ user' = [user EXCEPT ![u] = Suspended(u, Detector(s))]
    /\ RevokeAll(u)
    /\ acted' = acted \cup {[detector |-> Detector(s), subject |-> u, window |-> sweep[s].now]}

AutoSuspend(s) ==
    /\ At(s, "suspending") /\ SuspendRow(s)
    /\ Proceed(s, [sweep[s] EXCEPT !.at = "marking"])
    /\ UNCHANGED <<findings, risk, gate, clock, quiet, decisions, faults>>

(* No such user, or not active. *)
AutoSuspendRefused(s) ==
    /\ At(s, "suspending") /\ ~MaySuspend(sweep[s].row.subject)
    /\ Handled(s, sweep[s].row)
    /\ UNCHANGED <<rows, gate, clock, historyVars, decisions, faults>>

(* A statement fails: rolled back, or committed and its answer lost.  Either
   way autoSuspend says it did not suspend. *)
AutoSuspendFails(s) ==
    /\ At(s, "suspending") /\ Fault
    /\ \/ UNCHANGED <<user, log, acted>>
       \/ SuspendRow(s)
    /\ Handled(s, sweep[s].row)
    /\ UNCHANGED <<findings, risk, gate, clock, quiet, decisions>>

(* setAction. *)
Mark(s) ==
    findings' = {[f EXCEPT !.action =
                    IF Named(f, Detector(s), sweep[s].row.subject, sweep[s].now)
                    THEN "suspended" ELSE @] : f \in findings}

SetAction(s) ==
    /\ At(s, "marking") /\ Mark(s)
    /\ Handled(s, sweep[s].row)
    /\ UNCHANGED <<user, log, risk, gate, clock, historyVars, decisions, faults>>

(* The query, record, pool.connect() or setAction throws. *)
DetectorFails(s) ==
    /\ \E step \in {"querying", "handling", "suspending", "marking"} : At(s, step)
    /\ Aborted(s)

(* riskSignalsForUsers.  The accounts are new, and those of an origin may all
   have claimed the rewards counted for it. *)
SignalsOf(u) ==
    [originSiblings : {Cardinality({v \in Users : OriginOf[v] = OriginOf[u]})},
     emailVerified : {TRUE}, ageDays : {0},
     generations : {Cardinality(EventsOf("generation_velocity", u))},
     rewards : {Cardinality(EventsOf("reward_farming_origin", OriginOf[u]))},
     active : {user[u].status = "active"}]

(* The sweep is over, its flag down (finally). *)
Finish(s) ==
    /\ Proceed(s, Idle)
    /\ gate' = IF sweep[s].gated THEN [gate EXCEPT !.sweeping = FALSE] ELSE gate

Score(s) ==
    /\ At(s, "scoring")
    /\ IF sweep[s].touched = {} THEN Finish(s)
       ELSE /\ UNCHANGED gate
            /\ \E T \in SUBSET sweep[s].touched :
                /\ Cardinality(T) = AtMost(Cardinality(sweep[s].touched), MaxFindings)
                /\ Proceed(s, [sweep[s] EXCEPT !.at = "upserting", !.scores =
                        UNION {{[user |-> u, score |-> ScoreAccount(g)] : g \in SignalsOf(u)} : u \in T}])
    /\ UNCHANGED <<rows, clock, historyVars, decisions, faults>>

UpsertRiskScore(s) ==
    /\ At(s, "upserting")
    /\ \E r \in sweep[s].scores :
        /\ risk' = [risk EXCEPT ![r.user] = r.score]
        /\ IF sweep[s].scores = {r} THEN Finish(s)
           ELSE Proceed(s, [sweep[s] EXCEPT !.scores = @ \ {r}]) /\ UNCHANGED gate
    /\ UNCHANGED <<user, log, findings, clock, historyVars, decisions, faults>>

ScoringFails(s) ==
    /\ At(s, "scoring") \/ At(s, "upserting")
    /\ Fault /\ Finish(s)
    /\ UNCHANGED <<rows, clock, historyVars, decisions>>

-----------------------------------------------------------------------------
(* What the detectors count happens: only to active accounts, where it is
   something an account does. *)
Event(d, x) ==
    /\ d \in Watched
    /\ x \in Users => user[x].status = "active"
    /\ Cardinality(log) < MaxEvents
    /\ log' = log \cup {[detector |-> d, subject |-> x, tick |-> clock,
                         number |-> Cardinality({e \in EventsOf(d, x) : e.tick = clock}) + 1]}
    /\ quiet' = quiet \ {u \in Users : x \in {u, OriginOf[u]}}
    /\ UNCHANGED <<user, findings, risk, sweep, gate, clock, acted, decisions, faults>>

Decide == decisions < MaxDecisions /\ decisions' = decisions + 1

(* setUserStatus. *)
SetUserStatus(u, status) ==
    /\ Decide
    /\ user' = [user EXCEPT ![u] =
            [status |-> status, token_version |-> @.token_version + 1,
             reason |-> IF status = "active" THEN "none" ELSE "admin"]]
    /\ RevokeAll(u)
    /\ quiet' = IF status = "active" /\ user[u].reason \in DetectorNames
                THEN quiet \cup {u} ELSE quiet \ {u}
    /\ UNCHANGED <<findings, risk, sweep, gate, clock, acted, faults>>

ReviewFinding(f) ==
    /\ Decide
    /\ findings' = (findings \ {f}) \cup {[f EXCEPT !.reviewed = TRUE]}
    /\ UNCHANGED <<user, log, risk, sweep, gate, clock, historyVars, faults>>

Tick ==
    /\ clock < LastTick /\ clock' = clock + 1
    /\ UNCHANGED <<rows, sweep, gate, historyVars, decisions, faults>>

(* The process dies and is started again. *)
Crash ==
    /\ Fault
    /\ \E s \in Sweeps : ~At(s, "idle")
    /\ sweep' = [s \in Sweeps |-> Idle]
    /\ gate' = [sweeping |-> FALSE, last |-> -Interval]
    /\ UNCHANGED <<rows, clock, historyVars, decisions>>

(* No request comes in. *)
Rest == (\A s \in Sweeps : At(s, "idle")) /\ UNCHANGED vars

Step(s) ==
    \/ Query(s)
    \/ Record(s)
    \/ AutoSuspend(s)
    \/ AutoSuspendRefused(s)
    \/ SetAction(s)
    \/ Score(s)
    \/ UpsertRiskScore(s)

Next ==
    \/ \E s \in Sweeps :
        \/ MaybeSweep(s)
        \/ RunSweepNow(s)
        \/ Step(s)
        \/ AutoSuspendFails(s)
        \/ DetectorFails(s)
        \/ ScoringFails(s)
    \/ \E d \in Watched : \E x \in Subjects(d) : Event(d, x)
    \/ \E u \in Users, status \in Verdicts : SetUserStatus(u, status)
    \/ \E f \in findings : ReviewFinding(f)
    \/ Tick
    \/ Crash
    \/ Rest

Spec == Init /\ [][Next]_vars

-----------------------------------------------------------------------------
(* What the system did to an account is on file: every automatic suspension
   rests on a recorded finding, which says "suspended" unless the sweep is
   about to write that or a fault cut it short; and no finding says so of a
   suspension that did not happen, whatever sweeps overlap
   (handleFinding, record, setAction). *)
SuspensionsAreOnFile ==
    /\ \A a \in acted : \E f \in findings :
        /\ Named(f, a.detector, a.subject, a.window)
        /\ \/ f.action = "suspended"
           \/ faults > 0
           \/ \E s \in Sweeps : /\ At(s, "marking") /\ sweep[s].row.subject = a.subject
                                /\ Detector(s) = a.detector /\ sweep[s].now = a.window
    /\ \A f \in findings : f.action = "suspended" =>
        [detector |-> f.detector, subject |-> f.subject, window |-> f.window] \in acted

(* A sweep leaves alone whoever is not active: it neither turns a ban into a
   suspension nor ends sessions twice for one finding; and what it writes to
   an account ends its tokens (autoSuspend). *)
SweepsRespectStatus ==
    [][\A u \in Users :
        /\ user[u].status # "active" /\ decisions' = decisions => user'[u] = user[u]
        /\ user'[u].status # user[u].status =>
              user'[u].token_version = user[u].token_version + 1]_vars

(* One opportunistic sweep at a time, and the flag says whether there is one:
   a flag left up by a sweep that failed would stop detection for good, one
   that came down early would let every request start a sweep (maybeSweep). *)
GateHolds ==
    /\ \A s, t \in Sweeps : sweep[s].gated /\ sweep[t].gated => s = t
    /\ gate.sweeping <=> \E s \in Sweeps : sweep[s].gated

(* The types, and a gate that is neither stuck nor open to two. *)
StateOK == TypeOK /\ GateHolds

(* An account that a sweep suspended and an administrator reinstated, and that
   has done nothing since, is not suspended by a sweep again: "a repeated
   sweep ... would pointlessly invalidate the sessions of a user an admin had
   just reinstated" (autoSuspend). *)
ReinstatementStands == \A u \in quiet : user[u].status = "active"
=============================================================================
