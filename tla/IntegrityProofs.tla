--------------------------- MODULE IntegrityProofs ----------------------------
(***************************************************************************)
(* Theorems about IntegrityPolicy and Integrity.                           *)
(***************************************************************************)
EXTENDS Integrity, FiniteSetTheorems, TLAPS

(* The weakest of three actions is one of them and not above any of them. *)
LEMMA WeakestOfThree ==
    ASSUME NEW a \in Actions, NEW b \in Actions, NEW c \in Actions
    PROVE  /\ Weakest({a, b, c}) \in {a, b, c}
           /\ \A x \in {a, b, c} : Severity[Weakest({a, b, c})] <= Severity[x]
<1>1. \E w \in {a, b, c} : \A x \in {a, b, c} : Severity[w] <= Severity[x]
    <2>1. Severity[a] \in Nat /\ Severity[b] \in Nat /\ Severity[c] \in Nat
        BY DEF Severity, Actions
    <2> QED BY <2>1
<1> QED BY <1>1 DEF Weakest

(* What the tables give is an action. *)
LEMMA TablesGiveActions ==
    ASSUME NEW state \in States, NEW endpoint
    PROVE  {Deserved(state), EndpointCeiling(endpoint), GlobalCeiling} \subseteq Actions
<1>1. {"log", "soft_fail", "hard_fail"} \subseteq Actions
    BY DEF Actions, Severity
<1>2. Deserved(state) \in {"log", "soft_fail", "hard_fail"}
    BY DEF Deserved, States
<1>3. EndpointCeiling(endpoint) \in {"log", "hard_fail"}
    BY DEF EndpointCeiling
<1>4. GlobalCeiling \in {"log", "hard_fail"}
    BY DEF GlobalCeiling
<1> QED BY <1>1, <1>2, <1>3, <1>4

(* "No combination of tables can ever act more harshly than the global switch
   allows", nor than the endpoint's ceiling (resolveAction). *)
THEOREM ActionWithinCeilings ==
    ASSUME NEW state \in States, NEW endpoint
    PROVE  /\ Severity[ResolveAction(state, endpoint)] <= Severity[GlobalCeiling]
           /\ Severity[ResolveAction(state, endpoint)] <= Severity[EndpointCeiling(endpoint)]
BY WeakestOfThree, TablesGiveActions DEF ResolveAction

(* Every annotation is interpreted as one of the states. *)
LEMMA EffectiveIsState ==
    ASSUME NEW status \in Statuses, NEW payload \in Payload
    PROVE  Effective(status, payload) \in States
<1>1. CASE status # "OK"
    BY <1>1 DEF Effective, Assess, Statuses, StatusState, States
<1>2. CASE status = "OK"
    <2>1. AppState[payload.app] \in {"RECOGNIZED", "MODIFIED", "UNEVALUATED", "UNKNOWN"}
        BY DEF Payload, AppState
    <2>2. DeviceState(payload.labels) \in
            {"STRONG", "CERTIFIED", "BASIC", "VIRTUAL", "COMPROMISED", "UNKNOWN"}
        <3>1. payload.labels \in SUBSET Labels
            BY DEF Payload
        <3>2. CASE payload.labels = {}
            BY <3>2 DEF DeviceState
        <3>3. CASE payload.labels # {}
            <4> DEFINE Best(l) == \A o \in payload.labels : Rank[o] <= Rank[l]
            <4>1. \A l \in Labels : Rank[l] \in 1..5
                BY DEF Labels, Rank
            <4>2. \E l \in payload.labels : Best(l)
                BY <3>1, <3>3, <4>1 DEF Labels, Rank
            <4>3. (CHOOSE l \in payload.labels : Best(l)) \in Labels
                BY <4>2, <3>1
            <4>4. \A l \in Labels : Device[l] \in
                    {"STRONG", "CERTIFIED", "BASIC", "VIRTUAL", "UNKNOWN"}
                BY DEF Labels, Device
            <4> QED BY <3>3, <4>3, <4>4 DEF DeviceState
        <3> QED BY <3>2, <3>3
    <2>3. Combine(AppState[payload.app], DeviceState(payload.labels)) \in States
        BY <2>1, <2>2 DEF Combine, States
    <2> QED BY <1>2, <2>3 DEF Effective, Assess, States
<1> QED BY <1>1, <1>2

(* A request is refused only in a state that is its sender's doing: the two
   tables, ATTRIBUTABLE_TO_CALLER and STATE_ACTIONS, agree. *)
THEOREM OnlyAttributableBlocked ==
    ASSUME NEW status \in Statuses, NEW payload \in Payload, NEW endpoint,
           ResolveAction(Effective(status, payload), endpoint) = "hard_fail"
    PROVE  Effective(status, payload) \in Attributable
<1> DEFINE state == Effective(status, payload)
<1>1. state \in States
    BY EffectiveIsState
<1>2. Severity["hard_fail"] <= Severity[Deserved(state)]
    BY <1>1, WeakestOfThree, TablesGiveActions DEF ResolveAction
<1>3. Deserved(state) = "hard_fail"
    BY <1>1, <1>2 DEF Deserved, States, Severity
<1> QED BY <1>1, <1>3 DEF Deserved, States, Attributable

(* With the switch at "off" or "log" nothing but logging happens. *)
THEOREM NothingUnlessEnforced ==
    ASSUME NEW state \in States, NEW endpoint, Enforcement # "enforce"
    PROVE  ResolveAction(state, endpoint) = "log"
<1>1. Severity[ResolveAction(state, endpoint)] <= Severity["log"]
    BY ActionWithinCeilings DEF GlobalCeiling
<1>2. ResolveAction(state, endpoint) \in Actions
    BY WeakestOfThree, TablesGiveActions DEF ResolveAction
<1> QED BY <1>1, <1>2 DEF Severity, Actions

-----------------------------------------------------------------------------
(* The part of the types that the map of resolutions is read with. *)
InFlightTypes ==
    /\ pc \in [Requests -> {"idle", "annotated", "dead"} \cup Live]
    /\ req \in [Requests -> Kinds]
    /\ inFlight \in [Processes \X Tokens -> Requests \cup {NoRequest}]

(* It is inductive by itself: no other variable decides who resolves. *)
InFlightInv == InFlightTypes /\ InFlightIsExact

LEMMA SlotsAreSlots ==
    ASSUME InFlightTypes, NEW r \in Requests
    PROVE  Slot(r) \in Processes \X Tokens /\ Slot(r)[1] = req[r].process
BY KindsAssumption DEF InFlightTypes, Slot, Token

(* The promise of r settles, whatever its outcome. *)
LEMMA SettlingKeepsInFlightInv ==
    ASSUME InFlightInv, NEW r \in Requests, NEW o, pc[r] \in Resolving, Settle(r, o)
    PROVE  InFlightInv'
<1> USE DEF InFlightInv
<1>1. \A s \in Requests : Slot(s) \in Processes \X Tokens /\ Slot(s)' = Slot(s)
    BY SlotsAreSlots DEF Settle, Slot, Token
<1>2. \A s \in Requests : pc'[s] = IF s \in Sharing(r) THEN "annotated" ELSE pc[s]
    BY DEF Settle
<1>3. \A s \in Processes \X Tokens :
        inFlight'[s] = IF s = Slot(r) THEN NoRequest ELSE inFlight[s]
    BY <1>1 DEF Settle, InFlightTypes
<1>4. InFlightTypes'
    BY <1>1 DEF Settle, InFlightTypes
<1>5. \A s \in Processes \X Tokens : (inFlight[s] # NoRequest => 
            pc[inFlight[s]] \in Resolving /\ Slot(inFlight[s]) = s /\ inFlight[s] \in Requests)
    BY DEF InFlightIsExact, InFlightTypes
<1>6. "annotated" \notin Resolving /\ "joined" \notin Resolving
    BY DEF Resolving, Holding
<1>7. ASSUME NEW s \in Processes \X Tokens, inFlight'[s] # NoRequest
      PROVE  \E q \in Requests : inFlight'[s] = q /\ pc'[q] \in Resolving /\ Slot(q)' = s
    <2>1. s # Slot(r) /\ inFlight'[s] = inFlight[s]
        BY <1>3, <1>7
    <2>2. inFlight[s] \in Requests /\ pc[inFlight[s]] \in Resolving /\ Slot(inFlight[s]) = s
        BY <1>5, <1>7, <2>1
    <2>3. inFlight[s] \notin Sharing(r)
        BY <2>1, <2>2, <1>6 DEF Sharing
    <2>4. PICK q \in Requests : q = inFlight[s]
        BY <2>2
    <2> QED BY <1>1, <1>2, <2>1, <2>2, <2>3, <2>4
<1>8. ASSUME NEW s \in Requests
      PROVE  /\ pc'[s] \in Resolving => inFlight'[Slot(s)'] = s
             /\ pc'[s] = "joined" => inFlight'[Slot(s)'] # NoRequest
    <2>1. CASE s \in Sharing(r)
        BY <2>1, <1>2, <1>6
    <2>2. CASE s \notin Sharing(r)
        <3>1. pc'[s] = pc[s] /\ s # r
            BY <2>2, <1>2 DEF Sharing
        <3>2. pc[s] \in Resolving => Slot(s) # Slot(r)
            BY <3>1 DEF InFlightIsExact
        <3>3. pc[s] = "joined" => Slot(s) # Slot(r)
            BY <2>2 DEF Sharing
        <3> QED BY <1>1, <1>3, <3>1, <3>2, <3>3 DEF InFlightIsExact
    <2> QED BY <2>1, <2>2
<1>9. InFlightIsExact'
    BY <1>7, <1>8 DEF InFlightIsExact
<1> QED BY <1>4, <1>9

(* r goes on resolving. *)
LEMMA ResolvingKeepsInFlightInv ==
    ASSUME InFlightInv, NEW r \in Requests, pc[r] \in Resolving,
           NEW l \in Resolving, Goto(r, l), UNCHANGED <<req, inFlight>>
    PROVE  InFlightInv'
<1>1. \A s \in Requests : Slot(s)' = Slot(s)
    BY DEF Slot, Token
<1>2. \A s \in Requests : pc'[s] = IF s = r THEN l ELSE pc[s]
    BY DEF Goto, InFlightInv, InFlightTypes
<1>3. InFlightTypes'
    BY DEF Goto, InFlightInv, InFlightTypes, Live
<1>4. "joined" \notin Resolving
    BY DEF Resolving, Holding
<1>5. ASSUME NEW s \in Processes \X Tokens, inFlight[s] # NoRequest
      PROVE  inFlight[s] \in Requests /\ pc'[inFlight[s]] \in Resolving /\ Slot(inFlight[s]) = s
    BY <1>2, <1>5 DEF InFlightInv, InFlightIsExact, InFlightTypes
<1>6. ASSUME NEW s \in Requests
      PROVE  /\ pc'[s] \in Resolving => inFlight[Slot(s)] = s
             /\ pc'[s] = "joined" => inFlight[Slot(s)] # NoRequest
    BY <1>2, <1>4 DEF InFlightInv, InFlightIsExact
<1>7. InFlightIsExact'
    BY <1>1, <1>5, <1>6 DEF InFlightIsExact
<1> QED BY <1>3, <1>7 DEF InFlightInv

LEMMA NothingInFlightChanges ==
    ASSUME InFlightInv, UNCHANGED <<pc, req, inFlight>>
    PROVE  InFlightInv'
BY DEF InFlightInv, InFlightTypes, InFlightIsExact, Slot, Token

LEMMA ArrivingKeepsInFlightInv ==
    ASSUME InFlightInv, NEW r \in Requests, NEW k \in Kinds, Arrive(r, k)
    PROVE  InFlightInv'
<1> DEFINE slot == <<k.process, k.token>>
<1>1. pc[r] = "idle" /\ req' = [req EXCEPT ![r] = k]
    BY DEF Arrive
<1>2. slot \in Processes \X Tokens
    BY KindsAssumption
<1>3. /\ \A s \in Requests \ {r} : Slot(s)' = Slot(s)
      /\ Slot(r)' = slot
    BY <1>1 DEF InFlightInv, InFlightTypes, Slot, Token
<1>4. \A s \in Requests : Slot(s) \in Processes \X Tokens
    BY SlotsAreSlots DEF InFlightInv
<1>5. /\ "idle" \notin Resolving /\ "joined" \notin Resolving /\ "reading" \in Resolving
      /\ NoRequest \notin Requests
    BY NoRequestAssumption DEF Resolving, Holding
<1>6. \A s \in Processes \X Tokens : inFlight[s] # NoRequest =>
            /\ inFlight[s] \in Requests \ {r} /\ pc[inFlight[s]] \in Resolving
            /\ Slot(inFlight[s]) = s
    BY <1>1, <1>5 DEF InFlightInv, InFlightIsExact, InFlightTypes
<1>7. CASE inFlight[slot] = NoRequest
    <2>1. pc' = [pc EXCEPT ![r] = "reading"] /\ inFlight' = [inFlight EXCEPT ![slot] = r]
        BY <1>7 DEF Arrive, Goto
    <2>2. InFlightTypes'
        BY <1>1, <1>2, <2>1 DEF InFlightInv, InFlightTypes, Live, Resolving
    <2>3. \A s \in Requests : pc'[s] = IF s = r THEN "reading" ELSE pc[s]
        BY <2>1 DEF InFlightInv, InFlightTypes
    <2>4. \A s \in Processes \X Tokens : inFlight'[s] = IF s = slot THEN r ELSE inFlight[s]
        BY <2>1, <1>2 DEF InFlightInv, InFlightTypes
    <2>5. ASSUME NEW s \in Processes \X Tokens, inFlight'[s] # NoRequest
          PROVE  \E q \in Requests : inFlight'[s] = q /\ pc'[q] \in Resolving /\ Slot(q)' = s
        <3>1. CASE s = slot
            BY <3>1, <2>3, <2>4, <1>3, <1>5
        <3>2. CASE s # slot
            <4>1. inFlight'[s] = inFlight[s] /\ inFlight[s] \in Requests \ {r}
                BY <3>2, <2>4, <2>5, <1>6
            <4>2. PICK q \in Requests : q = inFlight[s]
                BY <4>1
            <4> QED BY <4>1, <4>2, <2>3, <2>5, <1>3, <1>6
        <3> QED BY <3>1, <3>2
    <2>6. ASSUME NEW s \in Requests
          PROVE  /\ pc'[s] \in Resolving => inFlight'[Slot(s)'] = s
                 /\ pc'[s] = "joined" => inFlight'[Slot(s)'] # NoRequest
        <3>1. CASE s = r
            BY <3>1, <2>3, <2>4, <1>2, <1>3, <1>5
        <3>2. CASE s # r
            BY <3>2, <1>7, <2>3, <2>4, <1>3, <1>4, <1>5
               DEF InFlightInv, InFlightIsExact
        <3> QED BY <3>1, <3>2
    <2>7. InFlightIsExact'
        BY <2>5, <2>6 DEF InFlightIsExact
    <2> QED BY <2>2, <2>7 DEF InFlightInv
<1>8. CASE inFlight[slot] # NoRequest
    <2>1. pc' = [pc EXCEPT ![r] = "joined"] /\ inFlight' = inFlight
        BY <1>8 DEF Arrive, Goto
    <2>2. InFlightTypes'
        BY <1>1, <2>1 DEF InFlightInv, InFlightTypes, Live
    <2>3. \A s \in Requests : pc'[s] = IF s = r THEN "joined" ELSE pc[s]
        BY <2>1 DEF InFlightInv, InFlightTypes
    <2>4. ASSUME NEW s \in Processes \X Tokens, inFlight'[s] # NoRequest
          PROVE  \E q \in Requests : inFlight'[s] = q /\ pc'[q] \in Resolving /\ Slot(q)' = s
        BY <2>1, <2>3, <2>4, <1>3, <1>6
    <2>5. ASSUME NEW s \in Requests
          PROVE  /\ pc'[s] \in Resolving => inFlight[Slot(s)'] = s
                 /\ pc'[s] = "joined" => inFlight[Slot(s)'] # NoRequest
        BY <1>8, <2>3, <1>3, <1>5 DEF InFlightInv, InFlightIsExact
    <2>6. InFlightIsExact'
        BY <2>1, <2>4, <2>5 DEF InFlightIsExact
    <2> QED BY <2>2, <2>6 DEF InFlightInv
<1> QED BY <1>7, <1>8

LEMMA CrashingKeepsInFlightInv ==
    ASSUME InFlightInv, NEW p \in Processes, Crash(p)
    PROVE  InFlightInv'
<1> DEFINE mine == {r \in Requests : req[r].process = p /\ pc[r] \in Live}
<1>1. \A r \in Requests : Slot(r)' = Slot(r)
    BY DEF Crash, Slot, Token
<1>2. \A r \in Requests : Slot(r) \in Processes \X Tokens /\ Slot(r)[1] = req[r].process
    BY SlotsAreSlots DEF InFlightInv
<1>3. \A r \in Requests : pc'[r] = IF r \in mine THEN "dead" ELSE pc[r]
    BY DEF Crash
<1>4. \A s \in Processes \X Tokens :
        inFlight'[s] = IF s[1] = p THEN NoRequest ELSE inFlight[s]
    BY DEF Crash
<1>5. "dead" \notin Resolving /\ Resolving \subseteq Live /\ "joined" \in Live
    BY DEF Resolving, Holding, Live
<1>6. InFlightTypes'
    BY DEF Crash, InFlightInv, InFlightTypes
<1>7. ASSUME NEW s \in Processes \X Tokens, inFlight'[s] # NoRequest
      PROVE  \E q \in Requests : inFlight'[s] = q /\ pc'[q] \in Resolving /\ Slot(q)' = s
    <2>1. s[1] # p /\ inFlight'[s] = inFlight[s]
        BY <1>4, <1>7
    <2>2. inFlight[s] \in Requests /\ pc[inFlight[s]] \in Resolving /\ Slot(inFlight[s]) = s
        BY <1>7, <2>1 DEF InFlightInv, InFlightIsExact, InFlightTypes
    <2>3. inFlight[s] \notin mine
        BY <1>2, <2>1, <2>2
    <2>4. PICK q \in Requests : q = inFlight[s]
        BY <2>2
    <2> QED BY <1>1, <1>3, <2>1, <2>2, <2>3, <2>4
<1>8. ASSUME NEW r \in Requests
      PROVE  /\ pc'[r] \in Resolving => inFlight'[Slot(r)'] = r
             /\ pc'[r] = "joined" => inFlight'[Slot(r)'] # NoRequest
    <2>1. CASE r \in mine
        BY <2>1, <1>3, <1>5
    <2>2. CASE r \notin mine /\ pc[r] \in Live
        BY <2>2, <1>1, <1>2, <1>3, <1>4 DEF InFlightInv, InFlightIsExact
    <2>3. CASE r \notin mine /\ pc[r] \notin Live
        BY <2>3, <1>3, <1>5
    <2> QED BY <2>1, <2>2, <2>3
<1>9. InFlightIsExact'
    BY <1>7, <1>8 DEF InFlightIsExact
<1> QED BY <1>6, <1>9 DEF InFlightInv
LEMMA StepKeepsInFlightInv == InFlightInv /\ [Next]_vars => InFlightInv'
<1> SUFFICES ASSUME InFlightInv, [Next]_vars PROVE InFlightInv'
    OBVIOUS
<1> USE DEF requestVars, processVars
<1>1. /\ {"reading", "claiming", "recovering", "polling"} \subseteq Resolving
      /\ {"claimed", "decoding", "completing"} \subseteq Resolving
    BY DEF Resolving, Holding
<1>2. ASSUME NEW r \in Requests, NEW k \in Kinds, Arrive(r, k) PROVE InFlightInv'
    BY <1>2, ArrivingKeepsInFlightInv
<1>3. ASSUME NEW r \in Requests, Step(r) PROVE InFlightInv'
    <2>1. CASE \/ ReadUndone(r) \/ ClaimRefused(r) \/ RecoverRefused(r)
               \/ Claim(r) \/ Recover(r) \/ StartDecode(r)
        <3>1. /\ pc[r] \in Resolving /\ UNCHANGED <<req, inFlight>>
              /\ \E l \in Resolving : Goto(r, l)
            BY <2>1, <1>1 DEF ReadUndone, ClaimRefused, RecoverRefused, Claim, Recover,
                              StartDecode, Proceed
        <3> QED BY <3>1, ResolvingKeepsInFlightInv
    <2>2. CASE Decode(r) \/ Reject(r)
        <3>1. pc[r] \in Resolving /\ UNCHANGED <<req, inFlight>> /\ Goto(r, "completing")
            BY <2>2, <1>1 DEF Decode, Reject, Returned
        <3> QED BY <3>1, <1>1, ResolvingKeepsInFlightInv
    <2>3. CASE PollAgain(r)
        BY <2>3, NothingInFlightChanges DEF PollAgain
    <2>4. CASE ReadDone(r)
        BY <2>4, <1>1, SettlingKeepsInFlightInv DEF ReadDone
    <2>5. CASE PollDone(r) \/ GiveUp(r) \/ OverBudget(r) \/ Complete(r)
        <3>1. pc[r] \in Resolving /\ \E o : Settle(r, o)
            BY <2>5, <1>1 DEF PollDone, GiveUp, OverBudget, Complete
        <3> QED BY <3>1, SettlingKeepsInFlightInv
    <2> QED BY <1>3, <2>1, <2>2, <2>3, <2>4, <2>5 DEF Step
<1>4. ASSUME NEW r \in Requests, Fails(r) PROVE InFlightInv'
    <2>1. CASE DecodeFails(r)
        <3>1. pc[r] \in Resolving /\ UNCHANGED <<req, inFlight>> /\ Goto(r, "completing")
            BY <2>1, <1>1 DEF DecodeFails, Returned
        <3> QED BY <3>1, <1>1, ResolvingKeepsInFlightInv
    <2>2. CASE ReadFails(r) \/ ClaimFails(r) \/ ClaimNotMade(r) \/ CompleteFails(r)
        <3>1. pc[r] \in Resolving /\ Settle(r, "unavailable")
            BY <2>2, <1>1 DEF ReadFails, ClaimFails, ClaimNotMade, CompleteFails
        <3> QED BY <3>1, SettlingKeepsInFlightInv
    <2> QED BY <1>4, <2>1, <2>2 DEF Fails
<1>5. ASSUME NEW p \in Processes, DropVerdicts(p) \/ DeleteRows(p) \/ SweepFails(p)
      PROVE  InFlightInv'
    BY <1>5, NothingInFlightChanges DEF DropVerdicts, DeleteRows, SweepFails
<1>6. ASSUME NEW p \in Processes, Crash(p) PROVE InFlightInv'
    BY <1>6, CrashingKeepsInFlightInv
<1>7. ASSUME NEW t \in Tokens,
             ClaimOverdue(t) \/ TokenAges(t) \/ VerdictLapses(t) \/ RowAges(t)
      PROVE  InFlightInv'
    BY <1>7, NothingInFlightChanges DEF ClaimOverdue, TokenAges, VerdictLapses, RowAges, Lapse
<1>8. ASSUME NEW b \in Processes \X Users, WindowPasses(b) PROVE InFlightInv'
    BY <1>8, NothingInFlightChanges DEF WindowPasses, Lapse
<1>9. CASE Done \/ UNCHANGED vars
    BY <1>9, NothingInFlightChanges DEF Done, vars
<1> QED BY <1>2, <1>3, <1>4, <1>5, <1>6, <1>7, <1>8, <1>9 DEF Next

(* For any number of requests, processes and tokens: a token is resolved by one
   request of a process at a time, the map says by which, and whoever joined has
   somebody to wait for, through failures, crashes and sweeps. *)
THEOREM InFlightCorrect == Spec => []InFlightIsExact
<1>1. Init => InFlightInv
    <2> SUFFICES ASSUME Init PROVE InFlightInv
        OBVIOUS
    <2>1. ASSUME NEW r \in Requests PROVE pc[r] = "idle"
        BY DEF Init
    <2>2. "idle" \notin Resolving
        BY DEF Resolving, Holding
    <2>3. InFlightIsExact
        <3>1. \A s \in Processes \X Tokens : inFlight[s] = NoRequest
            BY DEF Init
        <3> QED BY <2>1, <2>2, <3>1 DEF InFlightIsExact
    <2>4. InFlightTypes
        BY KindsNotEmpty DEF Init, InFlightTypes
    <2> QED BY <2>3, <2>4 DEF InFlightInv
<1>2. InFlightInv => InFlightIsExact
    BY DEF InFlightInv
<1> QED BY <1>1, <1>2, StepKeepsInFlightInv, PTL DEF Spec

-----------------------------------------------------------------------------
(* The ledger. What is counted: a claim that has not been decoded, and a row
   that may still be claimed without a takeover, are decodes to come. *)
Pending(t) == {r \in Requests : pc[r] \in {"claimed", "decoding"} /\ Token(r) = t}
Unclaimed(t) == IF row[t].status = "absent" THEN 1 ELSE 0

DecodesAreCounted ==
    \A t \in Tokens :
        /\ decodes[t] + Cardinality(Pending(t)) + Unclaimed(t) <= 1 + takeovers[t]
        /\ takeovers[t] > 0 => t \in troubled

(* What an outcome, d, says of its token, t, for ever. *)
Backed(d, t) ==
    /\ d = "intact" => decodes[t] > 0
    /\ d = "cleared" => decodes[t] > 1
    /\ d = "failed" => t \in rejected
    /\ d = "unavailable" => t \in troubled

RequestsAreBacked ==
    \A r \in Requests :
        /\ Backed(decoded[r], Token(r))
        /\ pc[r] = "idle" => decoded[r] = "none" /\ annotation[r] = "none"
        /\ pc[r] = "completing" => decoded[r] \in Results

\* What a row says of its token, and whose it was.
Presented(t, h) == \E s \in Requests : pc[s] # "idle" /\ Token(s) = t /\ req[s].hash = h

RowIsBacked(t) ==
    /\ Backed(row[t].verdict, t)
    /\ row[t].status = "done" /\ row[t].verdict = "none" => t \in aged \cup rejected \cup troubled
    /\ row[t].status = "done" /\ ~row[t].usable => t \in aged
    /\ row[t].status # "absent" => Presented(t, row[t].hash)

RowsAreBacked == \A t \in Tokens : RowIsBacked(t)

\* Why a request was found as it was.
Blaming == {"REPLAYED", "STALE", "REQUEST_MISMATCH", "PACKAGE_MISMATCH", "DECODE_FAILED"}
Explained(r, status) ==
    /\ status \in {"none", "OK", "DECODE_UNAVAILABLE"} \cup Blaming
    /\ status = "OK" => /\ decodes[Token(r)] > 0
                        /\ Phone[Token(r)].ourPackage
                        /\ Bound[Token(r)] = req[r].hash
    /\ status \in Blaming => SendersDoing(r) \/ Token(r) \in troubled

AnnotationsAreExplained == \A r \in Requests : Explained(r, annotation[r])

LedgerInv ==
    /\ InFlightInv /\ TypeOK /\ DecodingHasAnOwner
    /\ DecodesAreCounted /\ RequestsAreBacked /\ RowsAreBacked /\ AnnotationsAreExplained

-----------------------------------------------------------------------------
(* The types, in parts. *)
Row == [status : {"absent", "decoding", "done"}, verdict : {"none", "intact", "cleared"},
        hash : Hashes \cup {"none"}, usable : BOOLEAN, stale : BOOLEAN, old : BOOLEAN]

RequestTypes ==
    /\ pc \in [Requests -> {"idle", "annotated", "dead"} \cup Live]
    /\ req \in [Requests -> Kinds]
    /\ polls \in [Requests -> 0..PollAttempts]
    /\ decoded \in [Requests -> Results \cup {"none"}]
    /\ annotation \in [Requests -> Statuses \cup {"none"}]
RowTypes ==
    /\ row \in [Tokens -> Row]
    /\ \A t \in Tokens : row[t].verdict # "none" => row[t].status = "done"
ProcessTypes ==
    /\ inFlight \in [Processes \X Tokens -> Requests \cup {NoRequest}]
    /\ budget \in [Processes \X Users -> 0..DecodeLimit]
    /\ sweep \in [Processes -> {"due", "dropping", "deleting", "swept"}]
HistoryTypes ==
    /\ decodes \in [Tokens -> Nat]
    /\ aged \subseteq Tokens
    /\ holder \in [Tokens -> Requests \cup {NoRequest}]
    /\ orphaned \subseteq Tokens
    /\ takeovers \in [Tokens -> Nat]
    /\ rejected \subseteq Tokens /\ troubled \subseteq Tokens
    /\ accidents \in 0..MaxAccidents /\ lapses \in 0..MaxLapses

LEMMA TypeParts ==
    /\ TypeOK <=> RequestTypes /\ RowTypes /\ ProcessTypes /\ HistoryTypes
    /\ TypeOK' <=> RequestTypes' /\ RowTypes' /\ ProcessTypes' /\ HistoryTypes'
BY DEF TypeOK, RequestTypes, RowTypes, ProcessTypes, HistoryTypes, Row

LEMMA TokensAreTokens ==
    ASSUME RequestTypes, NEW r \in Requests
    PROVE  /\ Token(r) \in Tokens /\ Slot(r) \in Processes \X Tokens
           /\ BudgetOf(r) \in Processes \X Users /\ req[r].hash \in Hashes
           /\ Phone[Token(r)] \in Payload
BY KindsAssumption, PhoneAssumption
   DEF RequestTypes, Token, Slot, BudgetOf, Users, Hashes

Outcomes == Results \cup {"replayed"}

\* What a status says of the outcome it comes from.
LEMMA StatusMeans ==
    ASSUME NEW r \in Requests, NEW o \in Outcomes
    PROVE  /\ Status(r, o) \in Statuses /\ Status(r, o) \in {"OK", "DECODE_UNAVAILABLE"} \cup Blaming
           /\ Status(r, o) = "OK" =>
                o = "intact" /\ Phone[Token(r)].ourPackage /\ Bound[Token(r)] = req[r].hash
           /\ Status(r, o) = "STALE" => Token(r) \in aged
           /\ Status(r, o) = "REQUEST_MISMATCH" => Bound[Token(r)] # req[r].hash
           /\ Status(r, o) = "PACKAGE_MISMATCH" => ~Phone[Token(r)].ourPackage
           /\ Status(r, o) = "DECODE_FAILED" => o = "failed"
           /\ Status(r, o) = "REPLAYED" =>
                o \in {"replayed", "cleared"} \/ ~Phone[Token(r)].ourPackage
<1>1. CASE o \in {"replayed", "cleared"}
    BY <1>1 DEF Status, Statuses, StatusState, Blaming
<1>2. CASE o = "unavailable"
    BY <1>2 DEF Status, Statuses, StatusState, Blaming
<1>3. CASE o = "failed"
    BY <1>3 DEF Status, Statuses, StatusState, Blaming
<1>4. CASE o = "intact"
    <2>1. Status(r, o) =
            IF ~Phone[Token(r)].ourPackage
            THEN IF Phone[Token(r)].app = "UNEVALUATED" THEN "REPLAYED" ELSE "PACKAGE_MISMATCH"
            ELSE IF Bound[Token(r)] # req[r].hash THEN "REQUEST_MISMATCH"
            ELSE IF Token(r) \in aged THEN "STALE" ELSE "OK"
        BY <1>4 DEF Status
    <2> QED BY <1>4, <2>1 DEF Statuses, StatusState, Blaming
<1> QED BY <1>1, <1>2, <1>3, <1>4 DEF Outcomes, Results

\* What settling does to each request.
LEMMA SettleEffect ==
    ASSUME RequestTypes, ProcessTypes, NEW r \in Requests, NEW o \in Outcomes, Settle(r, o)
    PROVE  /\ RequestTypes' /\ ProcessTypes' /\ req' = req
           /\ \A s \in Requests :
                /\ pc'[s] = IF s \in Sharing(r) THEN "annotated" ELSE pc[s]
                /\ annotation'[s] = IF s \in Sharing(r) THEN Status(s, o) ELSE annotation[s]
                /\ decoded'[s] = IF s = r THEN "none" ELSE decoded[s]
           /\ \A s \in Sharing(r) :
                s \in Requests /\ Token(s) = Token(r) /\ (s = r \/ pc[s] = "joined")
<1>1. /\ req' = req /\ budget' = budget /\ sweep' = sweep
      /\ pc' = [s \in Requests |-> IF s \in Sharing(r) THEN "annotated" ELSE pc[s]]
      /\ annotation' = [s \in Requests |->
                          IF s \in Sharing(r) THEN Status(s, o) ELSE annotation[s]]
      /\ polls' = [polls EXCEPT ![r] = 0] /\ decoded' = [decoded EXCEPT ![r] = "none"]
      /\ inFlight' = [inFlight EXCEPT ![Slot(r)] = NoRequest]
    BY DEF Settle
<1>2. \A s \in Sharing(r) :
        s \in Requests /\ Token(s) = Token(r) /\ (s = r \/ pc[s] = "joined")
    BY DEF Sharing, Slot
<1>3. ProcessTypes'
    BY <1>1, TokensAreTokens DEF ProcessTypes
<1>4. annotation' \in [Requests -> Statuses \cup {"none"}]
    <2>1. \A s \in Requests : Status(s, o) \in Statuses
        BY StatusMeans
    <2> QED BY <1>1, <2>1 DEF RequestTypes
<1>5. pc' \in [Requests -> {"idle", "annotated", "dead"} \cup Live]
    BY <1>1 DEF RequestTypes
<1>6. RequestTypes'
    <2>1. polls' \in [Requests -> 0..PollAttempts]
        BY <1>1, LimitsAssumption DEF RequestTypes
    <2>2. decoded' \in [Requests -> Results \cup {"none"}]
        BY <1>1 DEF RequestTypes
    <2> QED BY <1>1, <1>4, <1>5, <2>1, <2>2 DEF RequestTypes
<1> QED BY <1>1, <1>2, <1>3, <1>6 DEF RequestTypes

\* r goes on.
LEMMA ProceedEffect ==
    ASSUME RequestTypes, NEW r \in Requests, NEW l \in Live, Proceed(r, l)
    PROVE  /\ RequestTypes' /\ UNCHANGED <<req, polls, decoded, annotation>>
           /\ pc' = [pc EXCEPT ![r] = l]
           /\ \A s \in Requests : pc'[s] = IF s = r THEN l ELSE pc[s]
BY DEF Proceed, Goto, RequestTypes

LEMMA ReturnedEffect ==
    ASSUME RequestTypes, NEW r \in Requests, NEW d \in Results, Returned(r, d)
    PROVE  /\ RequestTypes' /\ UNCHANGED <<req, annotation, row, holder, orphaned, aged, takeovers>>
           /\ UNCHANGED processVars /\ pc[r] = "decoding"
           /\ \A s \in Requests :
                /\ pc'[s] = IF s = r THEN "completing" ELSE pc[s]
                /\ decoded'[s] = IF s = r THEN d ELSE decoded[s]
<1>1. /\ pc' = [pc EXCEPT ![r] = "completing"] /\ decoded' = [decoded EXCEPT ![r] = d]
      /\ UNCHANGED <<req, polls, annotation>>
    BY DEF Returned, Goto
<1>2. "completing" \in Live
    BY DEF Live, Resolving, Holding
<1> QED BY <1>1, <1>2 DEF Returned, RequestTypes

\* The row of a token, claimed by r.
LEMMA TakeRowEffect ==
    ASSUME RequestTypes, RowTypes, HistoryTypes, NEW r \in Requests, TakeRow(r)
    PROVE  /\ RowTypes' /\ holder' \in [Tokens -> Requests \cup {NoRequest}]
           /\ holder'[Token(r)] = r
           /\ row'[Token(r)] = ClaimedFor(r)
           /\ ClaimedFor(r).status = "decoding" /\ ClaimedFor(r).verdict = "none"
           /\ ClaimedFor(r).hash = req[r].hash
           /\ \A t \in Tokens \ {Token(r)} : row'[t] = row[t] /\ holder'[t] = holder[t]
<1>1. Token(r) \in Tokens /\ req[r].hash \in Hashes
    BY TokensAreTokens
<1>2. NoRow \in Row /\ NoRow.verdict = "none"
    BY DEF NoRow, Row
<1>3. /\ ClaimedFor(r) \in Row
      /\ ClaimedFor(r).status = "decoding" /\ ClaimedFor(r).verdict = "none"
      /\ ClaimedFor(r).hash = req[r].hash
    BY <1>1, <1>2 DEF ClaimedFor, Row
<1>4. row' = [row EXCEPT ![Token(r)] = ClaimedFor(r)] /\ holder' = [holder EXCEPT ![Token(r)] = r]
    BY DEF TakeRow
<1>5. RowTypes'
    BY <1>1, <1>3, <1>4 DEF RowTypes
<1> QED BY <1>1, <1>3, <1>4, <1>5 DEF RowTypes, HistoryTypes

\* The row of a token, completed by r.
LEMMA CompletedEffect ==
    ASSUME RequestTypes, RowTypes, NEW r \in Requests, row' = Completed(r)
    PROVE  LET t == Token(r)
               v == IF decoded[r] \in {"intact", "cleared"} THEN decoded[r] ELSE "none"
           IN  /\ RowTypes'
               /\ \A u \in Tokens \ {t} : row'[u] = row[u]
               /\ row[t].status = "absent" => row'[t] = row[t]
               /\ row[t].status # "absent" =>
                    /\ row'[t].status = "done" /\ row'[t].usable /\ row'[t].verdict = v
                    /\ row'[t].hash = row[t].hash
<1> DEFINE t == Token(r)
           v == IF decoded[r] \in {"intact", "cleared"} THEN decoded[r] ELSE "none"
           c == [row[t] EXCEPT !.status = "done", !.usable = TRUE, !.verdict = v]
<1>1. t \in Tokens /\ row[t] \in Row /\ row \in [Tokens -> Row]
    BY TokensAreTokens DEF RowTypes
<1>2. row' = [row EXCEPT ![t] = IF row[t].status = "absent" THEN row[t] ELSE c]
    BY <1>1 DEF Completed
<1>3. v \in {"none", "intact", "cleared"}
    OBVIOUS
<1> HIDE DEF t, v
<1>4. /\ c \in Row /\ c.status = "done" /\ c.usable /\ c.verdict = v /\ c.hash = row[t].hash
    BY <1>1, <1>3 DEF Row
<1> HIDE DEF c
<1>5. row' \in [Tokens -> Row]
    BY <1>1, <1>2, <1>4
<1>6. /\ \A u \in Tokens \ {t} : row'[u] = row[u]
      /\ row'[t] = IF row[t].status = "absent" THEN row[t] ELSE c
    BY <1>1, <1>2
<1>7. RowTypes'
    BY <1>4, <1>5, <1>6 DEF RowTypes
<1> QED BY <1>4, <1>6, <1>7 DEF t, v

\* A window passes over a row: its claim and its verdict stay.
LEMMA WindowEffect ==
    ASSUME RowTypes, NEW t \in Tokens, ClaimOverdue(t) \/ VerdictLapses(t) \/ RowAges(t)
    PROVE  /\ RowTypes'
           /\ \A u \in Tokens :
                /\ row'[u].status = row[u].status /\ row'[u].verdict = row[u].verdict
                /\ row'[u].hash = row[u].hash
                /\ ~row'[u].usable => ~row[u].usable \/ u \in aged'
<1>1. row[t] \in Row /\ row \in [Tokens -> Row]
    BY DEF RowTypes
<1>2. \E c \in Row : /\ row' = [row EXCEPT ![t] = c]
                     /\ c.status = row[t].status /\ c.verdict = row[t].verdict
                     /\ c.hash = row[t].hash
                     /\ ~c.usable => ~row[t].usable \/ t \in aged'
    <2>1. CASE ClaimOverdue(t)
        <3> DEFINE c == [row[t] EXCEPT !.stale = TRUE]
        <3>1. /\ c \in Row /\ c.status = row[t].status /\ c.verdict = row[t].verdict
              /\ c.hash = row[t].hash /\ c.usable = row[t].usable
            BY <1>1 DEF Row
        <3>2. row' = [row EXCEPT ![t] = c]
            BY <2>1, <1>1 DEF ClaimOverdue
        <3> HIDE DEF c
        <3> QED BY <3>1, <3>2
    <2>2. CASE VerdictLapses(t)
        <3> DEFINE c == [row[t] EXCEPT !.usable = FALSE]
        <3>1. /\ c \in Row /\ c.status = row[t].status /\ c.verdict = row[t].verdict
              /\ c.hash = row[t].hash
            BY <1>1 DEF Row
        <3>2. row' = [row EXCEPT ![t] = c] /\ t \in aged'
            BY <2>2, <1>1 DEF VerdictLapses
        <3> HIDE DEF c
        <3> QED BY <3>1, <3>2
    <2>3. CASE RowAges(t)
        <3> DEFINE c == [row[t] EXCEPT !.old = TRUE, !.usable = FALSE,
                                       !.stale = row[t].status = "decoding"]
        <3>1. /\ c \in Row /\ c.status = row[t].status /\ c.verdict = row[t].verdict
              /\ c.hash = row[t].hash
            BY <1>1 DEF Row
        <3>2. row' = [row EXCEPT ![t] = c] /\ t \in aged'
            BY <2>3, <1>1 DEF RowAges
        <3> HIDE DEF c
        <3> QED BY <3>1, <3>2
    <2> QED BY <2>1, <2>2, <2>3
<1>3. PICK c \in Row : /\ row' = [row EXCEPT ![t] = c]
                       /\ c.status = row[t].status /\ c.verdict = row[t].verdict
                       /\ c.hash = row[t].hash
                       /\ ~c.usable => ~row[t].usable \/ t \in aged'
    BY <1>2
<1>4. row' \in [Tokens -> Row]
    BY <1>1, <1>3
<1>5. \A u \in Tokens : row'[u] = IF u = t THEN c ELSE row[u]
    BY <1>1, <1>3
<1> QED BY <1>3, <1>4, <1>5 DEF RowTypes

LEMMA DropEffect ==
    ASSUME RowTypes, NEW p \in Processes, DropVerdicts(p)
    PROVE  /\ RowTypes'
           /\ \A u \in Tokens :
                /\ row'[u].status = row[u].status /\ row'[u].hash = row[u].hash
                /\ row'[u].usable = row[u].usable
                /\ \/ row'[u].verdict = row[u].verdict
                   \/ row'[u].verdict = "none" /\ row[u].status = "done" /\ ~row[u].usable
<1>1. \A u \in Tokens : row'[u] = IF row[u].status = "done" /\ ~row[u].usable
                                  THEN [row[u] EXCEPT !.verdict = "none"] ELSE row[u]
    BY DEF DropVerdicts
<1>2. \A u \in Tokens : row[u] \in Row
    BY DEF RowTypes
<1>3. ASSUME NEW u \in Tokens
      PROVE  LET c == [row[u] EXCEPT !.verdict = "none"] IN
             /\ c \in Row /\ c.status = row[u].status /\ c.hash = row[u].hash
             /\ c.usable = row[u].usable /\ c.verdict = "none"
    BY <1>2 DEF Row
<1>4. ASSUME NEW u \in Tokens
      PROVE  /\ row'[u] \in Row
             /\ row'[u].status = row[u].status /\ row'[u].hash = row[u].hash
             /\ row'[u].usable = row[u].usable
             /\ \/ row'[u].verdict = row[u].verdict
                \/ row'[u].verdict = "none" /\ row[u].status = "done" /\ ~row[u].usable
    BY <1>1, <1>2, <1>3
<1>5. row' = [u \in Tokens |-> row'[u]]
    BY DEF DropVerdicts
<1>6. row' \in [Tokens -> Row]
    BY <1>4, <1>5
<1> QED BY <1>4, <1>6 DEF RowTypes

LEMMA DeleteEffect ==
    ASSUME RowTypes, HistoryTypes, NEW p \in Processes, DeleteRows(p)
    PROVE  /\ RowTypes' /\ takeovers' \in [Tokens -> Nat]
           /\ \A u \in Tokens :
                \/ row'[u] = row[u] /\ takeovers'[u] = takeovers[u]
                \/ /\ row'[u] = NoRow /\ takeovers'[u] = takeovers[u] + 1
                   /\ u \in troubled'
           /\ NoRow.status = "absent" /\ NoRow.verdict = "none"
<1>1. PICK gone \in SUBSET Tokens :
        /\ row' = [t \in Tokens |-> IF t \in gone THEN NoRow ELSE row[t]]
        /\ takeovers' = [t \in Tokens |-> takeovers[t] + (IF t \in gone THEN 1 ELSE 0)]
        /\ troubled' = troubled \cup gone
    BY DEF DeleteRows
<1>2. NoRow \in Row /\ NoRow.status = "absent" /\ NoRow.verdict = "none"
    BY DEF NoRow, Row
<1>3. row' \in [Tokens -> Row]
    BY <1>1, <1>2 DEF RowTypes
<1>4. takeovers' \in [Tokens -> Nat]
    BY <1>1 DEF HistoryTypes
<1>5. RowTypes'
    BY <1>1, <1>2, <1>3 DEF RowTypes
<1>6. \A u \in Tokens : takeovers[u] + 0 = takeovers[u]
    BY DEF HistoryTypes
<1> QED BY <1>1, <1>2, <1>4, <1>5, <1>6

\* What a poll or a read finds stored is an outcome.
LEMMA StoredIsOutcome ==
    ASSUME RequestTypes, RowTypes, NEW r \in Requests
    PROVE  /\ Stored(r) \in {"intact", "cleared", "replayed"}
           /\ Stored(r) \in Outcomes
           /\ Stored(r) # "replayed" => Stored(r) = RowOf(r).verdict
           /\ Stored(r) = "replayed" => ~RowOf(r).usable \/ RowOf(r).verdict = "none"
<1>1. RowOf(r).verdict \in {"none", "intact", "cleared"}
    BY TokensAreTokens DEF RowOf, RowTypes, Row
<1> QED BY <1>1 DEF Stored, Outcomes, Results

\* The actions that settle, and with which outcome.
Settling(r) ==
    \/ ReadDone(r) \/ PollDone(r) \/ GiveUp(r) \/ OverBudget(r) \/ Complete(r)
    \/ ReadFails(r) \/ ClaimFails(r) \/ ClaimNotMade(r) \/ CompleteFails(r)

LEMMA SettlingHasOutcome ==
    ASSUME RequestTypes, RowTypes, RequestsAreBacked, NEW r \in Requests, Settling(r)
    PROVE  \E o \in Outcomes : Settle(r, o)
<1>1. "unavailable" \in Outcomes /\ "replayed" \in Outcomes
    BY DEF Outcomes, Results
<1>2. CASE ReadDone(r)
    <2>1. Settle(r, IF RowOf(r).hash = req[r].hash THEN Stored(r) ELSE "replayed")
        BY <1>2 DEF ReadDone
    <2>2. (IF RowOf(r).hash = req[r].hash THEN Stored(r) ELSE "replayed") \in Outcomes
        BY <1>1, StoredIsOutcome
    <2> QED BY <2>1, <2>2
<1>3. CASE PollDone(r)
    BY <1>3, StoredIsOutcome DEF PollDone
<1>4. CASE Complete(r)
    BY <1>4 DEF Complete, RequestsAreBacked, Outcomes
<1>5. CASE \/ GiveUp(r) \/ OverBudget(r) \/ ReadFails(r) \/ ClaimFails(r) \/ ClaimNotMade(r)
           \/ CompleteFails(r)
    BY <1>1, <1>5 DEF GiveUp, OverBudget, ReadFails, ClaimFails, ClaimNotMade, CompleteFails
<1> QED BY <1>2, <1>3, <1>4, <1>5 DEF Settling

-----------------------------------------------------------------------------
LEMMA TypesKept ==
    ASSUME TypeOK, RequestsAreBacked, [Next]_vars
    PROVE  TypeOK'
<1>1. RequestTypes /\ RowTypes /\ ProcessTypes /\ HistoryTypes
    BY TypeParts
<1> USE IntegrityBounds, LimitsAssumption
<1>2. ASSUME UNCHANGED row PROVE RowTypes'
    BY <1>1, <1>2 DEF RowTypes
<1>3. ASSUME UNCHANGED processVars PROVE ProcessTypes'
    BY <1>1, <1>3 DEF ProcessTypes, processVars
<1>4. ASSUME UNCHANGED requestVars PROVE RequestTypes'
    BY <1>1, <1>4 DEF RequestTypes, requestVars
<1>5. ASSUME UNCHANGED <<decodes, aged, historyVars, boundVars>> PROVE HistoryTypes'
    BY <1>1, <1>5 DEF HistoryTypes, historyVars, boundVars
<1>6. Accident => accidents' \in 0..MaxAccidents /\ lapses' \in 0..MaxLapses
    BY <1>1 DEF Accident, HistoryTypes
<1>7. Resolving \subseteq Live /\ Holding \subseteq Resolving
    BY DEF Live, Resolving
<1>8. /\ {"reading", "claiming", "recovering", "polling"} \subseteq Live
      /\ {"joined", "claimed", "decoding", "completing"} \subseteq Live
    BY DEF Live, Resolving, Holding
<1>9. ASSUME NEW r \in Requests, NEW k \in Kinds, Arrive(r, k) PROVE TypeOK'
    <2>1. RequestTypes'
        BY <1>1, <1>8, <1>9 DEF Arrive, Goto, RequestTypes
    <2>2. ProcessTypes'
        <3>1. k.process \in Processes /\ <<k.process, k.token>> \in Processes \X Tokens
            BY KindsAssumption
        <3>2. sweep' \in [Processes -> {"due", "dropping", "deleting", "swept"}]
            BY <1>1, <1>9, <3>1 DEF Arrive, MaybeSweep, ProcessTypes
        <3>3. inFlight' \in [Processes \X Tokens -> Requests \cup {NoRequest}]
            BY <1>1, <1>9, <3>1 DEF Arrive, ProcessTypes
        <3> QED BY <1>1, <1>9, <3>2, <3>3 DEF Arrive, ProcessTypes
    <2>3. RowTypes' /\ HistoryTypes'
        BY <1>2, <1>5, <1>9 DEF Arrive
    <2> QED BY <2>1, <2>2, <2>3, TypeParts
<1>10. ASSUME NEW r \in Requests, Settling(r) PROVE TypeOK'
    <2>1. RequestTypes' /\ ProcessTypes'
        BY <1>1, <1>10, SettlingHasOutcome, SettleEffect
    <2>2. Token(r) \in Tokens
        BY <1>1, TokensAreTokens
    <2>3. CASE ReadDone(r) \/ PollDone(r) \/ GiveUp(r)
        BY <1>2, <1>5, <2>1, <2>3, TypeParts DEF ReadDone, PollDone, GiveUp
    <2>4. CASE OverBudget(r)
        <3>1. HistoryTypes'
            BY <1>1, <2>2, <2>4 DEF OverBudget, Orphan, HistoryTypes, boundVars
        <3> QED BY <1>2, <2>1, <2>4, <3>1, TypeParts DEF OverBudget
    <2>5. CASE Complete(r)
        <3>1. RowTypes'
            BY <1>1, <2>5, CompletedEffect DEF Complete
        <3> QED BY <1>5, <2>1, <2>5, <3>1, TypeParts DEF Complete
    <2>6. CASE ReadFails(r) \/ ClaimNotMade(r)
        <3>1. HistoryTypes'
            BY <1>1, <1>6, <2>6 DEF ReadFails, ClaimNotMade, HistoryTypes, historyVars
        <3> QED BY <1>2, <2>1, <2>6, <3>1, TypeParts DEF ReadFails, ClaimNotMade
    <2>7. CASE ClaimFails(r)
        <3>1. RowTypes' /\ holder' \in [Tokens -> Requests \cup {NoRequest}]
            BY <1>1, <2>7, TakeRowEffect DEF ClaimFails
        <3>2. takeovers' \in [Tokens -> Nat] /\ troubled' \subseteq Tokens
            BY <1>1, <2>2, <2>7 DEF ClaimFails, HistoryTypes
        <3>3. HistoryTypes'
            BY <1>1, <1>6, <2>2, <2>7, <3>1, <3>2 DEF ClaimFails, HistoryTypes
        <3> QED BY <2>1, <3>1, <3>3, TypeParts
    <2>8. CASE CompleteFails(r)
        <3>1. RowTypes'
            BY <1>1, <1>2, <2>8, CompletedEffect DEF CompleteFails
        <3>2. HistoryTypes'
            BY <1>1, <1>6, <2>2, <2>8 DEF CompleteFails, Orphan, HistoryTypes
        <3> QED BY <2>1, <3>1, <3>2, TypeParts
    <2> QED BY <1>10, <2>3, <2>4, <2>5, <2>6, <2>7, <2>8 DEF Settling
<1>11. ASSUME NEW r \in Requests,
              ReadUndone(r) \/ ClaimRefused(r) \/ RecoverRefused(r) \/ PollAgain(r)
       PROVE TypeOK'
    <2>1. CASE PollAgain(r)
        <3>1. RequestTypes'
            BY <1>1, <2>1 DEF PollAgain, RequestTypes
        <3> QED BY <1>2, <1>3, <1>5, <2>1, <3>1, TypeParts DEF PollAgain
    <2>2. CASE ReadUndone(r) \/ ClaimRefused(r) \/ RecoverRefused(r)
        <3>1. RequestTypes'
            BY <1>1, <1>8, <2>2, ProceedEffect DEF ReadUndone, ClaimRefused, RecoverRefused
        <3> QED BY <1>2, <1>3, <1>5, <2>2, <3>1, TypeParts
                DEF ReadUndone, ClaimRefused, RecoverRefused
    <2> QED BY <1>11, <2>1, <2>2
<1>12. ASSUME NEW r \in Requests, Claim(r) \/ Recover(r) PROVE TypeOK'
    <2>1. RequestTypes'
        BY <1>1, <1>8, <1>12, ProceedEffect DEF Claim, Recover
    <2>2. RowTypes' /\ holder' \in [Tokens -> Requests \cup {NoRequest}]
        BY <1>1, <1>12, TakeRowEffect DEF Claim, Recover
    <2>3. Token(r) \in Tokens
        BY <1>1, TokensAreTokens
    <2>4. takeovers' \in [Tokens -> Nat] /\ troubled' \subseteq Tokens
        BY <1>1, <1>12, <2>3 DEF Claim, Recover, HistoryTypes
    <2>5. HistoryTypes'
        BY <1>1, <1>12, <2>2, <2>4 DEF Claim, Recover, HistoryTypes, boundVars
    <2>6. ProcessTypes'
        BY <1>3, <1>12 DEF Claim, Recover
    <2> QED BY <2>1, <2>2, <2>5, <2>6, TypeParts
<1>13. ASSUME NEW r \in Requests, StartDecode(r) PROVE TypeOK'
    <2>1. RequestTypes'
        BY <1>1, <1>8, <1>13, ProceedEffect DEF StartDecode
    <2>2. ProcessTypes'
        <3>1. BudgetOf(r) \in Processes \X Users
            BY <1>1, TokensAreTokens
        <3>2. budget[BudgetOf(r)] + 1 \in 0..DecodeLimit
            BY <1>1, <1>13, <3>1 DEF StartDecode, ProcessTypes
        <3>3. budget' \in [Processes \X Users -> 0..DecodeLimit]
            BY <1>1, <1>13, <3>1, <3>2 DEF StartDecode, ProcessTypes
        <3> QED BY <1>1, <1>13, <3>3 DEF StartDecode, ProcessTypes
    <2> QED BY <1>2, <1>5, <1>13, <2>1, <2>2, TypeParts DEF StartDecode
<1>14. ASSUME NEW r \in Requests, Decode(r) \/ Reject(r) \/ DecodeFails(r) PROVE TypeOK'
    <2>1. \E d \in Results : Returned(r, d)
        BY <1>14 DEF Decode, Reject, DecodeFails, Results
    <2>2. RequestTypes' /\ UNCHANGED <<row, holder, orphaned, aged, takeovers>> /\ UNCHANGED processVars
        BY <1>1, <2>1, ReturnedEffect
    <2>3. Token(r) \in Tokens
        BY <1>1, TokensAreTokens
    <2>4. decodes' \in [Tokens -> Nat]
        BY <1>1, <1>14, <2>3 DEF Decode, Reject, DecodeFails, HistoryTypes
    <2>5. rejected' \subseteq Tokens /\ troubled' \subseteq Tokens
        BY <1>1, <1>14, <2>3 DEF Decode, Reject, DecodeFails, HistoryTypes
    <2>6. accidents' \in 0..MaxAccidents /\ lapses' \in 0..MaxLapses
        BY <1>1, <1>6, <1>14 DEF Decode, Reject, DecodeFails, boundVars, HistoryTypes
    <2>7. HistoryTypes'
        BY <1>1, <2>2, <2>4, <2>5, <2>6 DEF HistoryTypes
    <2> QED BY <1>2, <1>3, <2>2, <2>7, TypeParts
<1>15. ASSUME NEW p \in Processes, DropVerdicts(p) \/ DeleteRows(p) \/ SweepFails(p) PROVE TypeOK'
    <2>1. RequestTypes'
        BY <1>4, <1>15 DEF DropVerdicts, DeleteRows, SweepFails
    <2>2. ProcessTypes'
        BY <1>1, <1>15 DEF DropVerdicts, DeleteRows, SweepFails, ProcessTypes
    <2>3. CASE DropVerdicts(p)
        BY <1>1, <1>5, <2>1, <2>2, <2>3, DropEffect, TypeParts DEF DropVerdicts
    <2>4. CASE DeleteRows(p)
        <3>1. HistoryTypes'
            BY <1>1, <2>4, DeleteEffect DEF DeleteRows, HistoryTypes, boundVars
        <3> QED BY <1>1, <2>1, <2>2, <2>4, <3>1, DeleteEffect, TypeParts
    <2>5. CASE SweepFails(p)
        <3>1. HistoryTypes'
            BY <1>1, <1>6, <2>5 DEF SweepFails, HistoryTypes, historyVars
        <3> QED BY <1>2, <2>1, <2>2, <2>5, <3>1, TypeParts DEF SweepFails
    <2> QED BY <1>15, <2>3, <2>4, <2>5
<1>16. ASSUME NEW p \in Processes, Crash(p) PROVE TypeOK'
    <2>1. RequestTypes'
        BY <1>1, <1>16 DEF Crash, RequestTypes
    <2>2. ProcessTypes'
        <3>1. inFlight' \in [Processes \X Tokens -> Requests \cup {NoRequest}]
            BY <1>1, <1>16 DEF Crash, ProcessTypes
        <3>2. budget' \in [Processes \X Users -> 0..DecodeLimit]
            BY <1>1, <1>16 DEF Crash, ProcessTypes
        <3>3. sweep' \in [Processes -> {"due", "dropping", "deleting", "swept"}]
            BY <1>1, <1>16 DEF Crash, ProcessTypes
        <3> QED BY <3>1, <3>2, <3>3 DEF ProcessTypes
    <2>3. HistoryTypes'
        BY <1>1, <1>6, <1>16 DEF Crash, HistoryTypes
    <2> QED BY <1>2, <1>16, <2>1, <2>2, <2>3, TypeParts DEF Crash
<1>17. ASSUME NEW t \in Tokens, ClaimOverdue(t) \/ TokenAges(t) \/ VerdictLapses(t) \/ RowAges(t)
       PROVE TypeOK'
    <2>1. Lapse
        BY <1>17 DEF ClaimOverdue, TokenAges, VerdictLapses, RowAges
    <2>2. RequestTypes'
        BY <1>4, <2>1 DEF Lapse
    <2>3. aged' \subseteq Tokens
        BY <1>1, <1>17 DEF ClaimOverdue, TokenAges, VerdictLapses, RowAges, HistoryTypes
    <2>4. HistoryTypes'
        BY <1>1, <2>1, <2>3 DEF Lapse, HistoryTypes, historyVars
    <2>5. ProcessTypes'
        <3>1. sweep' \in [Processes -> {"due", "dropping", "deleting", "swept"}]
            BY <1>1, <1>17 DEF ClaimOverdue, TokenAges, VerdictLapses, RowAges, ProcessTypes
        <3>2. UNCHANGED <<inFlight, budget>>
            BY <1>17, <2>1 DEF Lapse, ClaimOverdue, TokenAges, VerdictLapses, RowAges
        <3> QED BY <1>1, <3>1, <3>2 DEF ProcessTypes
    <2>6. RowTypes'
        BY <1>1, <1>2, <1>17, WindowEffect DEF TokenAges
    <2> QED BY <2>2, <2>4, <2>5, <2>6, TypeParts
<1>18. ASSUME NEW b \in Processes \X Users, WindowPasses(b) PROVE TypeOK'
    <2>1. budget' \in [Processes \X Users -> 0..DecodeLimit]
        BY <1>1, <1>18 DEF WindowPasses, ProcessTypes
    <2>2. ProcessTypes'
        BY <1>1, <1>18, <2>1 DEF WindowPasses, Lapse, ProcessTypes
    <2>3. HistoryTypes'
        BY <1>1, <1>18 DEF WindowPasses, Lapse, HistoryTypes, historyVars
    <2>4. RequestTypes'
        BY <1>4, <1>18 DEF WindowPasses, Lapse
    <2> QED BY <1>2, <1>18, <2>2, <2>3, <2>4, TypeParts DEF WindowPasses
<1>19. CASE Done \/ UNCHANGED vars
    BY <1>1, <1>2, <1>3, <1>4, <1>5, <1>19, TypeParts DEF Done, vars
<1> QED BY <1>9, <1>10, <1>11, <1>12, <1>13, <1>14, <1>15, <1>16, <1>17, <1>18, <1>19
        DEF Next, Step, Fails, Settling

-----------------------------------------------------------------------------
(* Nothing that an outcome is explained by is taken back: a request that has
   arrived keeps what it is, counts grow, and history only gains. *)
LEMMA HistoryGrows ==
    ASSUME TypeOK, RequestsAreBacked, [Next]_vars
    PROVE  /\ \A t \in Tokens : decodes[t] <= decodes'[t] /\ takeovers[t] <= takeovers'[t]
           /\ aged \subseteq aged' /\ rejected \subseteq rejected' /\ troubled \subseteq troubled'
<1> DEFINE Grows == /\ \A t \in Tokens : decodes[t] <= decodes'[t] /\ takeovers[t] <= takeovers'[t]
                    /\ aged \subseteq aged' /\ rejected \subseteq rejected'
                    /\ troubled \subseteq troubled'
<1>1. RequestTypes /\ RowTypes /\ ProcessTypes /\ HistoryTypes
    BY TypeParts
<1>2. \A t \in Tokens : decodes[t] \in Nat /\ takeovers[t] \in Nat
    BY <1>1 DEF HistoryTypes
<1>3. ASSUME UNCHANGED <<decodes, takeovers>>,
             aged \subseteq aged', rejected \subseteq rejected', troubled \subseteq troubled'
      PROVE  Grows
    BY <1>2, <1>3
<1>4. ASSUME NEW r \in Requests, ClaimFails(r) \/ Recover(r) PROVE Grows
    <2>1. /\ UNCHANGED <<decodes, aged, rejected>> /\ troubled \subseteq troubled'
          /\ \/ takeovers' = takeovers
             \/ takeovers' = [takeovers EXCEPT ![Token(r)] = @ + 1]
        BY <1>4 DEF ClaimFails, Recover
    <2>2. \A t \in Tokens : takeovers[t] <= takeovers'[t]
        BY <1>1, <1>2, <2>1 DEF HistoryTypes
    <2> QED BY <1>2, <2>1, <2>2
<1>5. ASSUME NEW r \in Requests, Decode(r) \/ DecodeFails(r) PROVE Grows
    <2>1. /\ UNCHANGED <<takeovers, aged, rejected>> /\ troubled \subseteq troubled'
          /\ \/ decodes' = decodes
             \/ decodes' = [decodes EXCEPT ![Token(r)] = @ + 1]
        BY <1>5 DEF Decode, DecodeFails, Returned
    <2>2. \A t \in Tokens : decodes[t] <= decodes'[t]
        BY <1>1, <1>2, <2>1 DEF HistoryTypes
    <2> QED BY <1>2, <2>1, <2>2
<1>6. ASSUME NEW p \in Processes, DeleteRows(p) PROVE Grows
    <2>1. \A t \in Tokens : takeovers[t] <= takeovers'[t]
        BY <1>1, <1>2, <1>6, DeleteEffect
    <2>2. UNCHANGED <<decodes, aged, rejected>> /\ troubled \subseteq troubled'
        BY <1>6 DEF DeleteRows
    <2> QED BY <1>2, <2>1, <2>2
<1>7. ASSUME NEW r \in Requests, Reject(r) \/ Claim(r) \/ ReadDone(r) \/ ReadUndone(r)
             \/ ClaimRefused(r) \/ RecoverRefused(r) \/ PollDone(r) \/ PollAgain(r) \/ GiveUp(r)
             \/ StartDecode(r) \/ OverBudget(r) \/ Complete(r)
      PROVE  Grows
    <2>1. CASE Reject(r)
        BY <1>3, <2>1 DEF Reject, Returned
    <2>2. CASE Claim(r) \/ OverBudget(r)
        BY <1>3, <2>2 DEF Claim, OverBudget
    <2>3. CASE \/ ReadDone(r) \/ ReadUndone(r) \/ ClaimRefused(r) \/ RecoverRefused(r)
               \/ PollDone(r) \/ PollAgain(r) \/ GiveUp(r) \/ StartDecode(r) \/ Complete(r)
        <3>1. UNCHANGED <<decodes, aged, historyVars>>
            BY <2>3 DEF ReadDone, ReadUndone, ClaimRefused, RecoverRefused, PollDone, PollAgain,
                        GiveUp, StartDecode, Complete
        <3>2. UNCHANGED <<decodes, aged, takeovers, rejected, troubled>>
            BY <3>1 DEF historyVars
        <3> HIDE DEF Grows
        <3> QED BY <1>3, <3>2
    <2> QED BY <1>7, <2>1, <2>2, <2>3
<1>8. ASSUME NEW r \in Requests, ReadFails(r) \/ ClaimNotMade(r) \/ CompleteFails(r)
      PROVE  Grows
    BY <1>3, <1>8 DEF ReadFails, ClaimNotMade, CompleteFails, historyVars
<1>9. ASSUME NEW r \in Requests, NEW k \in Kinds, Arrive(r, k) PROVE Grows
    BY <1>3, <1>9 DEF Arrive, historyVars
<1>10. ASSUME NEW p \in Processes, DropVerdicts(p) \/ SweepFails(p) \/ Crash(p) PROVE Grows
    BY <1>3, <1>10 DEF DropVerdicts, SweepFails, Crash, historyVars
<1>11. ASSUME NEW t \in Tokens,
              ClaimOverdue(t) \/ TokenAges(t) \/ VerdictLapses(t) \/ RowAges(t)
       PROVE  Grows
    BY <1>3, <1>11 DEF ClaimOverdue, TokenAges, VerdictLapses, RowAges, Lapse, historyVars
<1>12. ASSUME NEW b \in Processes \X Users, WindowPasses(b) PROVE Grows
    BY <1>3, <1>12 DEF WindowPasses, Lapse, historyVars
<1>13. ASSUME Done \/ UNCHANGED vars PROVE Grows
    BY <1>3, <1>13 DEF Done, vars, historyVars
<1> HIDE DEF Grows
<1>14. Grows
    <2>1. ASSUME NEW r \in Requests, Step(r) \/ Fails(r) PROVE Grows
        BY <1>4, <1>5, <1>7, <1>8, <2>1 DEF Step, Fails
    <2> QED BY <1>6, <1>9, <1>10, <1>11, <1>12, <1>13, <2>1 DEF Next
<1> QED BY <1>14 DEF Grows

\* What a step makes of the requests, in four forms.
Returning(r) == Decode(r) \/ Reject(r) \/ DecodeFails(r)
Quiet ==
    /\ UNCHANGED <<req, decoded, annotation>>
    /\ \A r \in Requests : /\ pc[r] = "idle" <=> pc'[r] = "idle"
                           /\ pc'[r] = "completing" => pc[r] = "completing"

LEMMA RequestForms ==
    ASSUME TypeOK, [Next]_vars
    PROVE  \/ \E r \in Requests, k \in Kinds : Arrive(r, k)
           \/ \E r \in Requests : Settling(r)
           \/ \E r \in Requests : Returning(r)
           \/ Quiet
<1>1. RequestTypes /\ RowTypes /\ ProcessTypes /\ HistoryTypes
    BY TypeParts
<1>2. ASSUME UNCHANGED requestVars PROVE Quiet
    BY <1>2 DEF requestVars, Quiet
<1>3. ASSUME NEW r \in Requests,
             \/ ReadUndone(r) \/ ClaimRefused(r) \/ RecoverRefused(r)
             \/ Claim(r) \/ Recover(r) \/ StartDecode(r)
      PROVE  Quiet
    <2>1. /\ pc[r] # "idle"
          /\ \E l \in {"claiming", "recovering", "polling", "claimed", "decoding"} : Proceed(r, l)
        BY <1>3 DEF ReadUndone, ClaimRefused, RecoverRefused, Claim, Recover, StartDecode
    <2>2. PICK l \in {"claiming", "recovering", "polling", "claimed", "decoding"} : Proceed(r, l)
        BY <2>1
    <2>3. l \in Live
        BY DEF Live, Resolving, Holding
    <2> QED BY <1>1, <2>1, <2>2, <2>3, ProceedEffect DEF Quiet
<1>4. ASSUME NEW r \in Requests, PollAgain(r) PROVE Quiet
    BY <1>4 DEF PollAgain, Quiet
<1>5. ASSUME NEW p \in Processes, DropVerdicts(p) \/ DeleteRows(p) \/ SweepFails(p) PROVE Quiet
    BY <1>2, <1>5 DEF DropVerdicts, DeleteRows, SweepFails
<1>6. ASSUME NEW p \in Processes, Crash(p) PROVE Quiet
    <2>1. "idle" \notin Live
        BY DEF Live, Resolving, Holding
    <2> QED BY <1>1, <1>6, <2>1 DEF Crash, Quiet
<1>7. ASSUME NEW t \in Tokens,
             ClaimOverdue(t) \/ TokenAges(t) \/ VerdictLapses(t) \/ RowAges(t)
      PROVE  Quiet
    BY <1>2, <1>7 DEF ClaimOverdue, TokenAges, VerdictLapses, RowAges, Lapse
<1>8. ASSUME NEW b \in Processes \X Users, WindowPasses(b) PROVE Quiet
    BY <1>2, <1>8 DEF WindowPasses, Lapse
<1>9. CASE Done \/ UNCHANGED vars
    BY <1>2, <1>9 DEF Done, vars
<1> QED BY <1>3, <1>4, <1>5, <1>6, <1>7, <1>8, <1>9
        DEF Next, Step, Fails, Settling, Returning

LEMMA ReturningResult ==
    ASSUME RequestTypes, HistoryTypes, NEW r \in Requests, Returning(r)
    PROVE  \E d \in Results : Returned(r, d) /\ Backed(d, Token(r))'
<1>1. Token(r) \in Tokens /\ decodes \in [Tokens -> Nat]
    BY TokensAreTokens DEF HistoryTypes
<1>2. req' = req
    BY DEF Returning, Decode, Reject, DecodeFails, Returned
<1>3. CASE Decode(r)
    <2>1. decodes'[Token(r)] = decodes[Token(r)] + 1
        BY <1>1, <1>3 DEF Decode
    <2>2. PICK d \in Results : d = IF decodes[Token(r)] = 0 THEN "intact" ELSE "cleared"
        BY DEF Results
    <2>3. Backed(d, Token(r))'
        BY <1>1, <1>2, <2>1, <2>2 DEF Backed, Token
    <2> QED BY <1>3, <2>2, <2>3 DEF Decode
<1>4. CASE Reject(r)
    <2>1. PICK d \in Results : d = "failed"
        BY DEF Results
    <2>2. Backed(d, Token(r))'
        BY <1>2, <1>4, <2>1 DEF Reject, Backed, Token
    <2> QED BY <1>4, <2>1, <2>2 DEF Reject
<1>5. CASE DecodeFails(r)
    <2>1. PICK d \in Results : d = "unavailable"
        BY DEF Results
    <2>2. Backed(d, Token(r))'
        BY <1>2, <1>5, <2>1 DEF DecodeFails, Backed, Token
    <2> QED BY <1>5, <2>1, <2>2 DEF DecodeFails
<1> QED BY <1>3, <1>4, <1>5 DEF Returning

\* A request that has arrived keeps what it is.
LEMMA RequestsStay ==
    ASSUME TypeOK, RequestsAreBacked, [Next]_vars
    PROVE  \A r \in Requests : pc[r] # "idle" => pc'[r] # "idle" /\ req'[r] = req[r]
<1>1. RequestTypes /\ RowTypes /\ ProcessTypes /\ HistoryTypes
    BY TypeParts
<1>2. CASE \E r \in Requests, k \in Kinds : Arrive(r, k)
    BY <1>1, <1>2 DEF Arrive, Goto, RequestTypes
<1>3. CASE \E r \in Requests : Settling(r)
    BY <1>1, <1>3, SettlingHasOutcome, SettleEffect
<1>4. CASE \E r \in Requests : Returning(r)
    BY <1>1, <1>4, ReturningResult, ReturnedEffect
<1>5. CASE Quiet
    BY <1>5 DEF Quiet
<1> QED BY <1>2, <1>3, <1>4, <1>5, RequestForms

\* Backed and explained once, backed and explained for ever.
LEMMA BackedStays ==
    ASSUME TypeOK, RequestsAreBacked, [Next]_vars, NEW d, NEW t \in Tokens, Backed(d, t)
    PROVE  Backed(d, t)'
<1>1. decodes[t] \in Nat /\ decodes'[t] \in Nat
    BY TypesKept DEF TypeOK
<1> QED BY <1>1, HistoryGrows DEF Backed

LEMMA SendersDoingStays ==
    ASSUME TypeOK, RequestsAreBacked, [Next]_vars, NEW r \in Requests, pc[r] # "idle",
           SendersDoing(r)
    PROVE  SendersDoing(r)'
<1>1. /\ aged \subseteq aged' /\ rejected \subseteq rejected'
    BY HistoryGrows
<1>2. \A s \in Requests : pc[s] # "idle" => pc'[s] # "idle" /\ req'[s] = req[s] /\ Token(s)' = Token(s)
    BY RequestsStay DEF Token
<1> QED BY <1>1, <1>2 DEF SendersDoing

LEMMA ExplainedStays ==
    ASSUME TypeOK, RequestsAreBacked, [Next]_vars, NEW r \in Requests, NEW status,
           pc[r] # "idle", Explained(r, status)
    PROVE  Explained(r, status)'
<1>1. req'[r] = req[r] /\ Token(r)' = Token(r) /\ Token(r) \in Tokens
    BY RequestsStay, TokensAreTokens, TypeParts DEF Token
<1>2. decodes[Token(r)] \in Nat /\ decodes'[Token(r)] \in Nat
    BY <1>1, TypesKept DEF TypeOK
<1>3. decodes[Token(r)] <= decodes'[Token(r)] /\ troubled \subseteq troubled'
    BY <1>1, HistoryGrows
<1>4. SendersDoing(r) => SendersDoing(r)'
    BY SendersDoingStays
<1> QED BY <1>1, <1>2, <1>3, <1>4 DEF Explained

-----------------------------------------------------------------------------
LEMMA RequestsKept ==
    ASSUME TypeOK, RequestsAreBacked, [Next]_vars
    PROVE  RequestsAreBacked'
<1>1. RequestTypes /\ RowTypes /\ ProcessTypes /\ HistoryTypes
    BY TypeParts
<1>2. ASSUME NEW s \in Requests, req'[s] = req[s], decoded'[s] = decoded[s]
      PROVE  Backed(decoded[s], Token(s))'
    <2>1. PICK d \in Results \cup {"none"} : d = decoded[s]
        BY <1>1 DEF RequestTypes
    <2>2. PICK t \in Tokens : t = Token(s)
        BY <1>1, TokensAreTokens
    <2>3. Backed(d, t)'
        BY <2>1, <2>2, BackedStays DEF RequestsAreBacked
    <2> QED BY <1>2, <2>1, <2>2, <2>3 DEF Token, Backed
<1>3. ASSUME NEW s \in Requests, decoded'[s] = "none" PROVE Backed(decoded[s], Token(s))'
    BY <1>3 DEF Backed
<1>4. CASE \E r \in Requests, k \in Kinds : Arrive(r, k)
    <2>1. PICK r \in Requests, k \in Kinds : Arrive(r, k)
        BY <1>4
    <2>2. /\ UNCHANGED <<decoded, annotation>> /\ pc[r] = "idle"
          /\ pc'[r] \in {"reading", "joined"}
          /\ \A s \in Requests : s # r => req'[s] = req[s] /\ pc'[s] = pc[s]
        BY <1>1, <2>1 DEF Arrive, Goto, RequestTypes
    <2>3. ASSUME NEW s \in Requests PROVE Backed(decoded[s], Token(s))'
        BY <1>2, <1>3, <2>2 DEF RequestsAreBacked
    <2> QED BY <2>2, <2>3 DEF RequestsAreBacked
<1>5. CASE \E r \in Requests : Settling(r)
    <2>1. PICK r \in Requests, o \in Outcomes : Settle(r, o)
        BY <1>1, <1>5, SettlingHasOutcome
    <2>2. /\ req' = req
          /\ \A s \in Requests :
                /\ pc'[s] = "annotated" \/ (pc'[s] = pc[s] /\ annotation'[s] = annotation[s])
                /\ decoded'[s] = IF s = r THEN "none" ELSE decoded[s]
          /\ pc'[r] = "annotated"
        BY <1>1, <2>1, SettleEffect DEF Sharing
    <2>3. ASSUME NEW s \in Requests PROVE Backed(decoded[s], Token(s))'
        BY <1>2, <1>3, <2>2
    <2> QED BY <2>2, <2>3 DEF RequestsAreBacked
<1>6. CASE \E r \in Requests : Returning(r)
    <2>1. PICK r \in Requests : Returning(r)
        BY <1>6
    <2>2. PICK d \in Results : Returned(r, d) /\ Backed(d, Token(r))'
        BY <1>1, <2>1, ReturningResult
    <2>3. /\ UNCHANGED <<req, annotation>> /\ pc[r] = "decoding"
          /\ \A s \in Requests : /\ pc'[s] = IF s = r THEN "completing" ELSE pc[s]
                                 /\ decoded'[s] = IF s = r THEN d ELSE decoded[s]
        BY <1>1, <2>2, ReturnedEffect
    <2>4. ASSUME NEW s \in Requests PROVE Backed(decoded[s], Token(s))'
        <3>1. CASE s = r
            BY <2>2, <2>3, <3>1 DEF Backed
        <3>2. CASE s # r
            BY <1>2, <2>3, <3>2
        <3> QED BY <3>1, <3>2
    <2> QED BY <2>3, <2>4 DEF RequestsAreBacked
<1>7. CASE Quiet
    <2>1. ASSUME NEW s \in Requests PROVE Backed(decoded[s], Token(s))'
        BY <1>2, <1>7 DEF Quiet
    <2> QED BY <1>7, <2>1 DEF Quiet, RequestsAreBacked
<1> QED BY <1>4, <1>5, <1>6, <1>7, RequestForms

-----------------------------------------------------------------------------
(* Why whoever shares a promise is told what it is told. *)
Excused(s) == SendersDoing(s) \/ Token(s) \in troubled

\* More than one decode means a takeover, and every takeover is on record.
LEMMA TwiceIsTroubled ==
    ASSUME TypeOK, DecodesAreCounted, NEW t \in Tokens
    PROVE  /\ decodes[t] <= 1 + takeovers[t]
           /\ decodes[t] > 1 => t \in troubled
<1>1. IsFiniteSet(Pending(t)) /\ Cardinality(Pending(t)) \in Nat
    <2>1. Pending(t) \in SUBSET Requests
        BY DEF Pending
    <2> QED BY <2>1, NoRequestAssumption, FS_Subset, FS_CardinalityType
<1>2. decodes[t] \in Nat /\ takeovers[t] \in Nat /\ Unclaimed(t) \in Nat
    BY DEF TypeOK, Unclaimed
<1>3. decodes[t] <= 1 + takeovers[t]
    BY <1>1, <1>2 DEF DecodesAreCounted
<1>4. decodes[t] > 1 => takeovers[t] > 0
    BY <1>2, <1>3
<1> QED BY <1>3, <1>4 DEF DecodesAreCounted

\* What is stored and not usable, or dropped, is nobody's doing but the sender's
\* or the ledger's own trouble.
LEMMA StoredIsExcused ==
    ASSUME TypeOK, RowsAreBacked, DecodesAreCounted, NEW r \in Requests,
           RowOf(r).status = "done"
    PROVE  /\ Stored(r) = "intact" => decodes[Token(r)] > 0
           /\ Stored(r) = "cleared" => Token(r) \in troubled
           /\ Stored(r) = "replayed" => Token(r) \in aged \cup rejected \cup troubled
<1>1. Token(r) \in Tokens /\ RequestTypes /\ RowTypes
    BY TokensAreTokens, TypeParts
<1>2. /\ Backed(RowOf(r).verdict, Token(r))
      /\ RowOf(r).verdict = "none" => Token(r) \in aged \cup rejected \cup troubled
      /\ ~RowOf(r).usable => Token(r) \in aged
    BY <1>1 DEF RowsAreBacked, RowIsBacked, RowOf
<1> QED BY <1>1, <1>2, StoredIsOutcome, TwiceIsTroubled DEF Backed

LEMMA SettlingIsExplained ==
    ASSUME LedgerInv, NEW r \in Requests, Settling(r)
    PROVE  \E o \in Outcomes :
              /\ Settle(r, o)
              /\ o = "intact" => decodes[Token(r)] > 0
              /\ o = "cleared" => Token(r) \in troubled
              /\ o = "failed" => Token(r) \in rejected
              /\ o = "replayed" => \A s \in Sharing(r) : Excused(s)
<1>1. /\ RequestTypes /\ RowTypes /\ ProcessTypes /\ HistoryTypes /\ Token(r) \in Tokens
    BY TypeParts, TokensAreTokens DEF LedgerInv
<1>2. "unavailable" \in Outcomes /\ "replayed" \in Outcomes
    BY DEF Outcomes, Results
<1>3. /\ RowsAreBacked /\ DecodesAreCounted /\ RequestsAreBacked /\ TypeOK
    BY DEF LedgerInv
<1>4. \A s \in Sharing(r) : s \in Requests /\ Token(s) = Token(r) /\ (s = r \/ pc[s] = "joined")
    BY DEF Sharing, Slot
<1>5. ASSUME Token(r) \in aged \cup rejected \cup troubled PROVE \A s \in Sharing(r) : Excused(s)
    BY <1>4, <1>5 DEF Excused, SendersDoing
<1>6. CASE ReadDone(r)
    <2>1. /\ pc[r] = "reading" /\ RowOf(r).status = "done"
          /\ Settle(r, IF RowOf(r).hash = req[r].hash THEN Stored(r) ELSE "replayed")
        BY <1>6 DEF ReadDone
    <2>2. CASE RowOf(r).hash = req[r].hash
        <3>1. Settle(r, Stored(r)) /\ Stored(r) \in Outcomes /\ Stored(r) # "failed"
            BY <1>1, <2>1, <2>2, StoredIsOutcome
        <3> QED BY <1>3, <1>5, <2>1, <3>1, StoredIsExcused
    <2>3. CASE RowOf(r).hash # req[r].hash
        <3>1. PICK h : h = RowOf(r).hash
            OBVIOUS
        <3>2. PICK w \in Requests : pc[w] # "idle" /\ Token(w) = Token(r) /\ req[w].hash = h
            BY <1>1, <1>3, <2>1, <3>1 DEF RowsAreBacked, RowIsBacked, RowOf, Presented
        <3>3. ASSUME NEW s \in Sharing(r) PROVE Excused(s)
            <4>1. s \in Requests /\ Token(s) = Token(r)
                BY <1>4
            <4>2. CASE req[s].hash = h
                BY <2>1, <2>3, <3>1, <4>1, <4>2 DEF Excused, SendersDoing
            <4>3. CASE req[s].hash # h
                BY <3>2, <4>1, <4>3 DEF Excused, SendersDoing
            <4> QED BY <4>2, <4>3
        <3> QED BY <1>2, <2>1, <2>3, <3>3
    <2> QED BY <2>2, <2>3
<1>7. CASE PollDone(r)
    <2>1. RowOf(r).status = "done" /\ Settle(r, Stored(r))
        BY <1>7 DEF PollDone
    <2>2. Stored(r) \in Outcomes /\ Stored(r) # "failed"
        BY <1>1, StoredIsOutcome
    <2> QED BY <1>3, <1>5, <2>1, <2>2, StoredIsExcused
<1>8. CASE Complete(r)
    <2>1. pc[r] = "completing" /\ Settle(r, decoded[r])
        BY <1>8 DEF Complete
    <2>2. decoded[r] \in Results /\ Backed(decoded[r], Token(r))
        BY <1>3, <2>1 DEF RequestsAreBacked
    <2>3. decoded[r] # "replayed" /\ decoded[r] \in Outcomes
        BY <2>2 DEF Results, Outcomes
    <2> QED BY <1>1, <1>3, <2>1, <2>2, <2>3, TwiceIsTroubled DEF Backed
<1>9. CASE \/ GiveUp(r) \/ OverBudget(r) \/ ReadFails(r) \/ ClaimFails(r) \/ ClaimNotMade(r)
           \/ CompleteFails(r)
    <2>1. Settle(r, "unavailable")
        BY <1>9 DEF GiveUp, OverBudget, ReadFails, ClaimFails, ClaimNotMade, CompleteFails
    <2> QED BY <1>2, <2>1
<1> QED BY <1>6, <1>7, <1>8, <1>9 DEF Settling

LEMMA AnnotationsKept ==
    ASSUME LedgerInv, [Next]_vars
    PROVE  AnnotationsAreExplained'
<1>1. /\ RequestTypes /\ RowTypes /\ ProcessTypes /\ HistoryTypes
      /\ TypeOK /\ RequestsAreBacked /\ AnnotationsAreExplained
    BY TypeParts DEF LedgerInv
<1>2. ASSUME NEW s \in Requests, annotation'[s] = annotation[s], pc[s] # "idle" \/ annotation[s] = "none"
      PROVE  Explained(s, annotation[s])'
    <2>1. CASE pc[s] # "idle"
        <3>1. PICK status \in Statuses \cup {"none"} : status = annotation[s]
            BY <1>1 DEF RequestTypes
        <3>2. Explained(s, status)'
            BY <1>1, <2>1, <3>1, ExplainedStays DEF AnnotationsAreExplained
        <3> QED BY <1>2, <3>1, <3>2 DEF Explained
    <2>2. CASE annotation[s] = "none"
        BY <1>2, <2>2 DEF Explained, Blaming
    <2> QED BY <1>2, <2>1, <2>2
<1>3. \A s \in Requests : pc[s] # "idle" \/ annotation[s] = "none"
    BY <1>1 DEF RequestsAreBacked
<1>4. ASSUME UNCHANGED annotation PROVE AnnotationsAreExplained'
    BY <1>2, <1>3, <1>4 DEF AnnotationsAreExplained
<1>5. CASE \E r \in Requests, k \in Kinds : Arrive(r, k)
    BY <1>4, <1>5 DEF Arrive
<1>6. CASE \E r \in Requests : Returning(r)
    BY <1>4, <1>6 DEF Returning, Decode, Reject, DecodeFails, Returned
<1>7. CASE Quiet
    BY <1>4, <1>7 DEF Quiet
<1>8. CASE \E r \in Requests : Settling(r)
    <2>1. PICK r \in Requests : Settling(r)
        BY <1>8
    <2>2. PICK o \in Outcomes :
              /\ Settle(r, o)
              /\ o = "intact" => decodes[Token(r)] > 0
              /\ o = "cleared" => Token(r) \in troubled
              /\ o = "failed" => Token(r) \in rejected
              /\ o = "replayed" => \A s \in Sharing(r) : Excused(s)
        BY <2>1, SettlingIsExplained
    <2>3. /\ \A s \in Requests : annotation'[s] = IF s \in Sharing(r) THEN Status(s, o)
                                                  ELSE annotation[s]
          /\ \A s \in Sharing(r) :
                s \in Requests /\ Token(s) = Token(r) /\ (s = r \/ pc[s] = "joined")
        BY <1>1, <2>2, SettleEffect
    <2>4. pc[r] # "idle"
        BY <2>1 DEF Settling, ReadDone, PollDone, GiveUp, OverBudget, Complete, ReadFails,
                    ClaimFails, ClaimNotMade, CompleteFails
    <2>5. ASSUME NEW s \in Sharing(r) PROVE Explained(s, Status(s, o))
        <3>1. s \in Requests /\ Token(s) = Token(r) /\ pc[s] # "idle"
            BY <2>3, <2>4
        <3>2. PICK st : st = Status(s, o)
            OBVIOUS
        <3>3. /\ st \in {"OK", "DECODE_UNAVAILABLE"} \cup Blaming
              /\ st = "OK" =>
                   o = "intact" /\ Phone[Token(s)].ourPackage /\ Bound[Token(s)] = req[s].hash
              /\ st = "STALE" => Token(s) \in aged
              /\ st = "REQUEST_MISMATCH" => Bound[Token(s)] # req[s].hash
              /\ st = "PACKAGE_MISMATCH" => ~Phone[Token(s)].ourPackage
              /\ st = "DECODE_FAILED" => o = "failed"
              /\ st = "REPLAYED" => o \in {"replayed", "cleared"} \/ ~Phone[Token(s)].ourPackage
            BY <3>1, <3>2, StatusMeans
        <3>4. st = "OK" => /\ decodes[Token(s)] > 0
                           /\ Phone[Token(s)].ourPackage
                           /\ Bound[Token(s)] = req[s].hash
            BY <2>2, <3>1, <3>3
        <3>5. st \in Blaming => SendersDoing(s) \/ Token(s) \in troubled
            <4>1. CASE st = "REPLAYED" /\ o = "replayed"
                BY <2>2, <4>1 DEF Excused
            <4>2. CASE st = "REPLAYED" /\ o # "replayed"
                BY <2>2, <3>1, <3>3, <4>2 DEF SendersDoing
            <4>3. CASE st = "DECODE_FAILED"
                BY <2>2, <3>1, <3>3, <4>3 DEF SendersDoing
            <4>4. CASE st \in {"STALE", "REQUEST_MISMATCH", "PACKAGE_MISMATCH"}
                BY <3>3, <4>4 DEF SendersDoing
            <4> QED BY <4>1, <4>2, <4>3, <4>4 DEF Blaming
        <3> QED BY <3>2, <3>3, <3>4, <3>5 DEF Explained
    <2>6. ASSUME NEW s \in Sharing(r) PROVE Explained(s, annotation[s])'
        <3>1. s \in Requests /\ pc[s] # "idle" /\ annotation'[s] = Status(s, o)
            BY <2>3, <2>4
        <3>2. PICK st : st = Status(s, o)
            OBVIOUS
        <3>3. Explained(s, st)'
            BY <1>1, <2>5, <3>1, <3>2, ExplainedStays
        <3> QED BY <3>1, <3>2, <3>3 DEF Explained
    <2>7. ASSUME NEW s \in Requests PROVE Explained(s, annotation[s])'
        BY <1>2, <1>3, <2>3, <2>6
    <2> QED BY <2>7 DEF AnnotationsAreExplained
<1> QED BY <1>1, <1>5, <1>6, <1>7, <1>8, RequestForms

-----------------------------------------------------------------------------
LEMMA PresentedStays ==
    ASSUME TypeOK, RequestsAreBacked, [Next]_vars, NEW t, NEW h, Presented(t, h)
    PROVE  Presented(t, h)'
<1>1. PICK s \in Requests : pc[s] # "idle" /\ Token(s) = t /\ req[s].hash = h
    BY DEF Presented
<1>2. pc'[s] # "idle" /\ req'[s] = req[s]
    BY <1>1, RequestsStay
<1> QED BY <1>1, <1>2 DEF Presented, Token

\* A row whose claim and verdict stay, or whose verdict is dropped.
LEMMA RowStays ==
    ASSUME TypeOK, RequestsAreBacked, RowsAreBacked, [Next]_vars, NEW t \in Tokens,
           row'[t].status = row[t].status, row'[t].hash = row[t].hash,
           \/ row'[t].verdict = row[t].verdict
           \/ row'[t].verdict = "none" /\ row[t].status = "done" /\ ~row[t].usable,
           ~row'[t].usable => ~row[t].usable \/ t \in aged'
    PROVE  RowIsBacked(t)'
<1>1. RowIsBacked(t)
    BY DEF RowsAreBacked
<1>2. /\ aged \subseteq aged' /\ rejected \subseteq rejected' /\ troubled \subseteq troubled'
    BY HistoryGrows
<1>3. Backed(row[t].verdict, t)'
    <2>1. CASE row'[t].verdict = row[t].verdict
        <3>1. PICK v : v = row[t].verdict
            OBVIOUS
        <3>2. Backed(v, t)'
            BY <1>1, <3>1, BackedStays DEF RowIsBacked
        <3> QED BY <2>1, <3>1, <3>2 DEF Backed
    <2>2. CASE row'[t].verdict = "none"
        BY <2>2 DEF Backed
    <2> QED BY <2>1, <2>2
<1>4. row[t].status # "absent" => Presented(t, row[t].hash)'
    <2>1. PICK h : h = row[t].hash
        OBVIOUS
    <2>2. row[t].status # "absent" => Presented(t, h)'
        BY <1>1, <2>1, PresentedStays DEF RowIsBacked
    <2> QED BY <2>1, <2>2 DEF Presented
<1> QED BY <1>1, <1>2, <1>3, <1>4 DEF RowIsBacked

\* A row that r claims is held for a request presented with its hash.
LEMMA TakenRowIsBacked ==
    ASSUME TypeOK, RequestsAreBacked, RowsAreBacked, [Next]_vars, NEW r \in Requests,
           pc[r] # "idle", TakeRow(r)
    PROVE  RowsAreBacked'
<1>1. RequestTypes /\ RowTypes /\ HistoryTypes /\ Token(r) \in Tokens
    BY TypeParts, TokensAreTokens
<1>2. /\ row'[Token(r)].status = "decoding" /\ row'[Token(r)].verdict = "none"
      /\ row'[Token(r)].hash = req[r].hash
      /\ \A t \in Tokens \ {Token(r)} : row'[t] = row[t]
    BY <1>1, TakeRowEffect
<1>3. PICK u \in Tokens : u = Token(r)
    BY <1>1
<1>4. pc'[r] # "idle" /\ req'[r] = req[r]
    BY RequestsStay
<1>5. RowIsBacked(u)'
    <2>1. Presented(u, row[u].hash)'
        BY <1>2, <1>3, <1>4 DEF Presented, Token
    <2>2. Backed(row[u].verdict, u)'
        BY <1>2, <1>3 DEF Backed
    <2> QED BY <1>2, <1>3, <2>1, <2>2 DEF RowIsBacked
<1>6. ASSUME NEW t \in Tokens \ {u} PROVE RowIsBacked(t)'
    BY <1>2, <1>3, RowStays
<1> QED BY <1>5, <1>6 DEF RowsAreBacked

\* A row that r completes says of its token what Google told r.
LEMMA CompletedRowIsBacked ==
    ASSUME TypeOK, RequestsAreBacked, RowsAreBacked, [Next]_vars, NEW r \in Requests,
           pc[r] = "completing", row' = Completed(r)
    PROVE  RowsAreBacked'
<1>1. RequestTypes /\ RowTypes /\ HistoryTypes /\ Token(r) \in Tokens
    BY TypeParts, TokensAreTokens
<1>2. PICK u \in Tokens : u = Token(r)
    BY <1>1
<1>3. PICK d \in Results : d = decoded[r]
    BY DEF RequestsAreBacked
<1>4. PICK v : v = IF d \in {"intact", "cleared"} THEN d ELSE "none"
    OBVIOUS
<1>5. /\ \A t \in Tokens \ {u} : row'[t] = row[t]
      /\ row[u].status = "absent" => row'[u] = row[u]
      /\ row[u].status # "absent" =>
            /\ row'[u].status = "done" /\ row'[u].usable /\ row'[u].verdict = v
            /\ row'[u].hash = row[u].hash
    BY <1>1, <1>2, <1>3, <1>4, CompletedEffect
<1>6. Backed(d, u)'
    BY <1>2, <1>3, BackedStays DEF RequestsAreBacked
<1>7. ASSUME row[u].status # "absent" PROVE RowIsBacked(u)'
    <2>1. PICK h : h = row[u].hash
        OBVIOUS
    <2>2. Presented(u, h)'
        BY <1>7, <2>1, PresentedStays DEF RowsAreBacked, RowIsBacked
    <2>3. Presented(u, row[u].hash)'
        BY <1>5, <1>7, <2>1, <2>2 DEF Presented
    <2>4. Backed(row[u].verdict, u)'
        BY <1>4, <1>5, <1>6, <1>7 DEF Backed
    <2>5. v = "none" => u \in rejected' \cup troubled'
        <3>1. d \in {"intact", "cleared", "failed", "unavailable"}
            BY DEF Results
        <3> QED BY <1>4, <1>6, <3>1 DEF Backed
    <2> QED BY <1>5, <1>7, <2>3, <2>4, <2>5 DEF RowIsBacked
<1>8. ASSUME row[u].status = "absent" PROVE RowIsBacked(u)'
    <2>1. row'[u] = row[u]
        BY <1>5, <1>8
    <2> QED BY <2>1, RowStays
<1>9. ASSUME NEW t \in Tokens \ {u} PROVE RowIsBacked(t)'
    BY <1>5, RowStays
<1> QED BY <1>7, <1>8, <1>9 DEF RowsAreBacked

LEMMA RowsKept ==
    ASSUME TypeOK, RequestsAreBacked, RowsAreBacked, [Next]_vars
    PROVE  RowsAreBacked'
<1>1. RequestTypes /\ RowTypes /\ ProcessTypes /\ HistoryTypes
    BY TypeParts
<1>2. ASSUME UNCHANGED row PROVE RowsAreBacked'
    BY <1>2, RowStays DEF RowsAreBacked
<1>3. ASSUME NEW r \in Requests, Claim(r) \/ Recover(r) \/ ClaimFails(r) PROVE RowsAreBacked'
    <2>1. pc[r] # "idle" /\ TakeRow(r)
        BY <1>3 DEF Claim, Recover, ClaimFails
    <2> QED BY <2>1, TakenRowIsBacked
<1>4. ASSUME NEW r \in Requests, Complete(r) \/ CompleteFails(r) PROVE RowsAreBacked'
    <2>1. pc[r] = "completing" /\ (row' = row \/ row' = Completed(r))
        BY <1>4 DEF Complete, CompleteFails
    <2> QED BY <1>2, <2>1, CompletedRowIsBacked
<1>5. ASSUME NEW r \in Requests,
             \/ ReadDone(r) \/ ReadUndone(r) \/ ClaimRefused(r) \/ RecoverRefused(r)
             \/ PollDone(r) \/ PollAgain(r) \/ GiveUp(r) \/ StartDecode(r) \/ OverBudget(r)
      PROVE  RowsAreBacked'
    BY <1>2, <1>5 DEF ReadDone, ReadUndone, ClaimRefused, RecoverRefused, PollDone, PollAgain,
                      GiveUp, StartDecode, OverBudget
<1>6. ASSUME NEW r \in Requests, Decode(r) \/ Reject(r) \/ DecodeFails(r) PROVE RowsAreBacked'
    BY <1>2, <1>6 DEF Decode, Reject, DecodeFails, Returned
<1>7. ASSUME NEW r \in Requests, ReadFails(r) \/ ClaimNotMade(r) PROVE RowsAreBacked'
    BY <1>2, <1>7 DEF ReadFails, ClaimNotMade
<1>8. ASSUME NEW r \in Requests, NEW k \in Kinds, Arrive(r, k) PROVE RowsAreBacked'
    BY <1>2, <1>8 DEF Arrive
<1>9. ASSUME NEW p \in Processes, SweepFails(p) \/ Crash(p) PROVE RowsAreBacked'
    BY <1>2, <1>9 DEF SweepFails, Crash
<1>10. ASSUME NEW p \in Processes, DropVerdicts(p) PROVE RowsAreBacked'
    BY <1>1, <1>10, DropEffect, RowStays DEF RowsAreBacked
<1>11. ASSUME NEW p \in Processes, DeleteRows(p) PROVE RowsAreBacked'
    <2>1. ASSUME NEW t \in Tokens PROVE RowIsBacked(t)'
        <3>1. row'[t] = row[t] \/ row'[t] = NoRow
            BY <1>1, <1>11, DeleteEffect
        <3>2. CASE row'[t] = row[t]
            BY <3>2, RowStays
        <3>3. CASE row'[t] = NoRow
            <4>1. row'[t].verdict = "none" /\ row'[t].status = "absent"
                BY <3>3 DEF NoRow
            <4> QED BY <4>1 DEF RowIsBacked, Backed
        <3> QED BY <3>1, <3>2, <3>3
    <2> QED BY <2>1 DEF RowsAreBacked
<1>12. ASSUME NEW t \in Tokens, ClaimOverdue(t) \/ VerdictLapses(t) \/ RowAges(t)
       PROVE  RowsAreBacked'
    BY <1>1, <1>12, WindowEffect, RowStays DEF RowsAreBacked
<1>13. ASSUME NEW t \in Tokens, TokenAges(t) PROVE RowsAreBacked'
    BY <1>2, <1>13 DEF TokenAges
<1>14. ASSUME NEW b \in Processes \X Users, WindowPasses(b) PROVE RowsAreBacked'
    BY <1>2, <1>14 DEF WindowPasses
<1>15. ASSUME Done \/ UNCHANGED vars PROVE RowsAreBacked'
    BY <1>2, <1>15 DEF Done, vars
<1>16. ASSUME NEW r \in Requests, Step(r) \/ Fails(r) PROVE RowsAreBacked'
    BY <1>3, <1>4, <1>5, <1>6, <1>7, <1>16 DEF Step, Fails
<1> QED BY <1>8, <1>9, <1>10, <1>11, <1>12, <1>13, <1>14, <1>15, <1>16 DEF Next

-----------------------------------------------------------------------------
(* The owner of a claim. *)
Owned(t) ==
    row[t].status = "decoding" /\ t \notin orphaned =>
        /\ holder[t] # NoRequest
        /\ pc[holder[t]] \in Holding
        /\ Token(holder[t]) = t

\* A claim keeps its owner while that one holds on.
LEMMA OwnerStays ==
    ASSUME TypeOK, DecodingHasAnOwner, NEW t \in Tokens,
           row'[t].status = "decoding" => row[t].status = "decoding",
           row'[t].status = "decoding" /\ t \notin orphaned' => t \notin orphaned,
           holder'[t] = holder[t],
           row'[t].status = "decoding" /\ t \notin orphaned' =>
               \A s \in Requests : holder[t] = s /\ pc[s] \in Holding /\ Token(s) = t =>
                   pc'[s] \in Holding /\ req'[s] = req[s]
    PROVE  Owned(t)'
<1> SUFFICES ASSUME row'[t].status = "decoding", t \notin orphaned'
             PROVE  /\ holder'[t] # NoRequest
                    /\ pc'[holder'[t]] \in Holding
                    /\ Token(holder[t])' = t
    BY DEF Owned
<1>1. /\ holder[t] # NoRequest /\ pc[holder[t]] \in Holding /\ Token(holder[t]) = t
      /\ holder[t] \in Requests
    BY DEF DecodingHasAnOwner, TypeOK
<1>2. PICK s \in Requests : s = holder[t]
    BY <1>1
<1> QED BY <1>1, <1>2 DEF Token

LEMMA OwnersKept ==
    ASSUME TypeOK, RequestsAreBacked, DecodingHasAnOwner, [Next]_vars
    PROVE  DecodingHasAnOwner'
<1>1. RequestTypes /\ RowTypes /\ ProcessTypes /\ HistoryTypes
    BY TypeParts
<1>2. /\ Holding = {"claimed", "decoding", "completing"}
    BY DEF Holding
<1>3. ASSUME \A t \in Tokens : Owned(t)' PROVE DecodingHasAnOwner'
    BY <1>3 DEF DecodingHasAnOwner, Owned
<1> DEFINE HoldersStay == \A s \in Requests : pc[s] \in Holding => pc'[s] \in Holding /\ req'[s] = req[s]
<1>4. ASSUME UNCHANGED <<holder, orphaned>>, HoldersStay,
             \A t \in Tokens : row'[t].status = row[t].status
      PROVE  DecodingHasAnOwner'
    BY <1>3, <1>4, OwnerStays
\* A promise that settles.
<1>5. ASSUME NEW r \in Requests, Settling(r)
      PROVE  /\ req' = req /\ Token(r) \in Tokens
             /\ \A s \in Requests : s # r /\ pc[s] \in Holding => pc'[s] \in Holding
    <2>1. PICK o \in Outcomes : Settle(r, o)
        BY <1>1, <1>5, SettlingHasOutcome
    <2>2. /\ req' = req
          /\ \A s \in Requests : pc'[s] = IF s \in Sharing(r) THEN "annotated" ELSE pc[s]
          /\ \A s \in Sharing(r) : s = r \/ pc[s] = "joined"
        BY <1>1, <2>1, SettleEffect
    <2> QED BY <1>1, <1>2, <2>2, TokensAreTokens
<1>6. ASSUME NEW r \in Requests,
             ReadDone(r) \/ PollDone(r) \/ GiveUp(r) \/ ReadFails(r) \/ ClaimNotMade(r)
      PROVE  DecodingHasAnOwner'
    <2>1. /\ UNCHANGED <<row, holder, orphaned>> /\ pc[r] \notin Holding
        BY <1>2, <1>6 DEF ReadDone, PollDone, GiveUp, ReadFails, ClaimNotMade, historyVars
    <2>2. HoldersStay
        BY <1>5, <1>6, <2>1 DEF Settling
    <2> QED BY <1>4, <2>1, <2>2
<1>7. ASSUME NEW r \in Requests, ClaimFails(r) PROVE DecodingHasAnOwner'
    <2>1. /\ TakeRow(r) /\ orphaned' = orphaned \cup {Token(r)} /\ pc[r] \notin Holding
        BY <1>2, <1>7 DEF ClaimFails
    <2>2. HoldersStay
        BY <1>5, <1>7, <2>1 DEF Settling
    <2>3. ASSUME NEW t \in Tokens, t # Token(r) PROVE Owned(t)'
        <3>1. row'[t] = row[t] /\ holder'[t] = holder[t]
            BY <1>1, <2>1, <2>3, TakeRowEffect
        <3> QED BY <2>1, <2>2, <2>3, <3>1, OwnerStays
    <2>4. ASSUME NEW t \in Tokens, t = Token(r) PROVE Owned(t)'
        BY <2>1, <2>4 DEF Owned
    <2> QED BY <1>3, <2>3, <2>4
<1>8. ASSUME NEW r \in Requests, OverBudget(r) \/ Complete(r) \/ CompleteFails(r)
      PROVE  DecodingHasAnOwner'
    <2>1. /\ holder' = holder /\ pc[r] \in Holding
          /\ row' = row \/ row' = Completed(r)
          /\ orphaned \subseteq orphaned' /\ orphaned' \subseteq orphaned \cup {Token(r)}
        BY <1>2, <1>8 DEF OverBudget, Complete, CompleteFails, Orphan, historyVars
    <2>2. \A t \in Tokens : t # Token(r) => row'[t] = row[t]
        BY <1>1, <2>1, CompletedEffect
    <2>3. /\ req' = req /\ Token(r) \in Tokens
          /\ \A s \in Requests : s # r /\ pc[s] \in Holding => pc'[s] \in Holding
        BY <1>5, <1>8 DEF Settling
    <2>4. ASSUME NEW t \in Tokens, t # Token(r) PROVE Owned(t)'
        BY <2>1, <2>2, <2>3, <2>4, OwnerStays
    <2>5. row'[Token(r)].status = "decoding" =>
            /\ row[Token(r)].status = "decoding"
            /\ holder[Token(r)] = r => Token(r) \in orphaned'
        <3>1. row' = Completed(r) => row'[Token(r)].status # "decoding"
            BY <1>1, CompletedEffect
        <3>2. ~Complete(r) => Orphan(r)
            BY <1>8 DEF OverBudget, CompleteFails
        <3>3. Complete(r) => row' = Completed(r)
            BY DEF Complete
        <3> QED BY <2>1, <3>1, <3>2, <3>3 DEF Orphan
    <2>6. PICK u \in Tokens : u = Token(r)
        BY <2>3
    <2>7. Owned(u)'
        BY <2>1, <2>3, <2>5, <2>6, OwnerStays
    <2> QED BY <1>3, <2>4, <2>6, <2>7
<1>9. ASSUME NEW r \in Requests, Claim(r) \/ Recover(r) PROVE DecodingHasAnOwner'
    <2>1. /\ TakeRow(r) /\ orphaned' = orphaned \ {Token(r)} /\ Proceed(r, "claimed")
        BY <1>9 DEF Claim, Recover
    <2>2. /\ req' = req /\ \A s \in Requests : pc'[s] = IF s = r THEN "claimed" ELSE pc[s]
        BY <1>1, <2>1 DEF Proceed, Goto, RequestTypes
    <2>3. PICK u \in Tokens : u = Token(r)
        BY <1>1, TokensAreTokens
    <2>4. Owned(u)'
        <3>1. holder'[u] = r
            BY <1>1, <2>1, <2>3, TakeRowEffect
        <3>2. Token(r)' = u /\ pc'[r] \in Holding /\ r # NoRequest
            BY <1>2, <2>2, <2>3, NoRequestAssumption DEF Token
        <3> QED BY <3>1, <3>2 DEF Owned, Token
    <2>5. ASSUME NEW t \in Tokens, t # u PROVE Owned(t)'
        <3>1. row'[t] = row[t] /\ holder'[t] = holder[t]
            BY <1>1, <2>1, <2>3, <2>5, TakeRowEffect
        <3>2. HoldersStay
            BY <1>2, <2>2
        <3> QED BY <2>1, <2>3, <2>5, <3>1, <3>2, OwnerStays
    <2> QED BY <1>3, <2>4, <2>5
<1>10. ASSUME NEW r \in Requests,
              \/ ReadUndone(r) \/ ClaimRefused(r) \/ RecoverRefused(r)
              \/ PollAgain(r) \/ StartDecode(r)
       PROVE  DecodingHasAnOwner'
    <2>1. UNCHANGED <<row, req, holder, orphaned>>
        BY <1>10 DEF ReadUndone, ClaimRefused, RecoverRefused, PollAgain, StartDecode, Proceed,
                     historyVars
    <2>2. CASE PollAgain(r)
        <3>1. HoldersStay
            BY <2>1, <2>2 DEF PollAgain
        <3> QED BY <1>4, <2>1, <3>1
    <2>3. CASE ReadUndone(r) \/ ClaimRefused(r) \/ RecoverRefused(r) \/ StartDecode(r)
        <3>1. \/ pc[r] \notin Holding /\ \A s \in Requests : s # r => pc'[s] = pc[s]
              \/ pc' = [pc EXCEPT ![r] = "decoding"]
            BY <1>1, <1>2, <2>3 DEF ReadUndone, ClaimRefused, RecoverRefused, StartDecode,
                                    Proceed, Goto, RequestTypes
        <3>2. HoldersStay
            BY <1>1, <1>2, <2>1, <3>1 DEF RequestTypes
        <3> QED BY <1>4, <2>1, <3>2
    <2> QED BY <1>10, <2>2, <2>3
<1>11. ASSUME NEW r \in Requests, Returning(r) PROVE DecodingHasAnOwner'
    <2>1. PICK d \in Results : Returned(r, d)
        BY <1>1, <1>11, ReturningResult
    <2>2. /\ UNCHANGED <<req, row, holder, orphaned>>
          /\ \A s \in Requests : pc'[s] = IF s = r THEN "completing" ELSE pc[s]
        BY <1>1, <2>1, ReturnedEffect
    <2>3. HoldersStay
        BY <1>2, <2>2
    <2> QED BY <1>4, <2>2, <2>3
<1>12. ASSUME NEW r \in Requests, NEW k \in Kinds, Arrive(r, k) PROVE DecodingHasAnOwner'
    <2>1. HoldersStay
        BY <1>1, <1>2, <1>12 DEF Arrive, Goto, RequestTypes
    <2> QED BY <1>4, <1>12, <2>1 DEF Arrive, historyVars
<1>13. ASSUME NEW p \in Processes, DropVerdicts(p) \/ SweepFails(p) PROVE DecodingHasAnOwner'
    <2>1. HoldersStay /\ UNCHANGED <<holder, orphaned>>
        BY <1>13 DEF DropVerdicts, SweepFails, requestVars, historyVars
    <2>2. \A t \in Tokens : row'[t].status = row[t].status
        BY <1>1, <1>13, DropEffect DEF SweepFails
    <2> QED BY <1>4, <2>1, <2>2
<1>14. ASSUME NEW p \in Processes, DeleteRows(p) PROVE DecodingHasAnOwner'
    <2>1. ASSUME NEW t \in Tokens PROVE Owned(t)'
        <3>1. CASE row[t].old
            BY <1>14, <2>1, <3>1 DEF DeleteRows, NoRow, Owned
        <3>2. CASE ~row[t].old
            <4>1. row'[t] = row[t] /\ holder'[t] = holder[t] /\ (t \in orphaned => t \in orphaned')
                BY <1>14, <2>1, <3>2 DEF DeleteRows
            <4>2. HoldersStay
                BY <1>14 DEF DeleteRows, requestVars
            <4> QED BY <4>1, <4>2, OwnerStays
        <3> QED BY <3>1, <3>2
    <2> QED BY <1>3, <2>1
<1>15. ASSUME NEW p \in Processes, Crash(p) PROVE DecodingHasAnOwner'
    <2> DEFINE mine == {r \in Requests : req[r].process = p /\ pc[r] \in Live}
    <2>1. /\ UNCHANGED <<req, row, holder>>
          /\ \A s \in Requests : s \notin mine => pc'[s] = pc[s]
          /\ orphaned \subseteq orphaned'
          /\ \A t \in Tokens : holder[t] \in mine /\ pc[holder[t]] \in Holding
                               /\ row[t].status = "decoding" => t \in orphaned'
        BY <1>15 DEF Crash
    <2> HIDE DEF mine
    <2>2. ASSUME NEW t \in Tokens PROVE Owned(t)'
        BY <2>1, <2>2, OwnerStays
    <2> QED BY <1>3, <2>2
<1>16. ASSUME NEW t \in Tokens,
              ClaimOverdue(t) \/ TokenAges(t) \/ VerdictLapses(t) \/ RowAges(t)
       PROVE  DecodingHasAnOwner'
    <2>1. Lapse
        BY <1>16 DEF ClaimOverdue, TokenAges, VerdictLapses, RowAges
    <2>2. HoldersStay /\ UNCHANGED <<holder, orphaned>>
        BY <2>1 DEF Lapse, requestVars, historyVars
    <2>3. \A u \in Tokens : row'[u].status = row[u].status
        BY <1>1, <1>16, WindowEffect DEF TokenAges
    <2> QED BY <1>4, <2>2, <2>3
<1>17. ASSUME NEW b \in Processes \X Users, WindowPasses(b) PROVE DecodingHasAnOwner'
    <2>1. UNCHANGED <<pc, req, row, holder, orphaned>>
        BY <1>17 DEF WindowPasses, Lapse, requestVars, historyVars
    <2>2. HoldersStay
        BY <2>1
    <2> QED BY <1>4, <2>1, <2>2
<1>18. ASSUME Done \/ UNCHANGED vars PROVE DecodingHasAnOwner'
    <2>1. UNCHANGED <<pc, req, row, holder, orphaned>>
        BY <1>18 DEF Done, vars, requestVars, historyVars
    <2>2. HoldersStay
        BY <2>1
    <2> QED BY <1>4, <2>1, <2>2
<1>19. ASSUME NEW r \in Requests, Step(r) \/ Fails(r) PROVE DecodingHasAnOwner'
    BY <1>6, <1>7, <1>8, <1>9, <1>10, <1>11, <1>19 DEF Step, Fails, Returning
<1> QED BY <1>12, <1>13, <1>14, <1>15, <1>16, <1>17, <1>18, <1>19 DEF Next

-----------------------------------------------------------------------------
(* The decodes to come. *)
ToDecode == {"claimed", "decoding"}

Counted(t) ==
    /\ decodes[t] + Cardinality(Pending(t)) + Unclaimed(t) <= 1 + takeovers[t]
    /\ takeovers[t] > 0 => t \in troubled

LEMMA CountsAreNumbers ==
    ASSUME TypeOK, NEW t \in Tokens
    PROVE  /\ IsFiniteSet(Pending(t)) /\ Cardinality(Pending(t)) \in Nat
           /\ decodes[t] \in Nat /\ takeovers[t] \in Nat /\ Unclaimed(t) \in {0, 1}
<1>1. Pending(t) \in SUBSET Requests
    BY DEF Pending
<1> QED BY <1>1, NoRequestAssumption, FS_Subset, FS_CardinalityType DEF TypeOK, Unclaimed

\* r may decode its token now: it has claimed the row.
LEMMA PendingGains ==
    ASSUME TypeOK, NEW r \in Requests, pc[r] \notin ToDecode, Proceed(r, "claimed")
    PROVE  /\ Cardinality(Pending(Token(r)))' = Cardinality(Pending(Token(r))) + 1
           /\ \A t \in Tokens \ {Token(r)} : Pending(t)' = Pending(t)
<1>1. req' = req /\ \A s \in Requests : pc'[s] = IF s = r THEN "claimed" ELSE pc[s]
    BY DEF Proceed, Goto, TypeOK
<1>2. PICK u \in Tokens : u = Token(r)
    BY TypeParts, TokensAreTokens
<1>3. Pending(u)' = Pending(u) \cup {r} /\ r \notin Pending(u)
    BY <1>1, <1>2 DEF Pending, Token, ToDecode
<1>4. Cardinality(Pending(u) \cup {r}) = Cardinality(Pending(u)) + 1
    BY <1>3, CountsAreNumbers, FS_AddElement
<1>5. Token(r)' = u
    BY <1>1, <1>2 DEF Token
<1>6. Cardinality(Pending(Token(r)))' = Cardinality(Pending(Token(r))) + 1
    BY <1>2, <1>3, <1>4, <1>5
<1>7. \A t \in Tokens \ {u} : Pending(t)' = Pending(t)
    BY <1>1, <1>2 DEF Pending, Token
<1> QED BY <1>2, <1>6, <1>7

\* Google has answered r.
LEMMA PendingLoses ==
    ASSUME TypeOK, NEW r \in Requests, NEW d \in Results, Returned(r, d)
    PROVE  /\ Cardinality(Pending(Token(r)))' = Cardinality(Pending(Token(r))) - 1
           /\ \A t \in Tokens \ {Token(r)} : Pending(t)' = Pending(t)
<1>1. /\ req' = req /\ pc[r] = "decoding"
      /\ \A s \in Requests : pc'[s] = IF s = r THEN "completing" ELSE pc[s]
    BY TypeParts, ReturnedEffect
<1>2. PICK u \in Tokens : u = Token(r)
    BY TypeParts, TokensAreTokens
<1>3. Pending(u)' = Pending(u) \ {r} /\ r \in Pending(u)
    BY <1>1, <1>2 DEF Pending, Token
<1>4. Cardinality(Pending(u) \ {r}) = Cardinality(Pending(u)) - 1
    BY <1>3, CountsAreNumbers, FS_RemoveElement
<1>5. Token(r)' = u
    BY <1>1, <1>2 DEF Token
<1>6. Cardinality(Pending(Token(r)))' = Cardinality(Pending(Token(r))) - 1
    BY <1>2, <1>3, <1>4, <1>5
<1>7. \A t \in Tokens \ {u} : Pending(t)' = Pending(t)
    BY <1>1, <1>2 DEF Pending, Token
<1> QED BY <1>2, <1>6, <1>7

\* Nobody comes to decode.
NoneAdded == \A s \in Requests : pc'[s] \in ToDecode => pc[s] \in ToDecode /\ req'[s] = req[s]

LEMMA PendingShrinks ==
    ASSUME TypeOK, TypeOK', NoneAdded, NEW t \in Tokens
    PROVE  Cardinality(Pending(t))' <= Cardinality(Pending(t))
<1>1. Pending(t)' \subseteq Pending(t)
    BY DEF NoneAdded, Pending, Token, ToDecode
<1>2. IsFiniteSet(Pending(t))
    BY CountsAreNumbers
<1> QED BY <1>1, <1>2, FS_Subset

LEMMA CountStays ==
    ASSUME TypeOK, TypeOK', DecodesAreCounted, NEW t \in Tokens, NoneAdded,
           decodes'[t] = decodes[t], takeovers'[t] = takeovers[t], troubled \subseteq troubled',
           row'[t].status = "absent" => row[t].status = "absent"
    PROVE  Counted(t)'
<1>1. /\ Cardinality(Pending(t)) \in Nat
      /\ decodes[t] \in Nat /\ takeovers[t] \in Nat /\ Unclaimed(t) \in {0, 1}
    BY CountsAreNumbers
<1>2. Cardinality(Pending(t))' \in Nat
    <2>1. Pending(t)' \in SUBSET Requests
        BY DEF Pending
    <2> QED BY <2>1, NoRequestAssumption, FS_Subset, FS_CardinalityType
<1>3. Unclaimed(t)' \in {0, 1} /\ Unclaimed(t)' <= Unclaimed(t)
    BY DEF Unclaimed
<1>4. Cardinality(Pending(t))' <= Cardinality(Pending(t))
    BY PendingShrinks
<1>5. Counted(t)
    BY DEF DecodesAreCounted, Counted
<1>6. decodes'[t] + Cardinality(Pending(t))' + Unclaimed(t)' <= 1 + takeovers'[t]
    BY <1>1, <1>2, <1>3, <1>4, <1>5 DEF Counted
<1> QED BY <1>5, <1>6 DEF Counted

\* One decode to come, or one made, for one that may be made no longer, or for a
\* takeover that is on record.
LEMMA CountMoves ==
    ASSUME TypeOK, TypeOK', DecodesAreCounted, NEW t \in Tokens,
           NEW dp \in Int, NEW dd \in Int, NEW du \in Int, NEW dt \in Nat,
           Cardinality(Pending(t))' <= Cardinality(Pending(t)) + dp,
           decodes'[t] <= decodes[t] + dd, Unclaimed(t)' <= Unclaimed(t) + du,
           takeovers'[t] = takeovers[t] + dt,
           dp + dd + du <= dt,
           troubled \subseteq troubled', dt = 0 \/ t \in troubled'
    PROVE  Counted(t)'
<1>1. /\ Cardinality(Pending(t)) \in Nat
      /\ decodes[t] \in Nat /\ takeovers[t] \in Nat /\ Unclaimed(t) \in {0, 1}
    BY CountsAreNumbers
<1>2. Cardinality(Pending(t))' \in Nat
    <2>1. Pending(t)' \in SUBSET Requests
        BY DEF Pending
    <2> QED BY <2>1, NoRequestAssumption, FS_Subset, FS_CardinalityType
<1>3. decodes'[t] \in Nat /\ Unclaimed(t)' \in {0, 1}
    BY DEF Unclaimed, TypeOK
<1>4. Counted(t)
    BY DEF DecodesAreCounted, Counted
<1>5. decodes'[t] + Cardinality(Pending(t))' + Unclaimed(t)' <= 1 + takeovers'[t]
    BY <1>1, <1>2, <1>3, <1>4 DEF Counted
<1>6. takeovers'[t] > 0 => t \in troubled'
    BY <1>1, <1>4 DEF Counted
<1> QED BY <1>5, <1>6 DEF Counted

LEMMA CountsKept ==
    ASSUME TypeOK, RequestsAreBacked, DecodesAreCounted, [Next]_vars
    PROVE  DecodesAreCounted'
<1>1. /\ RequestTypes /\ RowTypes /\ ProcessTypes /\ HistoryTypes
      /\ TypeOK' /\ troubled \subseteq troubled'
    BY TypeParts, TypesKept, HistoryGrows
<1>2. ASSUME \A t \in Tokens : Counted(t)' PROVE DecodesAreCounted'
    BY <1>2 DEF DecodesAreCounted, Counted
<1>3. ASSUME NoneAdded, UNCHANGED <<decodes, takeovers>>,
             \A t \in Tokens : row'[t].status = "absent" => row[t].status = "absent"
      PROVE  DecodesAreCounted'
    <2>1. ASSUME NEW t \in Tokens PROVE Counted(t)'
        BY <1>1, <1>3, CountStays
    <2> QED BY <1>2, <2>1
<1>4. ASSUME NEW r \in Requests, Settling(r) PROVE NoneAdded
    <2>1. PICK o \in Outcomes : Settle(r, o)
        BY <1>1, <1>4, SettlingHasOutcome
    <2> QED BY <1>1, <2>1, SettleEffect DEF NoneAdded, ToDecode
<1>5. ASSUME NEW r \in Requests,
             \/ ReadDone(r) \/ PollDone(r) \/ GiveUp(r) \/ OverBudget(r) \/ ReadFails(r)
             \/ ClaimNotMade(r)
      PROVE  DecodesAreCounted'
    <2>1. UNCHANGED <<row, decodes, takeovers>>
        BY <1>5 DEF ReadDone, PollDone, GiveUp, OverBudget, ReadFails, ClaimNotMade, historyVars
    <2>2. NoneAdded
        BY <1>4, <1>5 DEF Settling
    <2> QED BY <1>3, <2>1, <2>2
<1>6. ASSUME NEW r \in Requests, Complete(r) \/ CompleteFails(r) PROVE DecodesAreCounted'
    <2>1. /\ UNCHANGED <<decodes, takeovers>>
          /\ row' = row \/ row' = Completed(r)
        BY <1>6 DEF Complete, CompleteFails, historyVars
    <2>2. NoneAdded
        BY <1>4, <1>6 DEF Settling
    <2>3. \A t \in Tokens : row'[t].status = "absent" => row[t].status = "absent"
        BY <1>1, <2>1, CompletedEffect
    <2> QED BY <1>3, <2>1, <2>2, <2>3
<1>7. ASSUME NEW r \in Requests,
             \/ ReadUndone(r) \/ ClaimRefused(r) \/ RecoverRefused(r) \/ PollAgain(r)
             \/ StartDecode(r)
      PROVE  DecodesAreCounted'
    <2>1. UNCHANGED <<row, req, decodes, takeovers>>
        BY <1>7 DEF ReadUndone, ClaimRefused, RecoverRefused, PollAgain, StartDecode, Proceed,
                    historyVars
    <2>2. CASE PollAgain(r)
        <3>1. NoneAdded
            BY <2>1, <2>2 DEF PollAgain, NoneAdded
        <3> QED BY <1>3, <2>1, <3>1
    <2>3. CASE ReadUndone(r) \/ ClaimRefused(r) \/ RecoverRefused(r) \/ StartDecode(r)
        <3>1. /\ \A s \in Requests : s # r => pc'[s] = pc[s]
              /\ pc'[r] \in {"claiming", "recovering", "polling"} \/ pc[r] = "claimed"
            BY <1>1, <2>3 DEF ReadUndone, ClaimRefused, RecoverRefused, StartDecode,
                              Proceed, Goto, RequestTypes
        <3>2. NoneAdded
            BY <2>1, <3>1 DEF NoneAdded, ToDecode
        <3> QED BY <1>3, <2>1, <3>2
    <2> QED BY <1>7, <2>2, <2>3
<1>8. ASSUME NEW r \in Requests, Claim(r) PROVE DecodesAreCounted'
    <2>1. /\ pc[r] \notin ToDecode /\ Proceed(r, "claimed") /\ TakeRow(r)
          /\ RowOf(r).status = "absent" /\ UNCHANGED <<decodes, takeovers>>
        BY <1>8 DEF Claim, ToDecode
    <2>2. PICK u \in Tokens : u = Token(r)
        BY <1>1, TokensAreTokens
    <2>3. /\ Cardinality(Pending(u))' = Cardinality(Pending(u)) + 1
          /\ \A t \in Tokens \ {u} : Pending(t)' = Pending(t)
        <3>1. Token(r)' = Token(r)
            BY <2>1 DEF Proceed, Token
        <3> QED BY <2>1, <2>2, <3>1, PendingGains
    <2>4. /\ row'[u].status = "decoding" /\ row[u].status = "absent"
          /\ \A t \in Tokens \ {u} : row'[t] = row[t]
        BY <1>1, <2>1, <2>2, TakeRowEffect DEF RowOf
    <2>5. Counted(u)'
        <3>1. Unclaimed(u)' = 0 /\ Unclaimed(u) = 1
            BY <2>4 DEF Unclaimed
        <3>2. decodes[u] \in Nat /\ takeovers[u] \in Nat /\ Cardinality(Pending(u)) \in Nat
            BY CountsAreNumbers
        <3> QED BY <1>1, <2>1, <2>3, <3>1, <3>2, CountMoves, 1 \in Int, 0 \in Int, -1 \in Int
    <2>6. ASSUME NEW t \in Tokens \ {u} PROVE Counted(t)'
        BY <2>1, <2>3, <2>4, <1>1 DEF DecodesAreCounted, Counted, Unclaimed
    <2> QED BY <1>2, <2>5, <2>6
<1>9. ASSUME NEW r \in Requests, Recover(r) PROVE DecodesAreCounted'
    <2>1. /\ pc[r] \notin ToDecode /\ Proceed(r, "claimed") /\ TakeRow(r)
          /\ RowOf(r).status = "decoding" /\ UNCHANGED decodes
          /\ takeovers' = [takeovers EXCEPT ![Token(r)] = @ + 1]
          /\ Token(r) \in troubled'
        BY <1>9 DEF Recover, Overdue, ToDecode
    <2>2. PICK u \in Tokens : u = Token(r)
        BY <1>1, TokensAreTokens
    <2>3. /\ Cardinality(Pending(u))' = Cardinality(Pending(u)) + 1
          /\ \A t \in Tokens \ {u} : Pending(t)' = Pending(t)
        <3>1. Token(r)' = Token(r)
            BY <2>1 DEF Proceed, Token
        <3> QED BY <2>1, <2>2, <3>1, PendingGains
    <2>4. /\ row'[u].status = "decoding" /\ row[u].status = "decoding"
          /\ \A t \in Tokens \ {u} : row'[t] = row[t]
        BY <1>1, <2>1, <2>2, TakeRowEffect DEF RowOf
    <2>5. /\ takeovers'[u] = takeovers[u] + 1 /\ u \in troubled'
          /\ \A t \in Tokens \ {u} : takeovers'[t] = takeovers[t]
        BY <1>1, <2>1, <2>2 DEF HistoryTypes
    <2>6. Counted(u)'
        <3>1. Unclaimed(u)' = 0 /\ Unclaimed(u) = 0
            BY <2>4 DEF Unclaimed
        <3>2. decodes[u] \in Nat /\ takeovers[u] \in Nat /\ Cardinality(Pending(u)) \in Nat
            BY CountsAreNumbers
        <3> QED BY <1>1, <2>1, <2>3, <2>5, <3>1, <3>2, CountMoves, 1 \in Int, 0 \in Int, SMTT(30)
    <2>7. ASSUME NEW t \in Tokens \ {u} PROVE Counted(t)'
        BY <2>1, <2>3, <2>4, <2>5, <1>1 DEF DecodesAreCounted, Counted, Unclaimed
    <2> QED BY <1>2, <2>6, <2>7
<1>10. ASSUME NEW r \in Requests, ClaimFails(r) PROVE DecodesAreCounted'
    <2>1. NoneAdded
        BY <1>4, <1>10 DEF Settling
    <2>2. /\ TakeRow(r) /\ UNCHANGED decodes
          /\ \/ UNCHANGED takeovers
             \/ /\ takeovers' = [takeovers EXCEPT ![Token(r)] = @ + 1]
                /\ Token(r) \in troubled'
        BY <1>10 DEF ClaimFails
    <2>3. PICK u \in Tokens : u = Token(r)
        BY <1>1, TokensAreTokens
    <2>4. /\ row'[u].status = "decoding"
          /\ \A t \in Tokens \ {u} : row'[t] = row[t]
        BY <1>1, <2>2, <2>3, TakeRowEffect
    <2>5. /\ \/ takeovers'[u] = takeovers[u]
             \/ takeovers'[u] = takeovers[u] + 1 /\ u \in troubled'
          /\ \A t \in Tokens \ {u} : takeovers'[t] = takeovers[t]
        BY <1>1, <2>2, <2>3 DEF HistoryTypes
    <2>6. ASSUME NEW t \in Tokens PROVE Counted(t)'
        <3>1. PICK dt \in {0, 1} : takeovers'[t] = takeovers[t] + dt /\ (dt = 0 \/ t \in troubled')
            BY <2>5, CountsAreNumbers
        <3>2. Unclaimed(t)' <= Unclaimed(t) + 0
            BY <2>4 DEF Unclaimed
        <3>3. Cardinality(Pending(t))' <= Cardinality(Pending(t)) + 0
            BY <1>1, <2>1, PendingShrinks, CountsAreNumbers
        <3>4. decodes'[t] <= decodes[t] + 0
            BY <2>2, CountsAreNumbers
        <3>5. 0 + 0 + 0 <= dt /\ dt \in Nat /\ 0 \in Int
            BY <3>1
        <3> HIDE DEF Counted
        <3> QED BY <1>1, <3>1, <3>2, <3>3, <3>4, <3>5, CountMoves
    <2> QED BY <1>2, <2>6
<1>11. ASSUME NEW r \in Requests, Returning(r) PROVE DecodesAreCounted'
    <2>1. PICK d \in Results : Returned(r, d)
        BY <1>1, <1>11, ReturningResult
    <2>2. PICK u \in Tokens : u = Token(r)
        BY <1>1, TokensAreTokens
    <2>3. /\ Cardinality(Pending(u))' = Cardinality(Pending(u)) - 1
          /\ \A t \in Tokens \ {u} : Pending(t)' = Pending(t)
        <3>1. Token(r)' = Token(r)
            BY <2>1 DEF Returned, Token
        <3> QED BY <2>1, <2>2, <3>1, PendingLoses
    <2>4. UNCHANGED <<row, takeovers>>
        BY <2>1 DEF Returned
    <2>5. /\ decodes'[u] <= decodes[u] + 1
          /\ \A t \in Tokens \ {u} : decodes'[t] = decodes[t]
        BY <1>1, <1>11, <2>2 DEF Returning, Decode, Reject, DecodeFails, HistoryTypes
    <2>6. Counted(u)'
        <3>1. decodes[u] \in Nat /\ takeovers[u] \in Nat /\ Cardinality(Pending(u)) \in Nat
              /\ Unclaimed(u) \in {0, 1} /\ Unclaimed(u)' = Unclaimed(u)
            BY <2>4, CountsAreNumbers DEF Unclaimed
        <3>2. /\ Cardinality(Pending(u))' <= Cardinality(Pending(u)) + (0 - 1)
              /\ Unclaimed(u)' <= Unclaimed(u) + 0 /\ takeovers'[u] = takeovers[u] + 0
            BY <2>3, <2>4, <3>1
        <3>3. (0 - 1) \in Int /\ (0 - 1) + 1 + 0 <= 0 /\ 0 \in Nat
            OBVIOUS
        <3> QED BY <1>1, <2>5, <3>2, <3>3, CountMoves
    <2>7. ASSUME NEW t \in Tokens \ {u} PROVE Counted(t)'
        BY <2>3, <2>4, <2>5, <1>1 DEF DecodesAreCounted, Counted, Unclaimed
    <2> QED BY <1>2, <2>6, <2>7
<1>12. ASSUME NEW r \in Requests, NEW k \in Kinds, Arrive(r, k) PROVE DecodesAreCounted'
    <2>1. NoneAdded
        BY <1>1, <1>12 DEF Arrive, Goto, RequestTypes, NoneAdded, ToDecode
    <2> QED BY <1>3, <1>12, <2>1 DEF Arrive, historyVars
<1>13. ASSUME NEW p \in Processes, DropVerdicts(p) \/ SweepFails(p) PROVE DecodesAreCounted'
    <2>1. NoneAdded /\ UNCHANGED <<decodes, takeovers>>
        BY <1>13 DEF DropVerdicts, SweepFails, requestVars, historyVars, NoneAdded
    <2>2. \A t \in Tokens : row'[t].status = row[t].status
        BY <1>1, <1>13, DropEffect DEF SweepFails
    <2> QED BY <1>3, <2>1, <2>2
<1>14. ASSUME NEW p \in Processes, DeleteRows(p) PROVE DecodesAreCounted'
    <2>1. NoneAdded /\ UNCHANGED decodes
        BY <1>14 DEF DeleteRows, requestVars, NoneAdded
    <2>2. ASSUME NEW t \in Tokens PROVE Counted(t)'
        <3>1. CASE row'[t] = row[t] /\ takeovers'[t] = takeovers[t]
            BY <1>1, <2>1, <3>1, CountStays
        <3>2. CASE takeovers'[t] = takeovers[t] + 1 /\ t \in troubled'
            <4>1. Unclaimed(t)' <= Unclaimed(t) + 1
                BY CountsAreNumbers DEF Unclaimed
            <4>2. Cardinality(Pending(t))' <= Cardinality(Pending(t)) + 0
                BY <1>1, <2>1, PendingShrinks, CountsAreNumbers
            <4>3. decodes'[t] <= decodes[t] + 0
                BY <2>1, CountsAreNumbers
            <4> QED BY <1>1, <3>2, <4>1, <4>2, <4>3, CountMoves, 1 \in Nat, 0 \in Int, 0 + 0 + 1 <= 1
        <3> QED BY <1>1, <1>14, <3>1, <3>2, DeleteEffect
    <2> QED BY <1>2, <2>2
<1>15. ASSUME NEW p \in Processes, Crash(p) PROVE DecodesAreCounted'
    <2>1. NoneAdded
        BY <1>1, <1>15 DEF Crash, RequestTypes, NoneAdded, ToDecode
    <2> QED BY <1>3, <1>15, <2>1 DEF Crash
<1>16. ASSUME NEW t \in Tokens,
              ClaimOverdue(t) \/ TokenAges(t) \/ VerdictLapses(t) \/ RowAges(t)
       PROVE  DecodesAreCounted'
    <2>1. Lapse
        BY <1>16 DEF ClaimOverdue, TokenAges, VerdictLapses, RowAges
    <2>2. NoneAdded /\ UNCHANGED <<decodes, takeovers>>
        BY <2>1 DEF Lapse, requestVars, historyVars, NoneAdded
    <2>3. \A u \in Tokens : row'[u].status = row[u].status
        BY <1>1, <1>16, WindowEffect DEF TokenAges
    <2> QED BY <1>3, <2>2, <2>3
<1>17. ASSUME NEW b \in Processes \X Users, WindowPasses(b) PROVE DecodesAreCounted'
    BY <1>3, <1>17 DEF WindowPasses, Lapse, requestVars, historyVars, NoneAdded
<1>18. ASSUME Done \/ UNCHANGED vars PROVE DecodesAreCounted'
    BY <1>3, <1>18 DEF Done, vars, requestVars, historyVars, NoneAdded
<1>19. ASSUME NEW r \in Requests, Step(r) \/ Fails(r) PROVE DecodesAreCounted'
    BY <1>5, <1>6, <1>7, <1>8, <1>9, <1>10, <1>11, <1>19 DEF Step, Fails, Returning
<1> QED BY <1>12, <1>13, <1>14, <1>15, <1>16, <1>17, <1>18, <1>19 DEF Next

-----------------------------------------------------------------------------
LEMMA LedgerInvInit == Init => LedgerInv
<1> SUFFICES ASSUME Init PROVE LedgerInv
    OBVIOUS
<1>1. /\ \A r \in Requests : pc[r] = "idle" /\ decoded[r] = "none" /\ annotation[r] = "none"
      /\ \A t \in Tokens : row[t] = NoRow /\ decodes[t] = 0 /\ takeovers[t] = 0
      /\ \A s \in Processes \X Tokens : inFlight[s] = NoRequest
    BY DEF Init
<1>2. NoRow \in Row /\ NoRow.status = "absent" /\ NoRow.verdict = "none"
    BY DEF NoRow, Row
<1>3. req \in [Requests -> Kinds]
    <2>1. (CHOOSE k \in Kinds : TRUE) \in Kinds
        BY KindsNotEmpty
    <2> QED BY <2>1 DEF Init
<1>4. TypeOK
    <2>1. RequestTypes
        BY <1>3, LimitsAssumption DEF Init, RequestTypes
    <2>2. RowTypes
        BY <1>2 DEF Init, RowTypes
    <2>3. ProcessTypes
        BY LimitsAssumption DEF Init, ProcessTypes
    <2>4. HistoryTypes
        BY IntegrityBounds DEF Init, HistoryTypes
    <2> QED BY <2>1, <2>2, <2>3, <2>4, TypeParts
<1>5. InFlightInv
    <2>1. "idle" \notin Resolving
        BY DEF Resolving, Holding
    <2>2. InFlightIsExact
        BY <1>1, <2>1 DEF InFlightIsExact
    <2> QED BY <1>4, <2>2 DEF TypeOK, InFlightInv, InFlightTypes
<1>6. DecodingHasAnOwner
    BY <1>1, <1>2 DEF DecodingHasAnOwner
<1>7. DecodesAreCounted
    <2>1. ASSUME NEW t \in Tokens PROVE Pending(t) = {}
        BY <1>1 DEF Pending
    <2>2. Cardinality({}) = 0
        BY FS_EmptySet
    <2> QED BY <1>1, <1>2, <2>1, <2>2 DEF DecodesAreCounted, Unclaimed
<1>8. RequestsAreBacked
    BY <1>1 DEF RequestsAreBacked, Backed
<1>9. RowsAreBacked
    BY <1>1, <1>2 DEF RowsAreBacked, RowIsBacked, Backed
<1>10. AnnotationsAreExplained
    BY <1>1 DEF AnnotationsAreExplained, Explained, Blaming
<1> QED BY <1>4, <1>5, <1>6, <1>7, <1>8, <1>9, <1>10 DEF LedgerInv

LEMMA LedgerInvKept == LedgerInv /\ [Next]_vars => LedgerInv'
<1> SUFFICES ASSUME LedgerInv, [Next]_vars PROVE LedgerInv'
    OBVIOUS
<1>1. /\ InFlightInv /\ TypeOK /\ DecodingHasAnOwner
      /\ DecodesAreCounted /\ RequestsAreBacked /\ RowsAreBacked
    BY DEF LedgerInv
<1> QED BY <1>1, StepKeepsInFlightInv, TypesKept, OwnersKept, CountsKept, RequestsKept, RowsKept,
           AnnotationsKept DEF LedgerInv

(* For any number of requests, processes and tokens, the variables have their
   types and a claim in the ledger is worked on by whoever took it last, unless
   that one crashed, was over its budget or failed on a statement: no other way
   through resolveVerdict leaves a row in decoding. *)
THEOREM LedgerOwned == Spec => []StateOK
<1>1. LedgerInv => StateOK
    BY DEF LedgerInv, StateOK
<1> QED BY <1>1, LedgerInvInit, LedgerInvKept, PTL DEF Spec

(* Google decodes a token once, and once more only for each time its claim was
   taken over as overdue or its row deleted; a request is found in order only on
   a payload that was decoded, of our package and minted for its own hash. *)
THEOREM VerdictsEarned == Spec => []VerdictsAreEarned
<1>1. LedgerInv => VerdictsAreEarned
    <2> SUFFICES ASSUME LedgerInv PROVE VerdictsAreEarned
        OBVIOUS
    <2>1. DecodedOnce
        BY TwiceIsTroubled DEF LedgerInv, DecodedOnce
    <2>2. OKIsEarned
        BY DEF LedgerInv, AnnotationsAreExplained, Explained, OKIsEarned
    <2> QED BY <2>1, <2>2 DEF VerdictsAreEarned
<1> QED BY <1>1, LedgerInvInit, LedgerInvKept, PTL DEF Spec

(* A request that is refused has brought it on itself, or its token's one decode
   was unavailable, taken over or forgotten: with any policy, any number of
   processes and any order of claims, polls, retries, crashes and sweeps. *)
THEOREM BlockedForCause == Spec => []BlockedHasACause
<1>1. LedgerInv => BlockedHasACause
    <2> SUFFICES ASSUME LedgerInv, NEW r \in Requests, Blocked(r)
                 PROVE  SendersDoing(r) \/ Token(r) \in troubled
        BY DEF BlockedHasACause
    <2>1. /\ Token(r) \in Tokens /\ Phone[Token(r)] \in Payload
          /\ annotation[r] \in Statuses
          /\ Explained(r, annotation[r])
        BY TypeParts, TokensAreTokens
           DEF LedgerInv, AnnotationsAreExplained, RequestTypes, Blocked
    <2>2. Effective(annotation[r], Phone[Token(r)]) \in Attributable
        BY <2>1, OnlyAttributableBlocked DEF Blocked
    <2>3. CASE annotation[r] \in Blaming
        BY <2>1, <2>3 DEF Explained
    <2>4. annotation[r] # "DECODE_UNAVAILABLE"
        <3>1. Effective("DECODE_UNAVAILABLE", Phone[Token(r)]) \notin Attributable
            BY DEF Effective, Assess, StatusState, Attributable
        <3> QED BY <2>2, <3>1
    <2>5. CASE annotation[r] = "OK"
        <3>1. Effective("OK", Phone[Token(r)]) # "TRUSTED"
            BY <2>2, <2>5 DEF Attributable
        <3> QED BY <3>1 DEF SendersDoing
    <2>6. annotation[r] # "none"
        BY DEF Blocked
    <2> QED BY <2>1, <2>3, <2>4, <2>5, <2>6 DEF Explained
<1> QED BY <1>1, LedgerInvInit, LedgerInvKept, PTL DEF Spec
=============================================================================
