----------------------------- MODULE Generation -----------------------------
(***************************************************************************)
(* A paid generation from end to end: the limiter of concurrent requests,  *)
(* the idempotency claim, the charge, the provider, the refund, the answer *)
(* and the idempotency statement nobody waits for.                         *)
(*                                                                         *)
(* Two endpoints share all of it: generateController ("/api/generate") and *)
(* stabilityController ("/api/ai/generate"); only the first one cancels    *)
(* its provider call when the client goes away.  The wallet is that of     *)
(* Ledger, one step per call of walletService.                             *)
(***************************************************************************)
EXTENDS Ledger

CONSTANTS
    Requests,       \* HTTP requests
    Kinds,          \* what a request can be: user, key, endpoint, body
    Mixes,          \* which requests come together
    Keys,           \* Idempotency-Key values
    NoKey,          \* the header is absent
    Cost,           \* credits a generation costs
    MaxConcurrent,  \* MAX_CONCURRENT_GENERATIONS
    NoRequest,      \* no stored response
    MaxFaults,      \* bound: failing statements
    MaxCrashes,     \* bound: crashes of the process
    MaxExpiries     \* bound: rows of a key that reach IDEMPOTENCY_TTL_HOURS

ASSUME KindsAssumption ==
    Kinds \subseteq [user : Users, key : Keys \cup {NoKey},
                     endpoint : {"/api/generate", "/api/ai/generate"}, body : STRING]
ASSUME MixesAssumption == Mixes \subseteq [Requests -> Kinds]
ASSUME KeysAssumption == NoKey \notin Keys
ASSUME CostAssumption == Cost \in Amounts
ASSUME ConcurrencyAssumption == MaxConcurrent \in Nat \ {0}
ASSUME NoRequestAssumption == NoRequest \notin Requests
ASSUME BoundsAssumption ==
    MaxFaults \in Nat /\ MaxCrashes \in Nat /\ MaxExpiries \in Nat

VARIABLES
    pc,        \* how far each request is
    req,       \* the kind of each request
    outcome,   \* what each request came to
    replyOf,   \* the request whose stored response answered a replay
    holds,     \* the claim each request won: the claims of its key so far, 0 for none
    pending,   \* the statement on its claim an answered request left behind
    closed,    \* the 'close' event of the response has fired
    aborted,   \* the signal of callerAbortSignal is aborted
    slot,      \* the request is counted by the limiter (its closure's ~released)
    active,    \* activeCounts
    row,       \* generation_idempotency
    claims,    \* how many times each key was claimed
    expiries,  \* how many times a row of each key aged out
    faults, crashes  \* how often the bounded events happened

requestVars == <<req, replyOf, holds, pending, closed, aborted, slot>>
boundVars == <<expiries, faults, crashes>>
vars == <<ledgerVars, pc, requestVars, outcome, active, row, claims, boundVars>>

RowKeys == Users \X Keys

(* Live: in the process.  Charged: between its charge and its refund, if
   any. *)
Live == {"claiming", "reading", "admitted", "calling", "storing", "refunding", "answering"}
Charged == {"calling", "storing", "refunding"}

(* "overcharged": the refund failed, logged as FINANCIAL INCONSISTENCY;
   "unacknowledged": the charge was committed and its answer lost; "lost": the
   process died with the charge standing. *)
Outcomes ==
    {"none", "success", "failed", "busy", "replayed", "mismatch", "conflict",
     "overcharged", "unacknowledged", "lost"}

(* A row of generation_idempotency: what its request was, whose response it
   stores, whether created_at is past the TTL. *)
Fingerprint(kind) == [endpoint |-> kind.endpoint, body |-> kind.body]
NoRow == [status |-> "absent", of |-> NoRequest, response |-> NoRequest, expired |-> FALSE]
ClaimedBy(r) ==
    [status |-> "in_progress", of |-> Fingerprint(req[r]), response |-> NoRequest,
     expired |-> FALSE]
Rows ==
    {NoRow} \cup [status : {"in_progress", "completed"},
                  of : {Fingerprint(k) : k \in Kinds},
                  response : Requests \cup {NoRequest}, expired : BOOLEAN]

TypeOK ==
    /\ LedgerTypeOK
    /\ pc \in [Requests -> {"idle"} \cup Live \cup {"answered", "dead"}]
    /\ req \in [Requests -> Kinds]
    /\ outcome \in [Requests -> Outcomes]
    /\ replyOf \in [Requests -> Requests \cup {NoRequest}]
    /\ holds \in [Requests -> Nat]
    /\ pending \in [Requests -> {"none", "complete", "release"}]
    /\ closed \in [Requests -> BOOLEAN]
    /\ aborted \in [Requests -> BOOLEAN]
    /\ slot \in [Requests -> BOOLEAN]
    /\ active \in [Users -> Nat]
    /\ row \in [RowKeys -> Rows]
    /\ claims \in [RowKeys -> Nat]
    /\ faults \in 0..MaxFaults
    /\ crashes \in 0..MaxCrashes
    /\ expiries \in [RowKeys -> 0..MaxExpiries]

Init ==
    /\ LedgerInit
    /\ adsProgress = [u \in Users |-> 0]
    /\ pc = [r \in Requests |-> "idle"]
    /\ req \in Mixes
    /\ outcome = [r \in Requests |-> "none"]
    /\ replyOf = [r \in Requests |-> NoRequest]
    /\ holds = [r \in Requests |-> 0]
    /\ pending = [r \in Requests |-> "none"]
    /\ closed = [r \in Requests |-> FALSE]
    /\ aborted = [r \in Requests |-> FALSE]
    /\ slot = [r \in Requests |-> FALSE]
    /\ active = [u \in Users |-> 0]
    /\ row = [k \in RowKeys |-> NoRow]
    /\ claims = [k \in RowKeys |-> 0]
    /\ expiries = [k \in RowKeys |-> 0]
    /\ faults = 0 /\ crashes = 0

-----------------------------------------------------------------------------
User(r) == req[r].user
RowKey(r) == <<req[r].user, req[r].key>>
RowOf(r) == row[RowKey(r)]

Goto(r, l) == pc' = [pc EXCEPT ![r] = l]
Finish(r, o) == Goto(r, "answering") /\ outcome' = [outcome EXCEPT ![r] = o]
Faulty == faults < MaxFaults /\ faults' = faults + 1 /\ UNCHANGED <<crashes, expiries>>

(* concurrentGenerationLimiter: 429 at the cap, else one more in flight.  The
   rate limiter and authMiddleware before it keep no state of the request. *)
TooMany(r) ==
    /\ pc[r] = "idle"
    /\ active[User(r)] >= MaxConcurrent
    /\ Goto(r, "answered")
    /\ outcome' = [outcome EXCEPT ![r] = "busy"]
    /\ UNCHANGED <<ledgerVars, requestVars, active, row, claims, boundVars>>

Enter(r) ==
    /\ pc[r] = "idle"
    /\ active[User(r)] < MaxConcurrent
    /\ active' = [active EXCEPT ![User(r)] = @ + 1]
    /\ slot' = [slot EXCEPT ![r] = TRUE]
    /\ Goto(r, IF req[r].key = NoKey THEN "admitted" ELSE "claiming")
    /\ UNCHANGED <<ledgerVars, req, replyOf, holds, pending, closed, aborted, outcome, row,
                   claims, boundVars>>

(* release without its released flag. *)
ReleaseSlotTwice(r) ==
    /\ slot' = [slot EXCEPT ![r] = FALSE]
    /\ active' = [active EXCEPT ![User(r)] = IF @ = 0 THEN 0 ELSE @ - 1]

(* release of the limiter, on 'finish' and on 'close', whichever comes
   first. *)
ReleaseSlot(r) ==
    /\ slot' = [slot EXCEPT ![r] = FALSE]
    /\ active' = [active EXCEPT ![User(r)] = IF slot[r] THEN @ - 1 ELSE @]

-----------------------------------------------------------------------------
(* INSERT ... ON CONFLICT DO UPDATE ... WHERE the row is past its TTL. *)
Claimable(r) == RowOf(r).status = "absent" \/ RowOf(r).expired

TakeRow(r) ==
    /\ row' = [row EXCEPT ![RowKey(r)] = ClaimedBy(r)]
    /\ claims' = [claims EXCEPT ![RowKey(r)] = @ + 1]

(* The WHERE of the DO UPDATE forgotten. *)
ClaimAnyRow(r) ==
    /\ pc[r] = "claiming"
    /\ TakeRow(r)
    /\ holds' = [holds EXCEPT ![r] = claims[RowKey(r)] + 1]
    /\ Goto(r, "admitted")
    /\ UNCHANGED <<ledgerVars, req, replyOf, pending, closed, aborted, slot, outcome, active,
                   boundVars>>

Claim(r) ==
    /\ pc[r] = "claiming"
    /\ Claimable(r)
    /\ TakeRow(r)
    /\ holds' = [holds EXCEPT ![r] = claims[RowKey(r)] + 1]
    /\ Goto(r, "admitted")
    /\ UNCHANGED <<ledgerVars, req, replyOf, pending, closed, aborted, slot, outcome, active,
                   boundVars>>

(* rowCount 0: somebody holds the key.  The row is read by a second
   statement. *)
ClaimRefused(r) ==
    /\ pc[r] = "claiming"
    /\ ~Claimable(r)
    /\ Goto(r, "reading")
    /\ UNCHANGED <<ledgerVars, requestVars, outcome, active, row, claims, boundVars>>

(* claim() throws, from its INSERT (without effect, or after it) or from its
   SELECT: the request goes on without a claim. *)
ClaimFails(r) ==
    /\ pc[r] \in {"claiming", "reading"}
    /\ Faulty
    /\ \/ UNCHANGED <<row, claims>>
       \/ pc[r] = "claiming" /\ Claimable(r) /\ TakeRow(r)
    /\ Goto(r, "admitted")
    /\ UNCHANGED <<ledgerVars, requestVars, outcome, active>>

(* The row is gone by the time it is read: the request goes on, without a
   claim. *)
ClaimVanished(r) ==
    /\ pc[r] = "reading"
    /\ RowOf(r).status = "absent"
    /\ Goto(r, "admitted")
    /\ UNCHANGED <<ledgerVars, requestVars, outcome, active, row, claims, boundVars>>

RejectMismatch(r) ==
    /\ pc[r] = "reading"
    /\ RowOf(r).status # "absent"
    /\ RowOf(r).of # Fingerprint(req[r])
    /\ Finish(r, "mismatch")
    /\ UNCHANGED <<ledgerVars, requestVars, active, row, claims, boundVars>>

Replay(r) ==
    /\ pc[r] = "reading"
    /\ RowOf(r).status = "completed"
    /\ RowOf(r).of = Fingerprint(req[r])
    /\ replyOf' = [replyOf EXCEPT ![r] = RowOf(r).response]
    /\ Finish(r, "replayed")
    /\ UNCHANGED <<ledgerVars, req, holds, pending, closed, aborted, slot, active, row, claims,
                   boundVars>>

RejectInProgress(r) ==
    /\ pc[r] = "reading"
    /\ RowOf(r).status = "in_progress"
    /\ RowOf(r).of = Fingerprint(req[r])
    /\ Finish(r, "conflict")
    /\ UNCHANGED <<ledgerVars, requestVars, active, row, claims, boundVars>>

-----------------------------------------------------------------------------
(* The controller: a request it refuses before it charges, for its parameters
   or its style. *)
Invalid(r) ==
    /\ pc[r] = "admitted"
    /\ Finish(r, "failed")
    /\ UNCHANGED <<ledgerVars, requestVars, active, row, claims, boundVars>>

(* deductBalance. *)
Charge(r) ==
    /\ pc[r] = "admitted"
    /\ Debit(User(r), Cost, "generation")
    /\ Goto(r, "calling")
    /\ UNCHANGED <<requestVars, outcome, active, row, claims, boundVars>>

InsufficientBalance(r) ==
    /\ pc[r] = "admitted"
    /\ balance[User(r)] < Cost
    /\ Finish(r, "failed")
    /\ UNCHANGED <<ledgerVars, requestVars, active, row, claims, boundVars>>

(* deductBalance throws: rolled back, or committed with the answer lost. *)
ChargeFails(r) ==
    /\ pc[r] = "admitted"
    /\ Faulty
    /\ \/ UNCHANGED ledgerVars /\ Finish(r, "failed")
       \/ Debit(User(r), Cost, "generation") /\ Finish(r, "unacknowledged")
    /\ UNCHANGED <<requestVars, active, row, claims>>

(* The provider answers in time.  Once the signal is aborted it cannot. *)
ProviderAnswers(r) ==
    /\ pc[r] = "calling"
    /\ ~aborted[r]
    /\ Goto(r, "storing")
    /\ UNCHANGED <<ledgerVars, requestVars, outcome, active, row, claims, boundVars>>

(* The image is stored; history, notification and analytics are written as far
   as they can be. *)
StoreImage(r) ==
    /\ pc[r] = "storing"
    /\ Finish(r, "success")
    /\ UNCHANGED <<ledgerVars, requestVars, active, row, claims, boundVars>>

(* The provider fails, refuses, times out or is cancelled; the upload fails. *)
GenerationFails(r) ==
    /\ pc[r] \in {"calling", "storing"}
    /\ Goto(r, "refunding")
    /\ UNCHANGED <<ledgerVars, requestVars, outcome, active, row, claims, boundVars>>

(* A refund only for the provider's own errors: a cancelled call is not one. *)
RefundUnlessCancelled(r) ==
    /\ pc[r] = "refunding"
    /\ IF aborted[r] THEN UNCHANGED ledgerVars ELSE Credit(User(r), Cost, "refund")
    /\ Finish(r, "failed")
    /\ UNCHANGED <<requestVars, active, row, claims, boundVars>>

(* addBalance. *)
Refund(r) ==
    /\ pc[r] = "refunding"
    /\ Credit(User(r), Cost, "refund")
    /\ Finish(r, "failed")
    /\ UNCHANGED <<requestVars, active, row, claims, boundVars>>

(* addBalance throws: rolled back, or committed with the answer lost. *)
RefundFails(r) ==
    /\ pc[r] = "refunding"
    /\ Faulty
    /\ \/ UNCHANGED ledgerVars /\ Finish(r, "overcharged")
       \/ Credit(User(r), Cost, "refund") /\ Finish(r, "failed")
    /\ UNCHANGED <<requestVars, active, row, claims>>

-----------------------------------------------------------------------------
(* The key released whatever the outcome. *)
StatementReleasing(r) == IF holds[r] # 0 THEN "release" ELSE "none"

(* What the answer of a request does to the claim it holds: the wrapped
   res.json sends a statement nobody waits for. *)
Statement(r) ==
    IF holds[r] = 0 THEN "none"
    ELSE IF outcome[r] = "success" THEN "complete" ELSE "release"

(* res.json, of the controller or of the error handler, then 'finish' unless
   the connection is gone. *)
Answer(r) ==
    /\ pc[r] = "answering"
    /\ pending' = [pending EXCEPT ![r] = Statement(r)]
    /\ Goto(r, "answered")
    /\ ReleaseSlot(r)
    /\ UNCHANGED <<ledgerVars, req, replyOf, holds, closed, aborted, outcome, row, claims,
                   boundVars>>

(* 'close': after the answer, or before it when the client goes away.  The
   listener of callerAbortSignal exists only while the generation runs. *)
Close(r) ==
    /\ pc[r] \in Live \cup {"answered"}
    /\ outcome[r] # "busy"
    /\ ~closed[r]
    /\ closed' = [closed EXCEPT ![r] = TRUE]
    /\ aborted' = [aborted EXCEPT ![r] =
                      pc[r] = "calling" /\ req[r].endpoint = "/api/generate"]
    /\ ReleaseSlot(r)
    /\ UNCHANGED <<ledgerVars, pc, req, replyOf, holds, pending, outcome, row, claims,
                   boundVars>>

(* UPDATE ... SET status = 'completed'. *)
Complete(r) ==
    /\ pending[r] = "complete"
    /\ pending' = [pending EXCEPT ![r] = "none"]
    /\ row' = [row EXCEPT ![RowKey(r)] =
                  IF @.status = "absent" THEN @
                  ELSE [@ EXCEPT !.status = "completed", !.response = r]]
    /\ UNCHANGED <<ledgerVars, pc, req, replyOf, holds, closed, aborted, slot, outcome, active,
                   claims, boundVars>>

(* DELETE ... WHERE status = 'in_progress'. *)
Release(r) ==
    /\ pending[r] = "release"
    /\ pending' = [pending EXCEPT ![r] = "none"]
    /\ row' = [row EXCEPT ![RowKey(r)] = IF @.status = "in_progress" THEN NoRow ELSE @]
    /\ UNCHANGED <<ledgerVars, pc, req, replyOf, holds, closed, aborted, slot, outcome, active,
                   claims, boundVars>>

(* The statement fails: a log line for a complete, nothing for a release. *)
LoseStatement(r) ==
    /\ pending[r] # "none"
    /\ Faulty
    /\ pending' = [pending EXCEPT ![r] = "none"]
    /\ UNCHANGED <<ledgerVars, pc, req, replyOf, holds, closed, aborted, slot, outcome, active,
                   row, claims>>

-----------------------------------------------------------------------------
(* A request still using its claim: in the process, or with a statement on its
   way to the database. *)
Holding(r) == holds[r] # 0 /\ (pc[r] \in Live \/ pending[r] # "none")

(* IDEMPOTENCY_TTL_HOURS pass.  A day is beyond the budgets of a generation
   and of a statement, so that nobody still uses the row. *)
Expire(k) ==
    /\ expiries[k] < MaxExpiries
    /\ row[k].status # "absent" /\ ~row[k].expired
    /\ \A r \in Requests : Holding(r) => RowKey(r) # k
    /\ row' = [row EXCEPT ![k].expired = TRUE]
    /\ expiries' = [expiries EXCEPT ![k] = @ + 1]
    /\ UNCHANGED <<ledgerVars, pc, requestVars, outcome, active, claims, faults, crashes>>

(* The process dies: its requests, its counts and its statements not yet sent
   are gone, what Postgres committed is not. *)
Crash ==
    /\ crashes < MaxCrashes
    /\ crashes' = crashes + 1
    /\ pc' = [r \in Requests |-> IF pc[r] \in Live THEN "dead" ELSE pc[r]]
    /\ outcome' = [r \in Requests |->
                      IF pc[r] \in Charged THEN "lost" ELSE outcome[r]]
    /\ pending' = [r \in Requests |-> "none"]
    /\ slot' = [r \in Requests |-> FALSE]
    /\ active' = [u \in Users |-> 0]
    /\ closed' = [r \in Requests |-> closed[r] \/ pc[r] # "idle"]
    /\ UNCHANGED <<ledgerVars, req, replyOf, holds, aborted, row, claims, faults, expiries>>

Done ==
    /\ \A r \in Requests : pc[r] \in {"answered", "dead"} /\ pending[r] = "none"
    /\ UNCHANGED vars

(* What a request does when nothing goes wrong with the database. *)
Step(r) ==
    \/ Claim(r) \/ ClaimRefused(r) \/ ClaimVanished(r) \/ RejectMismatch(r) \/ Replay(r)
    \/ RejectInProgress(r) \/ Invalid(r) \/ Charge(r) \/ InsufficientBalance(r)
    \/ ProviderAnswers(r) \/ StoreImage(r) \/ GenerationFails(r) \/ Refund(r) \/ Answer(r)

Settle(r) == Complete(r) \/ Release(r)

Fails(r) == ClaimFails(r) \/ ChargeFails(r) \/ RefundFails(r) \/ LoseStatement(r)

Next ==
    \/ \E r \in Requests :
        \/ TooMany(r) \/ Enter(r) \/ Step(r) \/ Settle(r) \/ Fails(r) \/ Close(r)
    \/ \E k \in RowKeys : Expire(k)
    \/ Crash
    \/ Done

(* Node runs the continuations of a request, the generation budget ends every
   provider call, and the pool answers every statement, with an error if need
   be.  Clients, faults and the TTL are under no obligation. *)
Fairness == \A r \in Requests : WF_vars(Step(r)) /\ WF_vars(Settle(r))

Spec == Init /\ [][Next]_vars /\ Fairness

-----------------------------------------------------------------------------
(* The money: what a user's generations have cost, refunds deducted, is the
   cost of those delivered, in progress, or known to have ended badly -- a
   refund that failed, a charge whose answer was lost, a crash.  Every other
   failed request has been refunded exactly once, whatever else was going on. *)
ChargesMatchOutcomes ==
    \A u \in Users :
        - (ledger[u]["generation"] + ledger[u]["refund"]) =
            Cost * Cardinality({r \in Requests :
                /\ User(r) = u
                /\ \/ pc[r] \in Charged
                   \/ outcome[r] \in {"success", "overcharged", "unacknowledged", "lost"}})

(* The claim: a key has at most one request that holds it, and the row stays
   in_progress with that request's fingerprint until it is done with it. *)
HolderIsAlone ==
    \A r \in Requests : Holding(r) =>
        /\ RowOf(r) = ClaimedBy(r)
        /\ holds[r] = claims[RowKey(r)]
        /\ \A s \in Requests : Holding(s) /\ RowKey(s) = RowKey(r) => s = r

(* A row in progress belongs to a request that is still at it, or the process
   died or a statement failed: no path of a request leaves its key behind, to
   be answered 409 until the row ages out. *)
KeysComeBack ==
    \A k \in RowKeys :
        row[k].status = "in_progress" /\ faults = 0 /\ crashes = 0
        => \E r \in Requests : RowKey(r) = k /\ Holding(r)

(* The claims: one holder for each key, and none without a holder. *)
ClaimsAreHeld == HolderIsAlone /\ KeysComeBack

(* A generation is delivered at most once for a key, and once more for each
   time the key's row has aged out.  Requests that proceeded without a claim,
   because its statement failed or the row vanished, are not covered. *)
DeliveredOncePerKey ==
    \A k \in RowKeys :
        Cardinality({r \in Requests :
            RowKey(r) = k /\ holds[r] # 0 /\ outcome[r] = "success"}) <= 1 + expiries[k]

(* A replay answers with the stored response of a delivered generation of the
   same user, key, endpoint and body, and has not been charged for. *)
ReplayIsOfSameRequest ==
    \A r \in Requests : outcome[r] = "replayed" =>
        /\ replyOf[r] # NoRequest
        /\ outcome[replyOf[r]] = "success"
        /\ req[replyOf[r]] = req[r]

(* The limiter's counts are the requests of each user that are in the process
   with their connection open, and never exceed the cap. *)
LimiterIsExact ==
    /\ \A u \in Users :
        /\ active[u] = Cardinality({r \in Requests : slot[r] /\ User(r) = u})
        /\ active[u] <= MaxConcurrent
    /\ \A r \in Requests : slot[r] <=> pc[r] \in Live /\ ~closed[r]

(* The types, and a limiter that neither loses its cap nor locks a user out. *)
StateOK == TypeOK /\ LimiterIsExact

(* For one key the client sees one generation: delivered once, and replayed
   only to the request that it answers. *)
OneDeliveryPerKey == DeliveredOncePerKey /\ ReplayIsOfSameRequest

(* Every request that enters is answered unless the process dies. *)
EveryRequestAnswered ==
    \A r \in Requests : pc[r] \in Live ~> pc[r] \in {"answered", "dead"}

(* A key in progress comes free or gets its response: no path of a request
   leaves its claim behind while the database and the process hold. *)
KeyComesBack ==
    \A k \in RowKeys : row[k].status = "in_progress" ~> row[k].status # "in_progress"

(* Neither the client nor the key waits for ever. *)
EverythingSettles == EveryRequestAnswered /\ KeyComesBack

-----------------------------------------------------------------------------
(* What generationIdempotencyModel.js says of the claim: "Two concurrent
   requests carrying the same key can therefore never both proceed, no matter
   how they interleave". *)
Proceeding(r) == pc[r] \in {"admitted"} \cup Charged

SameKeyNeverBothProceed ==
    \A r, s \in Requests :
        req[r].key # NoKey /\ RowKey(r) = RowKey(s) /\ Proceeding(r) /\ Proceeding(s)
        => r = s

(* What generateController.js says of a client that goes away: it "actually
   cancels the provider call instead of leaving it running against a socket
   nobody is reading". *)
AbsentClientsAreCancelled ==
    \A r \in Requests :
        pc[r] = "calling" /\ req[r].endpoint = "/api/generate" /\ closed[r] => aborted[r]
=============================================================================
