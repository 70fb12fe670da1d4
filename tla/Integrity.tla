----------------------------- MODULE Integrity ------------------------------
(***************************************************************************)
(* The decrypt-once ledger of Play Integrity tokens: verifyIntegrity in    *)
(* several processes over the rows of integrity_verdicts, with Google, the *)
(* retention sweep and the passing of time.                                *)
(*                                                                         *)
(* A token may be decoded once: Google answers a second decode with a      *)
(* payload that has been cleared.                                          *)
(***************************************************************************)
EXTENDS IntegrityPolicy

CONSTANTS
    Requests,      \* requests on the routes wired to verifyIntegrity
    NoRequest,     \* nobody
    Processes,     \* Node processes
    Tokens,        \* integrity tokens; their digest is the key of the ledger
    Bound,         \* the request hash each token was minted for
    Phone,         \* what Google says of the phone that minted each token
    Kinds,         \* what a request may be
    PollAttempts,  \* config.pollAttempts
    DecodeLimit,   \* config.decodeRateLimit
    MaxAccidents,  \* statements and decodes that fail, processes that die
    MaxLapses      \* times that one of the windows of the configuration passes

ASSUME KindsAssumption ==
    \A k \in Kinds : /\ DOMAIN k = {"process", "token", "hash", "user", "endpoint"}
                     /\ k.process \in Processes /\ k.token \in Tokens
ASSUME KindsNotEmpty == Kinds # {}
ASSUME PhoneAssumption == Phone \in [Tokens -> Payload]
ASSUME LimitsAssumption == {PollAttempts, DecodeLimit} \subseteq Nat \ {0}
ASSUME IntegrityBounds == {MaxAccidents, MaxLapses} \subseteq Nat
ASSUME NoRequestAssumption == IsFiniteSet(Requests) /\ NoRequest \notin Requests

VARIABLES
    pc,          \* how far each request is
    req,         \* what each request is
    polls,       \* how often it has polled
    decoded,     \* what decodeToken returned to it
    annotation,  \* req.integrity.status
    row,         \* integrity_verdicts
    inFlight,    \* of each process: the request that resolves each token
    budget,      \* of each process: decodes by each caller in this window
    sweep,       \* of each process: how far its sweep is
    decodes,     \* Google: how often each token has been decoded
    aged,        \* the tokens older than config.maxAgeMs
    holder,      \* history: who claimed each row last
    orphaned,    \* history: why its claim will not be completed
    takeovers,   \* history: how often a row was claimed again or forgotten
    rejected,    \* history: tokens Google rejected
    troubled,    \* history: tokens whose decode was unavailable or taken over
    accidents, lapses

requestVars == <<pc, req, polls, decoded, annotation>>
processVars == <<inFlight, budget, sweep>>
historyVars == <<holder, orphaned, takeovers, rejected, troubled>>
boundVars == <<accidents, lapses>>
vars == <<requestVars, row, processVars, decodes, aged, historyVars, boundVars>>

Users == {k.user : k \in Kinds}
Hashes == {k.hash : k \in Kinds} \cup {Bound[t] : t \in Tokens}

\* A claim is being worked on.
Holding == {"claimed", "decoding", "completing"}
Resolving == {"reading", "claiming", "recovering", "polling"} \cup Holding
Live == {"joined"} \cup Resolving

(* verdict is what was stored of Google's payload; usable, stale and old are
   the three comparisons the statements make with decoded_at and claimed_at. *)
NoRow == [status |-> "absent", verdict |-> "none", hash |-> "none",
          usable |-> FALSE, stale |-> FALSE, old |-> FALSE]
ClaimedFor(r) == [NoRow EXCEPT !.status = "decoding", !.hash = req[r].hash]

Results == {"intact", "cleared", "failed", "unavailable"}

TypeOK ==
    /\ pc \in [Requests -> {"idle", "annotated", "dead"} \cup Live]
    /\ req \in [Requests -> Kinds]
    /\ polls \in [Requests -> 0..PollAttempts]
    /\ decoded \in [Requests -> Results \cup {"none"}]
    /\ annotation \in [Requests -> Statuses \cup {"none"}]
    /\ row \in [Tokens -> [status : {"absent", "decoding", "done"},
                           verdict : {"none", "intact", "cleared"},
                           hash : Hashes \cup {"none"},
                           usable : BOOLEAN, stale : BOOLEAN, old : BOOLEAN]]
    /\ \A t \in Tokens : row[t].verdict # "none" => row[t].status = "done"
    /\ inFlight \in [Processes \X Tokens -> Requests \cup {NoRequest}]
    /\ budget \in [Processes \X Users -> 0..DecodeLimit]
    /\ sweep \in [Processes -> {"due", "dropping", "deleting", "swept"}]
    /\ decodes \in [Tokens -> Nat]
    /\ aged \subseteq Tokens
    /\ holder \in [Tokens -> Requests \cup {NoRequest}]
    /\ orphaned \subseteq Tokens
    /\ takeovers \in [Tokens -> Nat]
    /\ rejected \subseteq Tokens /\ troubled \subseteq Tokens
    /\ accidents \in 0..MaxAccidents /\ lapses \in 0..MaxLapses

(* The processes have been running for a while, and these tokens are new. *)
Init ==
    /\ pc = [r \in Requests |-> "idle"]
    /\ req = [r \in Requests |-> CHOOSE k \in Kinds : TRUE]
    /\ polls = [r \in Requests |-> 0]
    /\ decoded = [r \in Requests |-> "none"]
    /\ annotation = [r \in Requests |-> "none"]
    /\ row = [t \in Tokens |-> NoRow]
    /\ inFlight = [s \in Processes \X Tokens |-> NoRequest]
    /\ budget = [b \in Processes \X Users |-> 0]
    /\ sweep = [p \in Processes |-> "swept"]
    /\ decodes = [t \in Tokens |-> 0]
    /\ aged = {}
    /\ holder = [t \in Tokens |-> NoRequest]
    /\ orphaned = {} /\ rejected = {} /\ troubled = {}
    /\ takeovers = [t \in Tokens |-> 0]
    /\ accidents = 0 /\ lapses = 0

-----------------------------------------------------------------------------
Token(r) == req[r].token
Slot(r) == <<req[r].process, Token(r)>>
RowOf(r) == row[Token(r)]

Goto(r, l) == pc' = [pc EXCEPT ![r] = l]
Proceed(r, l) == Goto(r, l) /\ UNCHANGED <<req, polls, decoded, annotation>>
Accident == accidents < MaxAccidents /\ accidents' = accidents + 1 /\ UNCHANGED lapses

(* The hash not compared: the stored row's was. *)
StatusOfAnyRequest(r, o) ==
    CASE o \in {"replayed", "cleared"} -> "REPLAYED"
      [] o = "unavailable" -> "DECODE_UNAVAILABLE"
      [] o = "failed" -> "DECODE_FAILED"
      [] o = "intact" -> IF Token(r) \in aged THEN "STALE" ELSE "OK"

(* validateVerdict, in the order of its checks, and the codes of the outcomes
   that carry no verdict.  A cleared payload has no package name, and an app
   that was not evaluated is taken for a cleared one. *)
Status(r, o) ==
    CASE o \in {"replayed", "cleared"} -> "REPLAYED"
      [] o = "unavailable" -> "DECODE_UNAVAILABLE"
      [] o = "failed" -> "DECODE_FAILED"
      [] o = "intact" ->
            IF ~Phone[Token(r)].ourPackage
            THEN IF Phone[Token(r)].app = "UNEVALUATED" THEN "REPLAYED" ELSE "PACKAGE_MISMATCH"
            ELSE IF Bound[Token(r)] # req[r].hash THEN "REQUEST_MISMATCH"
            ELSE IF Token(r) \in aged THEN "STALE" ELSE "OK"

(* The promise settles: everyone who shares it goes on with its outcome and
   the entry of the map is deleted. *)
Sharing(r) == {r} \cup {s \in Requests : pc[s] = "joined" /\ Slot(s) = Slot(r)}

(* Only who made the promise hears of it. *)
SettleAlone(r, o) ==
    /\ Goto(r, "annotated")
    /\ annotation' = [annotation EXCEPT ![r] = Status(r, o)]
    /\ polls' = [polls EXCEPT ![r] = 0]
    /\ decoded' = [decoded EXCEPT ![r] = "none"]
    /\ inFlight' = [inFlight EXCEPT ![Slot(r)] = NoRequest]
    /\ UNCHANGED <<req, budget, sweep>>

Settle(r, o) ==
    /\ pc' = [s \in Requests |-> IF s \in Sharing(r) THEN "annotated" ELSE pc[s]]
    /\ annotation' = [s \in Requests |->
                         IF s \in Sharing(r) THEN Status(s, o) ELSE annotation[s]]
    /\ polls' = [polls EXCEPT ![r] = 0]
    /\ decoded' = [decoded EXCEPT ![r] = "none"]
    /\ inFlight' = [inFlight EXCEPT ![Slot(r)] = NoRequest]
    /\ UNCHANGED <<req, budget, sweep>>

-----------------------------------------------------------------------------
(* maybeSweep: once for each sweepIntervalMs, unless one is under way. *)
MaybeSweep(p) == sweep' = IF sweep[p] = "due" THEN [sweep EXCEPT ![p] = "dropping"] ELSE sweep

(* The first request with a token in its process resolves it, the next ones
   join; nothing is awaited before the entry is there. *)
Arrive(r, k) ==
    LET slot == <<k.process, k.token>> IN
    /\ pc[r] = "idle"
    /\ req' = [req EXCEPT ![r] = k]
    /\ MaybeSweep(k.process)
    /\ IF inFlight[slot] = NoRequest
       THEN Goto(r, "reading") /\ inFlight' = [inFlight EXCEPT ![slot] = r]
       ELSE Goto(r, "joined") /\ UNCHANGED inFlight
    /\ UNCHANGED <<polls, decoded, annotation, row, budget, decodes, aged, historyVars,
                   boundVars>>

(* get: a row that is done answers at once. *)
Stored(r) == IF RowOf(r).usable /\ RowOf(r).verdict # "none" THEN RowOf(r).verdict
             ELSE "replayed"

ReadDone(r) ==
    /\ pc[r] = "reading" /\ RowOf(r).status = "done"
    /\ Settle(r, IF RowOf(r).hash = req[r].hash THEN Stored(r) ELSE "replayed")
    /\ UNCHANGED <<row, decodes, aged, historyVars, boundVars>>

ReadUndone(r) ==
    /\ pc[r] = "reading" /\ RowOf(r).status # "done"
    /\ Proceed(r, "claiming")
    /\ UNCHANGED <<row, processVars, decodes, aged, historyVars, boundVars>>

-----------------------------------------------------------------------------
(* claim(): the INSERT of who is first, the UPDATE of who finds a claim that
   is overdue. *)
TakeRow(r) ==
    /\ row' = [row EXCEPT ![Token(r)] = ClaimedFor(r)]
    /\ holder' = [holder EXCEPT ![Token(r)] = r]

Claim(r) ==
    /\ pc[r] = "claiming" /\ RowOf(r).status = "absent"
    /\ TakeRow(r)
    /\ orphaned' = orphaned \ {Token(r)}
    /\ Proceed(r, "claimed")
    /\ UNCHANGED <<processVars, decodes, aged, takeovers, rejected, troubled, boundVars>>

ClaimRefused(r) ==
    /\ pc[r] = "claiming" /\ RowOf(r).status # "absent"
    /\ Proceed(r, "recovering")
    /\ UNCHANGED <<row, processVars, decodes, aged, historyVars, boundVars>>

Overdue(r) == RowOf(r).status = "decoding" /\ RowOf(r).stale

Recover(r) ==
    /\ pc[r] = "recovering" /\ Overdue(r)
    /\ TakeRow(r)
    /\ orphaned' = orphaned \ {Token(r)}
    /\ takeovers' = [takeovers EXCEPT ![Token(r)] = @ + 1]
    /\ troubled' = troubled \cup {Token(r)}
    /\ Proceed(r, "claimed")
    /\ UNCHANGED <<processVars, decodes, aged, rejected, boundVars>>

RecoverRefused(r) ==
    /\ pc[r] = "recovering" /\ ~Overdue(r)
    /\ Proceed(r, "polling")
    /\ UNCHANGED <<row, processVars, decodes, aged, historyVars, boundVars>>

(* The bounded wait for whoever holds the claim. *)
PollDone(r) ==
    /\ pc[r] = "polling" /\ RowOf(r).status = "done"
    /\ Settle(r, Stored(r))
    /\ UNCHANGED <<row, decodes, aged, historyVars, boundVars>>

PollAgain(r) ==
    /\ pc[r] = "polling" /\ RowOf(r).status # "done"
    /\ polls[r] + 1 < PollAttempts
    /\ polls' = [polls EXCEPT ![r] = @ + 1]
    /\ UNCHANGED <<pc, req, decoded, annotation, row, processVars, decodes, aged, historyVars,
                   boundVars>>

(* A claim held elsewhere taken for a replay. *)
GiveUpAsReplay(r) ==
    /\ pc[r] = "polling" /\ RowOf(r).status # "done"
    /\ polls[r] + 1 >= PollAttempts
    /\ Settle(r, "replayed")
    /\ UNCHANGED <<row, decodes, aged, historyVars, boundVars>>

GiveUp(r) ==
    /\ pc[r] = "polling" /\ RowOf(r).status # "done"
    /\ polls[r] + 1 >= PollAttempts
    /\ Settle(r, "unavailable")
    /\ UNCHANGED <<row, decodes, aged, historyVars, boundVars>>

-----------------------------------------------------------------------------
(* A claim that nobody will complete, unless it has been taken over. *)
Orphan(r) ==
    orphaned' = IF holder[Token(r)] = r /\ row'[Token(r)].status = "decoding"
                THEN orphaned \cup {Token(r)} ELSE orphaned

BudgetOf(r) == <<req[r].process, req[r].user>>

(* consumeDecodeBudget, then decodeToken. *)
StartDecode(r) ==
    /\ pc[r] = "claimed" /\ budget[BudgetOf(r)] < DecodeLimit
    /\ budget' = [budget EXCEPT ![BudgetOf(r)] = @ + 1]
    /\ Proceed(r, "decoding")
    /\ UNCHANGED <<row, inFlight, sweep, decodes, aged, historyVars, boundVars>>

(* The budget is used up: the row stays in decoding. *)
OverBudget(r) ==
    /\ pc[r] = "claimed" /\ budget[BudgetOf(r)] >= DecodeLimit
    /\ Settle(r, "unavailable")
    /\ UNCHANGED row
    /\ Orphan(r)
    /\ UNCHANGED <<decodes, aged, holder, takeovers, rejected, troubled, boundVars>>

Returned(r, d) ==
    /\ pc[r] = "decoding"
    /\ decoded' = [decoded EXCEPT ![r] = d]
    /\ Goto(r, "completing")
    /\ UNCHANGED <<req, polls, annotation, row, processVars, aged, holder, orphaned, takeovers>>

(* Google decodes: the first time for good, cleared from then on. *)
Decode(r) ==
    /\ Returned(r, IF decodes[Token(r)] = 0 THEN "intact" ELSE "cleared")
    /\ decodes' = [decodes EXCEPT ![Token(r)] = @ + 1]
    /\ UNCHANGED <<rejected, troubled, boundVars>>

(* 4xx, or no payload. *)
Reject(r) ==
    /\ Returned(r, "failed")
    /\ rejected' = rejected \cup {Token(r)}
    /\ UNCHANGED <<decodes, troubled, boundVars>>

(* An outage, a quota, or a timeout, which may come after Google decoded. *)
DecodeFails(r) ==
    /\ Returned(r, "unavailable")
    /\ Accident
    /\ decodes' \in {decodes, [decodes EXCEPT ![Token(r)] = @ + 1]}
    /\ troubled' = troubled \cup {Token(r)}
    /\ UNCHANGED rejected

(* complete(): unconditional, whoever holds the row by now. *)
Completed(r) ==
    [row EXCEPT ![Token(r)] =
        IF @.status = "absent" THEN @
        ELSE [@ EXCEPT !.status = "done", !.usable = TRUE,
                       !.verdict = IF decoded[r] \in {"intact", "cleared"} THEN decoded[r]
                                   ELSE "none"]]

(* complete() for verdicts only. *)
CompleteVerdict(r) ==
    /\ pc[r] = "completing"
    /\ row' = IF decoded[r] \in {"intact", "cleared"} THEN Completed(r) ELSE row
    /\ Settle(r, decoded[r])
    /\ UNCHANGED <<decodes, aged, historyVars, boundVars>>

Complete(r) ==
    /\ pc[r] = "completing"
    /\ row' = Completed(r)
    /\ Settle(r, decoded[r])
    /\ UNCHANGED <<decodes, aged, historyVars, boundVars>>

(* A statement throws, having taken effect or not: resolve_error. *)
ReadFails(r) ==
    /\ pc[r] \in {"reading", "polling"}
    /\ Accident
    /\ Settle(r, "unavailable")
    /\ UNCHANGED <<row, decodes, aged, historyVars>>

ClaimFails(r) ==
    /\ \/ pc[r] = "claiming" /\ RowOf(r).status = "absent" /\ UNCHANGED <<takeovers, troubled>>
       \/ /\ pc[r] = "recovering" /\ Overdue(r)
          /\ takeovers' = [takeovers EXCEPT ![Token(r)] = @ + 1]
          /\ troubled' = troubled \cup {Token(r)}
    /\ Accident
    /\ TakeRow(r)
    /\ orphaned' = orphaned \cup {Token(r)}
    /\ Settle(r, "unavailable")
    /\ UNCHANGED <<decodes, aged, rejected>>

ClaimNotMade(r) ==
    /\ pc[r] \in {"claiming", "recovering"}
    /\ Accident
    /\ Settle(r, "unavailable")
    /\ UNCHANGED <<row, decodes, aged, historyVars>>

CompleteFails(r) ==
    /\ pc[r] = "completing"
    /\ Accident
    /\ row' \in {row, Completed(r)}
    /\ Settle(r, "unavailable")
    /\ Orphan(r)
    /\ UNCHANGED <<decodes, aged, holder, takeovers, rejected, troubled>>

-----------------------------------------------------------------------------
(* evict(): the payloads past their window, then the rows past theirs. *)
DropVerdicts(p) ==
    /\ sweep[p] = "dropping"
    /\ sweep' = [sweep EXCEPT ![p] = "deleting"]
    /\ row' = [t \in Tokens |->
                  IF row[t].status = "done" /\ ~row[t].usable
                  THEN [row[t] EXCEPT !.verdict = "none"] ELSE row[t]]
    /\ UNCHANGED <<requestVars, inFlight, budget, decodes, aged, historyVars, boundVars>>

DeleteRows(p) ==
    LET gone == {t \in Tokens : row[t].old} IN
    /\ sweep[p] = "deleting"
    /\ sweep' = [sweep EXCEPT ![p] = "swept"]
    /\ row' = [t \in Tokens |-> IF t \in gone THEN NoRow ELSE row[t]]
    /\ takeovers' = [t \in Tokens |-> takeovers[t] + (IF t \in gone THEN 1 ELSE 0)]
    /\ orphaned' = orphaned \ gone
    /\ troubled' = troubled \cup gone
    /\ UNCHANGED <<requestVars, inFlight, budget, decodes, aged, holder, rejected, boundVars>>

SweepFails(p) ==
    /\ sweep[p] \in {"dropping", "deleting"}
    /\ Accident
    /\ sweep' = [sweep EXCEPT ![p] = "swept"]
    /\ UNCHANGED <<requestVars, row, inFlight, budget, decodes, aged, historyVars>>

(* The process dies: its maps, counters, sweeps and requests are gone. *)
Crash(p) ==
    LET mine == {r \in Requests : req[r].process = p /\ pc[r] \in Live} IN
    /\ Accident
    /\ pc' = [r \in Requests |-> IF r \in mine THEN "dead" ELSE pc[r]]
    /\ inFlight' = [s \in Processes \X Tokens |-> IF s[1] = p THEN NoRequest ELSE inFlight[s]]
    /\ budget' = [b \in Processes \X Users |-> IF b[1] = p THEN 0 ELSE budget[b]]
    /\ sweep' = [sweep EXCEPT ![p] = "due"]
    /\ orphaned' = orphaned \cup {t \in Tokens : holder[t] \in mine
                                                 /\ pc[holder[t]] \in Holding
                                                 /\ row[t].status = "decoding"}
    /\ UNCHANGED <<req, polls, decoded, annotation, row, decodes, aged, holder, takeovers,
                   rejected, troubled>>

-----------------------------------------------------------------------------
(* Time passes; each of the windows of the configuration separately. *)
Lapse ==
    /\ lapses < MaxLapses /\ lapses' = lapses + 1
    /\ UNCHANGED <<requestVars, inFlight, decodes, historyVars, accidents>>

(* Four decode timeouts, 8 seconds: shorter than what the pool and a statement
   may take, so that the claimant may still be at work. *)
ClaimOverdue(t) ==
    /\ row[t].status = "decoding" /\ ~row[t].stale
    /\ row' = [row EXCEPT ![t].stale = TRUE]
    /\ Lapse /\ UNCHANGED <<budget, sweep, aged>>

(* maxAgeMs after the phone made the token. *)
TokenAges(t) ==
    /\ t \notin aged /\ aged' = aged \cup {t}
    /\ Lapse /\ UNCHANGED <<row, budget, sweep>>

Untouched(t) == \A r \in Requests : pc[r] \in Live => Token(r) # t

(* verdictTtlMs after the decode, longer than maxAgeMs. *)
VerdictLapses(t) ==
    /\ row[t].usable /\ Untouched(t)
    /\ row' = [row EXCEPT ![t].usable = FALSE]
    /\ aged' = aged \cup {t}
    /\ Lapse /\ UNCHANGED <<budget, sweep>>

(* ledgerTtlMs after the claim, longer than all the others. *)
RowAges(t) ==
    /\ row[t].status # "absent" /\ ~row[t].old /\ Untouched(t)
    /\ row' = [row EXCEPT ![t].old = TRUE, ![t].usable = FALSE,
                          ![t].stale = row[t].status = "decoding"]
    /\ aged' = aged \cup {t}
    /\ sweep' = [p \in Processes |-> IF sweep[p] = "swept" THEN "due" ELSE sweep[p]]
    /\ Lapse /\ UNCHANGED budget

(* decodeRateWindowMs of one caller. *)
WindowPasses(b) ==
    /\ budget[b] > 0
    /\ budget' = [budget EXCEPT ![b] = 0]
    /\ Lapse /\ UNCHANGED <<row, sweep, aged>>

Done ==
    /\ \A r \in Requests : pc[r] \in {"annotated", "dead"}
    /\ \A p \in Processes : sweep[p] \in {"due", "swept"}
    /\ UNCHANGED vars

Step(r) ==
    \/ ReadDone(r) \/ ReadUndone(r)
    \/ Claim(r) \/ ClaimRefused(r) \/ Recover(r) \/ RecoverRefused(r)
    \/ PollDone(r) \/ PollAgain(r) \/ GiveUp(r)
    \/ StartDecode(r) \/ OverBudget(r) \/ Decode(r) \/ Reject(r) \/ Complete(r)

Fails(r) ==
    DecodeFails(r) \/ ReadFails(r) \/ ClaimFails(r) \/ ClaimNotMade(r) \/ CompleteFails(r)

Next ==
    \/ \E r \in Requests :
        \/ \E k \in Kinds : Arrive(r, k)
        \/ Step(r) \/ Fails(r)
    \/ \E p \in Processes : DropVerdicts(p) \/ DeleteRows(p) \/ SweepFails(p) \/ Crash(p)
    \/ \E t \in Tokens : ClaimOverdue(t) \/ TokenAges(t) \/ VerdictLapses(t) \/ RowAges(t)
    \/ \E b \in Processes \X Users : WindowPasses(b)
    \/ Done

Spec == Init /\ [][Next]_vars

-----------------------------------------------------------------------------
(* The map of each process has an entry exactly while one of its requests
   resolves the token, one request does so at a time, and whoever joined has
   somebody to wait for ("the promise is inserted before the first await"). *)
InFlightIsExact ==
    /\ \A s \in Processes \X Tokens : inFlight[s] # NoRequest =>
            pc[inFlight[s]] \in Resolving /\ Slot(inFlight[s]) = s
    /\ \A r \in Requests :
        /\ pc[r] \in Resolving => inFlight[Slot(r)] = r
        /\ pc[r] = "joined" => inFlight[Slot(r)] # NoRequest

(* "Decoding it at most once ever": across processes, crashes and retries
   Google is asked once for a token, and once more for each time its claim was
   taken over as overdue or its row deleted after the ledger's window. *)
DecodedOnce == \A t \in Tokens : decodes[t] <= 1 + takeovers[t]

(* A request is found in order only on the payload of a first decode, of a
   token minted for this very request, whoever decoded it: by polling and by
   joining a request gets verdicts that were asked for by another. *)
OKIsEarned ==
    \A r \in Requests : annotation[r] = "OK" =>
        /\ decodes[Token(r)] > 0
        /\ Phone[Token(r)].ourPackage
        /\ Bound[Token(r)] = req[r].hash

(* Verdicts are earned: one decode for each token, and no other way to OK. *)
VerdictsAreEarned == DecodedOnce /\ OKIsEarned

(* A row in decoding is being decoded by whoever claimed it last, unless that
   one crashed, was refused by its budget, or failed on a statement: every
   other path through resolveVerdict completes the row. *)
DecodingHasAnOwner ==
    \A t \in Tokens : row[t].status = "decoding" /\ t \notin orphaned =>
        /\ holder[t] # NoRequest
        /\ pc[holder[t]] \in Holding
        /\ Token(holder[t]) = t

(* The types, and no claim that nobody looks after. *)
StateOK == TypeOK /\ DecodingHasAnOwner

(* The request is refused with 403. *)
Blocked(r) ==
    annotation[r] # "none" /\
    ResolveAction(Effective(annotation[r], Phone[Token(r)]), req[r].endpoint) = "hard_fail"

(* The sender's doing: a token for another request, an old one, one presented
   for two requests, one Google rejects, or a phone that is not clean. *)
SendersDoing(r) ==
    \/ Bound[Token(r)] # req[r].hash
    \/ Token(r) \in aged \cup rejected
    \/ \E s \in Requests : pc[s] # "idle" /\ Token(s) = Token(r) /\ req[s].hash # req[r].hash
    \/ Effective("OK", Phone[Token(r)]) # "TRUSTED" \/ ~Phone[Token(r)].ourPackage

(* A blocked request has brought it on itself, or the token's one decode was
   unavailable, taken over or forgotten: the ledger never blames the sender of
   a token for what other processes, retries and waits do to it. *)
BlockedHasACause ==
    \A r \in Requests : Blocked(r) => SendersDoing(r) \/ Token(r) \in troubled

-----------------------------------------------------------------------------
(* What integrityVerdictMap.js says of a verdict that could not be obtained:
   "Never the caller's fault, and must never be confused with the states
   above", and integrityPolicy.js of denying for it: it "converts a Google
   incident into a StyliAI outage". *)
OutageNeverBlocks == \A r \in Requests : Blocked(r) => SendersDoing(r)
=============================================================================
