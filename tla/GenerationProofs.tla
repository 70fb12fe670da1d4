-------------------------- MODULE GenerationProofs --------------------------
(***************************************************************************)
(* A generation is charged for what came of it, delivered once for a key,  *)
(* and the limiter and the claims keep their counts: for every set of      *)
(* users, keys and requests, finite or not, and any number of faults.      *)
(*                                                                         *)
(* The inductive invariant says where each request stands (Sound), counts  *)
(* who is in flight and who has been charged, and ties a key's row to the  *)
(* one request that holds it: what a row lets the next request do depends  *)
(* on what its holder has already delivered.                               *)
(***************************************************************************)
EXTENDS Generation, FiniteSetTheorems, TLAPS

(* What a request has, and has not yet, at each point. *)
Sound(r) ==
    /\ pc[r] = "idle" => ~closed[r]
    /\ pc[r] \in {"idle", "claiming", "reading"} => holds[r] = 0
    /\ pc[r] \in {"claiming", "reading"} \/ holds[r] # 0 => req[r].key # NoKey
    /\ pc[r] \in {"idle"} \cup (Live \ {"answering"}) => outcome[r] = "none"
    /\ pending[r] # "none" => pc[r] = "answered" /\ holds[r] # 0
    /\ pending[r] = "complete" => outcome[r] = "success"
    /\ pending[r] = "release" => outcome[r] # "success"
    /\ slot[r] <=> pc[r] \in Live /\ ~closed[r]

AllSound == \A r \in Requests : Sound(r)

(* The limiter: active counts the slots of each user. *)
Slots(u) == {r \in Requests : slot[r] /\ User(r) = u}

SlotsCounted ==
    \A u \in Users :
        /\ IsFiniteSet(Slots(u))
        /\ active[u] = Cardinality(Slots(u))
        /\ active[u] <= MaxConcurrent

(* The money: those a charge stands for. *)
Standing(u) ==
    {r \in Requests :
        /\ User(r) = u
        /\ \/ pc[r] \in Charged
           \/ outcome[r] \in {"success", "overcharged", "unacknowledged", "lost"}}

ChargesCounted ==
    \A u \in Users :
        /\ IsFiniteSet(Standing(u))
        /\ - (ledger[u]["generation"] + ledger[u]["refund"]) = Cost * Cardinality(Standing(u))

(* The key: what was delivered under a claim, and who may still deliver. *)
Delivered(k) ==
    {r \in Requests : RowKey(r) = k /\ holds[r] # 0 /\ outcome[r] = "success"}

MayDeliver(k) ==
    \/ row[k].status = "absent" \/ row[k].expired
    \/ \E r \in Requests : RowKey(r) = k /\ Holding(r) /\ outcome[r] # "success"

(* As long as somebody may still deliver, no generation was delivered since
   the row last aged out. *)
DeliveriesCounted ==
    \A k \in RowKeys :
        /\ IsFiniteSet(Delivered(k))
        /\ Cardinality(Delivered(k)) <= 1 + expiries[k]
        /\ MayDeliver(k) => Cardinality(Delivered(k)) <= expiries[k]

(* A stored response is that of a delivered generation of the same key and
   fingerprint. *)
ResponsesStored ==
    \A k \in RowKeys :
        row[k].status = "completed" =>
            /\ row[k].response \in Requests
            /\ RowKey(row[k].response) = k
            /\ outcome[row[k].response] = "success"
            /\ Fingerprint(req[row[k].response]) = row[k].of

IInv ==
    /\ TypeOK /\ AllSound
    /\ SlotsCounted
    /\ ChargesCounted
    /\ HolderIsAlone /\ KeysComeBack
    /\ DeliveriesCounted
    /\ ResponsesStored /\ ReplayIsOfSameRequest

USE KindsAssumption, MixesAssumption, KeysAssumption, CostAssumption, ConcurrencyAssumption,
    NoRequestAssumption, BoundsAssumption, AmountsAssumption

-----------------------------------------------------------------------------
(* The kind of a request, field by field. *)
LEMMA KindFields ==
    ASSUME TypeOK, NEW r \in Requests
    PROVE  /\ req[r] \in Kinds
           /\ User(r) \in Users /\ req[r].user = User(r)
           /\ req[r].key # NoKey => RowKey(r) \in RowKeys
           /\ ClaimedBy(r) \in Rows
           /\ ClaimedBy(r).status = "in_progress" /\ ~ClaimedBy(r).expired
           /\ ClaimedBy(r).of = Fingerprint(req[r])
  <1>1. req[r] \in Kinds
    BY DEF TypeOK
  <1>2. req[r].user \in Users /\ req[r].key \in Keys \cup {NoKey}
    BY <1>1
  <1>3. Fingerprint(req[r]) \in {Fingerprint(k) : k \in Kinds}
    BY <1>1
  <1>4. ClaimedBy(r) \in Rows
    BY <1>3 DEF ClaimedBy, Rows
  <1> QED
    BY <1>1, <1>2, <1>4 DEF User, RowKey, RowKeys, ClaimedBy

(* Two requests of one key and one fingerprint are one and the same. *)
LEMMA SameKind ==
    ASSUME TypeOK, NEW r \in Requests, NEW s \in Requests,
           RowKey(r) = RowKey(s), Fingerprint(req[r]) = Fingerprint(req[s])
    PROVE  req[r] = req[s]
  <1>1. /\ req[r] \in [user : Users, key : Keys \cup {NoKey},
                       endpoint : {"/api/generate", "/api/ai/generate"}, body : STRING]
        /\ req[s] \in [user : Users, key : Keys \cup {NoKey},
                       endpoint : {"/api/generate", "/api/ai/generate"}, body : STRING]
    BY DEF TypeOK
  <1>2. /\ req[r].user = req[s].user /\ req[r].key = req[s].key
        /\ req[r].endpoint = req[s].endpoint /\ req[r].body = req[s].body
    BY DEF RowKey, Fingerprint
  <1> QED
    BY <1>1, <1>2

(* What a row can be. *)
LEMMA RowFields ==
    /\ NoRow \in Rows /\ NoRow.status = "absent" /\ NoRow.expired = FALSE
    /\ \A w \in Rows :
        /\ w.status \in {"absent", "in_progress", "completed"}
        /\ w.expired \in BOOLEAN
        /\ w.response \in Requests \cup {NoRequest}
        /\ w.status # "absent" =>
               /\ [w EXCEPT !.expired = TRUE] \in Rows
               /\ \A r \in Requests :
                      [w EXCEPT !.status = "completed", !.response = r] \in Rows
  <1>1. NoRow \in Rows /\ NoRow.status = "absent" /\ NoRow.expired = FALSE
    BY DEF Rows, NoRow
  <1>2. ASSUME NEW w \in Rows
        PROVE  /\ w.status \in {"absent", "in_progress", "completed"}
               /\ w.expired \in BOOLEAN
               /\ w.response \in Requests \cup {NoRequest}
    <2> DEFINE of == {Fingerprint(k) : k \in Kinds}
    <2>1. w \in {NoRow} \cup [status : {"in_progress", "completed"}, of : of,
                            response : Requests \cup {NoRequest}, expired : BOOLEAN]
      BY <1>2 DEF Rows
    <2> HIDE DEF of
    <2>2. CASE w = NoRow
      BY <2>2 DEF NoRow
    <2>3. CASE w # NoRow
      BY <2>1, <2>3
    <2> QED
      BY <2>2, <2>3
  <1>3. ASSUME NEW w \in Rows, w.status # "absent"
        PROVE  /\ [w EXCEPT !.expired = TRUE] \in Rows
               /\ \A r \in Requests :
                      [w EXCEPT !.status = "completed", !.response = r] \in Rows
    <2>1. w \in [status : {"in_progress", "completed"}, of : {Fingerprint(k) : k \in Kinds},
                response : Requests \cup {NoRequest}, expired : BOOLEAN]
      BY <1>3 DEF Rows, NoRow
    <2> DEFINE of == {Fingerprint(k) : k \in Kinds}
    <2>2. w \in [status : {"in_progress", "completed"}, of : of,
                response : Requests \cup {NoRequest}, expired : BOOLEAN]
      BY <2>1
    <2> HIDE DEF of
    <2>3. /\ [w EXCEPT !.expired = TRUE] \in
                [status : {"in_progress", "completed"}, of : of,
                 response : Requests \cup {NoRequest}, expired : BOOLEAN]
          /\ \A r \in Requests :
                [w EXCEPT !.status = "completed", !.response = r] \in
                [status : {"in_progress", "completed"}, of : of,
                 response : Requests \cup {NoRequest}, expired : BOOLEAN]
      BY <2>2
    <2> QED
      BY <2>3 DEF Rows, of
  <1> QED
    BY <1>1, <1>2, <1>3

(* What a charge and a refund do to the ledger. *)
LEMMA DebitEffect ==
    ASSUME LedgerTypeOK, NEW u \in Users, Debit(u, Cost, "generation")
    PROVE  /\ LedgerTypeOK'
           /\ \A v \in Users :
                 /\ ledger'[v]["generation"] = ledger[v]["generation"] - IF v = u THEN Cost ELSE 0
                 /\ ledger'[v]["refund"] = ledger[v]["refund"]
  <1>1. /\ ledger' = [ledger EXCEPT ![u]["generation"] = @ + (-Cost)]
        /\ audited' = audited
    BY DEF Debit, Post
  <1>2. \A v \in Users : ledger[v] \in [Types -> Int]
    BY DEF LedgerTypeOK
  <1>3. ledger' \in [Users -> [Types -> Int]]
    BY <1>1, <1>2 DEF LedgerTypeOK, Types
  <1>4. LedgerTypeOK'
    BY <1>1, <1>3 DEF Debit, LedgerTypeOK
  <1> QED
    BY <1>1, <1>2, <1>4 DEF LedgerTypeOK, Types

LEMMA CreditEffect ==
    ASSUME LedgerTypeOK, NEW u \in Users, Credit(u, Cost, "refund")
    PROVE  /\ LedgerTypeOK'
           /\ \A v \in Users :
                 /\ ledger'[v]["generation"] = ledger[v]["generation"]
                 /\ ledger'[v]["refund"] = ledger[v]["refund"] + IF v = u THEN Cost ELSE 0
  <1>1. /\ ledger' = [ledger EXCEPT ![u]["refund"] = @ + Cost]
        /\ audited' = audited
    BY DEF Credit, Post
  <1>2. \A v \in Users : ledger[v] \in [Types -> Int]
    BY DEF LedgerTypeOK
  <1>3. ledger' \in [Users -> [Types -> Int]]
    BY <1>1, <1>2 DEF LedgerTypeOK, Types
  <1>4. LedgerTypeOK'
    BY <1>1, <1>3 DEF Credit, LedgerTypeOK
  <1> QED
    BY <1>1, <1>2, <1>4 DEF LedgerTypeOK, Types

LEMMA LedgerKept == LedgerTypeOK /\ UNCHANGED ledgerVars => LedgerTypeOK' /\ ledger' = ledger
  BY DEF LedgerTypeOK, ledgerVars

-----------------------------------------------------------------------------
LEMMA InitIInv == Init => IInv
  <1> SUFFICES ASSUME Init PROVE IInv
    OBVIOUS
  <1>1. LedgerTypeOK
    BY OpeningAssumption, MaxIntAssumption DEF Init, LedgerInit, LedgerTypeOK
  <1>2. TypeOK
    <2>1. req \in [Requests -> Kinds] /\ row \in [RowKeys -> Rows]
      BY RowFields DEF Init
    <2> QED
      BY <1>1, <2>1 DEF Init, TypeOK, Outcomes
  <1>3. AllSound
    BY DEF Init, AllSound, Sound, Live, Charged
  <1>4. /\ \A u \in Users : Slots(u) = {} /\ Standing(u) = {}
        /\ \A k \in RowKeys : Delivered(k) = {}
    BY DEF Init, Slots, Standing, Delivered, Charged
  <1>5. SlotsCounted /\ DeliveriesCounted
    <2>1. ASSUME NEW u \in Users PROVE IsFiniteSet(Slots(u)) /\ Cardinality(Slots(u)) = 0
      BY <1>4, <2>1, FS_EmptySet
    <2>2. ASSUME NEW k \in RowKeys
          PROVE IsFiniteSet(Delivered(k)) /\ Cardinality(Delivered(k)) = 0
      BY <1>4, <2>2, FS_EmptySet
    <2> QED
      BY <2>1, <2>2 DEF Init, SlotsCounted, DeliveriesCounted
  <1>6. ChargesCounted
    <2>1. ASSUME NEW u \in Users PROVE IsFiniteSet(Standing(u)) /\ Cardinality(Standing(u)) = 0
      BY <1>4, <2>1, FS_EmptySet
    <2>2. \A u \in Users : ledger[u]["generation"] = 0 /\ ledger[u]["refund"] = 0
      BY DEF Init, LedgerInit, Types
    <2> QED
      BY <2>1, <2>2 DEF ChargesCounted
  <1>7. HolderIsAlone /\ KeysComeBack
    BY RowFields DEF Init, HolderIsAlone, KeysComeBack, Holding
  <1>8. ResponsesStored /\ ReplayIsOfSameRequest
    BY RowFields DEF Init, ResponsesStored, ReplayIsOfSameRequest
  <1> QED
    BY <1>2, <1>3, <1>5, <1>6, <1>7, <1>8 DEF IInv

(* Types: every action keeps them. *)
LEMMA TypeStep == IInv /\ [Next]_vars => TypeOK'
  <1> SUFFICES ASSUME IInv, [Next]_vars PROVE TypeOK'
    OBVIOUS
  <1> USE DEF IInv, TypeOK
  <1>1. CASE UNCHANGED vars
    BY <1>1, LedgerKept DEF vars, requestVars, boundVars
  <1>2. CASE Done
    BY <1>2, LedgerKept DEF Done, vars, requestVars, boundVars
  <1>3. CASE Crash
    <2>1. LedgerTypeOK'
      BY <1>3, LedgerKept DEF Crash
    <2> QED
      BY <1>3, <2>1 DEF Crash, Outcomes
  <1>4. ASSUME NEW k \in RowKeys, Expire(k) PROVE TypeOK'
    <2>1. LedgerTypeOK'
      BY <1>4, LedgerKept DEF Expire
    <2>2. [row[k] EXCEPT !.expired = TRUE] \in Rows
      BY <1>4, RowFields DEF Expire
    <2>3. row' = [row EXCEPT ![k] = [row[k] EXCEPT !.expired = TRUE]]
      BY <1>4 DEF Expire
    <2> QED
      BY <1>4, <2>1, <2>2, <2>3 DEF Expire, requestVars
  <1>5. ASSUME NEW r \in Requests,
               \/ TooMany(r) \/ Enter(r) \/ Step(r) \/ Settle(r) \/ Fails(r) \/ Close(r)
        PROVE  TypeOK'
    <2>0. AllSound /\ Sound(r) /\ User(r) \in Users
      BY KindFields DEF AllSound
    <2> USE DEF Goto, Finish, Faulty, requestVars, boundVars, Live, Outcomes
    <2>1. CASE TooMany(r)
      BY <2>1, LedgerKept DEF TooMany
    <2>2. CASE Enter(r)
      BY <2>0, <2>2, LedgerKept DEF Enter
    <2>3. CASE Claim(r) \/ ClaimFails(r)
      <3>1. LedgerTypeOK'
        BY <2>3, LedgerKept DEF Claim, ClaimFails
      <3>2. RowKey(r) \in RowKeys /\ ClaimedBy(r) \in Rows
        BY <2>0, <2>3, KindFields DEF Claim, ClaimFails, Sound
      <3>3. /\ row' \in [RowKeys -> Rows] /\ claims' \in [RowKeys -> Nat]
            /\ holds' \in [Requests -> Nat] /\ pc' = [pc EXCEPT ![r] = "admitted"]
            /\ faults' \in 0..MaxFaults /\ UNCHANGED <<crashes, expiries>>
            /\ UNCHANGED <<req, replyOf, pending, closed, aborted, slot, outcome, active>>
        <4>1. CASE Claim(r)
          BY <3>2, <4>1 DEF Claim, TakeRow
        <4>2. CASE ClaimFails(r)
          <5>1. UNCHANGED <<row, claims>> \/ TakeRow(r)
            BY <4>2 DEF ClaimFails
          <5>2. row' \in [RowKeys -> Rows] /\ claims' \in [RowKeys -> Nat]
            BY <3>2, <5>1 DEF TakeRow
          <5> QED
            BY <4>2, <5>2 DEF ClaimFails
        <4> QED
          BY <2>3, <4>1, <4>2
      <3> QED
        BY <3>1, <3>3
    <2>4. CASE \/ ClaimRefused(r) \/ ClaimVanished(r) \/ RejectMismatch(r)
               \/ RejectInProgress(r) \/ Invalid(r)
      BY <2>4, LedgerKept
         DEF ClaimRefused, ClaimVanished, RejectMismatch, RejectInProgress, Invalid
    <2>5. CASE Replay(r)
      <3>1. RowKey(r) \in RowKeys
        BY <2>0, <2>5, KindFields DEF Replay, Sound
      <3>2. RowOf(r).response \in Requests \cup {NoRequest}
        BY <3>1, RowFields DEF RowOf
      <3> QED
        BY <2>5, <3>2, LedgerKept DEF Replay
    <2>6. CASE Charge(r) \/ ChargeFails(r)
      <3>1. LedgerTypeOK'
        BY <2>0, <2>6, DebitEffect, LedgerKept DEF Charge, ChargeFails
      <3>2. /\ UNCHANGED <<req, replyOf, holds, pending, closed, aborted, slot, active, row,
                          claims, crashes, expiries>>
            /\ faults' \in 0..MaxFaults
        BY <2>6 DEF Charge, ChargeFails
      <3>3. /\ pc' \in [Requests -> {"idle"} \cup Live \cup {"answered", "dead"}]
            /\ outcome' \in [Requests -> Outcomes]
        <4>1. CASE Charge(r)
          BY <4>1 DEF Charge
        <4>2. CASE ChargeFails(r)
          BY <4>2 DEF ChargeFails
        <4> QED
          BY <2>6, <4>1, <4>2
      <3> QED
        BY <3>1, <3>2, <3>3
    <2>7. CASE \/ InsufficientBalance(r) \/ ProviderAnswers(r) \/ StoreImage(r)
               \/ GenerationFails(r)
      BY <2>7, LedgerKept DEF InsufficientBalance, ProviderAnswers, StoreImage, GenerationFails
    <2>8. CASE Refund(r) \/ RefundFails(r)
      <3>1. LedgerTypeOK'
        BY <2>0, <2>8, CreditEffect, LedgerKept DEF Refund, RefundFails
      <3> QED
        BY <2>8, <3>1, SMTT(30) DEF Refund, RefundFails
    <2>9. ASSUME ReleaseSlot(r) PROVE active' \in [Users -> Nat]
      <3>1. CASE slot[r]
        <4>1. r \in Slots(User(r)) /\ IsFiniteSet(Slots(User(r)))
              /\ active[User(r)] = Cardinality(Slots(User(r)))
          BY <2>0, <3>1 DEF Slots, SlotsCounted
        <4>2. active[User(r)] # 0
          BY <4>1, FS_EmptySet
        <4> QED
          BY <2>0, <2>9, <3>1, <4>2 DEF ReleaseSlot
      <3>2. CASE ~slot[r]
        BY <2>0, <2>9, <3>2 DEF ReleaseSlot
      <3> QED
        BY <3>1, <3>2
    <2>10. CASE Answer(r)
      <3>1. LedgerTypeOK' /\ active' \in [Users -> Nat]
        BY <2>9, <2>10, LedgerKept DEF Answer
      <3> QED
        BY <2>10, <3>1 DEF Answer, Statement, ReleaseSlot
    <2>11. CASE Close(r)
      <3>1. LedgerTypeOK' /\ active' \in [Users -> Nat]
        BY <2>9, <2>11, LedgerKept DEF Close
      <3> QED
        BY <2>11, <3>1 DEF Close, ReleaseSlot
    <2>12. CASE Complete(r) \/ Release(r)
      <3>1. LedgerTypeOK'
        BY <2>12, LedgerKept DEF Complete, Release
      <3>2. RowKey(r) \in RowKeys
        BY <2>0, <2>12, KindFields DEF Complete, Release, Sound
      <3>3. row' \in [RowKeys -> Rows]
        <4>1. ASSUME NEW w, row' = [row EXCEPT ![RowKey(r)] = w], w \in Rows
              PROVE row' \in [RowKeys -> Rows]
          BY <3>2, <4>1
        <4>2. CASE Complete(r)
          <5> DEFINE w == IF RowOf(r).status = "absent" THEN RowOf(r)
                          ELSE [RowOf(r) EXCEPT !.status = "completed", !.response = r]
          <5>1. row' = [row EXCEPT ![RowKey(r)] = w]
            BY <3>2, <4>2 DEF Complete, RowOf
          <5>2. w \in Rows
            BY <3>2, RowFields DEF RowOf
          <5> QED
            BY <4>1, <5>1, <5>2
        <4>3. CASE Release(r)
          <5> DEFINE w == IF RowOf(r).status = "in_progress" THEN NoRow ELSE RowOf(r)
          <5>1. row' = [row EXCEPT ![RowKey(r)] = w]
            BY <3>2, <4>3 DEF Release, RowOf
          <5>2. w \in Rows
            BY <3>2, RowFields DEF RowOf
          <5> QED
            BY <4>1, <5>1, <5>2
        <4> QED
          BY <2>12, <4>2, <4>3
      <3> QED
        BY <2>12, <3>1, <3>3 DEF Complete, Release
    <2>13. CASE LoseStatement(r)
      BY <2>13, LedgerKept DEF LoseStatement
    <2> QED
      BY <1>5, <2>1, <2>2, <2>3, <2>4, <2>5, <2>6, <2>7, <2>8, <2>10, <2>11, <2>12, <2>13
         DEF Step, Settle, Fails
  <1> QED
    BY <1>1, <1>2, <1>3, <1>4, <1>5 DEF Next

-----------------------------------------------------------------------------
(* A step of one request touches no other one. *)
RequestStep(r) ==
    \/ TooMany(r) \/ Enter(r) \/ Step(r) \/ Settle(r) \/ Fails(r) \/ Close(r)

Untouched(s) ==
    /\ pc'[s] = pc[s] /\ outcome'[s] = outcome[s] /\ replyOf'[s] = replyOf[s]
    /\ holds'[s] = holds[s] /\ pending'[s] = pending[s]
    /\ closed'[s] = closed[s] /\ slot'[s] = slot[s]

LEMMA OthersUntouched ==
    ASSUME TypeOK, NEW r \in Requests, RequestStep(r), NEW s \in Requests, s # r
    PROVE  Untouched(s)
  <1> USE DEF TypeOK, Untouched, Goto, Finish, requestVars
  <1>1. CASE TooMany(r) \/ Enter(r)
    BY <1>1 DEF TooMany, Enter
  <1>2. CASE Claim(r) \/ ClaimRefused(r) \/ ClaimVanished(r) \/ RejectMismatch(r)
    BY <1>2 DEF Claim, ClaimRefused, ClaimVanished, RejectMismatch
  <1>3. CASE Replay(r) \/ RejectInProgress(r) \/ Invalid(r) \/ Charge(r)
    BY <1>3 DEF Replay, RejectInProgress, Invalid, Charge
  <1>4. CASE InsufficientBalance(r) \/ ProviderAnswers(r) \/ StoreImage(r)
    BY <1>4 DEF InsufficientBalance, ProviderAnswers, StoreImage
  <1>5. CASE GenerationFails(r) \/ Refund(r) \/ Answer(r)
    BY <1>5 DEF GenerationFails, Refund, Answer, ReleaseSlot
  <1>6. CASE Settle(r) \/ Close(r)
    BY <1>6 DEF Settle, Complete, Release, Close, ReleaseSlot
  <1>7. CASE Fails(r)
    BY <1>7 DEF Fails, ClaimFails, ChargeFails, RefundFails, LoseStatement
  <1> QED
    BY <1>1, <1>2, <1>3, <1>4, <1>5, <1>6, <1>7 DEF RequestStep, Step

(* Nobody changes what a request is. *)
LEMMA KindsKept == [Next]_vars => req' = req
  <1> SUFFICES ASSUME [Next]_vars PROVE req' = req
    OBVIOUS
  <1>1. CASE UNCHANGED vars \/ Done \/ Crash
    BY <1>1 DEF vars, requestVars, Done, Crash
  <1>2. ASSUME NEW k \in RowKeys, Expire(k) PROVE req' = req
    BY <1>2 DEF Expire, requestVars
  <1>3. ASSUME NEW r \in Requests, RequestStep(r) PROVE req' = req
    BY <1>3 DEF RequestStep, TooMany, Enter, Step, Settle, Fails, Close, Claim, ClaimRefused,
         ClaimVanished, RejectMismatch, Replay, RejectInProgress, Invalid, Charge,
         InsufficientBalance, ProviderAnswers, StoreImage, GenerationFails, Refund, Answer,
         Complete, Release, ClaimFails, ChargeFails, RefundFails, LoseStatement, requestVars
  <1> QED
    BY <1>1, <1>2, <1>3 DEF Next, RequestStep

(* Where each request stands: every action keeps it. *)
LEMMA SoundStep == IInv /\ [Next]_vars => AllSound'
  <1> SUFFICES ASSUME IInv, [Next]_vars, NEW q \in Requests PROVE Sound(q)'
    BY DEF AllSound
  <1> USE DEF Sound, Live, Charged
  <1>0. TypeOK /\ Sound(q) /\ req' = req
    BY KindsKept DEF IInv, AllSound
  <1>1. CASE UNCHANGED vars \/ Done
    BY <1>0, <1>1 DEF vars, requestVars, Done
  <1>2. CASE Crash
    BY <1>0, <1>2 DEF Crash, TypeOK
  <1>3. ASSUME NEW k \in RowKeys, Expire(k) PROVE Sound(q)'
    BY <1>0, <1>3 DEF Expire, requestVars
  <1>4. ASSUME NEW r \in Requests, RequestStep(r), r # q PROVE Sound(q)'
    BY <1>0, <1>4, OthersUntouched DEF Untouched
  <1>5. CASE RequestStep(q)
    <2> USE DEF TypeOK, Goto, Finish, requestVars
    <2>1. CASE TooMany(q) \/ Enter(q)
      BY <1>0, <2>1 DEF TooMany, Enter
    <2>2. CASE Claim(q) \/ ClaimRefused(q) \/ ClaimVanished(q) \/ RejectMismatch(q)
      BY <1>0, <2>2 DEF Claim, ClaimRefused, ClaimVanished, RejectMismatch
    <2>3. CASE Replay(q) \/ RejectInProgress(q) \/ Invalid(q) \/ Charge(q)
      BY <1>0, <2>3 DEF Replay, RejectInProgress, Invalid, Charge
    <2>4. CASE InsufficientBalance(q) \/ ProviderAnswers(q) \/ StoreImage(q)
      BY <1>0, <2>4 DEF InsufficientBalance, ProviderAnswers, StoreImage
    <2>5. CASE GenerationFails(q) \/ Refund(q)
      BY <1>0, <2>5 DEF GenerationFails, Refund
    <2>6. CASE Answer(q)
      BY <1>0, <2>6 DEF Answer, ReleaseSlot, Statement
    <2>7. CASE Settle(q)
      BY <1>0, <2>7 DEF Settle, Complete, Release
    <2>8. CASE Close(q)
      BY <1>0, <2>8 DEF Close, ReleaseSlot
    <2>9. CASE Fails(q)
      BY <1>0, <2>9 DEF Fails, ClaimFails, ChargeFails, RefundFails, LoseStatement
    <2> QED
      BY <1>5, <2>1, <2>2, <2>3, <2>4, <2>5, <2>6, <2>7, <2>8, <2>9 DEF RequestStep, Step
  <1> QED
    BY <1>1, <1>2, <1>3, <1>4, <1>5 DEF Next, RequestStep

-----------------------------------------------------------------------------
(* The limiter. *)
LEMMA SlotsStep == IInv /\ [Next]_vars => SlotsCounted'
  <1> SUFFICES ASSUME IInv, [Next]_vars PROVE SlotsCounted'
    OBVIOUS
  <1>0. TypeOK /\ AllSound /\ SlotsCounted /\ req' = req
    BY KindsKept DEF IInv
  <1>1. ASSUME UNCHANGED <<slot, active>> PROVE SlotsCounted'
    <2>1. \A u \in Users : Slots(u)' = Slots(u)
      BY <1>0, <1>1 DEF Slots, User
    <2> QED
      BY <1>0, <1>1, <2>1 DEF SlotsCounted
  <1>2. ASSUME NEW r \in Requests, Enter(r) PROVE SlotsCounted'
    <2>0. PICK u \in Users : u = User(r)
      BY <1>0, KindFields
    <2>1. r \notin Slots(u)
      BY <1>0, <1>2 DEF Enter, AllSound, Sound, Slots, Live
    <2>2. \A v \in Users : Slots(v)' = IF v = u THEN Slots(u) \cup {r} ELSE Slots(v)
      BY <1>0, <1>2, <2>0 DEF Enter, Slots, User, TypeOK
    <2>3. /\ IsFiniteSet(Slots(u)')
          /\ Cardinality(Slots(u)') = Cardinality(Slots(u)) + 1
      BY <1>0, <2>1, <2>2, FS_AddElement DEF SlotsCounted
    <2>4. \A v \in Users : active'[v] = IF v = u THEN active[u] + 1 ELSE active[v]
      BY <1>0, <1>2, <2>0 DEF Enter, TypeOK
    <2>5. active[u] \in Nat /\ active[u] < MaxConcurrent
      BY <1>0, <1>2, <2>0 DEF Enter, TypeOK
    <2> QED
      BY <1>0, <2>2, <2>3, <2>4, <2>5 DEF SlotsCounted
  <1>3. ASSUME NEW r \in Requests, ReleaseSlot(r) PROVE SlotsCounted'
    <2>1. PICK u \in Users : u = User(r)
      BY <1>0, KindFields
    <2>2. CASE slot[r]
      <3>1. r \in Slots(u)
        BY <2>1, <2>2 DEF Slots
      <3>2. \A v \in Users : Slots(v)' = IF v = u THEN Slots(u) \ {r} ELSE Slots(v)
        BY <1>0, <1>3, <2>1 DEF ReleaseSlot, Slots, User, TypeOK
      <3>3. /\ IsFiniteSet(Slots(u)')
            /\ Cardinality(Slots(u)') = Cardinality(Slots(u)) - 1
        BY <1>0, <2>1, <3>1, <3>2, FS_RemoveElement DEF SlotsCounted
      <3>4. \A v \in Users : active'[v] = IF v = u THEN active[u] - 1 ELSE active[v]
        BY <1>0, <1>3, <2>1, <2>2 DEF ReleaseSlot, TypeOK
      <3>5. active[u] \in Nat /\ active[u] <= MaxConcurrent
        BY <1>0, <2>1 DEF TypeOK, SlotsCounted
      <3> QED
        BY <1>0, <3>2, <3>3, <3>4, <3>5 DEF SlotsCounted
    <2>3. CASE ~slot[r]
      <3>1. slot' = slot /\ active' = active
        BY <1>0, <1>3, <2>1, <2>3 DEF ReleaseSlot, TypeOK
      <3> QED
        BY <1>1, <3>1
    <2> QED
      BY <2>2, <2>3
  <1>4. CASE Crash
    <2>1. \A u \in Users : Slots(u)' = {} /\ active'[u] = 0
      BY <1>4 DEF Crash, Slots
    <2>2. ASSUME NEW u \in Users
          PROVE IsFiniteSet(Slots(u)') /\ Cardinality(Slots(u)') = 0
      BY <2>1, FS_EmptySet
    <2> QED
      BY <2>1, <2>2 DEF SlotsCounted
  <1>5. CASE UNCHANGED vars \/ Done
    BY <1>1, <1>5 DEF vars, requestVars, Done
  <1>6. ASSUME NEW k \in RowKeys, Expire(k) PROVE SlotsCounted'
    BY <1>1, <1>6 DEF Expire, requestVars
  <1>7. ASSUME NEW r \in Requests, RequestStep(r) PROVE SlotsCounted'
    <2>1. \/ UNCHANGED <<slot, active>> \/ Enter(r) \/ ReleaseSlot(r)
      BY <1>7 DEF RequestStep, TooMany, Step, Settle, Fails, Close, Claim, ClaimRefused,
           ClaimVanished, RejectMismatch, Replay, RejectInProgress, Invalid, Charge,
           InsufficientBalance, ProviderAnswers, StoreImage, GenerationFails, Refund, Answer,
           Complete, Release, ClaimFails, ChargeFails, RefundFails, LoseStatement, requestVars
    <2> QED
      BY <1>1, <1>2, <1>3, <2>1
  <1> QED
    BY <1>4, <1>5, <1>6, <1>7 DEF Next, RequestStep

-----------------------------------------------------------------------------
(* The money.  A charge of a request stands, or not. *)
Stands(r) ==
    \/ pc[r] \in Charged
    \/ outcome[r] \in {"success", "overcharged", "unacknowledged", "lost"}

LEMMA ChargesKept ==
    ASSUME ChargesCounted, req' = req, ledger' = ledger,
           \A r \in Requests : Stands(r)' <=> Stands(r)
    PROVE  ChargesCounted'
  <1>1. \A u \in Users : Standing(u)' = Standing(u)
    BY DEF Standing, Stands, User
  <1> QED
    BY <1>1 DEF ChargesCounted

(* One charge more, or one refunded. *)
LEMMA ChargesMove ==
    ASSUME TypeOK, ChargesCounted, req' = req,
           NEW r \in Requests, Stands(r)' <=> ~Stands(r),
           \A s \in Requests : s # r => (Stands(s)' <=> Stands(s)),
           \A v \in Users :
               ledger'[v]["generation"] + ledger'[v]["refund"] =
                   ledger[v]["generation"] + ledger[v]["refund"]
                   + IF v # User(r) THEN 0 ELSE IF Stands(r) THEN Cost ELSE -Cost
    PROVE  ChargesCounted'
  <1>1. PICK u \in Users : u = User(r)
    BY KindFields
  <1>2. \A v \in Users :
          /\ IsFiniteSet(Standing(v)) /\ Cardinality(Standing(v)) \in Nat
          /\ ledger[v]["generation"] \in Int /\ ledger[v]["refund"] \in Int
    <2>1. \A v \in Users : IsFiniteSet(Standing(v))
      BY DEF ChargesCounted
    <2>2. \A v \in Users : Cardinality(Standing(v)) \in Nat
      BY <2>1, FS_CardinalityType
    <2> QED
      BY <2>1, <2>2 DEF TypeOK, LedgerTypeOK, Types
  <1>3. \A v \in Users : v # u => Standing(v)' = Standing(v)
    BY <1>1 DEF Standing, Stands, User
  <1>4. \A v \in Users : v # u =>
          /\ IsFiniteSet(Standing(v)')
          /\ - (ledger'[v]["generation"] + ledger'[v]["refund"]) = Cost * Cardinality(Standing(v)')
    BY <1>1, <1>2, <1>3 DEF ChargesCounted
  <1>5. CASE Stands(r)
    <2>1. Standing(u)' = Standing(u) \ {r} /\ r \in Standing(u)
      BY <1>1, <1>5 DEF Standing, Stands, User
    <2>2. /\ IsFiniteSet(Standing(u)')
          /\ Cardinality(Standing(u)') = Cardinality(Standing(u)) - 1
      BY <1>2, <2>1, FS_RemoveElement
    <2>3. - (ledger'[u]["generation"] + ledger'[u]["refund"])
              = Cost * Cardinality(Standing(u)) - Cost
      BY <1>1, <1>2, <1>5 DEF ChargesCounted
    <2>4. \A n \in Nat : Cost * (n - 1) = Cost * n - Cost
      OBVIOUS
    <2>5. - (ledger'[u]["generation"] + ledger'[u]["refund"]) = Cost * Cardinality(Standing(u)')
      BY <1>2, <2>2, <2>3, <2>4
    <2> QED
      BY <1>4, <2>2, <2>5 DEF ChargesCounted
  <1>6. CASE ~Stands(r)
    <2>1. Standing(u)' = Standing(u) \cup {r} /\ r \notin Standing(u)
      BY <1>1, <1>6 DEF Standing, Stands, User
    <2>2. /\ IsFiniteSet(Standing(u)')
          /\ Cardinality(Standing(u)') = Cardinality(Standing(u)) + 1
      BY <1>2, <2>1, FS_AddElement
    <2>3. - (ledger'[u]["generation"] + ledger'[u]["refund"])
              = Cost * Cardinality(Standing(u)) + Cost
      BY <1>1, <1>2, <1>6 DEF ChargesCounted
    <2>4. \A n \in Nat : Cost * (n + 1) = Cost * n + Cost
      OBVIOUS
    <2>5. - (ledger'[u]["generation"] + ledger'[u]["refund"]) = Cost * Cardinality(Standing(u)')
      BY <1>2, <2>2, <2>3, <2>4
    <2> QED
      BY <1>4, <2>2, <2>5 DEF ChargesCounted
  <1> QED
    BY <1>5, <1>6

(* A charge or a refund is the wallet's, once each. *)
LEMMA ChargesStep == IInv /\ [Next]_vars => ChargesCounted'
  <1> SUFFICES ASSUME IInv, [Next]_vars PROVE ChargesCounted'
    OBVIOUS
  <1>0. TypeOK /\ LedgerTypeOK /\ AllSound /\ ChargesCounted /\ req' = req
    BY KindsKept DEF IInv, TypeOK
  <1>00. \A v \in Users : ledger[v]["generation"] \in Int /\ ledger[v]["refund"] \in Int
    BY <1>0 DEF LedgerTypeOK, Types
  <1> USE DEF Charged
  <1>1. CASE UNCHANGED vars \/ Done
    BY <1>0, <1>1, ChargesKept DEF vars, requestVars, ledgerVars, Done, Stands
  <1>2. CASE Crash
    <2>1. \A r \in Requests : Stands(r)' <=> Stands(r)
      BY <1>0, <1>2 DEF Crash, Stands, Live, TypeOK
    <2> QED
      BY <1>0, <1>2, <2>1, ChargesKept DEF Crash, ledgerVars
  <1>3. ASSUME NEW k \in RowKeys, Expire(k) PROVE ChargesCounted'
    BY <1>0, <1>3, ChargesKept DEF Expire, requestVars, ledgerVars, Stands
  <1>4. ASSUME NEW r \in Requests, RequestStep(r) PROVE ChargesCounted'
    <2>0. Sound(r) /\ User(r) \in Users
      BY <1>0, KindFields DEF AllSound
    <2>1. \A s \in Requests : s # r => (Stands(s)' <=> Stands(s))
      BY <1>0, <1>4, OthersUntouched DEF Untouched, Stands
    <2>2. CASE ledger' = ledger /\ (Stands(r)' <=> Stands(r))
      BY <1>0, <2>1, <2>2, ChargesKept
    <2>3. CASE Debit(User(r), Cost, "generation") /\ ~Stands(r) /\ Stands(r)'
      BY <1>0, <1>00, <2>0, <2>1, <2>3, DebitEffect, ChargesMove
    <2>4. CASE Credit(User(r), Cost, "refund") /\ Stands(r) /\ ~Stands(r)'
      BY <1>0, <1>00, <2>0, <2>1, <2>4, CreditEffect, ChargesMove
    <2>5. \/ ledger' = ledger /\ (Stands(r)' <=> Stands(r))
          \/ Debit(User(r), Cost, "generation") /\ ~Stands(r) /\ Stands(r)'
          \/ Credit(User(r), Cost, "refund") /\ Stands(r) /\ ~Stands(r)'
      <3> USE <1>0, <2>0 DEF Stands, Sound, TypeOK, Live, Goto, Finish, requestVars, ledgerVars
      <3>1. CASE TooMany(r) \/ Enter(r)
        BY <3>1 DEF TooMany, Enter
      <3>2. CASE Claim(r) \/ ClaimRefused(r) \/ ClaimVanished(r) \/ RejectMismatch(r)
        BY <3>2 DEF Claim, ClaimRefused, ClaimVanished, RejectMismatch
      <3>3. CASE Replay(r) \/ RejectInProgress(r) \/ Invalid(r) \/ InsufficientBalance(r)
        BY <3>3 DEF Replay, RejectInProgress, Invalid, InsufficientBalance
      <3>4. CASE Charge(r)
        BY <3>4 DEF Charge
      <3>5. CASE ProviderAnswers(r) \/ StoreImage(r) \/ GenerationFails(r)
        BY <3>5 DEF ProviderAnswers, StoreImage, GenerationFails
      <3>6. CASE Refund(r)
        BY <3>6 DEF Refund
      <3>7. CASE Answer(r) \/ Settle(r) \/ Close(r)
        BY <3>7 DEF Answer, Settle, Complete, Release, Close
      <3>8. CASE ClaimFails(r) \/ LoseStatement(r)
        BY <3>8 DEF ClaimFails, LoseStatement
      <3>9. CASE ChargeFails(r)
        BY <3>9 DEF ChargeFails
      <3>10. CASE RefundFails(r)
        BY <3>10 DEF RefundFails
      <3> QED
        BY <1>4, <3>1, <3>2, <3>3, <3>4, <3>5, <3>6, <3>7, <3>8, <3>9, <3>10
           DEF RequestStep, Step, Fails
    <2> QED
      BY <2>2, <2>3, <2>4, <2>5
  <1> QED
    BY <1>1, <1>2, <1>3, <1>4 DEF Next, RequestStep

-----------------------------------------------------------------------------
(* The claims.  What a step of a request does to them, in five ways. *)
KeepsClaim(r) ==
    /\ UNCHANGED <<row, claims, expiries>>
    /\ faults' >= faults /\ crashes' = crashes
    /\ holds'[r] = holds[r] /\ (Holding(r)' <=> Holding(r))

Claims(r) ==
    /\ Claimable(r) /\ TakeRow(r) /\ RowKey(r) \in RowKeys
    /\ holds[r] = 0 /\ holds'[r] = claims[RowKey(r)] + 1
    /\ Holding(r)'
    /\ outcome[r] = "none" /\ outcome'[r] = "none"
    /\ UNCHANGED <<expiries, faults, crashes>>

(* The INSERT took effect and its answer was lost. *)
ClaimsForNobody(r) ==
    /\ Claimable(r) /\ TakeRow(r) /\ RowKey(r) \in RowKeys
    /\ holds[r] = 0 /\ holds'[r] = 0
    /\ outcome'[r] = outcome[r]
    /\ UNCHANGED expiries /\ faults' = faults + 1 /\ UNCHANGED crashes

Settles(r) ==
    /\ Settle(r)
    /\ Holding(r) /\ ~Holding(r)' /\ holds'[r] = holds[r] /\ outcome'[r] = outcome[r]
    /\ RowKey(r) \in RowKeys

LosesStatement(r) ==
    /\ UNCHANGED <<row, claims, expiries>>
    /\ faults' = faults + 1 /\ UNCHANGED crashes
    /\ ~Holding(r)' /\ holds'[r] = holds[r] /\ outcome'[r] = outcome[r]

LEMMA FiveWays ==
    ASSUME TypeOK, NEW r \in Requests, Sound(r), RequestStep(r)
    PROVE  \/ KeepsClaim(r) \/ Claims(r) \/ ClaimsForNobody(r) \/ Settles(r)
           \/ LosesStatement(r)
  <1> USE DEF Sound, TypeOK, Live, Charged, Goto, Finish, requestVars, boundVars, Holding, Faulty
  <1>0. faults \in Nat /\ faults <= faults
    OBVIOUS
  <1>1. CASE TooMany(r) \/ Enter(r)
    <2>1. KeepsClaim(r)
      BY <1>1 DEF TooMany, Enter, KeepsClaim
    <2> QED
      BY <2>1
  <1>2. CASE ClaimRefused(r) \/ ClaimVanished(r) \/ RejectMismatch(r) \/ Replay(r)
    <2>1. KeepsClaim(r)
      BY <1>2 DEF ClaimRefused, ClaimVanished, RejectMismatch, Replay, KeepsClaim
    <2> QED
      BY <2>1
  <1>3. CASE RejectInProgress(r) \/ Invalid(r) \/ InsufficientBalance(r) \/ Charge(r)
    <2>1. KeepsClaim(r)
      BY <1>3 DEF RejectInProgress, Invalid, InsufficientBalance, Charge, KeepsClaim
    <2> QED
      BY <2>1
  <1>4. CASE ProviderAnswers(r) \/ StoreImage(r) \/ GenerationFails(r) \/ Refund(r)
    <2>1. KeepsClaim(r)
      BY <1>4 DEF ProviderAnswers, StoreImage, GenerationFails, Refund, KeepsClaim
    <2> QED
      BY <2>1
  <1>5. CASE Answer(r)
    <2>1. KeepsClaim(r)
      BY <1>5 DEF Answer, Statement, ReleaseSlot, KeepsClaim
    <2> QED
      BY <2>1
  <1>6. CASE Close(r)
    <2>1. KeepsClaim(r)
      BY <1>6 DEF Close, ReleaseSlot, KeepsClaim
    <2> QED
      BY <2>1
  <1>7. CASE ChargeFails(r)
    <2>1. KeepsClaim(r)
      BY <1>7 DEF ChargeFails, KeepsClaim
    <2> QED
      BY <2>1
  <1>8. CASE RefundFails(r)
    <2>1. KeepsClaim(r)
      BY <1>8 DEF RefundFails, KeepsClaim
    <2> QED
      BY <2>1
  <1>9. CASE Claim(r)
    <2>1. RowKey(r) \in RowKeys
      BY <1>9, KindFields DEF Claim
    <2>2. Claims(r)
      BY <1>9, <2>1 DEF Claim, Claims, TakeRow
    <2> QED
      BY <2>2
  <1>10. CASE ClaimFails(r)
    <2>1. RowKey(r) \in RowKeys
      BY <1>10, KindFields DEF ClaimFails
    <2>2. CASE UNCHANGED <<row, claims>>
      <3>1. KeepsClaim(r)
        BY <1>10, <2>2 DEF ClaimFails, KeepsClaim
      <3> QED
        BY <3>1
    <2>3. CASE pc[r] = "claiming" /\ Claimable(r) /\ TakeRow(r)
      <3>1. ClaimsForNobody(r)
        BY <1>10, <2>1, <2>3 DEF ClaimFails, ClaimsForNobody
      <3> QED
        BY <3>1
    <2> QED
      BY <1>10, <2>2, <2>3 DEF ClaimFails
  <1>11. CASE Settle(r)
    <2>1. RowKey(r) \in RowKeys
      BY <1>11, KindFields DEF Settle, Complete, Release
    <2>2. Settles(r)
      BY <1>11, <2>1 DEF Settle, Complete, Release, Settles
    <2> QED
      BY <2>2
  <1>12. CASE LoseStatement(r)
    <2>1. LosesStatement(r)
      BY <1>12 DEF LoseStatement, LosesStatement
    <2> QED
      BY <2>1
  <1> QED
    BY <1>1, <1>2, <1>3, <1>4, <1>5, <1>6, <1>7, <1>8, <1>9, <1>10, <1>11, <1>12
       DEF RequestStep, Step, Fails

(* Whoever takes a row takes it from nobody. *)
LEMMA ClaimableIsFree ==
    ASSUME HolderIsAlone, NEW r \in Requests, Claimable(r), TypeOK,
           NEW s \in Requests, Holding(s)
    PROVE  RowKey(s) # RowKey(r)
  <1>1. RowOf(s).status = "in_progress" /\ ~RowOf(s).expired
    BY KindFields DEF HolderIsAlone
  <1> QED
    BY <1>1 DEF Claimable, RowOf

(* No request comes to hold a claim, and nothing changes about those held. *)
LEMMA HoldersKept ==
    ASSUME HolderIsAlone, req' = req,
           \A s \in Requests : Holding(s)' =>
               Holding(s) /\ holds'[s] = holds[s]
               /\ row'[RowKey(s)] = RowOf(s) /\ claims'[RowKey(s)] = claims[RowKey(s)]
    PROVE  HolderIsAlone'
  BY DEF HolderIsAlone, RowOf, RowKey, ClaimedBy, Fingerprint

(* One holder for each key: every action keeps it. *)
LEMMA HolderStep == IInv /\ [Next]_vars => HolderIsAlone'
  <1> SUFFICES ASSUME IInv, [Next]_vars PROVE HolderIsAlone'
    OBVIOUS
  <1>0. /\ TypeOK /\ AllSound /\ HolderIsAlone /\ req' = req
        /\ row \in [RowKeys -> Rows] /\ claims \in [RowKeys -> Nat]
    BY KindsKept DEF IInv, TypeOK
  <1>1. CASE UNCHANGED vars \/ Done
    <2>1. UNCHANGED <<pc, pending, holds, row, claims>>
      BY <1>1 DEF vars, requestVars, Done
    <2> QED
      BY <1>0, <2>1, HoldersKept DEF Holding, RowOf
  <1>2. CASE Crash
    <2>1. \A s \in Requests : ~Holding(s)'
      BY <1>0, <1>2 DEF Crash, Holding, Live
    <2> QED
      BY <2>1 DEF HolderIsAlone
  <1>3. ASSUME NEW k \in RowKeys, Expire(k) PROVE HolderIsAlone'
    <2>1. UNCHANGED <<pc, pending, holds, claims>>
      BY <1>3 DEF Expire, requestVars
    <2>2. \A s \in Requests : Holding(s) => RowKey(s) # k
      BY <1>3 DEF Expire
    <2>3. \A j \in RowKeys : j # k => row'[j] = row[j]
      BY <1>0, <1>3 DEF Expire
    <2>4. \A s \in Requests : Holding(s)' => Holding(s)
      BY <2>1 DEF Holding
    <2>5. \A s \in Requests : Holding(s) => row'[RowKey(s)] = row[RowKey(s)]
      BY <1>0, <2>2, <2>3, KindFields DEF Holding, AllSound, Sound
    <2> QED
      BY <1>0, <2>1, <2>4, <2>5, HoldersKept DEF RowOf
  <1>4. ASSUME NEW r \in Requests, RequestStep(r) PROVE HolderIsAlone'
    <2>0. Sound(r)
      BY <1>0 DEF AllSound
    <2>1. \A s \in Requests : s # r => (Holding(s)' <=> Holding(s)) /\ holds'[s] = holds[s]
      BY <1>0, <1>4, OthersUntouched DEF Untouched, Holding
    <2>2. CASE KeepsClaim(r) \/ LosesStatement(r)
      BY <1>0, <2>1, <2>2, HoldersKept DEF KeepsClaim, LosesStatement, RowOf
    <2>3. CASE Claims(r) \/ ClaimsForNobody(r)
      <3>1. /\ row'[RowKey(r)] = ClaimedBy(r)
            /\ claims'[RowKey(r)] = claims[RowKey(r)] + 1
            /\ \A k \in RowKeys : k # RowKey(r) => row'[k] = row[k] /\ claims'[k] = claims[k]
        BY <1>0, <2>3 DEF Claims, ClaimsForNobody, TakeRow
      <3>2. \A s \in Requests : s # r /\ Holding(s)' =>
              Holding(s) /\ RowKey(s) # RowKey(r) /\ RowKey(s) \in RowKeys
        BY <1>0, <2>1, <2>3, ClaimableIsFree, KindFields
           DEF Claims, ClaimsForNobody, Holding, AllSound, Sound
      <3>3. Holding(r)' => holds'[r] = claims'[RowKey(r)]
        BY <1>0, <2>3, <3>1 DEF Claims, ClaimsForNobody, Holding
      <3>4. /\ \A s \in Requests : RowKey(s)' = RowKey(s) /\ ClaimedBy(s)' = ClaimedBy(s)
            /\ \A s \in Requests : RowOf(s)' = row'[RowKey(s)]
        BY <1>0 DEF RowKey, RowOf, ClaimedBy, Fingerprint
      <3>5. \A s \in Requests : s # r /\ Holding(s)' =>
              /\ row'[RowKey(s)] = ClaimedBy(s)
              /\ holds'[s] = claims'[RowKey(s)]
              /\ \A q \in Requests : Holding(q) /\ RowKey(q) = RowKey(s) => q = s
        BY <1>0, <2>1, <3>1, <3>2 DEF HolderIsAlone, RowOf
      <3> QED
        BY <2>1, <3>1, <3>2, <3>3, <3>4, <3>5 DEF HolderIsAlone
    <2>4. CASE Settles(r)
      <3>1. \A s \in Requests : Holding(s)' =>
              s # r /\ Holding(s) /\ RowKey(s) # RowKey(r) /\ RowKey(s) \in RowKeys
        BY <1>0, <2>1, <2>4, KindFields DEF Settles, HolderIsAlone, Holding, AllSound, Sound
      <3>2. /\ \A k \in RowKeys : k # RowKey(r) => row'[k] = row[k]
            /\ claims' = claims
        BY <1>0, <2>4 DEF Settles, Settle, Complete, Release
      <3> QED
        BY <1>0, <2>1, <3>1, <3>2, HoldersKept DEF RowOf
    <2> QED
      BY <1>0, <1>4, <2>0, <2>2, <2>3, <2>4, FiveWays
  <1> QED
    BY <1>1, <1>2, <1>3, <1>4 DEF Next, RequestStep

(* No key is left behind: every action keeps it. *)
LEMMA ComeBackStep == IInv /\ [Next]_vars => KeysComeBack'
  <1> SUFFICES ASSUME IInv, [Next]_vars PROVE KeysComeBack'
    OBVIOUS
  <1> SUFFICES ASSUME NEW k \in RowKeys, row'[k].status = "in_progress", faults' = 0, crashes' = 0
               PROVE  \E r \in Requests : RowKey(r) = k /\ Holding(r)'
    <2>1. \A r \in Requests : RowKey(r)' = RowKey(r)
      BY KindsKept DEF RowKey
    <2> QED
      BY <2>1 DEF KeysComeBack
  <1>0. /\ TypeOK /\ AllSound /\ HolderIsAlone /\ KeysComeBack
        /\ row \in [RowKeys -> Rows] /\ faults \in Nat /\ crashes \in Nat
    BY DEF IInv, TypeOK
  <1>1. CASE UNCHANGED vars \/ Done
    BY <1>0, <1>1 DEF vars, requestVars, boundVars, Done, KeysComeBack, Holding
  <1>2. CASE Crash
    BY <1>0, <1>2 DEF Crash
  <1>3. ASSUME NEW j \in RowKeys, Expire(j)
        PROVE \E r \in Requests : RowKey(r) = k /\ Holding(r)'
    <2>1. UNCHANGED <<pc, pending, holds, faults, crashes>>
      BY <1>3 DEF Expire, requestVars
    <2>2. row[k].status = "in_progress"
      <3>1. CASE k = j
        <4>1. row'[k] = [row[k] EXCEPT !.expired = TRUE] /\ row[k] \in Rows
          BY <1>0, <1>3, <3>1 DEF Expire
        <4>2. row[k].status # "absent"
          BY <1>3, <3>1 DEF Expire
        <4>3. [row[k] EXCEPT !.expired = TRUE].status = row[k].status
          BY <4>1, <4>2 DEF Rows, NoRow
        <4> QED
          BY <4>1, <4>3
      <3>2. CASE k # j
        BY <1>0, <1>3, <3>2 DEF Expire
      <3> QED
        BY <3>1, <3>2
    <2> QED
      BY <1>0, <2>1, <2>2 DEF KeysComeBack, Holding
  <1>4. ASSUME NEW r \in Requests, RequestStep(r)
        PROVE \E q \in Requests : RowKey(q) = k /\ Holding(q)'
    <2>0. Sound(r)
      BY <1>0 DEF AllSound
    <2>1. \A s \in Requests : s # r => (Holding(s)' <=> Holding(s))
      BY <1>0, <1>4, OthersUntouched DEF Untouched, Holding
    <2>2. CASE KeepsClaim(r)
      BY <1>0, <2>1, <2>2 DEF KeepsClaim, KeysComeBack
    <2>3. CASE ClaimsForNobody(r) \/ LosesStatement(r)
      BY <1>0, <2>3 DEF ClaimsForNobody, LosesStatement
    <2>4. CASE Claims(r)
      <3>1. CASE k = RowKey(r)
        BY <2>4, <3>1 DEF Claims
      <3>2. CASE k # RowKey(r)
        <4>1. row'[k] = row[k] /\ faults = 0 /\ crashes = 0
          BY <1>0, <2>4, <3>2 DEF Claims, TakeRow
        <4>2. ~Holding(r)
          BY <2>4 DEF Claims, Holding
        <4> QED
          BY <1>0, <2>1, <4>1, <4>2 DEF KeysComeBack
      <3> QED
        BY <3>1, <3>2
    <2>5. CASE Settles(r)
      <3>1. faults = 0 /\ crashes = 0
        BY <2>5 DEF Settles, Settle, Complete, Release, boundVars
      <3>2. k # RowKey(r)
        <4>1. RowOf(r) = ClaimedBy(r) /\ RowOf(r) \in Rows /\ RowOf(r).status = "in_progress"
          BY <1>0, <2>5, KindFields DEF Settles, HolderIsAlone, RowOf
        <4>2. row'[RowKey(r)].status # "in_progress"
          <5>1. CASE Complete(r)
            <6>1. row'[RowKey(r)] = [RowOf(r) EXCEPT !.status = "completed", !.response = r]
              BY <1>0, <2>5, <4>1, <5>1 DEF Settles, Complete, RowOf
            <6> QED
              BY <4>1, <6>1 DEF ClaimedBy
          <5>2. CASE Release(r)
            <6>1. row'[RowKey(r)] = NoRow
              BY <1>0, <2>5, <4>1, <5>2 DEF Settles, Release, RowOf
            <6> QED
              BY <6>1, RowFields
          <5> QED
            BY <2>5, <5>1, <5>2 DEF Settles, Settle
        <4> QED
          BY <4>2
      <3>3. row'[k] = row[k]
        BY <1>0, <2>5, <3>2 DEF Settles, Settle, Complete, Release
      <3> QED
        BY <1>0, <2>1, <3>1, <3>2, <3>3 DEF KeysComeBack
    <2> QED
      BY <1>0, <1>4, <2>0, <2>2, <2>3, <2>4, <2>5, FiveWays
  <1> QED
    BY <1>1, <1>2, <1>3, <1>4 DEF Next, RequestStep

-----------------------------------------------------------------------------
(* Deliveries.  What is delivered stays delivered. *)
LEMMA SuccessStays ==
    ASSUME TypeOK, NEW r \in Requests, Sound(r), RequestStep(r)
    PROVE  /\ outcome[r] = "success" => outcome'[r] = "success"
           /\ outcome'[r] = "success" =>
                  \/ outcome[r] = "success"
                  \/ pc[r] = "storing" /\ UNCHANGED <<row, holds, pending, expiries>>
           /\ outcome'[r] = "replayed" =>
                  \/ outcome[r] = "replayed" /\ replyOf'[r] = replyOf[r]
                  \/ Replay(r)
  <1> USE DEF Sound, TypeOK, Live, Charged, Goto, Finish, requestVars, boundVars
  <1>1. CASE TooMany(r) \/ Enter(r) \/ Claim(r) \/ ClaimRefused(r) \/ ClaimVanished(r)
    BY <1>1 DEF TooMany, Enter, Claim, ClaimRefused, ClaimVanished
  <1>2. CASE RejectMismatch(r) \/ RejectInProgress(r) \/ Invalid(r) \/ Charge(r)
    BY <1>2 DEF RejectMismatch, RejectInProgress, Invalid, Charge
  <1>3. CASE Replay(r)
    BY <1>3 DEF Replay
  <1>4. CASE \/ InsufficientBalance(r) \/ ProviderAnswers(r) \/ StoreImage(r)
             \/ GenerationFails(r) \/ Refund(r)
    BY <1>4 DEF InsufficientBalance, ProviderAnswers, StoreImage, GenerationFails, Refund
  <1>5. CASE Answer(r) \/ Close(r) \/ Settle(r)
    BY <1>5 DEF Answer, Close, Settle, Complete, Release
  <1>6. CASE Fails(r)
    BY <1>6 DEF Fails, ClaimFails, ChargeFails, RefundFails, LoseStatement
  <1> QED
    BY <1>1, <1>2, <1>3, <1>4, <1>5, <1>6 DEF RequestStep, Step

(* Nothing more is delivered and nobody more may deliver. *)
LEMMA DeliveriesKept ==
    ASSUME DeliveriesCounted, NEW k \in RowKeys, Delivered(k)' = Delivered(k),
           expiries'[k] = expiries[k], MayDeliver(k)' => MayDeliver(k)
    PROVE  /\ IsFiniteSet(Delivered(k)')
           /\ Cardinality(Delivered(k)') <= 1 + expiries'[k]
           /\ MayDeliver(k)' => Cardinality(Delivered(k)') <= expiries'[k]
  BY DEF DeliveriesCounted

(* One delivery for a key: every action keeps it. *)
LEMMA DeliveriesStep == IInv /\ [Next]_vars => DeliveriesCounted'
  <1> SUFFICES ASSUME IInv, [Next]_vars PROVE DeliveriesCounted'
    OBVIOUS
  <1> SUFFICES ASSUME NEW k \in RowKeys
               PROVE  /\ IsFiniteSet(Delivered(k)')
                      /\ Cardinality(Delivered(k)') <= 1 + expiries'[k]
                      /\ MayDeliver(k)' => Cardinality(Delivered(k)') <= expiries'[k]
    BY DEF DeliveriesCounted
  <1> DEFINE Goal == /\ IsFiniteSet(Delivered(k)')
                     /\ Cardinality(Delivered(k)') <= 1 + expiries'[k]
                     /\ MayDeliver(k)' => Cardinality(Delivered(k)') <= expiries'[k]
  <1>0. /\ TypeOK /\ AllSound /\ HolderIsAlone /\ DeliveriesCounted /\ req' = req
        /\ row \in [RowKeys -> Rows] /\ expiries \in [RowKeys -> 0..MaxExpiries]
        /\ claims \in [RowKeys -> Nat]
        /\ \A r \in Requests : RowKey(r)' = RowKey(r)
    BY KindsKept DEF IInv, TypeOK, RowKey
  <1>00. IsFiniteSet(Delivered(k)) /\ Cardinality(Delivered(k)) \in Nat /\ expiries[k] \in Nat
    BY <1>0, FS_CardinalityType DEF DeliveriesCounted
  <1>1. CASE UNCHANGED vars \/ Done
    <2>1. UNCHANGED <<pc, pending, holds, row, outcome, expiries>>
      BY <1>1 DEF vars, requestVars, boundVars, Done
    <2>2. Delivered(k)' = Delivered(k) /\ (MayDeliver(k)' => MayDeliver(k))
      BY <1>0, <2>1 DEF Delivered, MayDeliver, Holding
    <2> QED
      BY <1>0, <2>1, <2>2, DeliveriesKept
  <1>2. CASE Crash
    <2>1. \A s \in Requests : ~Holding(s)'
      BY <1>0, <1>2 DEF Crash, Holding, Live, TypeOK
    <2>2. UNCHANGED <<row, holds, expiries>>
      BY <1>2 DEF Crash, requestVars
    <2>3. \A s \in Requests : outcome'[s] = "success" <=> outcome[s] = "success"
      BY <1>0, <1>2 DEF Crash, AllSound, Sound, Charged, Live, TypeOK
    <2>4. Delivered(k)' = Delivered(k) /\ (MayDeliver(k)' => MayDeliver(k))
      BY <1>0, <2>1, <2>2, <2>3 DEF Delivered, MayDeliver
    <2> QED
      BY <1>0, <2>2, <2>4, DeliveriesKept
  <1>3. ASSUME NEW j \in RowKeys, Expire(j) PROVE Goal
    <2>1. UNCHANGED <<pc, pending, holds, outcome>>
      BY <1>3 DEF Expire, requestVars
    <2>2. Delivered(k)' = Delivered(k)
      BY <1>0, <2>1 DEF Delivered
    <2>3. CASE j = k
      <3>1. expiries'[k] = expiries[k] + 1
        BY <1>0, <1>3, <2>3 DEF Expire
      <3> QED
        BY <1>0, <1>00, <2>2, <3>1 DEF DeliveriesCounted
    <2>4. CASE j # k
      <3>1. row'[k] = row[k] /\ expiries'[k] = expiries[k]
        BY <1>0, <1>3, <2>4 DEF Expire
      <3>2. MayDeliver(k)' => MayDeliver(k)
        BY <1>0, <2>1, <3>1 DEF MayDeliver, Holding
      <3> QED
        BY <1>0, <2>2, <3>1, <3>2, DeliveriesKept
    <2> QED
      BY <2>3, <2>4
  <1>4. ASSUME NEW r \in Requests, RequestStep(r) PROVE Goal
    <2>0. Sound(r)
      BY <1>0 DEF AllSound
    <2>1. \A s \in Requests : s # r =>
            /\ Holding(s)' <=> Holding(s)
            /\ holds'[s] = holds[s] /\ outcome'[s] = outcome[s]
      BY <1>0, <1>4, OthersUntouched DEF Untouched, Holding
    <2>2. CASE KeepsClaim(r)
      <3>1. CASE outcome'[r] = "success" => outcome[r] = "success" \/ holds[r] = 0
        <4>1. Delivered(k)' = Delivered(k)
          BY <1>0, <1>4, <2>0, <2>1, <2>2, <3>1, SuccessStays DEF Delivered, KeepsClaim
        <4>2. MayDeliver(k)' => MayDeliver(k)
          BY <1>0, <1>4, <2>0, <2>1, <2>2, <3>1, SuccessStays DEF MayDeliver, KeepsClaim
        <4> QED
          BY <1>0, <2>2, <4>1, <4>2, DeliveriesKept DEF KeepsClaim
      <3>2. CASE outcome'[r] = "success" /\ outcome[r] # "success" /\ holds[r] # 0
        <4>1. pc[r] = "storing" /\ Holding(r)
          BY <1>0, <1>4, <2>0, <3>2, SuccessStays DEF Holding, Live
        <4>2. CASE RowKey(r) = k
          <5>1. MayDeliver(k)
            BY <3>2, <4>1, <4>2 DEF MayDeliver
          <5>2. Delivered(k)' = Delivered(k) \cup {r}
            BY <1>0, <2>1, <2>2, <3>2, <4>2 DEF Delivered, KeepsClaim
          <5>3. /\ IsFiniteSet(Delivered(k)')
                /\ Cardinality(Delivered(k)') <= Cardinality(Delivered(k)) + 1
            <6>1. /\ IsFiniteSet(Delivered(k) \cup {r})
                  /\ Cardinality(Delivered(k) \cup {r}) =
                       IF r \in Delivered(k) THEN Cardinality(Delivered(k))
                       ELSE Cardinality(Delivered(k)) + 1
              BY <1>00, FS_AddElement
            <6> QED
              BY <1>00, <5>2, <6>1
          <5>4. ~MayDeliver(k)'
            <6>1. row'[k] = ClaimedBy(r)
              BY <1>0, <2>2, <4>1, <4>2 DEF KeepsClaim, HolderIsAlone, RowOf
            <6>2. row'[k].status = "in_progress" /\ ~row'[k].expired
              BY <1>0, <6>1, KindFields
            <6>3. \A s \in Requests : RowKey(s) = k /\ Holding(s)' => s = r
              BY <1>0, <2>1, <4>1, <4>2 DEF HolderIsAlone
            <6> QED
              BY <1>0, <3>2, <6>2, <6>3 DEF MayDeliver
          <5>5. Cardinality(Delivered(k)) <= expiries[k] /\ expiries'[k] = expiries[k]
            BY <1>0, <2>2, <5>1 DEF KeepsClaim, DeliveriesCounted
          <5>6. Cardinality(Delivered(k)') \in Nat
            BY <5>3, FS_CardinalityType
          <5> QED
            BY <1>00, <5>3, <5>4, <5>5, <5>6
        <4>3. CASE RowKey(r) # k
          <5>1. Delivered(k)' = Delivered(k)
            BY <1>0, <2>1, <4>3 DEF Delivered
          <5>2. MayDeliver(k)' => MayDeliver(k)
            BY <1>0, <2>1, <2>2, <4>3 DEF MayDeliver, KeepsClaim
          <5> QED
            BY <1>0, <2>2, <5>1, <5>2, DeliveriesKept DEF KeepsClaim
        <4> QED
          BY <4>2, <4>3
      <3> QED
        BY <3>1, <3>2
    <2>3. CASE Claims(r) \/ ClaimsForNobody(r)
      <3>1. Delivered(k)' = Delivered(k)
        BY <1>0, <2>1, <2>3 DEF Delivered, Claims, ClaimsForNobody
      <3>2. expiries' = expiries
        BY <2>3 DEF Claims, ClaimsForNobody
      <3>3. CASE RowKey(r) = k
        <4>1. MayDeliver(k)
          BY <2>3, <3>3 DEF Claims, ClaimsForNobody, Claimable, MayDeliver, RowOf
        <4> QED
          BY <1>0, <3>1, <3>2, <4>1, DeliveriesKept
      <3>4. CASE RowKey(r) # k
        <4>1. row'[k] = row[k]
          BY <1>0, <2>3, <3>4 DEF Claims, ClaimsForNobody, TakeRow
        <4>2. MayDeliver(k)' => MayDeliver(k)
          BY <1>0, <2>1, <3>4, <4>1 DEF MayDeliver
        <4> QED
          BY <1>0, <3>1, <3>2, <4>2, DeliveriesKept
      <3> QED
        BY <3>3, <3>4
    <2>4. CASE Settles(r)
      <3>1. Delivered(k)' = Delivered(k)
        BY <1>0, <2>1, <2>4 DEF Delivered, Settles
      <3>2. expiries' = expiries
        BY <2>4 DEF Settles, Settle, Complete, Release, boundVars
      <3>3. CASE RowKey(r) = k /\ outcome[r] # "success"
        <4>1. MayDeliver(k)
          BY <2>4, <3>3 DEF Settles, MayDeliver
        <4> QED
          BY <1>0, <3>1, <3>2, <4>1, DeliveriesKept
      <3>4. CASE RowKey(r) = k /\ outcome[r] = "success"
        <4>1. Complete(r)
          BY <2>0, <2>4, <3>4 DEF Settles, Settle, Release, Sound
        <4>2. RowOf(r) = ClaimedBy(r) /\ RowOf(r).status = "in_progress" /\ ~RowOf(r).expired
          BY <1>0, <2>4, KindFields DEF Settles, HolderIsAlone
        <4>3. row'[k] = [RowOf(r) EXCEPT !.status = "completed", !.response = r]
          BY <1>0, <2>4, <3>4, <4>1, <4>2 DEF Settles, Complete, RowOf
        <4>4. row'[k].status = "completed" /\ ~row'[k].expired
          BY <4>2, <4>3 DEF ClaimedBy
        <4>5. \A s \in Requests : RowKey(s) = k => ~Holding(s)'
          BY <1>0, <2>1, <2>4, <3>4 DEF Settles, HolderIsAlone
        <4>6. ~MayDeliver(k)'
          BY <1>0, <4>4, <4>5 DEF MayDeliver
        <4> QED
          BY <1>0, <3>1, <3>2, <4>6, DeliveriesKept
      <3>5. CASE RowKey(r) # k
        <4>1. row'[k] = row[k]
          BY <1>0, <2>4, <3>5 DEF Settles, Settle, Complete, Release
        <4>2. MayDeliver(k)' => MayDeliver(k)
          BY <1>0, <2>1, <3>5, <4>1 DEF MayDeliver
        <4> QED
          BY <1>0, <3>1, <3>2, <4>2, DeliveriesKept
      <3> QED
        BY <3>3, <3>4, <3>5
    <2>5. CASE LosesStatement(r)
      <3>1. Delivered(k)' = Delivered(k)
        BY <1>0, <2>1, <2>5 DEF Delivered, LosesStatement
      <3>2. MayDeliver(k)' => MayDeliver(k)
        BY <1>0, <2>1, <2>5 DEF MayDeliver, LosesStatement
      <3> QED
        BY <1>0, <2>5, <3>1, <3>2, DeliveriesKept DEF LosesStatement
    <2> QED
      BY <1>0, <1>4, <2>0, <2>2, <2>3, <2>4, <2>5, FiveWays
  <1> QED
    BY <1>1, <1>2, <1>3, <1>4 DEF Next, RequestStep

-----------------------------------------------------------------------------
(* Replays. *)
LEMMA ResponsesStep == IInv /\ [Next]_vars => ResponsesStored' /\ ReplayIsOfSameRequest'
  <1> SUFFICES ASSUME IInv, [Next]_vars PROVE ResponsesStored' /\ ReplayIsOfSameRequest'
    OBVIOUS
  <1>0. /\ TypeOK /\ AllSound /\ HolderIsAlone /\ ResponsesStored /\ ReplayIsOfSameRequest
        /\ req' = req /\ row \in [RowKeys -> Rows] /\ replyOf \in [Requests -> Requests \cup {NoRequest}]
    BY KindsKept DEF IInv, TypeOK
  <1>00. /\ \A r \in Requests : RowKey(r)' = RowKey(r)
         /\ \A r \in Requests : Fingerprint(req'[r]) = Fingerprint(req[r])
    BY <1>0 DEF RowKey
  <1>1. ASSUME \A s \in Requests : outcome[s] = "success" => outcome'[s] = "success",
               \A k \in RowKeys : row'[k].status = "completed" =>
                   row[k].status = "completed" /\ row'[k].response = row[k].response
                   /\ row'[k].of = row[k].of
        PROVE ResponsesStored'
    BY <1>0, <1>00, <1>1 DEF ResponsesStored
  <1>2. ASSUME \A s \in Requests : outcome[s] = "success" => outcome'[s] = "success",
               \A s \in Requests : outcome'[s] = "replayed" =>
                   outcome[s] = "replayed" /\ replyOf'[s] = replyOf[s]
        PROVE ReplayIsOfSameRequest'
    BY <1>0, <1>2 DEF ReplayIsOfSameRequest
  <1>3. CASE UNCHANGED vars \/ Done
    BY <1>1, <1>2, <1>3 DEF vars, requestVars, Done
  <1>4. CASE Crash
    <2>1. /\ UNCHANGED <<row, replyOf>>
          /\ \A s \in Requests : /\ outcome'[s] = "success" <=> outcome[s] = "success"
                                 /\ outcome'[s] = "replayed" <=> outcome[s] = "replayed"
      BY <1>0, <1>4 DEF Crash, AllSound, Sound, Charged, Live, TypeOK
    <2> QED
      BY <1>1, <1>2, <2>1
  <1>5. ASSUME NEW j \in RowKeys, Expire(j) PROVE ResponsesStored' /\ ReplayIsOfSameRequest'
    <2>1. UNCHANGED <<outcome, replyOf>> /\ row[j] \in Rows /\ row[j].status # "absent"
      BY <1>0, <1>5 DEF Expire, requestVars
    <2>2. row' = [row EXCEPT ![j] = [row[j] EXCEPT !.expired = TRUE]]
      BY <1>5 DEF Expire
    <2>3. LET w == [row[j] EXCEPT !.expired = TRUE]
          IN  w.status = row[j].status /\ w.response = row[j].response /\ w.of = row[j].of
      BY <2>1 DEF Rows, NoRow
    <2>4. \A k \in RowKeys : row'[k].status = row[k].status
                             /\ row'[k].response = row[k].response /\ row'[k].of = row[k].of
      BY <1>0, <2>2, <2>3
    <2> QED
      BY <1>1, <1>2, <2>1, <2>4
  <1>6. ASSUME NEW r \in Requests, RequestStep(r)
        PROVE ResponsesStored' /\ ReplayIsOfSameRequest'
    <2>0. Sound(r)
      BY <1>0 DEF AllSound
    <2>1. \A s \in Requests : outcome[s] = "success" => outcome'[s] = "success"
      BY <1>0, <1>6, <2>0, OthersUntouched, SuccessStays DEF Untouched
    <2>2. ReplayIsOfSameRequest'
      <3>1. CASE outcome'[r] = "replayed" => outcome[r] = "replayed" /\ replyOf'[r] = replyOf[r]
        BY <1>0, <1>2, <1>6, <2>1, <3>1, OthersUntouched DEF Untouched
      <3>2. CASE Replay(r)
        <4>1. RowKey(r) \in RowKeys
          BY <1>0, <2>0, <3>2, KindFields DEF Replay, Sound
        <4> DEFINE s == RowOf(r).response
        <4>2. s \in Requests /\ RowKey(s) = RowKey(r) /\ outcome[s] = "success"
              /\ Fingerprint(req[s]) = Fingerprint(req[r])
          BY <1>0, <3>2, <4>1 DEF Replay, ResponsesStored, RowOf
        <4>3. req[s] = req[r] /\ s # NoRequest
          BY <1>0, <4>2, SameKind
        <4>4. replyOf'[r] = s
          BY <1>0, <3>2 DEF Replay
        <4>5. req'[s] = req'[r] /\ outcome'[s] = "success"
          BY <1>0, <2>1, <4>2, <4>3
        <4> HIDE DEF s
        <4>6. \A q \in Requests : q # r => outcome'[q] = outcome[q] /\ replyOf'[q] = replyOf[q]
          BY <1>0, <1>6, OthersUntouched DEF Untouched
        <4> QED
          BY <1>0, <2>1, <4>2, <4>3, <4>4, <4>5, <4>6 DEF ReplayIsOfSameRequest
      <3> QED
        BY <1>0, <1>6, <2>0, <3>1, <3>2, SuccessStays
    <2>3. ResponsesStored'
      <3>1. CASE row' = row
        BY <1>1, <2>1, <3>1
      <3>2. CASE Claims(r) \/ ClaimsForNobody(r)
        <4>1. /\ row'[RowKey(r)] = ClaimedBy(r) /\ ClaimedBy(r).status = "in_progress"
              /\ \A k \in RowKeys : k # RowKey(r) => row'[k] = row[k]
          BY <1>0, <3>2, KindFields DEF Claims, ClaimsForNobody, TakeRow
        <4> QED
          BY <1>1, <2>1, <4>1
      <3>3. CASE Settles(r)
        <4>1. \A k \in RowKeys : k # RowKey(r) => row'[k] = row[k]
          BY <1>0, <3>3 DEF Settles, Settle, Complete, Release
        <4>2. RowOf(r) = ClaimedBy(r) /\ RowOf(r).status = "in_progress"
              /\ RowOf(r).of = Fingerprint(req[r])
          BY <1>0, <3>3, KindFields DEF Settles, HolderIsAlone
        <4>3. CASE Complete(r)
          <5>1. row'[RowKey(r)] = [RowOf(r) EXCEPT !.status = "completed", !.response = r]
            BY <1>0, <3>3, <4>2, <4>3 DEF Settles, Complete, RowOf
          <5>2. row'[RowKey(r)].response = r /\ row'[RowKey(r)].of = Fingerprint(req[r])
            BY <4>2, <5>1 DEF ClaimedBy
          <5>3. outcome'[r] = "success"
            BY <2>0, <2>1, <4>3 DEF Complete, Sound
          <5> QED
            BY <1>0, <1>00, <2>1, <4>1, <5>2, <5>3 DEF ResponsesStored
        <4>4. CASE Release(r)
          <5>1. row'[RowKey(r)] = NoRow
            BY <1>0, <3>3, <4>2, <4>4 DEF Settles, Release, RowOf
          <5> QED
            BY <1>1, <2>1, <4>1, <5>1, RowFields
        <4> QED
          BY <3>3, <4>3, <4>4 DEF Settles, Settle
      <3> QED
        BY <1>0, <1>6, <2>0, <3>1, <3>2, <3>3, FiveWays DEF KeepsClaim, LosesStatement
    <2> QED
      BY <2>2, <2>3
  <1> QED
    BY <1>3, <1>4, <1>5, <1>6 DEF Next, RequestStep

-----------------------------------------------------------------------------
LEMMA IInvAlways == Spec => []IInv
  <1>1. IInv /\ [Next]_vars => IInv'
    BY TypeStep, SoundStep, SlotsStep, ChargesStep, HolderStep, ComeBackStep, DeliveriesStep,
       ResponsesStep DEF IInv
  <1> QED
    BY InitIInv, <1>1, PTL DEF Spec

(* The limiter's counts are exactly the requests of each user in the process
   with their connection open and stay within the cap, whoever answers, goes
   away or dies with the process (concurrentGenerationLimiter). *)
THEOREM LimiterCounts == Spec => []StateOK
  <1>1. IInv => StateOK
    BY DEF IInv, StateOK, LimiterIsExact, SlotsCounted, AllSound, Sound, Slots
  <1> QED
    BY IInvAlways, <1>1, PTL

(* What a user's generations have cost, refunds deducted, is the cost of those
   delivered, in progress or known to have ended badly, however requests,
   disconnections, failing statements and crashes interleave
   (generateController, stabilityController). *)
THEOREM ChargedForWhatCame == Spec => []ChargesMatchOutcomes
  <1>1. IInv => ChargesMatchOutcomes
    BY DEF IInv, ChargesMatchOutcomes, ChargesCounted, Standing
  <1> QED
    BY IInvAlways, <1>1, PTL

(* A key has one holder at most, whose fingerprint its row keeps until the
   holder is done, and no key in progress is left without one but by a fault
   (generationIdempotencyModel, the idempotency middleware). *)
THEOREM ClaimsHeld == Spec => []ClaimsAreHeld
  <1>1. IInv => ClaimsAreHeld
    BY DEF IInv, ClaimsAreHeld
  <1> QED
    BY IInvAlways, <1>1, PTL

(* For one key a generation is delivered once, and once more for each time its
   row aged out; a replay answers with a delivered generation of the same user,
   key, endpoint and body. *)
THEOREM DeliveredOnce == Spec => []OneDeliveryPerKey
  <1>1. IInv => OneDeliveryPerKey
    BY DEF IInv, OneDeliveryPerKey, DeliveredOncePerKey, DeliveriesCounted, Delivered
  <1> QED
    BY IInvAlways, <1>1, PTL

LEMMA NextIsLedgerStep == TypeOK /\ [Next]_vars => [LedgerNext]_ledgerVars
  <1> SUFFICES ASSUME TypeOK, [Next]_vars PROVE [LedgerNext]_ledgerVars
    OBVIOUS
  <1>1. ASSUME NEW r \in Requests,
               Debit(User(r), Cost, "generation") \/ Credit(User(r), Cost, "refund")
        PROVE  [LedgerNext]_ledgerVars
    <2>1. User(r) \in Users
      BY KindFields
    <2> QED
      BY <1>1, <2>1 DEF LedgerNext
  <1>2. ASSUME NEW r \in Requests, Step(r) \/ Fails(r)
        PROVE  \/ UNCHANGED ledgerVars
               \/ Debit(User(r), Cost, "generation") \/ Credit(User(r), Cost, "refund")
    BY <1>2 DEF Step, Claim, ClaimRefused, ClaimVanished, RejectMismatch, Replay,
                RejectInProgress, Invalid, Charge, InsufficientBalance, ProviderAnswers,
                StoreImage, GenerationFails, Refund, Answer,
                Fails, ClaimFails, ChargeFails, RefundFails, LoseStatement
  <1>3. ASSUME NEW r \in Requests, TooMany(r) \/ Enter(r) \/ Settle(r) \/ Close(r)
        PROVE  UNCHANGED ledgerVars
    BY <1>3 DEF TooMany, Enter, Settle, Complete, Release, Close
  <1>4. ASSUME NEW k \in RowKeys, Expire(k) PROVE UNCHANGED ledgerVars
    BY <1>4 DEF Expire
  <1>5. CASE Crash \/ Done \/ UNCHANGED vars
    BY <1>5 DEF Crash, Done, vars
  <1> QED
    BY <1>1, <1>2, <1>3, <1>4, <1>5 DEF Next

(* Whatever becomes of a generation, credits move by steps of the ledger only:
   its charge, and its refund, each with its ledger row (generateController,
   stabilityController). *)
THEOREM GenerationsMoveTheLedger == Spec => LedgerSpec
  <1>1. Init => LedgerInit
    BY DEF Init
  <1>2. IInv => TypeOK
    BY DEF IInv
  <1> QED
    BY IInvAlways, NextIsLedgerStep, <1>1, <1>2, PTL DEF Spec, LedgerSpec
=============================================================================
