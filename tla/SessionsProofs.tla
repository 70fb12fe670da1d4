--------------------------- MODULE SessionsProofs ---------------------------
(***************************************************************************)
(* A session never forks, a reset link works once, the password stands and *)
(* an access token accepted is current: for every set of concurrent        *)
(* requests and every number of requests and faults.                       *)
(*                                                                         *)
(* The inductive invariant says what each request holds at each point      *)
(* (Sound), that a row read some statements ago is the present one or of   *)
(* an older token_version (RowsAreDated), that the family a rotation is    *)
(* about to continue is its alone (RotationsAreAlone), and what the        *)
(* requests under way may still add to a counter (WithinBudget).           *)
(***************************************************************************)
EXTENDS Sessions, FiniteSetTheorems, TLAPS

Request == [at : Steps, kind : Kinds \cup {"none"}, seen : User \cup {<<>>},
            token : Nat, family : Nat, new : Passwords,
            status : {"active", "suspended"}, staged : SUBSET Nat]

Shape ==
    /\ user \in User
    /\ tokens \in Seq(Token)
    /\ call \in [Calls -> Request]
    /\ access \subseteq Access
    /\ links \in Seq(Nat)
    /\ chosen \in Passwords
    /\ served \in 0..MaxServed
    /\ faults \in 0..MaxFaults

(* Who holds a row it read, to mint tokens from. *)
HasRow(c) ==
    \/ call[c].at \in {"failing", "upgrading", "opening", "clearing", "consuming",
                       "diagnosing", "migrating", "rotating", "reopening"}
    \/ At(c, "revoking") /\ call[c].kind = "changePassword"

(* What a request holds at each point. *)
Sound(c) ==
    /\ call[c].token \in 0..Len(tokens)
    /\ call[c].family \in 0..Len(tokens)
    /\ call[c].staged \subseteq DOMAIN tokens
    /\ HasRow(c) => call[c].seen \in User
    /\ At(c, "revoking") =>
           call[c].kind \in {"logout", "logoutAll", "changePassword", "resetPassword"}
    /\ call[c].at \in {"comparing", "changing", "reopening"} =>
           call[c].kind = "changePassword"
    /\ call[c].at \in {"consuming", "diagnosing", "migrating"} => call[c].family = 0
    /\ \/ At(c, "containing")
       \/ At(c, "bumping") /\ call[c].kind = "refresh"
       => call[c].family # 0

AllSound == \A c \in Calls : Sound(c)

(* The requests that may still add one to a counter: none adds two. *)
Counters == {"versions", "tokens", "switches", "failures"}

Count(n) ==
    CASE n = "versions" -> user.token_version
      [] n = "tokens" -> Len(tokens)
      [] n = "switches" -> user.status_changed
      [] n = "failures" -> user.failed_attempts

MayAdd(n, c) ==
    CASE n = "versions" ->
             \/ call[c].at \in {"consuming", "diagnosing", "containing", "bumping",
                                "comparing", "changing", "staging", "committing"}
             \/ At(c, "revoking") /\ call[c].kind = "logoutAll"
      [] n = "tokens" ->
             \/ call[c].at \in {"upgrading", "opening", "consuming", "diagnosing",
                                "migrating", "rotating", "comparing", "changing",
                                "reopening"}
             \/ At(c, "revoking") /\ call[c].kind = "changePassword"
      [] n = "switches" -> call[c].at \in {"staging", "committing"}
      [] n = "failures" -> At(c, "failing")

Adders(n) == {c \in Calls : MayAdd(n, c)}

WithinBudget ==
    /\ \A n \in Counters :
        IsFiniteSet(Adders(n)) /\ Count(n) + Cardinality(Adders(n)) <= served
    /\ Len(links) <= served

(* The families are those of the tokens issued, the one stolen among them. *)
FamiliesKnown ==
    /\ \A t \in DOMAIN tokens : tokens[t].family \in 1..Len(tokens)
    /\ stolen \subseteq 1..Len(tokens)

(* A rotation holds a family without a live token, and nobody else does. *)
RotationsAreAlone ==
    \A c \in Calls : At(c, "rotating") /\ call[c].family # 0 =>
        /\ \A t \in DOMAIN tokens : tokens[t].family = call[c].family => ~Live(t)
        /\ \A d \in Calls :
               At(d, "rotating") /\ call[d].family = call[c].family => d = c

(* The link that works is one that has not been used. *)
LinkIsUnused ==
    /\ user.reset_link \in 0..Len(links)
    /\ user.reset_link # 0 => links[user.reset_link] = 0

(* What carries a token_version carries what went with it. *)
Dated(tv, term) ==
    /\ tv <= user.token_version
    /\ tv = user.token_version => term = user.status_changed

RowsAreDated ==
    \A c \in Calls : HasRow(c) =>
        LET row == call[c].seen IN
        /\ Dated(row.token_version, row.status_changed)
        /\ row.token_version = user.token_version =>
               row.password_hash.salt = user.password_hash.salt

AccessIsDated ==
    \A a \in access :
        /\ Dated(a.tv, a.term)
        /\ a.tv = user.token_version /\ a.by = "password" =>
               a.salt = user.password_hash.salt

IInv ==
    /\ Shape /\ AllSound /\ WithinBudget
    /\ LockMatchesAttempts
    /\ FamiliesKnown /\ OneLiveTokenPerSession /\ RotationsAreAlone
    /\ LinkIsUnused /\ PasswordStands
    /\ RowsAreDated /\ AccessIsDated

USE KindsAssumption, FirstAssumption, SessionBoundsAssumption

-----------------------------------------------------------------------------
(* Requests: what arriving, going on and answering make of them. *)
LEMMA IdleIsRequest ==
    /\ Idle \in Request
    /\ Idle.at = "idle" /\ Idle.kind = "none" /\ Idle.token = 0 /\ Idle.family = 0
    /\ Idle.staged = {}
  BY DEF Idle, Request, Steps

(* The request that arrives. *)
Fresh(k, r) == [f \in DOMAIN Idle |-> IF f = "kind" THEN k
                                      ELSE IF f \in DOMAIN r THEN r[f] ELSE Idle[f]]

LEMMA FreshIsRequest ==
    ASSUME NEW q, q = [f \in DOMAIN q |-> q[f]],
           DOMAIN q = {"at", "kind", "seen", "token", "family", "new", "status", "staged"},
           q.at \in Steps, q.kind \in Kinds, q.seen \in User \cup {<<>>}, q.token \in Nat,
           q.family = 0, q.new \in Passwords, q.status \in {"active", "suspended"},
           q.staged = {}
    PROVE  q \in Request
  <1> DEFINE S == User \cup {<<>>}
  <1>1. q.seen \in S /\ q.kind \in Kinds \cup {"none"} /\ q.staged \in SUBSET Nat
    OBVIOUS
  <1>2. q \in [at : Steps, kind : Kinds \cup {"none"}, seen : S, token : Nat, family : Nat,
               new : Passwords, status : {"active", "suspended"}, staged : SUBSET Nat]
    <2> HIDE DEF S
    <2> QED
      BY <1>1
  <1> QED
    BY <1>2 DEF Request

Others(c) == \A d \in Calls : d # c => call'[d] = call[d]

(* What a step does to the request that takes it: it arrives, ... *)
Arrived(c, k, a) ==
    /\ call' \in [Calls -> Request] /\ Others(c)
    /\ At(c, "idle") /\ call'[c].at = a /\ call'[c].kind = k
    /\ call'[c].family = 0 /\ call'[c].staged = {}
    /\ k \in Kinds /\ served < MaxServed /\ served' = served + 1 /\ faults' = faults

LEMMA ArriveAt ==
    ASSUME call \in [Calls -> Request], user \in User, NEW c \in Calls, NEW k,
           NEW a \in Steps,
           Arrive(c, k, [at |-> a])
    PROVE  Arrived(c, k, a) /\ call'[c].token = 0
  <1> DEFINE q == Fresh(k, [at |-> a])
  <1>1. /\ k \in Kinds /\ At(c, "idle") /\ call' = [call EXCEPT ![c] = q]
        /\ served < MaxServed /\ served' = served + 1 /\ faults' = faults
    BY DEF Arrive, Fresh
  <1>2. /\ q = [f \in DOMAIN q |-> q[f]]
        /\ DOMAIN q = {"at", "kind", "seen", "token", "family", "new", "status", "staged"}
        /\ q.at = a /\ q.kind = k /\ q.family = 0 /\ q.staged = {} /\ q.token \in Nat
        /\ q.seen \in User \cup {<<>>} /\ q.new \in Passwords
        /\ q.status \in {"active", "suspended"}
        /\ q.token = 0
    BY DEF Fresh, Idle
  <1> HIDE DEF q
  <1>3. q \in Request
    BY <1>1, <1>2, FreshIsRequest
  <1> QED
    BY <1>1, <1>2, <1>3 DEF Arrived, Others

LEMMA ArriveSeen ==
    ASSUME call \in [Calls -> Request], user \in User, NEW c \in Calls, NEW k,
           NEW a \in Steps,
           Arrive(c, k, [at |-> a, seen |-> user])
    PROVE  Arrived(c, k, a) /\ call'[c].seen = user /\ call'[c].token = 0
  <1> DEFINE q == Fresh(k, [at |-> a, seen |-> user])
  <1>1. /\ k \in Kinds /\ At(c, "idle") /\ call' = [call EXCEPT ![c] = q]
        /\ served < MaxServed /\ served' = served + 1 /\ faults' = faults
    BY DEF Arrive, Fresh
  <1>2. /\ q = [f \in DOMAIN q |-> q[f]]
        /\ DOMAIN q = {"at", "kind", "seen", "token", "family", "new", "status", "staged"}
        /\ q.at = a /\ q.kind = k /\ q.family = 0 /\ q.staged = {} /\ q.token \in Nat
        /\ q.seen \in User \cup {<<>>} /\ q.new \in Passwords
        /\ q.status \in {"active", "suspended"}
        /\ q.seen = user /\ q.token = 0
    BY DEF Fresh, Idle
  <1> HIDE DEF q
  <1>3. q \in Request
    BY <1>1, <1>2, FreshIsRequest
  <1> QED
    BY <1>1, <1>2, <1>3 DEF Arrived, Others

LEMMA ArriveWithToken ==
    ASSUME call \in [Calls -> Request], user \in User, NEW c \in Calls, NEW k,
           NEW a \in Steps, NEW t \in Nat,
           Arrive(c, k, [at |-> a, seen |-> user, token |-> t])
    PROVE  Arrived(c, k, a) /\ call'[c].seen = user /\ call'[c].token \in {0, t}
  <1> DEFINE q == Fresh(k, [at |-> a, seen |-> user, token |-> t])
  <1>1. /\ k \in Kinds /\ At(c, "idle") /\ call' = [call EXCEPT ![c] = q]
        /\ served < MaxServed /\ served' = served + 1 /\ faults' = faults
    BY DEF Arrive, Fresh
  <1>2. /\ q = [f \in DOMAIN q |-> q[f]]
        /\ DOMAIN q = {"at", "kind", "seen", "token", "family", "new", "status", "staged"}
        /\ q.at = a /\ q.kind = k /\ q.family = 0 /\ q.staged = {} /\ q.token \in Nat
        /\ q.seen \in User \cup {<<>>} /\ q.new \in Passwords
        /\ q.status \in {"active", "suspended"}
        /\ q.seen = user /\ q.token \in {0, t}
    BY DEF Fresh, Idle
  <1> HIDE DEF q
  <1>3. q \in Request
    BY <1>1, <1>2, FreshIsRequest
  <1> QED
    BY <1>1, <1>2, <1>3 DEF Arrived, Others

LEMMA ArriveWithPassword ==
    ASSUME call \in [Calls -> Request], user \in User, NEW c \in Calls, NEW k,
           NEW a \in Steps, NEW p \in Passwords,
           Arrive(c, k, [at |-> a, new |-> p])
    PROVE  Arrived(c, k, a) /\ call'[c].token = 0
  <1> DEFINE q == Fresh(k, [at |-> a, new |-> p])
  <1>1. /\ k \in Kinds /\ At(c, "idle") /\ call' = [call EXCEPT ![c] = q]
        /\ served < MaxServed /\ served' = served + 1 /\ faults' = faults
    BY DEF Arrive, Fresh
  <1>2. /\ q = [f \in DOMAIN q |-> q[f]]
        /\ DOMAIN q = {"at", "kind", "seen", "token", "family", "new", "status", "staged"}
        /\ q.at = a /\ q.kind = k /\ q.family = 0 /\ q.staged = {} /\ q.token \in Nat
        /\ q.seen \in User \cup {<<>>} /\ q.new \in Passwords
        /\ q.status \in {"active", "suspended"}
        /\ q.token = 0
    BY DEF Fresh, Idle
  <1> HIDE DEF q
  <1>3. q \in Request
    BY <1>1, <1>2, FreshIsRequest
  <1> QED
    BY <1>1, <1>2, <1>3 DEF Arrived, Others

LEMMA ArriveWithStatus ==
    ASSUME call \in [Calls -> Request], user \in User, NEW c \in Calls, NEW k,
           NEW a \in Steps, NEW s \in {"active", "suspended"},
           Arrive(c, k, [at |-> a, status |-> s])
    PROVE  Arrived(c, k, a) /\ call'[c].token = 0
  <1> DEFINE q == Fresh(k, [at |-> a, status |-> s])
  <1>1. /\ k \in Kinds /\ At(c, "idle") /\ call' = [call EXCEPT ![c] = q]
        /\ served < MaxServed /\ served' = served + 1 /\ faults' = faults
    BY DEF Arrive, Fresh
  <1>2. /\ q = [f \in DOMAIN q |-> q[f]]
        /\ DOMAIN q = {"at", "kind", "seen", "token", "family", "new", "status", "staged"}
        /\ q.at = a /\ q.kind = k /\ q.family = 0 /\ q.staged = {} /\ q.token \in Nat
        /\ q.seen \in User \cup {<<>>} /\ q.new \in Passwords
        /\ q.status \in {"active", "suspended"}
        /\ q.token = 0
    BY DEF Fresh, Idle
  <1> HIDE DEF q
  <1>3. q \in Request
    BY <1>1, <1>2, FreshIsRequest
  <1> QED
    BY <1>1, <1>2, <1>3 DEF Arrived, Others

(* ... goes on ... *)
LEMMA GotoEffect ==
    ASSUME call \in [Calls -> Request], NEW c \in Calls, NEW s \in Steps, Goto(c, s)
    PROVE  /\ call' \in [Calls -> Request] /\ Others(c)
           /\ call'[c] = [call[c] EXCEPT !.at = s]
           /\ call'[c].at = s /\ call'[c].kind = call[c].kind
           /\ call'[c].token = call[c].token /\ call'[c].family = call[c].family
           /\ call'[c].seen = call[c].seen /\ call'[c].staged = call[c].staged
           /\ served' = served /\ faults' = faults
  BY DEF Request, Goto, Proceed, Others

(* ... or answers. *)
LEMMA RespondEffect ==
    ASSUME call \in [Calls -> Request], NEW c \in Calls, call' = [call EXCEPT ![c] = Idle]
    PROVE  /\ call' \in [Calls -> Request] /\ Others(c)
           /\ call'[c] = Idle
           /\ call'[c].at = "idle" /\ call'[c].kind = "none"
           /\ call'[c].token = 0 /\ call'[c].family = 0 /\ call'[c].staged = {}
  BY IdleIsRequest DEF Others

LEMMA StepNames ==
    {"idle", "upgrading", "failing", "opening", "clearing", "consuming", "diagnosing",
     "migrating", "rotating", "containing", "bumping", "revoking", "forgetting",
     "comparing", "changing", "reopening", "staging", "committing"} = Steps
  BY DEF Steps

(* The steps that also note a family, the rows staged or the row written. *)
LEMMA FamilyEffect ==
    ASSUME call \in [Calls -> Request], NEW c \in Calls, NEW s \in Steps, NEW f \in Nat,
           call' = [call EXCEPT ![c].at = s, ![c].family = f]
    PROVE  /\ call' \in [Calls -> Request] /\ Others(c)
           /\ call'[c].at = s /\ call'[c].kind = call[c].kind
           /\ call'[c].token = call[c].token /\ call'[c].family = f
           /\ call'[c].seen = call[c].seen /\ call'[c].staged = call[c].staged
  BY ZenonT(40) DEF Request, Others

LEMMA StageEffect ==
    ASSUME call \in [Calls -> Request], NEW c \in Calls, NEW s \in Steps, NEW T,
           T \in SUBSET Nat,
           call' = [call EXCEPT ![c].at = s, ![c].staged = T]
    PROVE  /\ call' \in [Calls -> Request] /\ Others(c)
           /\ call'[c].at = s /\ call'[c].kind = call[c].kind
           /\ call'[c].token = call[c].token /\ call'[c].family = call[c].family
           /\ call'[c].seen = call[c].seen /\ call'[c].staged = T
  BY ZenonT(40) DEF Request, Others

NotesRow(c, s, row) == call' = [call EXCEPT ![c].at = s, ![c].seen = row]

LEMMA SeenEffect ==
    ASSUME call \in [Calls -> Request], NEW c \in Calls, NEW s \in Steps, NEW row,
           NotesRow(c, s, row)
    PROVE  /\ row \in User => call' \in [Calls -> Request]
           /\ Others(c)
           /\ call'[c].at = s /\ call'[c].kind = call[c].kind
           /\ call'[c].token = call[c].token /\ call'[c].family = call[c].family
           /\ call'[c].seen = row /\ call'[c].staged = call[c].staged
  <1>1. ASSUME row \in User PROVE call' \in [Calls -> Request]
    <2> DEFINE S == User \cup {<<>>}
               K == Kinds \cup {"none"}
    <2>1. row \in S
      BY <1>1
    <2>2. call \in [Calls -> [at : Steps, kind : K, seen : S, token : Nat, family : Nat,
                              new : Passwords, status : {"active", "suspended"},
                              staged : SUBSET Nat]]
      BY DEF Request
    <2>3. call' \in [Calls -> [at : Steps, kind : K, seen : S, token : Nat, family : Nat,
                               new : Passwords, status : {"active", "suspended"},
                               staged : SUBSET Nat]]
      <3> HIDE DEF S, K
      <3> QED
        BY <2>1, <2>2, ZenonT(40) DEF NotesRow
    <2> QED
      BY <2>3 DEF Request
  <1> QED
    BY <1>1 DEF NotesRow, Request, Others

-----------------------------------------------------------------------------
(* Tokens: issued at the end, killed where they stand. *)
LEMMA IssueEffect ==
    ASSUME tokens \in Seq(Token), NEW f \in Nat, f <= MaxServed + 1, Len(tokens) <= MaxServed,
           NEW salt \in 0..MaxServed, RecordRefreshToken(f, salt)
    PROVE  /\ tokens' \in Seq(Token) /\ Len(tokens') = Len(tokens) + 1
           /\ \A t \in DOMAIN tokens : t \in DOMAIN tokens' /\ tokens'[t] = tokens[t]
           /\ tokens'[Len(tokens) + 1].family = IF f = 0 THEN Len(tokens) + 1 ELSE f
           /\ DOMAIN tokens = 1..Len(tokens) /\ DOMAIN tokens' = 1..(Len(tokens) + 1)
  <1> DEFINE new == [family |-> IF f = 0 THEN Len(tokens) + 1 ELSE f,
                     used |-> FALSE, dead |-> FALSE, salt |-> salt]
  <1>1. new \in Token /\ new.family = IF f = 0 THEN Len(tokens) + 1 ELSE f
    BY DEF Token
  <1>2. tokens' = Append(tokens, new)
    BY DEF RecordRefreshToken
  <1> HIDE DEF new
  <1> QED
    BY <1>1, <1>2

LEMMA KillEffect ==
    ASSUME tokens \in Seq(Token), NEW T, Kill(T)
    PROVE  /\ tokens' \in Seq(Token) /\ Len(tokens') = Len(tokens)
           /\ DOMAIN tokens' = DOMAIN tokens /\ DOMAIN tokens = 1..Len(tokens)
           /\ \A t \in DOMAIN tokens :
                /\ tokens'[t].family = tokens[t].family
                /\ Live(t)' => Live(t)
  <1>1. ASSUME NEW t \in 1..Len(tokens)
        PROVE  LET new == [tokens[t] EXCEPT !.dead = tokens[t].dead \/ t \in T] IN
               /\ new \in Token /\ new.family = tokens[t].family
               /\ new.used = tokens[t].used
               /\ ~new.dead => ~tokens[t].dead
    <2>1. tokens[t] \in Token
      OBVIOUS
    <2>2. (tokens[t].dead \/ t \in T) \in BOOLEAN
      OBVIOUS
    <2> QED
      BY <2>1, <2>2 DEF Token
  <1>2. DOMAIN tokens = 1..Len(tokens) /\ DOMAIN tokens' = 1..Len(tokens)
    BY DEF Kill
  <1>3. ASSUME NEW t \in 1..Len(tokens)
        PROVE  tokens'[t] = [tokens[t] EXCEPT !.dead = tokens[t].dead \/ t \in T]
    BY <1>2 DEF Kill
  <1>4. tokens' = [t \in 1..Len(tokens) |-> tokens'[t]]
    BY <1>2 DEF Kill
  <1>5. \A t \in 1..Len(tokens) :
            /\ tokens'[t] \in Token /\ tokens'[t].family = tokens[t].family
            /\ Live(t)' => Live(t)
    BY <1>1, <1>3 DEF Live
  <1>6. tokens' \in Seq(Token)
    BY <1>4, <1>5
  <1> QED
    BY <1>2, <1>5, <1>6

-----------------------------------------------------------------------------
(* Counting. *)
LEMMA Counting ==
    ASSUME NEW P, NEW Q, NEW x, IsFiniteSet(P)
    PROVE  /\ Q \subseteq P => IsFiniteSet(Q) /\ Cardinality(Q) <= Cardinality(P)
           /\ Q \subseteq P \cup {x} =>
                  IsFiniteSet(Q) /\ Cardinality(Q) <= Cardinality(P) + 1
           /\ x \in P /\ Q \subseteq P \ {x} =>
                  IsFiniteSet(Q) /\ Cardinality(Q) + 1 <= Cardinality(P)
           /\ Cardinality(P) \in Nat
           /\ Q \subseteq P \cup {x} => Cardinality(Q) \in Nat
  <1>1. /\ IsFiniteSet(P \cup {x}) /\ Cardinality(P \cup {x}) <= Cardinality(P) + 1
        /\ Cardinality(P) \in Nat /\ Cardinality(P \cup {x}) \in Nat
    BY FS_AddElement, FS_CardinalityType
  <1>2. /\ IsFiniteSet(P \ {x}) /\ Cardinality(P \ {x}) \in Nat
        /\ x \in P => Cardinality(P \ {x}) + 1 = Cardinality(P)
    <2>1. /\ IsFiniteSet(P \ {x})
          /\ Cardinality(P \ {x}) = IF x \in P THEN Cardinality(P) - 1 ELSE Cardinality(P)
      BY FS_RemoveElement
    <2>2. Cardinality(P \ {x}) \in Nat
      BY <2>1, FS_CardinalityType
    <2> QED
      BY <1>1, <2>1, <2>2
  <1>3. \A R : IsFiniteSet(R) =>
            (Q \subseteq R =>
                IsFiniteSet(Q) /\ Cardinality(Q) <= Cardinality(R) /\ Cardinality(Q) \in Nat)
    BY FS_Subset, FS_CardinalityType
  <1> QED
    BY <1>1, <1>2, <1>3

(* A step leaves alone whatever it does not name of the row. *)
LEMMA RowFields ==
    ASSUME user \in User
    PROVE  /\ user.token_version \in 0..MaxServed /\ user.status_changed \in 0..MaxServed
           /\ user.failed_attempts \in 0..MaxServed /\ user.reset_link \in 0..MaxServed
           /\ user.password_hash \in Hash /\ user.lock \in {"open", "locked", "lapsed"}
           /\ user.password_hash.of \in Passwords
           /\ user.password_hash.salt \in 0..MaxServed
           /\ user.status \in {"active", "suspended"} /\ user.legacy \in BOOLEAN
  BY DEF User, Hash

-----------------------------------------------------------------------------
(* No step adds to a counter more than its request still may. *)
Way(n, c) ==
    \/ /\ served' = served /\ Count(n)' <= Count(n)
       /\ MayAdd(n, c)' => MayAdd(n, c)
    \/ /\ served' = served /\ Count(n)' <= Count(n) + 1
       /\ MayAdd(n, c) /\ ~MayAdd(n, c)'
    \/ served' = served + 1 /\ Count(n)' <= Count(n)
    \/ served' = served + 1 /\ Count(n)' <= Count(n) + 1 /\ ~MayAdd(n, c)'

Spends(c) ==
    /\ Others(c)
    /\ served' \in 0..MaxServed /\ faults' \in 0..MaxFaults
    /\ \A n \in Counters : Count(n) \in Nat /\ Count(n)' \in Nat /\ Way(n, c)

(* Which is so when whatever it added to was on its account. *)
Adds(n, c) == ~MayAdd(n, c)' /\ (served' = served + 1 \/ MayAdd(n, c))

LEMMA SpendsIf ==
    ASSUME user \in User, tokens \in Seq(Token), NEW c \in Calls, Others(c),
           served \in 0..MaxServed, served' \in 0..MaxServed, faults' \in 0..MaxFaults,
           \/ served' = served + 1
           \/ served' = served /\ \A n \in Counters : MayAdd(n, c)' => MayAdd(n, c),
           \/ user'.token_version = user.token_version
           \/ user'.token_version = user.token_version + 1 /\ Adds("versions", c),
           \/ Len(tokens') = Len(tokens)
           \/ Len(tokens') = Len(tokens) + 1 /\ Adds("tokens", c),
           \/ user'.status_changed = user.status_changed
           \/ user'.status_changed = user.status_changed + 1 /\ Adds("switches", c),
           \/ user'.failed_attempts \in {0, user.failed_attempts}
           \/ user'.failed_attempts \in 1..(user.failed_attempts + 1) /\ Adds("failures", c)
    PROVE  Spends(c)
  <1>1. /\ user.token_version \in Nat /\ user.status_changed \in Nat
        /\ user.failed_attempts \in Nat /\ Len(tokens) \in Nat
    BY RowFields
  <1>2. ASSUME NEW n \in Counters, Count(n) \in Nat, Count(n)' \in Nat,
               \/ Count(n)' <= Count(n)
               \/ Count(n)' <= Count(n) + 1 /\ Adds(n, c)
        PROVE  Count(n) \in Nat /\ Count(n)' \in Nat /\ Way(n, c)
    BY <1>2 DEF Way, Adds
  <1>3. ASSUME NEW n \in Counters PROVE Count(n) \in Nat /\ Count(n)' \in Nat /\ Way(n, c)
    <2>1. CASE n = "versions"
      <3>1. Count(n) = user.token_version /\ Count(n)' = user'.token_version
        BY <2>1 DEF Count
      <3> QED
        BY <1>1, <1>2, <2>1, <3>1
    <2>2. CASE n = "tokens"
      <3>1. Count(n) = Len(tokens) /\ Count(n)' = Len(tokens')
        BY <2>2 DEF Count
      <3> QED
        BY <1>1, <1>2, <2>2, <3>1
    <2>3. CASE n = "switches"
      <3>1. Count(n) = user.status_changed /\ Count(n)' = user'.status_changed
        BY <2>3 DEF Count
      <3> QED
        BY <1>1, <1>2, <2>3, <3>1
    <2>4. CASE n = "failures"
      <3>1. Count(n) = user.failed_attempts /\ Count(n)' = user'.failed_attempts
        BY <2>4 DEF Count
      <3>2. user'.failed_attempts \in Nat
        BY <1>1
      <3> QED
        BY <1>1, <1>2, <2>4, <3>1, <3>2
    <2> QED
      BY <2>1, <2>2, <2>3, <2>4 DEF Counters
  <1> QED
    BY <1>3 DEF Spends

(* What a request may add to, by where it stands. *)
LEMMA MayAddTo ==
    ASSUME NEW c
    PROVE  /\ MayAdd("versions", c) <=>
                \/ call[c].at \in {"consuming", "diagnosing", "containing", "bumping",
                                   "comparing", "changing", "staging", "committing"}
                \/ At(c, "revoking") /\ call[c].kind = "logoutAll"
           /\ MayAdd("tokens", c) <=>
                \/ call[c].at \in {"upgrading", "opening", "consuming", "diagnosing",
                                   "migrating", "rotating", "comparing", "changing",
                                   "reopening"}
                \/ At(c, "revoking") /\ call[c].kind = "changePassword"
           /\ MayAdd("switches", c) <=> call[c].at \in {"staging", "committing"}
           /\ MayAdd("failures", c) <=> At(c, "failing")
  BY DEF MayAdd

LEMMA ArrivalsSpend ==
    ASSUME Shape, AllSound, NEW c \in Calls,
           \/ \E p \in Passwords : Login(c, p) \/ ChangePassword(c, p)
           \/ \E t \in 0..Len(tokens) : Refresh(c, t)
           \/ \E k \in {"logout", "logoutAll"} : SignOut(c, k)
           \/ \E l \in DOMAIN links, p \in Passwords : ResetPassword(c, l, p)
           \/ \E s \in {"active", "suspended"} : SetUserStatus(c, s)
           \/ ForgotPassword(c)
    PROVE  Spends(c)
  <1>0. /\ user \in User /\ tokens \in Seq(Token) /\ call \in [Calls -> Request]
        /\ served \in 0..MaxServed /\ faults \in 0..MaxFaults
        /\ 0..Len(tokens) \subseteq Nat /\ Len(tokens) \in Nat
    BY DEF Shape
  <1>1. ASSUME user' = user, tokens' = tokens, NEW k, NEW a, Arrived(c, k, a)
        PROVE  Spends(c)
    BY <1>0, <1>1, SpendsIf DEF Arrived
  <1>2. ASSUME NEW p \in Passwords, Login(c, p) PROVE Spends(c)
    <2>1. PICK a \in {"failing", "opening", "upgrading"} :
              Arrive(c, "login", [at |-> a, seen |-> user])
      BY <1>2 DEF Login
    <2>2. Arrived(c, "login", a)
      BY <1>0, <2>1, ArriveSeen, StepNames
    <2> QED
      BY <1>1, <1>2, <2>2 DEF Login
  <1>3. ASSUME NEW p \in Passwords, ChangePassword(c, p) PROVE Spends(c)
    <2>1. Arrived(c, "changePassword", "comparing")
      BY <1>0, <1>3, ArriveWithPassword, StepNames DEF ChangePassword
    <2> QED
      BY <1>1, <1>3, <2>1 DEF ChangePassword
  <1>4. ASSUME NEW t \in 0..Len(tokens), Refresh(c, t) PROVE Spends(c)
    <2>1. Arrived(c, "refresh", "consuming")
      BY <1>0, <1>4, ArriveWithToken, StepNames DEF Refresh
    <2> QED
      BY <1>1, <1>4, <2>1 DEF Refresh
  <1>5. ASSUME NEW k \in {"logout", "logoutAll"}, SignOut(c, k) PROVE Spends(c)
    <2>1. Arrived(c, k, "revoking")
      BY <1>0, <1>5, ArriveAt, StepNames DEF SignOut
    <2> QED
      BY <1>1, <1>5, <2>1 DEF SignOut
  <1>6. ASSUME NEW s \in {"active", "suspended"}, SetUserStatus(c, s) PROVE Spends(c)
    <2>1. Arrived(c, "setUserStatus", "staging")
      BY <1>0, <1>6, ArriveWithStatus, StepNames DEF SetUserStatus
    <2> QED
      BY <1>1, <1>6, <2>1 DEF SetUserStatus
  <1>7. ASSUME NEW l \in DOMAIN links, NEW p \in Passwords, ResetPassword(c, l, p)
        PROVE  Spends(c)
    <2>1. Arrived(c, "resetPassword", "revoking")
      BY <1>0, <1>7, ArriveAt, StepNames DEF ResetPassword
    <2>2. /\ tokens' = tokens /\ user'.token_version = user.token_version + 1
          /\ user'.status_changed = user.status_changed /\ user'.failed_attempts = 0
      BY <1>0, <1>7 DEF ResetPassword, ResetRow, WithPassword, User
    <2>3. Adds("versions", c)
      BY <2>1, MayAddTo DEF Arrived, Adds, MayAdd, At
    <2> QED
      BY <1>0, <2>1, <2>2, <2>3, SpendsIf DEF Arrived
  <1>8. CASE ForgotPassword(c)
    <2>1. Others(c) /\ served < MaxServed /\ served' = served + 1 /\ faults' = faults
      BY <1>8 DEF ForgotPassword, Arrive, Others
    <2>2. /\ tokens' = tokens /\ user'.token_version = user.token_version
          /\ user'.status_changed = user.status_changed
          /\ user'.failed_attempts = user.failed_attempts
      BY <1>0, <1>8 DEF ForgotPassword, User
    <2> QED
      BY <1>0, <2>1, <2>2, SpendsIf
  <1> QED
    BY <1>2, <1>3, <1>4, <1>5, <1>6, <1>7, <1>8

LEMMA LoginsSpend ==
    ASSUME Shape, AllSound, NEW c \in Calls,
           \/ RecordFailedLogin(c) \/ UpgradePasswordHash(c) \/ OpenSession(c)
           \/ ClearFailures(c) \/ CutShort(c)
    PROVE  Spends(c)
  <1>0. /\ user \in User /\ tokens \in Seq(Token) /\ call \in [Calls -> Request]
        /\ served \in 0..MaxServed /\ faults \in 0..MaxFaults
        /\ 0..Len(tokens) \subseteq Nat /\ Len(tokens) \in Nat
    BY DEF Shape
  <1>1. CASE RecordFailedLogin(c)
    <2>1. Others(c) /\ call'[c].at = "idle" /\ served' = served /\ faults' = faults
      BY <1>0, <1>1, RespondEffect DEF RecordFailedLogin, Respond, Proceed
    <2>2. /\ tokens' = tokens /\ user'.token_version = user.token_version
          /\ user'.status_changed = user.status_changed
          /\ user'.failed_attempts \in {1, user.failed_attempts + 1}
      BY <1>0, <1>1 DEF RecordFailedLogin, User
    <2>3. \A n \in Counters : ~MayAdd(n, c)'
      BY <2>1 DEF MayAdd, Counters, At
    <2>4. Adds("failures", c)
      BY <1>1, <2>3, MayAddTo DEF RecordFailedLogin, Adds, Counters
    <2>5. user'.failed_attempts \in 1..(user.failed_attempts + 1)
      BY <1>0, <2>2, RowFields
    <2> QED
      BY <1>0, <2>1, <2>2, <2>3, <2>4, <2>5, SpendsIf
  <1>2. CASE UpgradePasswordHash(c)
    <2>1. Others(c) /\ call'[c].at = "opening" /\ served' = served /\ faults' = faults
      BY <1>0, <1>2, GotoEffect, StepNames DEF UpgradePasswordHash
    <2>2. /\ tokens' = tokens /\ user'.token_version = user.token_version
          /\ user'.status_changed = user.status_changed
          /\ user'.failed_attempts = user.failed_attempts
      BY <1>0, <1>2 DEF UpgradePasswordHash, User
    <2>3. \A n \in Counters : MayAdd(n, c)' => MayAdd(n, c)
      BY <1>2, <2>1 DEF MayAdd, Counters, At, UpgradePasswordHash
    <2> QED
      BY <1>0, <2>1, <2>2, <2>3, SpendsIf
  <1>3. CASE OpenSession(c)
    <2>1. Others(c) /\ call'[c].at = "clearing" /\ served' = served /\ faults' = faults
      BY <1>0, <1>3, GotoEffect, StepNames DEF OpenSession
    <2>2. user' = user /\ Len(tokens') = Len(tokens) + 1
      BY <1>0, <1>3 DEF OpenSession, RecordRefreshToken
    <2>3. \A n \in Counters : ~MayAdd(n, c)'
      BY <2>1 DEF MayAdd, Counters, At
    <2>4. Adds("tokens", c)
      BY <1>3, <2>3, MayAddTo DEF OpenSession, Adds, Counters, At
    <2> QED
      BY <1>0, <2>1, <2>2, <2>3, <2>4, SpendsIf
  <1>4. CASE ClearFailures(c)
    <2>1. Others(c) /\ call'[c].at = "idle" /\ served' = served /\ faults' = faults
      BY <1>0, <1>4, RespondEffect DEF ClearFailures, Respond, Proceed
    <2>2. /\ tokens' = tokens /\ user'.token_version = user.token_version
          /\ user'.status_changed = user.status_changed
          /\ user'.failed_attempts = 0
      BY <1>0, <1>4 DEF ClearFailures, User
    <2>3. \A n \in Counters : ~MayAdd(n, c)'
      BY <2>1 DEF MayAdd, Counters, At
    <2> QED
      BY <1>0, <2>1, <2>2, <2>3, SpendsIf
  <1>5. CASE CutShort(c)
    <2>1. Others(c) /\ call'[c].at = "idle" /\ served' = served /\ faults' \in 0..MaxFaults
      <3>1. /\ call' = [call EXCEPT ![c] = Idle] /\ served' = served
            /\ faults' \in 0..MaxFaults
        BY <1>0, <1>5 DEF CutShort
      <3> QED
        BY <1>0, <3>1, RespondEffect
    <2>2. user' = user /\ tokens' = tokens
      BY <1>5 DEF CutShort
    <2>3. \A n \in Counters : ~MayAdd(n, c)'
      BY <2>1 DEF MayAdd, Counters, At
    <2> QED
      BY <1>0, <2>1, <2>2, <2>3, SpendsIf
  <1> QED
    BY <1>1, <1>2, <1>3, <1>4, <1>5

LEMMA RotationsSpend ==
    ASSUME Shape, AllSound, FamiliesKnown, NEW c \in Calls,
           \/ Consume(c) \/ Diagnose(c) \/ Migrate(c) \/ Rotate(c)
           \/ RevokeFamily(c) \/ BumpTokenVersion(c)
    PROVE  Spends(c)
  <1>0. /\ user \in User /\ tokens \in Seq(Token) /\ call \in [Calls -> Request]
        /\ served \in 0..MaxServed /\ faults \in 0..MaxFaults
        /\ 0..Len(tokens) \subseteq Nat /\ Len(tokens) \in Nat
    BY DEF Shape
  <1> DEFINE t == call[c].token
  <1>a. /\ t \in 0..Len(tokens)
        /\ t # 0 => tokens[t].family \in Nat
        /\ DOMAIN tokens = 1..Len(tokens)
    BY <1>0 DEF AllSound, Sound, FamiliesKnown
  <1> HIDE DEF t
  <1>b. ASSUME NEW a \in Steps, Goto(c, a) \/ (Respond(c) /\ a = "idle"),
               user' = user, Len(tokens') = Len(tokens),
               \A n \in Counters : MayAdd(n, c)' => MayAdd(n, c)
        PROVE  Spends(c)
    <2>1. Others(c) /\ served' = served /\ faults' = faults
      BY <1>0, <1>b, GotoEffect, RespondEffect DEF Respond, Proceed
    <2> QED
      BY <1>0, <1>b, <2>1, SpendsIf
  <1>1. CASE Consume(c)
    <2>1. CASE Consumable(t)
      <3>1. /\ Proceed([call EXCEPT ![c].at = "rotating", ![c].family = tokens[t].family])
            /\ tokens' = [tokens EXCEPT ![t].used = TRUE] /\ user' = user /\ t # 0
        BY <1>1, <2>1 DEF Consume, Consumable, t
      <3>2. Others(c) /\ call'[c].at = "rotating" /\ served' = served /\ faults' = faults
        <4>1. /\ call' = [call EXCEPT ![c].at = "rotating", ![c].family = tokens[t].family]
              /\ served' = served /\ faults' = faults
              /\ "rotating" \in Steps /\ tokens[t].family \in Nat
          BY <1>a, <3>1, StepNames DEF Proceed
        <4> QED
          BY <1>0, <4>1, FamilyEffect
      <3>3. Len(tokens') = Len(tokens)
        BY <1>0, <3>1
      <3>4. \A n \in Counters : MayAdd(n, c)' => MayAdd(n, c)
        BY <1>1, <3>2 DEF MayAdd, Counters, At, Consume
      <3> QED
        BY <1>0, <3>1, <3>2, <3>3, <3>4, SpendsIf
    <2>2. CASE ~Consumable(t)
      <3>1. Goto(c, "diagnosing") /\ user' = user /\ tokens' = tokens
        BY <1>1, <2>2 DEF Consume, t
      <3>2. call'[c].at = "diagnosing" /\ "diagnosing" \in Steps
        BY <1>0, <3>1, GotoEffect, StepNames
      <3>3. \A n \in Counters : MayAdd(n, c)' => MayAdd(n, c)
        BY <1>1, <3>2 DEF MayAdd, Counters, At, Consume
      <3> QED
        BY <1>b, <3>1, <3>2, <3>3
    <2> QED
      BY <2>1, <2>2
  <1>2. CASE Diagnose(c)
    <2>0. At(c, "diagnosing") /\ user' = user /\ tokens' = tokens
      BY <1>2 DEF Diagnose
    <2>1. CASE t = 0 /\ Goto(c, "migrating")
      <3>1. call'[c].at = "migrating" /\ "migrating" \in Steps
        BY <1>0, <2>1, GotoEffect, StepNames
      <3>2. \A n \in Counters : MayAdd(n, c)' => MayAdd(n, c)
        BY <2>0, <3>1 DEF MayAdd, Counters, At
      <3> QED
        BY <1>b, <2>0, <2>1, <3>1, <3>2
    <2>2. CASE /\ t # 0
               /\ Proceed([call EXCEPT ![c].at = "containing",
                                       ![c].family = tokens[t].family])
      <3>1. Others(c) /\ call'[c].at = "containing" /\ served' = served /\ faults' = faults
        <4>1. /\ call' = [call EXCEPT ![c].at = "containing", ![c].family = tokens[t].family]
              /\ served' = served /\ faults' = faults
              /\ "containing" \in Steps /\ tokens[t].family \in Nat
          BY <1>a, <2>2, StepNames DEF Proceed
        <4> QED
          BY <1>0, <4>1, FamilyEffect
      <3>2. \A n \in Counters : MayAdd(n, c)' => MayAdd(n, c)
        BY <2>0, <3>1 DEF MayAdd, Counters, At
      <3> QED
        BY <1>0, <2>0, <3>1, <3>2, SpendsIf
    <2>3. CASE Respond(c)
      <3>1. call'[c].at = "idle" /\ "idle" \in Steps
        BY <1>0, <2>3, RespondEffect, StepNames DEF Respond, Proceed
      <3>2. \A n \in Counters : MayAdd(n, c)' => MayAdd(n, c)
        BY <3>1 DEF MayAdd, Counters, At
      <3> QED
        BY <1>b, <2>0, <2>3, <3>1, <3>2
    <2> QED
      BY <1>2, <2>1, <2>2, <2>3 DEF Diagnose, t
  <1>3. CASE Migrate(c)
    <2>1. PICK a \in {"rotating", "idle"} :
              \/ Goto(c, "rotating") /\ a = "rotating"
              \/ Respond(c) /\ a = "idle"
      BY <1>3 DEF Migrate
    <2>2. Others(c) /\ call'[c].at = a /\ served' = served /\ faults' = faults
      BY <1>0, <2>1, GotoEffect, RespondEffect, StepNames DEF Respond, Proceed
    <2>3. /\ tokens' = tokens /\ user'.token_version = user.token_version
          /\ user'.status_changed = user.status_changed
          /\ user'.failed_attempts = user.failed_attempts
      BY <1>0, <1>3 DEF Migrate, User
    <2>4. \A n \in Counters : MayAdd(n, c)' => MayAdd(n, c)
      BY <1>3, <2>1, <2>2 DEF MayAdd, Counters, At, Migrate
    <2> QED
      BY <1>0, <2>2, <2>3, <2>4, SpendsIf
  <1>4. CASE Rotate(c)
    <2>1. Others(c) /\ call'[c].at = "idle" /\ served' = served /\ faults' = faults
      BY <1>0, <1>4, RespondEffect DEF Rotate, Respond, Proceed
    <2>2. user' = user /\ Len(tokens') = Len(tokens) + 1
      BY <1>0, <1>4 DEF Rotate, RecordRefreshToken
    <2>3. \A n \in Counters : ~MayAdd(n, c)'
      BY <2>1 DEF MayAdd, Counters, At
    <2>4. Adds("tokens", c)
      BY <1>4, <2>3, MayAddTo DEF Rotate, Adds, Counters, At
    <2> QED
      BY <1>0, <2>1, <2>2, <2>3, <2>4, SpendsIf
  <1>5. CASE RevokeFamily(c)
    <2>1. /\ At(c, "containing") /\ Goto(c, "bumping") /\ user' = user
          /\ Len(tokens') = Len(tokens)
      BY <1>0, <1>5, KillEffect DEF RevokeFamily
    <2>2. call'[c].at = "bumping" /\ "bumping" \in Steps
      BY <1>0, <2>1, GotoEffect, StepNames
    <2>3. \A n \in Counters : MayAdd(n, c)' => MayAdd(n, c)
      BY <2>1, <2>2 DEF MayAdd, Counters, At
    <2> QED
      BY <1>b, <2>1, <2>2, <2>3
  <1>6. CASE BumpTokenVersion(c)
    <2>0. PICK a \in {"forgetting", "idle"} :
              \/ Goto(c, "forgetting") /\ a = "forgetting"
              \/ Respond(c) /\ a = "idle"
      BY <1>6 DEF BumpTokenVersion
    <2>1. Others(c) /\ call'[c].at = a /\ served' = served /\ faults' = faults
      BY <1>0, <2>0, GotoEffect, RespondEffect, StepNames DEF Respond, Proceed
    <2>2. /\ tokens' = tokens /\ user'.token_version = user.token_version + 1
          /\ user'.status_changed = user.status_changed
          /\ user'.failed_attempts = user.failed_attempts
      BY <1>0, <1>6 DEF BumpTokenVersion, User
    <2>3. \A n \in Counters : ~MayAdd(n, c)'
      BY <2>1 DEF MayAdd, Counters, At
    <2>4. Adds("versions", c)
      BY <1>6, <2>3, MayAddTo DEF BumpTokenVersion, Adds, Counters, At
    <2> QED
      BY <1>0, <2>1, <2>2, <2>3, <2>4, SpendsIf
  <1> QED
    BY <1>1, <1>2, <1>3, <1>4, <1>5, <1>6

LEMMA SignOutsSpend ==
    ASSUME Shape, AllSound, NEW c \in Calls,
           \/ RevokeAll(c) \/ Forget(c) \/ Compare(c) \/ Change(c) \/ Reopen(c)
           \/ StageRevocation(c) \/ CommitStatus(c)
    PROVE  Spends(c)
  <1>0. /\ user \in User /\ tokens \in Seq(Token) /\ call \in [Calls -> Request]
        /\ served \in 0..MaxServed /\ faults \in 0..MaxFaults
        /\ 0..Len(tokens) \subseteq Nat /\ Len(tokens) \in Nat
    BY DEF Shape
  <1>b. ASSUME NEW a \in Steps, Goto(c, a) \/ (Respond(c) /\ a = "idle"),
               user' = user, Len(tokens') = Len(tokens),
               \A n \in Counters : MayAdd(n, c)' => MayAdd(n, c)
        PROVE  Spends(c)
    <2>1. Others(c) /\ served' = served /\ faults' = faults
      BY <1>0, <1>b, GotoEffect, RespondEffect DEF Respond, Proceed
    <2> QED
      BY <1>0, <1>b, <2>1, SpendsIf
  <1>1. CASE RevokeAll(c)
    <2>1. /\ At(c, "revoking") /\ user' = user /\ Len(tokens') = Len(tokens)
          /\ call[c].kind \in {"logout", "logoutAll", "changePassword", "resetPassword"}
      BY <1>0, <1>1, KillEffect DEF RevokeAll, AllSound, Sound
    <2>2. PICK a \in {"idle", "forgetting", "bumping", "reopening"} :
              /\ \/ Goto(c, a) /\ a = AfterRevoking(call[c].kind)
                 \/ Respond(c) /\ a = "idle"
              /\ a = "bumping" => call[c].kind = "logoutAll"
              /\ a = "reopening" => call[c].kind = "changePassword"
      <3>1. CASE call[c].kind = "resetPassword"
        BY <1>1, <3>1 DEF RevokeAll
      <3>2. CASE call[c].kind # "resetPassword"
        BY <1>1, <2>1, <3>2 DEF RevokeAll, AfterRevoking
      <3> QED
        BY <3>1, <3>2
    <2>3. call'[c].at = a /\ a \in Steps
      BY <1>0, <2>2, GotoEffect, RespondEffect, StepNames, ZenonT(40) DEF Respond, Proceed
    <2>4. \A n \in Counters : MayAdd(n, c)' => MayAdd(n, c)
      BY <2>1, <2>2, <2>3 DEF MayAdd, Counters, At
    <2> QED
      BY <1>b, <2>1, <2>2, <2>3, <2>4
  <1>2. CASE Forget(c)
    <2>1. Others(c) /\ call'[c].at = "idle" /\ served' = served /\ faults' = faults
      BY <1>0, <1>2, RespondEffect DEF Forget, Respond, Proceed
    <2>2. /\ tokens' = tokens /\ user'.token_version = user.token_version
          /\ user'.status_changed = user.status_changed
          /\ user'.failed_attempts = user.failed_attempts
      BY <1>0, <1>2 DEF Forget, User
    <2>3. \A n \in Counters : ~MayAdd(n, c)'
      BY <2>1 DEF MayAdd, Counters, At
    <2> QED
      BY <1>0, <2>1, <2>2, <2>3, SpendsIf
  <1>3. CASE Compare(c)
    <2>1. At(c, "comparing") /\ user' = user /\ tokens' = tokens
      BY <1>3 DEF Compare
    <2>2. PICK a \in {"idle", "changing"} : \/ Goto(c, a) /\ a = "changing"
                                            \/ Respond(c) /\ a = "idle"
      BY <1>3 DEF Compare
    <2>3. call'[c].at = a /\ a \in Steps
      BY <1>0, <2>2, GotoEffect, RespondEffect, StepNames DEF Respond, Proceed
    <2>4. \A n \in Counters : MayAdd(n, c)' => MayAdd(n, c)
      BY <2>1, <2>2, <2>3 DEF MayAdd, Counters, At
    <2> QED
      BY <1>b, <2>1, <2>2, <2>3, <2>4
  <1>4. CASE Change(c)
    <2>0. /\ call' = [call EXCEPT ![c].at = "revoking", ![c].seen = user']
          /\ served' = served /\ faults' = faults /\ "revoking" \in Steps
          /\ At(c, "changing") /\ call[c].kind = "changePassword"
      BY <1>4, StepNames DEF Change, Proceed, AllSound, Sound, At
    <2>1. Others(c) /\ call'[c].at = "revoking" /\ call'[c].kind = "changePassword"
      <3>1. NotesRow(c, "revoking", user')
        BY <2>0 DEF NotesRow
      <3> QED
        BY <1>0, <2>0, <3>1, SeenEffect
    <2>2. /\ tokens' = tokens /\ user'.token_version = user.token_version + 1
          /\ user'.status_changed = user.status_changed
          /\ user'.failed_attempts = user.failed_attempts
      BY <1>0, <1>4 DEF Change, User, WithPassword
    <2>3. \A n \in Counters : MayAdd(n, c)' => MayAdd(n, c)
      BY <2>0, <2>1 DEF MayAdd, Counters, At
    <2>4. Adds("versions", c)
      BY <2>0, <2>1 DEF Adds, MayAdd, At
    <2> QED
      BY <1>0, <2>0, <2>1, <2>2, <2>3, <2>4, SpendsIf
  <1>5. CASE Reopen(c)
    <2>1. Others(c) /\ call'[c].at = "idle" /\ served' = served /\ faults' = faults
      BY <1>0, <1>5, RespondEffect DEF Reopen, Respond, Proceed
    <2>2. user' = user /\ Len(tokens') = Len(tokens) + 1
      BY <1>0, <1>5 DEF Reopen, RecordRefreshToken
    <2>3. \A n \in Counters : ~MayAdd(n, c)'
      BY <2>1 DEF MayAdd, Counters, At
    <2>4. Adds("tokens", c)
      BY <1>5, <2>3, MayAddTo DEF Reopen, Adds, Counters, At
    <2> QED
      BY <1>0, <2>1, <2>2, <2>3, <2>4, SpendsIf
  <1>6. CASE StageRevocation(c)
    <2>1. /\ call' = [call EXCEPT ![c].at = "committing", ![c].staged = Undead]
          /\ served' = served /\ faults' = faults /\ "committing" \in Steps
          /\ At(c, "staging") /\ user' = user /\ tokens' = tokens
          /\ Undead \in SUBSET Nat
      BY <1>0, <1>6, StepNames DEF StageRevocation, Proceed, Undead
    <2>2. Others(c) /\ call'[c].at = "committing"
      BY <1>0, <2>1, StageEffect
    <2>3. \A n \in Counters : MayAdd(n, c)' => MayAdd(n, c)
      BY <2>1, <2>2 DEF MayAdd, Counters, At
    <2> QED
      BY <1>0, <2>1, <2>2, <2>3, SpendsIf
  <1>7. CASE CommitStatus(c)
    <2>1. Others(c) /\ call'[c].at = "idle" /\ served' = served /\ faults' = faults
      BY <1>0, <1>7, RespondEffect DEF CommitStatus, Respond, Proceed
    <2>2. /\ user'.token_version = user.token_version + 1
          /\ user'.status_changed = user.status_changed + 1
          /\ user'.failed_attempts = user.failed_attempts
      BY <1>0, <1>7 DEF CommitStatus, WithStatus, User
    <2>3. \A n \in Counters : ~MayAdd(n, c)'
      BY <2>1 DEF MayAdd, Counters, At
    <2>4. Adds("versions", c) /\ Adds("switches", c)
      BY <1>7, <2>3, MayAddTo DEF CommitStatus, Adds, Counters, At
    <2>5. Len(tokens') = Len(tokens)
      BY <1>0, <1>7, KillEffect DEF CommitStatus
    <2> QED
      BY <1>0, <2>1, <2>2, <2>3, <2>4, <2>5, SpendsIf
  <1> QED
    BY <1>1, <1>2, <1>3, <1>4, <1>5, <1>6, <1>7

LEMMA StepSpends ==
    ASSUME Shape, AllSound, FamiliesKnown, NEW c \in Calls, Step(c)
    PROVE  Spends(c)
  BY ArrivalsSpend, LoginsSpend, RotationsSpend, SignOutsSpend DEF Step

(* Links: mailed at the end, used where they stand. *)
LEMMA LinksEffect ==
    ASSUME Shape, NEW c \in Calls, Step(c), served' \in Nat
    PROVE  \/ links' = links /\ ~ForgotPassword(c)
           \/ ForgotPassword(c) /\ served' = served + 1 /\ links' = Append(links, 0)
           \/ \E l \in DOMAIN links, p \in Passwords :
                  /\ ResetPassword(c, l, p)
                  /\ links' = [links EXCEPT ![l] = @ + 1]
  <1>1. CASE ForgotPassword(c)
    BY <1>1 DEF ForgotPassword, Arrive
  <1>2. CASE \E l \in DOMAIN links, p \in Passwords : ResetPassword(c, l, p)
    BY <1>2 DEF ResetPassword
  <1>3. CASE \/ \E p \in Passwords : Login(c, p) \/ ChangePassword(c, p)
             \/ \E t \in 0..Len(tokens) : Refresh(c, t)
             \/ \E k \in {"logout", "logoutAll"} : SignOut(c, k)
             \/ \E s \in {"active", "suspended"} : SetUserStatus(c, s)
    BY <1>1, <1>3 DEF Login, ChangePassword, Refresh, SignOut, SetUserStatus, historyVars
  <1>4. CASE \/ RecordFailedLogin(c) \/ UpgradePasswordHash(c) \/ OpenSession(c)
             \/ ClearFailures(c) \/ CutShort(c)
             \/ Consume(c) \/ Diagnose(c) \/ Migrate(c) \/ Rotate(c)
    BY <1>1, <1>4 DEF RecordFailedLogin, UpgradePasswordHash, OpenSession, ClearFailures,
         CutShort, Consume, Diagnose, Migrate, Rotate, historyVars
  <1>5. CASE \/ RevokeFamily(c) \/ BumpTokenVersion(c)
             \/ RevokeAll(c) \/ Forget(c) \/ Compare(c) \/ Change(c) \/ Reopen(c)
             \/ StageRevocation(c) \/ CommitStatus(c)
    BY <1>1, <1>5 DEF RevokeFamily, BumpTokenVersion, RevokeAll, Forget, Compare, Change,
         Reopen, StageRevocation, CommitStatus, historyVars
  <1> QED
    BY <1>1, <1>2, <1>3, <1>4, <1>5 DEF Step

LEMMA WithinBudgetStep ==
    ASSUME Shape, AllSound, FamiliesKnown, WithinBudget, NEW c \in Calls, Step(c)
    PROVE  /\ WithinBudget'
           /\ \A n \in Counters : Count(n)' \in 0..MaxServed
           /\ Len(links') <= MaxServed
           /\ served' \in 0..MaxServed /\ faults' \in 0..MaxFaults
           /\ Others(c)
  <1>0. /\ Spends(c) /\ served \in Nat /\ served' \in Nat /\ links \in Seq(Nat)
        /\ served' \in 0..MaxServed /\ faults' \in 0..MaxFaults /\ Others(c)
        /\ served' \in {served, served + 1}
    <2>1. Spends(c)
      BY StepSpends
    <2>2. "tokens" \in Counters
      BY DEF Counters
    <2> QED
      BY <2>1, <2>2 DEF Spends, Shape, Way
  <1>1. ASSUME NEW n \in Counters
        PROVE  /\ IsFiniteSet(Adders(n)') /\ Cardinality(Adders(n)') \in Nat
               /\ Count(n)' + Cardinality(Adders(n)') <= served'
    <2>1. /\ IsFiniteSet(Adders(n)) /\ Count(n) + Cardinality(Adders(n)) <= served
          /\ Count(n) \in Nat /\ Count(n)' \in Nat /\ Way(n, c)
      BY <1>0 DEF WithinBudget, Spends
    <2>2. /\ \A d \in Calls : d # c => (d \in Adders(n)' <=> d \in Adders(n))
          /\ c \in Adders(n)' <=> MayAdd(n, c)'
          /\ c \in Adders(n) <=> MayAdd(n, c)
      BY <1>0 DEF Adders, MayAdd, Others, At
    <2>3. Adders(n)' \subseteq Adders(n) \cup {c}
      BY <2>2 DEF Adders
    <2>4. (MayAdd(n, c)' => MayAdd(n, c)) => Adders(n)' \subseteq Adders(n)
      BY <2>2, <2>3
    <2>5. MayAdd(n, c) /\ ~MayAdd(n, c)' => c \in Adders(n) /\ Adders(n)' \subseteq Adders(n) \ {c}
      BY <2>2, <2>3
    <2> DEFINE P == Adders(n)
               Q == Adders(n)'
    <2>6. /\ IsFiniteSet(Q) /\ Cardinality(Q) \in Nat /\ Cardinality(P) \in Nat
          /\ Cardinality(Q) <= Cardinality(P) + 1
          /\ (MayAdd(n, c)' => MayAdd(n, c)) => Cardinality(Q) <= Cardinality(P)
          /\ MayAdd(n, c) /\ ~MayAdd(n, c)' => Cardinality(Q) + 1 <= Cardinality(P)
      <3> HIDE DEF P, Q
      <3>1. /\ IsFiniteSet(P) /\ Q \subseteq P \cup {c}
            /\ (MayAdd(n, c)' => MayAdd(n, c)) => Q \subseteq P
            /\ MayAdd(n, c) /\ ~MayAdd(n, c)' => c \in P /\ Q \subseteq P \ {c}
        BY <2>1, <2>3, <2>4, <2>5 DEF P, Q
      <3> QED
        BY <3>1, Counting
    <2> HIDE DEF P, Q
    <2>7. Count(n)' + Cardinality(Q) <= served'
      <3>1. Count(n) + Cardinality(P) <= served
        BY <2>1 DEF P
      <3> QED
        BY <1>0, <2>1, <2>6, <3>1 DEF Way
    <2> QED
      BY <2>6, <2>7 DEF Q
  <1>2. \A n \in Counters : Count(n)' \in 0..MaxServed
    BY <1>0, <1>1 DEF Spends
  <1>3. Len(links') <= served'
    <2>1. Len(links) \in Nat /\ Len(links) <= served
      BY <1>0 DEF WithinBudget
    <2> QED
      BY <1>0, <2>1, LinksEffect, SMTT(30)
  <1>4. Len(links') <= MaxServed
    <2>1. Len(links') \in Nat
      BY <1>0, LinksEffect
    <2> QED
      BY <1>0, <1>3, <2>1
  <1> QED
    BY <1>0, <1>1, <1>2, <1>3, <1>4 DEF WithinBudget

-----------------------------------------------------------------------------
(* The row: its lock agrees with its counter and its password is the one
   chosen; unless its token_version moves on, nothing moves that a token
   minted from it would have to agree with. *)
RowMoves ==
    /\ user' \in User /\ chosen' \in Passwords
    /\ LockMatchesAttempts' /\ ChosenPasswordStands'
    /\ \/ user'.token_version = user.token_version + 1
       \/ /\ user'.token_version = user.token_version
          /\ user'.status_changed = user.status_changed
          /\ user'.password_hash.salt = user.password_hash.salt

LinkKept == user'.reset_link = user.reset_link

Numbered(row) ==
    /\ row.token_version \in 0..MaxServed /\ row.status_changed \in 0..MaxServed
    /\ row.failed_attempts \in 0..MaxServed

LEMMA RowUntouched ==
    ASSUME user \in User, LockMatchesAttempts, ChosenPasswordStands, chosen \in Passwords,
           user' = user, chosen' = chosen
    PROVE  RowMoves /\ LinkKept
  BY DEF RowMoves, LinkKept, LockMatchesAttempts, ChosenPasswordStands

LEMMA LoginsMoveRow ==
    ASSUME Shape, LockMatchesAttempts, ChosenPasswordStands, Numbered(user'),
           NEW c \in Calls,
           \/ RecordFailedLogin(c) \/ UpgradePasswordHash(c) \/ OpenSession(c)
           \/ ClearFailures(c) \/ CutShort(c)
           \/ Consume(c) \/ Diagnose(c) \/ Migrate(c) \/ Rotate(c)
    PROVE  RowMoves /\ LinkKept
  <1>0. user \in User /\ chosen \in Passwords
    BY DEF Shape
  <1> USE RowFields DEF RowMoves, LinkKept, LockMatchesAttempts, ChosenPasswordStands,
          Numbered, historyVars
  <1>1. CASE RecordFailedLogin(c)
    <2>1. chosen' = chosen
      BY <1>1 DEF RecordFailedLogin
    <2>2. CASE user.lock = "lapsed"
      <3>1. user' = [user EXCEPT !.failed_attempts = 1, !.lock = "open"]
        BY <1>1, <2>2 DEF RecordFailedLogin
      <3>2. /\ user'.token_version = user.token_version /\ user'.status_changed = user.status_changed
            /\ user'.password_hash = user.password_hash /\ user'.reset_link = user.reset_link
            /\ user'.failed_attempts = 1 /\ user'.lock = "open"
        BY <1>0, <3>1 DEF User
      <3>3. user' \in User
        BY <1>0, <3>1, <3>2 DEF User
      <3> QED
        BY <1>0, <2>1, <3>2, <3>3
    <2>3. CASE user.lock # "lapsed"
      <3> DEFINE l == IF user.failed_attempts + 1 >= MaxAttempts THEN "locked" ELSE user.lock
      <3>1. user' = [user EXCEPT !.failed_attempts = user.failed_attempts + 1, !.lock = l]
        BY <1>0, <1>1, <2>3 DEF RecordFailedLogin
      <3>2. l \in {"open", "locked", "lapsed"}
        BY <1>0
      <3>3. user.failed_attempts + 1 >= MaxAttempts <=> l # "open"
        BY <1>0, <2>3
      <3> HIDE DEF l
      <3>4. /\ user'.token_version = user.token_version /\ user'.status_changed = user.status_changed
            /\ user'.password_hash = user.password_hash /\ user'.reset_link = user.reset_link
            /\ user'.failed_attempts = user.failed_attempts + 1 /\ user'.lock = l
        BY <1>0, <3>1 DEF User
      <3>5. user' \in User
        BY <1>0, <3>1, <3>2, <3>4 DEF User
      <3> QED
        BY <1>0, <2>1, <3>3, <3>4, <3>5
    <2> QED
      BY <2>2, <2>3
  <1>2. CASE UpgradePasswordHash(c)
    <2>1. chosen' = chosen
      BY <1>2 DEF UpgradePasswordHash
    <2>2. user' = user \/ user' = [user EXCEPT !.password_hash.strong = TRUE]
      BY <1>2 DEF UpgradePasswordHash
    <2>3. CASE user' = user
      BY <1>0, <2>1, <2>3, RowUntouched
    <2>4. CASE user' = [user EXCEPT !.password_hash.strong = TRUE]
      <3> DEFINE h == [user.password_hash EXCEPT !.strong = TRUE]
      <3>1. h \in Hash /\ h.of = user.password_hash.of /\ h.salt = user.password_hash.salt
        BY <1>0 DEF Hash
      <3>2. user' = [user EXCEPT !.password_hash = h]
        BY <1>0, <2>4 DEF User
      <3> HIDE DEF h
      <3>3. /\ user'.token_version = user.token_version /\ user'.status_changed = user.status_changed
            /\ user'.password_hash = h /\ user'.reset_link = user.reset_link
            /\ user'.failed_attempts = user.failed_attempts /\ user'.lock = user.lock
        BY <1>0, <3>2 DEF User
      <3>4. user' \in User
        BY <1>0, <3>1, <3>2 DEF User
      <3> QED
        BY <1>0, <2>1, <3>1, <3>3, <3>4
    <2> QED
      BY <2>2, <2>3, <2>4
  <1>3. CASE ClearFailures(c)
    <2>1. /\ user'.token_version = user.token_version /\ user'.status_changed = user.status_changed
          /\ user'.password_hash = user.password_hash /\ user'.reset_link = user.reset_link
          /\ user'.failed_attempts = 0 /\ user'.lock = "open"
      BY <1>0, <1>3 DEF ClearFailures, User
    <2>2. user' \in User
      BY <1>0, <1>3 DEF ClearFailures, User
    <2>3. chosen' = chosen
      BY <1>3 DEF ClearFailures
    <2> QED
      BY <1>0, <2>1, <2>2, <2>3
  <1>4. CASE Migrate(c)
    BY <1>0, <1>4 DEF Migrate, User
  <1>5. CASE OpenSession(c) \/ CutShort(c) \/ Consume(c) \/ Diagnose(c) \/ Rotate(c)
    <2>1. user' = user /\ chosen' = chosen
      BY <1>5 DEF OpenSession, CutShort, Consume, Diagnose, Rotate
    <2> QED
      BY <1>0, <2>1, RowUntouched
  <1> QED
    BY <1>1, <1>2, <1>3, <1>4, <1>5

LEMMA SignOutsMoveRow ==
    ASSUME Shape, LockMatchesAttempts, ChosenPasswordStands, Numbered(user'),
           AllSound, NEW c \in Calls,
           \/ RevokeFamily(c) \/ BumpTokenVersion(c)
           \/ RevokeAll(c) \/ Forget(c) \/ Compare(c) \/ Change(c) \/ Reopen(c)
           \/ StageRevocation(c) \/ CommitStatus(c)
    PROVE  RowMoves /\ LinkKept
  <1>0. /\ user \in User /\ chosen \in Passwords
        /\ call[c].new \in Passwords /\ call[c].status \in {"active", "suspended"}
    BY DEF Shape, Request
  <1> USE RowFields DEF RowMoves, LinkKept, LockMatchesAttempts, ChosenPasswordStands,
          Numbered, historyVars
  <1>1. CASE BumpTokenVersion(c)
    BY <1>0, <1>1 DEF BumpTokenVersion, User
  <1>2. CASE Forget(c)
    BY <1>0, <1>2 DEF Forget, User
  <1>3. CASE Change(c)
    <2>1. NewHash(call[c].new) \in Hash /\ NewHash(call[c].new).of = call[c].new
      <3>1. user.token_version + 1 \in 0..MaxServed
        BY <1>0, <1>3 DEF Change, WithPassword, User
      <3> QED
        BY <1>0, <3>1 DEF NewHash, Hash
    <2> QED
      BY <1>0, <1>3, <2>1 DEF Change, WithPassword, User
  <1>4. CASE CommitStatus(c)
    BY <1>0, <1>4 DEF CommitStatus, WithStatus, User
  <1>5. CASE \/ RevokeFamily(c) \/ RevokeAll(c) \/ Compare(c) \/ Reopen(c)
             \/ StageRevocation(c)
    <2>1. user' = user /\ chosen' = chosen
      BY <1>5 DEF RevokeFamily, RevokeAll, Compare, Reopen, StageRevocation
    <2> QED
      BY <1>0, <2>1, RowUntouched
  <1> QED
    BY <1>1, <1>2, <1>3, <1>4, <1>5

LEMMA ArrivalsMoveRow ==
    ASSUME Shape, LockMatchesAttempts, ChosenPasswordStands, Numbered(user'),
           NEW c \in Calls
    PROVE  /\ \/ \E p \in Passwords : Login(c, p) \/ ChangePassword(c, p)
              \/ \E t \in 0..Len(tokens) : Refresh(c, t)
              \/ \E k \in {"logout", "logoutAll"} : SignOut(c, k)
              \/ \E s \in {"active", "suspended"} : SetUserStatus(c, s)
              => RowMoves /\ LinkKept
           /\ \A l \in DOMAIN links, p \in Passwords :
                  ResetPassword(c, l, p) => RowMoves /\ user'.reset_link = 0
           /\ ForgotPassword(c) /\ Len(links) + 1 \in 0..MaxServed =>
                  RowMoves /\ user'.reset_link = Len(links) + 1
  <1>0. user \in User /\ chosen \in Passwords
    BY DEF Shape
  <1> USE RowFields DEF historyVars
  <1>1. ASSUME \/ \E p \in Passwords : Login(c, p) \/ ChangePassword(c, p)
               \/ \E t \in 0..Len(tokens) : Refresh(c, t)
               \/ \E k \in {"logout", "logoutAll"} : SignOut(c, k)
               \/ \E s \in {"active", "suspended"} : SetUserStatus(c, s)
        PROVE  RowMoves /\ LinkKept
    <2>1. user' = user /\ chosen' = chosen
      BY <1>1 DEF Login, ChangePassword, Refresh, SignOut, SetUserStatus
    <2> QED
      BY <1>0, <2>1, RowUntouched
  <1> USE DEF RowMoves, LockMatchesAttempts, ChosenPasswordStands, Numbered
  <1>2. ASSUME NEW l \in DOMAIN links, NEW p \in Passwords, ResetPassword(c, l, p)
        PROVE  RowMoves /\ user'.reset_link = 0
    <2>1. NewHash(p) \in Hash /\ NewHash(p).of = p
      <3>1. user.token_version + 1 \in 0..MaxServed
        BY <1>0, <1>2 DEF ResetPassword, ResetRow, WithPassword, User
      <3> QED
        BY <1>0, <3>1 DEF NewHash, Hash
    <2>2. /\ user'.token_version = user.token_version + 1 /\ user'.status_changed = user.status_changed
          /\ user'.password_hash = NewHash(p) /\ user'.reset_link = 0
          /\ user'.failed_attempts = 0 /\ user'.lock = "open"
      BY <1>0, <1>2, <2>1 DEF ResetPassword, ResetRow, WithPassword, User
    <2>3. user' \in User
      BY <1>0, <1>2, <2>1 DEF ResetPassword, ResetRow, WithPassword, User
    <2>4. chosen' = p
      BY <1>2 DEF ResetPassword
    <2> QED
      BY <1>0, <2>1, <2>2, <2>3, <2>4
  <1>3. ASSUME ForgotPassword(c), Len(links) + 1 \in 0..MaxServed
        PROVE  RowMoves /\ user'.reset_link = Len(links) + 1
    BY <1>0, <1>3 DEF ForgotPassword, User
  <1> QED
    BY <1>1, <1>2, <1>3

-----------------------------------------------------------------------------
(* The tokens: some die, one is exchanged, or one is issued. *)
Dying(c) ==
    /\ tokens' = tokens \/ \E T : Kill(T)
    /\ call'[c].at = "rotating" => call'[c].family = 0

Exchanging(c) ==
    LET t == call[c].token IN
    /\ t \in DOMAIN tokens /\ Live(t)
    /\ tokens' = [tokens EXCEPT ![t].used = TRUE]
    /\ call'[c].at = "rotating" /\ call'[c].family = tokens[t].family

Issuing(c) ==
    \E f \in 0..Len(tokens), salt \in 0..MaxServed :
        /\ RecordRefreshToken(f, salt)
        /\ f # 0 => At(c, "rotating") /\ call[c].family = f
        /\ call'[c].at # "rotating"

LEMMA TokensMove ==
    ASSUME Shape, AllSound, WithinBudget, FamiliesKnown, NEW c \in Calls, Step(c)
    PROVE  Dying(c) \/ Exchanging(c) \/ Issuing(c)
  <1>0. /\ user \in User /\ tokens \in Seq(Token) /\ call \in [Calls -> Request]
        /\ Len(tokens) \in Nat /\ DOMAIN tokens = 1..Len(tokens)
        /\ 0..Len(tokens) \subseteq Nat
    BY DEF Shape
  <1>1. /\ call[c].token \in 0..Len(tokens) /\ call[c].family \in 0..Len(tokens)
        /\ HasRow(c) => call[c].seen.password_hash.salt \in 0..MaxServed
        /\ call[c].at \in {"consuming", "diagnosing", "migrating"} => call[c].family = 0
    BY DEF AllSound, Sound, User, Hash
  <1>2. ASSUME tokens' = tokens \/ (\E T : Kill(T)), NEW a, call'[c].at = a, a # "rotating"
        PROVE  Dying(c)
    BY <1>2 DEF Dying
  <1>3. ASSUME \/ \E p \in Passwords : Login(c, p) \/ ChangePassword(c, p)
               \/ \E t \in 0..Len(tokens) : Refresh(c, t)
               \/ \E k \in {"logout", "logoutAll"} : SignOut(c, k)
               \/ \E l \in DOMAIN links, p \in Passwords : ResetPassword(c, l, p)
               \/ \E s \in {"active", "suspended"} : SetUserStatus(c, s)
        PROVE  Dying(c)
    <2>1. tokens' = tokens
      BY <1>3 DEF Login, ChangePassword, Refresh, SignOut, ResetPassword, SetUserStatus
    <2>2. PICK k \in Kinds,
               a \in {"failing", "opening", "upgrading", "comparing", "consuming",
                      "revoking", "staging"} : Arrived(c, k, a)
      <3>1. CASE \E p \in Passwords : Login(c, p)
        <4>1. PICK a \in {"failing", "opening", "upgrading"} :
                  Arrive(c, "login", [at |-> a, seen |-> user])
          BY <3>1 DEF Login
        <4> QED
          BY <1>0, <4>1, ArriveSeen, StepNames DEF Arrived
      <3>2. CASE \E p \in Passwords : ChangePassword(c, p)
        BY <1>0, <3>2, ArriveWithPassword, StepNames DEF Arrived, ChangePassword
      <3>3. CASE \E t \in 0..Len(tokens) : Refresh(c, t)
        BY <1>0, <3>3, ArriveWithToken, StepNames, ZenonT(40) DEF Arrived, Refresh
      <3>4. CASE \E k \in {"logout", "logoutAll"} : SignOut(c, k)
        BY <1>0, <3>4, ArriveAt, StepNames DEF Arrived, SignOut
      <3>5. CASE \E l \in DOMAIN links, p \in Passwords : ResetPassword(c, l, p)
        BY <1>0, <3>5, ArriveAt, StepNames DEF Arrived, ResetPassword
      <3>6. CASE \E s \in {"active", "suspended"} : SetUserStatus(c, s)
        BY <1>0, <3>6, ArriveWithStatus, StepNames, ZenonT(40) DEF Arrived, SetUserStatus
      <3> QED
        BY <1>3, <3>1, <3>2, <3>3, <3>4, <3>5, <3>6
    <2> QED
      BY <1>2, <2>1, <2>2 DEF Arrived
  <1>4. ASSUME \/ RecordFailedLogin(c) \/ ClearFailures(c) \/ CutShort(c) \/ Forget(c)
               \/ CommitStatus(c)
        PROVE  Dying(c)
    <2>1. call' = [call EXCEPT ![c] = Idle]
      BY <1>4 DEF RecordFailedLogin, ClearFailures, CutShort, Forget, CommitStatus,
           Respond, Proceed
    <2>2. call'[c].at = "idle"
      BY <1>0, <2>1, RespondEffect
    <2>3. tokens' = tokens \/ (\E T : Kill(T))
      BY <1>4 DEF RecordFailedLogin, ClearFailures, CutShort, Forget, CommitStatus
    <2> QED
      BY <1>2, <2>2, <2>3
  <1>5. ASSUME ForgotPassword(c) PROVE Dying(c)
    <2>1. tokens' = tokens /\ call' = [call EXCEPT ![c] = Fresh("forgotPassword", Idle)]
      BY <1>5 DEF ForgotPassword, Arrive, Fresh
    <2>2. Fresh("forgotPassword", Idle).at = "idle"
      BY DEF Fresh, Idle
    <2> QED
      BY <1>0, <1>2, <2>1, <2>2
  <1>6. ASSUME UpgradePasswordHash(c) \/ RevokeFamily(c) PROVE Dying(c)
    <2>1. \E a \in {"opening", "bumping"} : Goto(c, a)
      BY <1>6 DEF UpgradePasswordHash, RevokeFamily
    <2>2. \E a \in {"opening", "bumping"} : call'[c].at = a
      BY <1>0, <2>1, GotoEffect, StepNames
    <2>3. tokens' = tokens \/ (\E T : Kill(T))
      BY <1>6 DEF UpgradePasswordHash, RevokeFamily
    <2> QED
      BY <1>2, <2>2, <2>3
  <1>7. ASSUME BumpTokenVersion(c) \/ Compare(c) PROVE Dying(c)
    <2>1. Respond(c) \/ \E a \in {"forgetting", "changing"} : Goto(c, a)
      BY <1>7 DEF BumpTokenVersion, Compare
    <2>2. \E a \in {"forgetting", "changing", "idle"} : call'[c].at = a
      BY <1>0, <2>1, GotoEffect, RespondEffect, StepNames DEF Respond, Proceed
    <2>3. tokens' = tokens
      BY <1>7 DEF BumpTokenVersion, Compare
    <2> QED
      BY <1>2, <2>2, <2>3
  <1>8. ASSUME RevokeAll(c) PROVE Dying(c)
    <2>1. \/ Respond(c)
          \/ \E a \in {"forgetting", "bumping", "reopening"} : Goto(c, a)
      <3>1. call[c].kind \in {"logout", "logoutAll", "changePassword", "resetPassword"}
        BY <1>8 DEF RevokeAll, AllSound, Sound
      <3> QED
        BY <1>8, <3>1 DEF RevokeAll, AfterRevoking
    <2>2. \E a \in {"forgetting", "bumping", "reopening", "idle"} : call'[c].at = a
      BY <1>0, <2>1, GotoEffect, RespondEffect, StepNames, ZenonT(40) DEF Respond, Proceed
    <2>3. \E T : Kill(T)
      BY <1>8 DEF RevokeAll
    <2> QED
      BY <1>2, <2>2, <2>3
  <1>9. ASSUME Change(c) \/ StageRevocation(c) PROVE Dying(c)
    <2>1. /\ \/ call' = [call EXCEPT ![c].at = "revoking", ![c].seen = user']
             \/ call' = [call EXCEPT ![c].at = "committing", ![c].staged = Undead]
          /\ tokens' = tokens
      BY <1>9 DEF Change, StageRevocation, Proceed
    <2>2. call'[c].at \in {"revoking", "committing"}
      BY <1>0, <2>1 DEF Request
    <2> QED
      BY <1>2, <2>1, <2>2
  <1>10. ASSUME Consume(c) PROVE Dying(c) \/ Exchanging(c)
    <2> DEFINE t == call[c].token
    <2>1. CASE Consumable(t)
      <3>1. /\ call' = [call EXCEPT ![c].at = "rotating", ![c].family = tokens[t].family]
            /\ tokens' = [tokens EXCEPT ![t].used = TRUE] /\ t # 0 /\ Live(t)
        BY <1>10, <2>1 DEF Consume, Consumable, Proceed
      <3>2. call'[c].at = "rotating" /\ call'[c].family = tokens[t].family
        BY <1>0, <3>1 DEF Request
      <3> QED
        BY <1>0, <1>1, <3>1, <3>2 DEF Exchanging
    <2>2. CASE ~Consumable(t)
      <3>1. Goto(c, "diagnosing") /\ tokens' = tokens
        BY <1>10, <2>2 DEF Consume
      <3>2. call'[c].at = "diagnosing"
        BY <1>0, <3>1, GotoEffect, StepNames
      <3> QED
        BY <1>2, <3>1, <3>2
    <2> QED
      BY <2>1, <2>2
  <1>11. ASSUME Diagnose(c) PROVE Dying(c)
    <2>1. \/ Respond(c) \/ Goto(c, "migrating")
          \/ call' = [call EXCEPT ![c].at = "containing",
                                  ![c].family = tokens[call[c].token].family]
      BY <1>11 DEF Diagnose, Proceed
    <2>2. call'[c].at \in {"idle", "migrating", "containing"}
      <3>1. CASE Respond(c) \/ Goto(c, "migrating")
        BY <1>0, <3>1, GotoEffect, RespondEffect, StepNames DEF Respond, Proceed
      <3>2. CASE call' = [call EXCEPT ![c].at = "containing",
                                      ![c].family = tokens[call[c].token].family]
        BY <1>0, <3>2 DEF Request
      <3> QED
        BY <2>1, <3>1, <3>2
    <2> QED
      BY <1>2, <1>11, <2>2 DEF Diagnose
  <1>12. ASSUME Migrate(c) PROVE Dying(c)
    <2>1. Respond(c) \/ Goto(c, "rotating")
      BY <1>12 DEF Migrate
    <2>2. call'[c].family = 0
      <3>1. call[c].family = 0
        BY <1>1, <1>12 DEF Migrate, At
      <3> QED
        BY <1>0, <2>1, <3>1, GotoEffect, RespondEffect, StepNames DEF Respond, Proceed
    <2> QED
      BY <1>12, <2>2 DEF Migrate, Dying
  <1>13. ASSUME OpenSession(c) PROVE Issuing(c)
    <2>1. call'[c].at = "clearing"
      BY <1>0, <1>13, GotoEffect, StepNames DEF OpenSession
    <2>2. /\ RecordRefreshToken(0, call[c].seen.password_hash.salt)
          /\ call[c].seen.password_hash.salt \in 0..MaxServed
      BY <1>1, <1>13 DEF OpenSession, HasRow, At
    <2> QED
      BY <1>0, <2>1, <2>2 DEF Issuing
  <1>14. ASSUME Rotate(c) PROVE Issuing(c)
    <2> DEFINE t == call[c].token
               salt == IF t = 0 THEN 0 ELSE tokens[t].salt
    <2>1. call'[c].at = "idle"
      BY <1>0, <1>14, RespondEffect DEF Rotate, Respond, Proceed
    <2>2. RecordRefreshToken(call[c].family, salt) /\ At(c, "rotating")
      BY <1>14 DEF Rotate
    <2>3. salt \in 0..MaxServed
      <3>1. CASE t = 0
        BY <3>1
      <3>2. CASE t # 0
        <4>1. tokens[t] \in Token
          BY <1>0, <1>1, <3>2
        <4> QED
          BY <3>2, <4>1 DEF Token
      <3> QED
        BY <3>1, <3>2
    <2> HIDE DEF salt
    <2> QED
      BY <1>0, <1>1, <2>1, <2>2, <2>3 DEF Issuing
  <1>15. ASSUME Reopen(c) PROVE Issuing(c)
    <2>1. call'[c].at = "idle"
      BY <1>0, <1>15, RespondEffect DEF Reopen, Respond, Proceed
    <2>2. /\ RecordRefreshToken(0, call[c].seen.password_hash.salt)
          /\ call[c].seen.password_hash.salt \in 0..MaxServed
      BY <1>1, <1>15 DEF Reopen, HasRow, At
    <2> QED
      BY <1>0, <2>1, <2>2 DEF Issuing
  <1> QED
    BY <1>3, <1>4, <1>5, <1>6, <1>7, <1>8, <1>9, <1>10, <1>11, <1>12, <1>13, <1>14, <1>15
       DEF Step

LEMMA LengthBound ==
    ASSUME Shape, WithinBudget
    PROVE  Len(tokens) \in 0..MaxServed
  <1>1. Count("tokens") = Len(tokens) /\ "tokens" \in Counters
    BY DEF Count, Counters
  <1>2. /\ Count("tokens") + Cardinality(Adders("tokens")) <= served
        /\ Cardinality(Adders("tokens")) \in Nat
    BY <1>1, FS_CardinalityType DEF WithinBudget
  <1> QED
    BY <1>1, <1>2 DEF Shape

LEMMA TokensStay ==
    ASSUME Shape, AllSound, WithinBudget, FamiliesKnown, NEW c \in Calls,
           Dying(c) \/ Exchanging(c) \/ Issuing(c)
    PROVE  /\ tokens' \in Seq(Token) /\ Len(tokens) <= Len(tokens')
           /\ DOMAIN tokens = 1..Len(tokens) /\ DOMAIN tokens' = 1..Len(tokens')
           /\ Len(tokens) \in Nat /\ Len(tokens') \in Nat
           /\ \A t \in DOMAIN tokens :
                /\ t \in DOMAIN tokens' /\ tokens'[t].family = tokens[t].family
                /\ Live(t)' => Live(t)
           /\ \A t \in DOMAIN tokens' : tokens'[t].family \in 1..Len(tokens')
  <1>0. /\ tokens \in Seq(Token) /\ Len(tokens) \in 0..MaxServed
        /\ DOMAIN tokens = 1..Len(tokens)
        /\ \A t \in DOMAIN tokens : tokens[t] \in Token /\ tokens[t].family \in 1..Len(tokens)
    BY LengthBound DEF Shape, FamiliesKnown
  <1>1. CASE Dying(c)
    <2>1. CASE tokens' = tokens
      BY <1>0, <2>1 DEF Live
    <2>2. CASE \E T : Kill(T)
      <3>1. /\ tokens' \in Seq(Token) /\ Len(tokens') = Len(tokens)
            /\ \A t \in DOMAIN tokens :
                  tokens'[t].family = tokens[t].family /\ (Live(t)' => Live(t))
        BY <1>0, <2>2, KillEffect
      <3> QED
        BY <1>0, <3>1
    <2> QED
      BY <1>1, <2>1, <2>2 DEF Dying
  <1>2. CASE Exchanging(c)
    <2> DEFINE u == call[c].token
    <2>1. u \in DOMAIN tokens /\ tokens' = [tokens EXCEPT ![u].used = TRUE]
      BY <1>2 DEF Exchanging
    <2>2. [tokens[u] EXCEPT !.used = TRUE] \in Token
      <3>1. tokens[u] \in Token
        BY <1>0, <2>1
      <3> HIDE DEF u
      <3> QED
        BY <3>1 DEF Token
    <2>3. tokens' \in Seq(Token) /\ Len(tokens') = Len(tokens)
      BY <1>0, <2>1, <2>2
    <2>4. \A t \in DOMAIN tokens :
            /\ tokens'[t].family = tokens[t].family
            /\ tokens'[t].dead = tokens[t].dead
            /\ tokens[t].used => tokens'[t].used
      BY <1>0, <2>1 DEF Token
    <2> QED
      BY <1>0, <2>3, <2>4 DEF Live
  <1>3. CASE Issuing(c)
    <2>1. PICK f \in 0..Len(tokens), salt \in 0..MaxServed : RecordRefreshToken(f, salt)
      BY <1>3 DEF Issuing
    <2>2. /\ tokens' \in Seq(Token) /\ Len(tokens') = Len(tokens) + 1
          /\ \A t \in DOMAIN tokens : t \in DOMAIN tokens' /\ tokens'[t] = tokens[t]
          /\ tokens'[Len(tokens) + 1].family \in 1..(Len(tokens) + 1)
      BY <1>0, <2>1, IssueEffect
    <2>3. DOMAIN tokens' = 1..Len(tokens') /\ Len(tokens') \in Nat
      BY <2>2
    <2>4. \A t \in DOMAIN tokens' : t \in DOMAIN tokens \/ t = Len(tokens) + 1
      BY <1>0, <2>2, <2>3
    <2> QED
      BY <1>0, <2>2, <2>3, <2>4 DEF Live
  <1> QED
    BY <1>1, <1>2, <1>3

(* A session does not fork. *)
LEMMA SessionsNeverFork ==
    ASSUME Shape, AllSound, WithinBudget, FamiliesKnown,
           OneLiveTokenPerSession, RotationsAreAlone, NEW c \in Calls, Others(c),
           Dying(c) \/ Exchanging(c) \/ Issuing(c)
    PROVE  OneLiveTokenPerSession' /\ RotationsAreAlone'
  <1>0. /\ tokens' \in Seq(Token) /\ Len(tokens) <= Len(tokens')
        /\ DOMAIN tokens = 1..Len(tokens) /\ DOMAIN tokens' = 1..Len(tokens')
        /\ Len(tokens) \in Nat /\ Len(tokens') \in Nat
        /\ \A t \in DOMAIN tokens :
             /\ t \in DOMAIN tokens' /\ tokens'[t].family = tokens[t].family
             /\ Live(t)' => Live(t)
    BY TokensStay
  <1>f. \A t \in DOMAIN tokens : tokens[t].family \in 1..Len(tokens)
    BY DEF FamiliesKnown
  <1>s. \A d \in Calls : call[d].family \in 0..Len(tokens)
    BY DEF AllSound, Sound
  <1> USE DEF At
  <1>1. CASE Dying(c)
    <2>1. DOMAIN tokens' = DOMAIN tokens
      <3>1. Len(tokens') = Len(tokens)
        BY <1>1, KillEffect DEF Dying, Shape
      <3> QED
        BY <1>0, <3>1
    <2>2. OneLiveTokenPerSession'
      BY <1>0, <2>1 DEF OneLiveTokenPerSession
    <2>3. \A d \in Calls : At(d, "rotating")' /\ call'[d].family # 0 =>
              d # c /\ At(d, "rotating") /\ call'[d].family = call[d].family
      BY <1>1 DEF Dying, Others
    <2> QED
      BY <1>0, <2>1, <2>2, <2>3 DEF RotationsAreAlone
  <1>2. CASE Exchanging(c)
    <2>0. PICK u \in DOMAIN tokens, f \in 1..Len(tokens) :
              u = call[c].token /\ f = tokens[u].family
      BY <1>f, <1>2 DEF Exchanging
    <2>1. /\ Live(u) /\ f # 0 /\ tokens[u].family = f
          /\ tokens' = [tokens EXCEPT ![u].used = TRUE]
          /\ call'[c].at = "rotating" /\ call'[c].family = f
      BY <2>0, <1>2 DEF Exchanging
    <2>2. DOMAIN tokens' = DOMAIN tokens /\ ~Live(u)'
      <3>1. tokens[u] \in Token
        BY <2>1 DEF Shape
      <3>2. tokens'[u] = [tokens[u] EXCEPT !.used = TRUE]
        BY <1>0, <2>1
      <3>3. tokens'[u].used
        BY <3>1, <3>2 DEF Token
      <3>4. DOMAIN tokens' = DOMAIN tokens
        BY <2>1
      <3>5. ~Live(u)'
        BY <3>3 DEF Live
      <3> QED
        BY <3>4, <3>5
    <2>3. ASSUME NEW t \in DOMAIN tokens', tokens'[t].family = f, Live(t)' PROVE FALSE
      <3>1. t \in DOMAIN tokens /\ Live(t) /\ tokens[t].family = f
        BY <1>0, <2>2, <2>3
      <3>2. t = u
        BY <2>1, <3>1 DEF OneLiveTokenPerSession
      <3> QED
        BY <2>2, <2>3, <3>2 DEF Live
    <2>4. OneLiveTokenPerSession'
      BY <1>0, <2>2 DEF OneLiveTokenPerSession
    <2>5. \A d \in Calls : At(d, "rotating") /\ call[d].family # 0 => call[d].family # f
      BY <2>1 DEF RotationsAreAlone
    <2>6. ASSUME NEW d \in Calls, At(d, "rotating")', call'[d].family # 0
          PROVE  /\ \A t \in DOMAIN tokens' : tokens'[t].family = call'[d].family => ~Live(t)'
                 /\ \A e \in Calls :
                       At(e, "rotating")' /\ call'[e].family = call'[d].family => e = d
      <3>1. CASE d = c
        BY <2>1, <2>3, <2>5, <2>6, <3>1 DEF Others
      <3>2. CASE d # c
        <4>1. call'[d] = call[d]
          BY <3>2 DEF Others
        <4>2. /\ \A t \in DOMAIN tokens : tokens[t].family = call[d].family => ~Live(t)
              /\ \A e \in Calls : At(e, "rotating") /\ call[e].family = call[d].family => e = d
          BY <2>6, <4>1 DEF RotationsAreAlone
        <4>3. call[d].family # f
          BY <2>5, <2>6, <4>1
        <4> QED
          BY <1>0, <2>1, <2>2, <4>1, <4>2, <4>3 DEF Others
      <3> QED
        BY <3>1, <3>2
    <2> QED
      BY <2>4, <2>6 DEF RotationsAreAlone
  <1>3. CASE Issuing(c)
    <2>1. PICK f \in 0..Len(tokens), salt \in 0..MaxServed :
              /\ RecordRefreshToken(f, salt)
              /\ f # 0 => At(c, "rotating") /\ call[c].family = f
              /\ call'[c].at # "rotating"
      BY <1>3 DEF Issuing
    <2> DEFINE n == Len(tokens) + 1
    <2>2. /\ DOMAIN tokens' = 1..n
          /\ \A t \in DOMAIN tokens : tokens'[t] = tokens[t]
          /\ tokens'[n].family = IF f = 0 THEN n ELSE f
      <3>1. tokens \in Seq(Token) /\ f \in Nat /\ f <= MaxServed + 1 /\ Len(tokens) <= MaxServed
        BY <1>0, LengthBound DEF Shape
      <3> QED
        BY <2>1, <3>1, IssueEffect
    <2>3. \A t \in DOMAIN tokens' : t \in DOMAIN tokens \/ t = n
      BY <1>0, <2>2
    <2>4. \A t \in DOMAIN tokens : tokens[t].family = tokens'[n].family => ~Live(t)
      <3>1. CASE f = 0
        BY <1>0, <1>f, <2>2, <3>1
      <3>2. CASE f # 0
        BY <2>1, <2>2, <3>2 DEF RotationsAreAlone
      <3> QED
        BY <3>1, <3>2
    <2> HIDE DEF n
    <2>5. OneLiveTokenPerSession'
      <3> SUFFICES ASSUME NEW t \in DOMAIN tokens', NEW o \in DOMAIN tokens',
                          Live(t)', Live(o)', tokens'[t].family = tokens'[o].family
                   PROVE  t = o
        BY DEF OneLiveTokenPerSession
      <3>1. CASE t \in DOMAIN tokens /\ o \in DOMAIN tokens
        BY <1>0, <3>1 DEF OneLiveTokenPerSession
      <3>2. CASE t = n \/ o = n
        BY <1>0, <2>3, <2>4, <3>2
      <3> QED
        BY <2>3, <3>1, <3>2
    <2>6. ASSUME NEW d \in Calls, At(d, "rotating")', call'[d].family # 0
          PROVE  /\ \A t \in DOMAIN tokens' : tokens'[t].family = call'[d].family => ~Live(t)'
                 /\ \A e \in Calls :
                       At(e, "rotating")' /\ call'[e].family = call'[d].family => e = d
      <3>1. d # c /\ call'[d] = call[d] /\ At(d, "rotating")
        BY <2>1, <2>6 DEF Others
      <3>2. /\ \A t \in DOMAIN tokens : tokens[t].family = call[d].family => ~Live(t)
            /\ \A e \in Calls : At(e, "rotating") /\ call[e].family = call[d].family => e = d
        BY <2>6, <3>1 DEF RotationsAreAlone
      <3>3. tokens'[n].family # call[d].family
        <4>1. CASE f = 0
          BY <1>0, <1>s, <2>2, <4>1 DEF n
        <4>2. CASE f # 0
          BY <2>1, <2>2, <3>1, <3>2, <4>2
        <4> QED
          BY <4>1, <4>2
      <3>4. \A e \in Calls : At(e, "rotating")' => e # c /\ call'[e] = call[e]
        BY <2>1 DEF Others
      <3> QED
        BY <1>0, <2>3, <3>1, <3>2, <3>3, <3>4
    <2> QED
      BY <2>5, <2>6 DEF RotationsAreAlone
  <1> QED
    BY <1>1, <1>2, <1>3

-----------------------------------------------------------------------------
(* What each request holds. *)
LEMMA IdleIsSound ==
    ASSUME NEW c, call'[c].at = "idle", call'[c].token = 0, call'[c].family = 0,
           call'[c].staged = {}, Len(tokens') \in Nat
    PROVE  Sound(c)'
  BY DEF Sound, HasRow, At

Grown ==
    /\ Len(tokens) \in Nat /\ Len(tokens') \in Nat /\ Len(tokens) <= Len(tokens')
    /\ DOMAIN tokens = 1..Len(tokens) /\ DOMAIN tokens' = 1..Len(tokens')

LEMMA ArrivalsAreSound ==
    ASSUME Shape, AllSound, Grown, NEW c \in Calls,
           \/ \E p \in Passwords : Login(c, p) \/ ChangePassword(c, p)
           \/ \E t \in 0..Len(tokens) : Refresh(c, t)
           \/ \E k \in {"logout", "logoutAll"} : SignOut(c, k)
           \/ \E l \in DOMAIN links, p \in Passwords : ResetPassword(c, l, p)
           \/ \E s \in {"active", "suspended"} : SetUserStatus(c, s)
           \/ ForgotPassword(c)
    PROVE  call' \in [Calls -> Request] /\ Sound(c)'
  <1>0. /\ user \in User /\ call \in [Calls -> Request] /\ 0..Len(tokens) \subseteq Nat
        /\ 0..Len(tokens) \subseteq 0..Len(tokens')
    BY DEF Shape, Grown
  <1> USE DEF Grown
  <1>1. ASSUME NEW p \in Passwords, Login(c, p)
        PROVE  call' \in [Calls -> Request] /\ Sound(c)'
    <2>1. PICK a \in {"failing", "opening", "upgrading"} :
              Arrive(c, "login", [at |-> a, seen |-> user])
      BY <1>1 DEF Login
    <2>2. /\ Arrived(c, "login", a) /\ call'[c].seen = user /\ call'[c].token = 0
      BY <1>0, <2>1, ArriveSeen, StepNames
    <2> QED
      BY <1>0, <2>2 DEF Arrived, Sound, HasRow, At
  <1>2. ASSUME NEW p \in Passwords, ChangePassword(c, p)
        PROVE  call' \in [Calls -> Request] /\ Sound(c)'
    <2>1. Arrived(c, "changePassword", "comparing") /\ call'[c].token = 0
      BY <1>0, <1>2, ArriveWithPassword, StepNames DEF ChangePassword
    <2> QED
      BY <1>0, <2>1 DEF Arrived, Sound, HasRow, At
  <1>3. ASSUME NEW t \in 0..Len(tokens), Refresh(c, t)
        PROVE  call' \in [Calls -> Request] /\ Sound(c)'
    <2>1. /\ Arrived(c, "refresh", "consuming") /\ call'[c].seen = user
          /\ call'[c].token \in {0, t}
      BY <1>0, <1>3, ArriveWithToken, StepNames DEF Refresh
    <2> QED
      BY <1>0, <2>1 DEF Arrived, Sound, HasRow, At
  <1>4. ASSUME NEW k \in {"logout", "logoutAll"}, SignOut(c, k)
        PROVE  call' \in [Calls -> Request] /\ Sound(c)'
    <2>1. Arrived(c, k, "revoking") /\ call'[c].token = 0
      BY <1>0, <1>4, ArriveAt, StepNames DEF SignOut
    <2> QED
      BY <1>0, <2>1 DEF Arrived, Sound, HasRow, At
  <1>5. ASSUME NEW l \in DOMAIN links, NEW p \in Passwords, ResetPassword(c, l, p)
        PROVE  call' \in [Calls -> Request] /\ Sound(c)'
    <2>1. Arrived(c, "resetPassword", "revoking") /\ call'[c].token = 0
      BY <1>0, <1>5, ArriveAt, StepNames DEF ResetPassword
    <2> QED
      BY <1>0, <2>1 DEF Arrived, Sound, HasRow, At
  <1>6. ASSUME NEW s \in {"active", "suspended"}, SetUserStatus(c, s)
        PROVE  call' \in [Calls -> Request] /\ Sound(c)'
    <2>1. Arrived(c, "setUserStatus", "staging") /\ call'[c].token = 0
      BY <1>0, <1>6, ArriveWithStatus, StepNames DEF SetUserStatus
    <2> QED
      BY <1>0, <2>1 DEF Arrived, Sound, HasRow, At
  <1>7. ASSUME ForgotPassword(c)
        PROVE  call' \in [Calls -> Request] /\ Sound(c)'
    <2> DEFINE q == Fresh("forgotPassword", Idle)
    <2>1. /\ "forgotPassword" \in Kinds /\ call' = [call EXCEPT ![c] = q]
      BY <1>7 DEF ForgotPassword, Arrive, Fresh
    <2>2. /\ q = [f \in DOMAIN q |-> q[f]]
          /\ DOMAIN q = {"at", "kind", "seen", "token", "family", "new", "status", "staged"}
          /\ q.at = "idle" /\ q.kind = "forgotPassword" /\ q.seen = <<>> /\ q.token = 0
          /\ q.family = 0 /\ q.new = First /\ q.status = "active" /\ q.staged = {}
      BY DEF Fresh, Idle
    <2> HIDE DEF q
    <2>3. q \in Request
      BY <2>1, <2>2, StepNames, FreshIsRequest
    <2> QED
      BY <1>0, <2>1, <2>2, <2>3, IdleIsSound
  <1> QED
    BY <1>1, <1>2, <1>3, <1>4, <1>5, <1>6, <1>7

LEMMA AnswersAreSound ==
    ASSUME Shape, AllSound, Grown, NEW c \in Calls,
           \/ Respond(c) \/ CutShort(c)
           \/ RecordFailedLogin(c) \/ ClearFailures(c) \/ Rotate(c) \/ Forget(c) \/ Reopen(c)
           \/ CommitStatus(c)
    PROVE  call' \in [Calls -> Request] /\ Sound(c)'
  <1>1. call' = [call EXCEPT ![c] = Idle]
    BY DEF Respond, CutShort, RecordFailedLogin, ClearFailures, Rotate, Forget, Reopen,
           CommitStatus, Proceed
  <1> QED
    BY <1>1, RespondEffect, IdleIsSound DEF Shape, Grown

LEMMA GoingOnIsSound ==
    ASSUME Shape, AllSound, FamiliesKnown, Grown, user' \in User, NEW c \in Calls,
           \/ UpgradePasswordHash(c) \/ OpenSession(c)
           \/ Consume(c) \/ Diagnose(c) \/ Migrate(c)
           \/ RevokeFamily(c) \/ BumpTokenVersion(c)
           \/ RevokeAll(c) \/ Compare(c) \/ Change(c)
           \/ StageRevocation(c)
    PROVE  call' \in [Calls -> Request] /\ Sound(c)'
  <1>0. call \in [Calls -> Request] /\ Sound(c)
    BY DEF Shape, AllSound
  <1>1. ASSUME NEW a \in Steps, Goto(c, a),
               a \in {"opening", "diagnosing", "migrating", "rotating", "reopening"} =>
                   HasRow(c),
               a = "reopening" => call[c].kind = "changePassword",
               a = "changing" => call[c].kind = "changePassword",
               a \in {"diagnosing", "migrating"} => call[c].family = 0,
               a = "bumping" /\ call[c].kind = "refresh" => call[c].family # 0,
               a \notin {"failing", "upgrading", "clearing", "consuming", "revoking",
                         "comparing", "containing"}
        PROVE  call' \in [Calls -> Request] /\ Sound(c)'
    <2>1. /\ call' \in [Calls -> Request]
          /\ call'[c].at = a /\ call'[c].kind = call[c].kind
          /\ call'[c].token = call[c].token /\ call'[c].family = call[c].family
          /\ call'[c].seen = call[c].seen /\ call'[c].staged = call[c].staged
      BY <1>0, <1>1, GotoEffect
    <2>2. /\ call'[c].token \in 0..Len(tokens') /\ call'[c].family \in 0..Len(tokens')
          /\ call'[c].staged \subseteq DOMAIN tokens'
      BY <1>0, <2>1 DEF Sound, Grown
    <2>3. HasRow(c)' => call'[c].seen \in User
      BY <1>0, <1>1, <2>1 DEF Sound, HasRow, At
    <2> QED
      BY <1>1, <2>1, <2>2, <2>3 DEF Sound, At
  <1>2. CASE UpgradePasswordHash(c)
    BY <1>1, <1>2, StepNames DEF UpgradePasswordHash, HasRow, At
  <1>3. CASE OpenSession(c)
    <2>1. /\ call' \in [Calls -> Request]
          /\ call'[c].at = "clearing" /\ call'[c].kind = call[c].kind
          /\ call'[c].token = call[c].token /\ call'[c].family = call[c].family
          /\ call'[c].seen = call[c].seen /\ call'[c].staged = call[c].staged
      BY <1>0, <1>3, GotoEffect, StepNames DEF OpenSession
    <2>2. call[c].seen \in User
      BY <1>0, <1>3 DEF OpenSession, Sound, HasRow, At
    <2> QED
      BY <1>0, <2>1, <2>2 DEF Sound, HasRow, At, Grown
  <1>f. call[c].token # 0 => tokens[call[c].token].family \in 1..Len(tokens)
    BY <1>0 DEF Sound, FamiliesKnown, Grown
  <1>n. ASSUME NEW a \in {"rotating", "containing"}, HasRow(c), call[c].token # 0,
               Proceed([call EXCEPT ![c].at = a, ![c].family = tokens[call[c].token].family])
        PROVE  call' \in [Calls -> Request] /\ Sound(c)'
    <2>1. PICK f \in 1..Len(tokens) : f = tokens[call[c].token].family
      BY <1>f, <1>n
    <2>2. /\ call' = [call EXCEPT ![c].at = a, ![c].family = f]
          /\ f \in Nat /\ a \in Steps
      BY <1>n, <2>1, StepNames DEF Proceed, Grown
    <2>3. /\ call' \in [Calls -> Request]
          /\ call'[c].at = a /\ call'[c].kind = call[c].kind
          /\ call'[c].token = call[c].token /\ call'[c].family = f
          /\ call'[c].seen = call[c].seen /\ call'[c].staged = call[c].staged
      BY <1>0, <2>2, ZenonT(40) DEF Request
    <2> QED
      BY <1>0, <1>n, <2>1, <2>3 DEF Sound, HasRow, At, Grown
  <1>4. CASE Consume(c)
    <2>0. HasRow(c) /\ call[c].family = 0
      BY <1>0, <1>4 DEF Consume, Sound, HasRow, At
    <2>1. CASE Consumable(call[c].token)
      BY <1>n, <1>4, <2>0, <2>1 DEF Consume, Consumable
    <2>2. CASE ~Consumable(call[c].token)
      BY <1>1, <1>4, <2>0, <2>2, StepNames DEF Consume
    <2> QED
      BY <2>1, <2>2
  <1>5. CASE Diagnose(c)
    <2>0. HasRow(c) /\ call[c].family = 0
      BY <1>0, <1>5 DEF Diagnose, Sound, HasRow, At
    <2>1. CASE Goto(c, "migrating")
      BY <1>1, <2>0, <2>1, StepNames
    <2>2. CASE Respond(c)
      BY <2>2, AnswersAreSound
    <2>3. CASE /\ call[c].token # 0
               /\ Proceed([call EXCEPT ![c].at = "containing",
                                       ![c].family = tokens[call[c].token].family])
      BY <1>n, <2>0, <2>3
    <2> QED
      BY <1>5, <2>1, <2>2, <2>3 DEF Diagnose
  <1>6. CASE Migrate(c)
    <2>0. HasRow(c)
      BY <1>6 DEF Migrate, HasRow, At
    <2>1. CASE Goto(c, "rotating")
      BY <1>1, <2>0, <2>1, StepNames
    <2>2. CASE Respond(c)
      BY <2>2, AnswersAreSound
    <2> QED
      BY <1>6, <2>1, <2>2 DEF Migrate
  <1>7. CASE RevokeFamily(c)
    <2>1. call[c].family # 0 /\ Goto(c, "bumping")
      BY <1>0, <1>7 DEF RevokeFamily, Sound
    <2> QED
      BY <1>1, <2>1, StepNames
  <1>8. CASE BumpTokenVersion(c)
    <2>1. CASE Goto(c, "forgetting")
      BY <1>1, <2>1, StepNames
    <2>2. CASE Respond(c)
      BY <2>2, AnswersAreSound
    <2> QED
      BY <1>8, <2>1, <2>2 DEF BumpTokenVersion
  <1>9. CASE RevokeAll(c)
    <2>0. /\ At(c, "revoking")
          /\ call[c].kind \in {"logout", "logoutAll", "changePassword", "resetPassword"}
      BY <1>0, <1>9 DEF RevokeAll, Sound
    <2>1. CASE call[c].kind = "resetPassword"
      <3>1. Respond(c)
        BY <1>9, <2>1 DEF RevokeAll
      <3> QED
        BY <3>1, AnswersAreSound
    <2>2. CASE call[c].kind = "logout"
      <3>1. Goto(c, "forgetting")
        BY <1>9, <2>2 DEF RevokeAll, AfterRevoking
      <3> QED
        BY <1>1, <3>1, StepNames
    <2>3. CASE call[c].kind = "logoutAll"
      <3>1. Goto(c, "bumping")
        BY <1>9, <2>3 DEF RevokeAll, AfterRevoking
      <3> QED
        BY <1>1, <2>3, <3>1, StepNames
    <2>4. CASE call[c].kind = "changePassword"
      <3>1. Goto(c, "reopening") /\ HasRow(c)
        BY <1>9, <2>0, <2>4 DEF RevokeAll, AfterRevoking, HasRow
      <3> QED
        BY <1>1, <2>4, <3>1, StepNames
    <2> QED
      BY <2>0, <2>1, <2>2, <2>3, <2>4
  <1>10. CASE Compare(c)
    <2>0. call[c].kind = "changePassword"
      BY <1>0, <1>10 DEF Compare, Sound, At
    <2>1. CASE Goto(c, "changing")
      BY <1>1, <2>0, <2>1, StepNames
    <2>2. CASE Respond(c)
      BY <2>2, AnswersAreSound
    <2> QED
      BY <1>10, <2>1, <2>2 DEF Compare
  <1>11. CASE Change(c)
    <2>1. /\ call' = [call EXCEPT ![c].at = "revoking", ![c].seen = user']
          /\ "revoking" \in Steps
      BY <1>11, StepNames DEF Change, Proceed
    <2>2. /\ call' \in [Calls -> Request]
          /\ call'[c].at = "revoking" /\ call'[c].kind = call[c].kind
          /\ call'[c].token = call[c].token /\ call'[c].family = call[c].family
          /\ call'[c].seen = user' /\ call'[c].staged = call[c].staged
      <3>1. NotesRow(c, "revoking", user')
        BY <2>1 DEF NotesRow
      <3> QED
        BY <1>0, <2>1, <3>1, SeenEffect
    <2>3. call[c].kind = "changePassword"
      BY <1>0, <1>11 DEF Change, Sound, At
    <2> QED
      BY <1>0, <2>2, <2>3 DEF Sound, HasRow, At, Grown
  <1>12. CASE StageRevocation(c)
    <2>1. /\ call' = [call EXCEPT ![c].at = "committing", ![c].staged = Undead]
          /\ Undead \in SUBSET Nat /\ Undead \subseteq DOMAIN tokens
      BY <1>12 DEF StageRevocation, Proceed, Undead, Grown
    <2>2. /\ call' \in [Calls -> Request]
          /\ call'[c].at = "committing" /\ call'[c].kind = call[c].kind
          /\ call'[c].token = call[c].token /\ call'[c].family = call[c].family
          /\ call'[c].seen = call[c].seen /\ call'[c].staged = Undead
      BY <1>0, <2>1, StageEffect, StepNames, ZenonT(40)
    <2> QED
      BY <1>0, <2>1, <2>2 DEF Sound, HasRow, At, Grown
  <1> QED
    BY <1>2, <1>3, <1>4, <1>5, <1>6, <1>7, <1>8, <1>9, <1>10, <1>11, <1>12

LEMMA SoundStep ==
    ASSUME Shape, AllSound, FamiliesKnown, Grown, user' \in User,
           NEW c \in Calls, Others(c), Step(c)
    PROVE  call' \in [Calls -> Request] /\ AllSound'
  <1>1. call' \in [Calls -> Request] /\ Sound(c)'
    <2>1. CASE \/ \E p \in Passwords : Login(c, p) \/ ChangePassword(c, p)
               \/ \E t \in 0..Len(tokens) : Refresh(c, t)
               \/ \E k \in {"logout", "logoutAll"} : SignOut(c, k)
               \/ \E l \in DOMAIN links, p \in Passwords : ResetPassword(c, l, p)
               \/ \E s \in {"active", "suspended"} : SetUserStatus(c, s)
               \/ ForgotPassword(c)
      BY <2>1, ArrivalsAreSound
    <2> QED
      BY <2>1, AnswersAreSound, GoingOnIsSound DEF Step
  <1>2. ASSUME NEW d \in Calls, d # c PROVE Sound(d)'
    <2>1. call'[d] = call[d] /\ Sound(d)
      BY <1>2 DEF Others, AllSound
    <2> QED
      BY <2>1 DEF Sound, HasRow, At, Grown
  <1> QED
    BY <1>1, <1>2 DEF AllSound

-----------------------------------------------------------------------------
(* A row in use is the one read, or the present one. *)
LEMMA RowsRead ==
    ASSUME Shape, AllSound, NEW c \in Calls, Step(c), HasRow(c)'
    PROVE  \/ HasRow(c) /\ call'[c].seen = call[c].seen
           \/ call'[c].seen = user'
  <1>0. /\ user \in User /\ call \in [Calls -> Request] /\ 0..Len(tokens) \subseteq Nat
        /\ Sound(c)
    BY DEF Shape, AllSound
  <1>1. ASSUME \/ \E p \in Passwords : Login(c, p)
               \/ \E t \in 0..Len(tokens) : Refresh(c, t)
        PROVE  call'[c].seen = user'
    <2>1. CASE \E p \in Passwords : Login(c, p)
      <3>1. PICK a \in {"failing", "opening", "upgrading"} :
                Arrive(c, "login", [at |-> a, seen |-> user])
        BY <2>1 DEF Login
      <3> QED
        BY <1>0, <2>1, <3>1, ArriveSeen, StepNames DEF Login
    <2>2. CASE \E t \in 0..Len(tokens) : Refresh(c, t)
      BY <1>0, <2>2, ArriveWithToken, StepNames DEF Refresh
    <2> QED
      BY <1>1, <2>1, <2>2
  <1>2. ASSUME \/ \E p \in Passwords : ChangePassword(c, p)
               \/ \E k \in {"logout", "logoutAll"} : SignOut(c, k)
               \/ \E l \in DOMAIN links, p \in Passwords : ResetPassword(c, l, p)
               \/ \E s \in {"active", "suspended"} : SetUserStatus(c, s)
        PROVE  FALSE
    <2>1. \/ Arrived(c, "changePassword", "comparing")
          \/ Arrived(c, "logout", "revoking") \/ Arrived(c, "logoutAll", "revoking")
          \/ Arrived(c, "resetPassword", "revoking")
          \/ Arrived(c, "setUserStatus", "staging")
      <3>1. CASE \E p \in Passwords : ChangePassword(c, p)
        BY <1>0, <3>1, ArriveWithPassword, StepNames DEF ChangePassword
      <3>2. CASE \E k \in {"logout", "logoutAll"} : SignOut(c, k)
        BY <1>0, <3>2, ArriveAt, StepNames DEF SignOut
      <3>3. CASE \E l \in DOMAIN links, p \in Passwords : ResetPassword(c, l, p)
        BY <1>0, <3>3, ArriveAt, StepNames DEF ResetPassword
      <3>4. CASE \E s \in {"active", "suspended"} : SetUserStatus(c, s)
        BY <1>0, <3>4, ArriveWithStatus, StepNames DEF SetUserStatus
      <3> QED
        BY <1>2, <3>1, <3>2, <3>3, <3>4
    <2> QED
      BY <2>1 DEF Arrived, HasRow, At
  <1>3. ASSUME ForgotPassword(c) PROVE FALSE
    <2>1. call' = [call EXCEPT ![c] = Fresh("forgotPassword", Idle)]
      BY <1>3 DEF ForgotPassword, Arrive, Fresh
    <2>2. Fresh("forgotPassword", Idle).at = "idle"
      BY DEF Fresh, Idle
    <2> QED
      BY <1>0, <2>1, <2>2 DEF HasRow, At
  <1>4. ASSUME call' = [call EXCEPT ![c] = Idle] PROVE FALSE
    BY <1>0, <1>4, RespondEffect DEF HasRow, At
  <1>5. ASSUME \/ CutShort(c) \/ RecordFailedLogin(c) \/ ClearFailures(c) \/ Rotate(c)
               \/ Forget(c) \/ Reopen(c) \/ CommitStatus(c)
        PROVE  FALSE
    <2>1. call' = [call EXCEPT ![c] = Idle]
      BY <1>5 DEF Respond, CutShort, RecordFailedLogin, ClearFailures, Rotate, Forget,
           Reopen, CommitStatus, Proceed
    <2> QED
      BY <1>4, <2>1
  <1>6. ASSUME NEW a \in Steps, Goto(c, a)
        PROVE  call'[c].seen = call[c].seen /\ call'[c].at = a /\ call'[c].kind = call[c].kind
    BY <1>0, <1>6, GotoEffect
  <1>7. ASSUME \/ UpgradePasswordHash(c) \/ OpenSession(c) \/ Consume(c) \/ Diagnose(c)
               \/ Migrate(c)
        PROVE  HasRow(c) /\ call'[c].seen = call[c].seen
    <2>1. HasRow(c)
      BY <1>7 DEF UpgradePasswordHash, OpenSession, Consume, Diagnose, Migrate, HasRow, At
    <2>2. \/ \E a \in {"opening", "clearing", "diagnosing", "migrating", "rotating"} :
                 Goto(c, a)
          \/ \E a \in {"rotating", "containing"} :
                 call' = [call EXCEPT ![c].at = a,
                                      ![c].family = tokens[call[c].token].family]
      BY <1>4, <1>7 DEF UpgradePasswordHash, OpenSession, Consume, Diagnose, Migrate, Respond,
           Proceed
    <2>3. CASE \E a \in {"opening", "clearing", "diagnosing", "migrating", "rotating"} :
                   Goto(c, a)
      BY <1>6, <2>1, <2>3, StepNames
    <2>4. CASE \E a \in {"rotating", "containing"} :
                   call' = [call EXCEPT ![c].at = a,
                                        ![c].family = tokens[call[c].token].family]
      BY <1>0, <2>1, <2>4 DEF Request
    <2> QED
      BY <2>2, <2>3, <2>4
  <1>8. ASSUME RevokeFamily(c) \/ BumpTokenVersion(c) \/ Compare(c) PROVE FALSE
    <2>1. \E a \in {"bumping", "forgetting", "changing"} : Goto(c, a)
      BY <1>4, <1>8 DEF RevokeFamily, BumpTokenVersion, Compare, Respond, Proceed
    <2> QED
      BY <1>6, <2>1, StepNames DEF HasRow, At
  <1>9. ASSUME RevokeAll(c) PROVE HasRow(c) /\ call'[c].seen = call[c].seen
    <2>1. /\ At(c, "revoking")
          /\ call[c].kind \in {"logout", "logoutAll", "changePassword"}
          /\ Goto(c, AfterRevoking(call[c].kind))
      BY <1>0, <1>4, <1>9 DEF RevokeAll, Respond, Proceed, Sound
    <2>2. \/ call[c].kind = "changePassword" /\ Goto(c, "reopening")
          \/ Goto(c, "forgetting") \/ Goto(c, "bumping")
      BY <2>1 DEF AfterRevoking
    <2>3. call[c].kind = "changePassword" /\ Goto(c, "reopening")
      BY <1>6, <2>2, StepNames DEF HasRow, At
    <2> QED
      BY <1>6, <2>1, <2>3, StepNames DEF HasRow
  <1>10. ASSUME Change(c) PROVE call'[c].seen = user'
    <2>1. NotesRow(c, "revoking", user')
      BY <1>10 DEF Change, Proceed, NotesRow
    <2> QED
      BY <1>0, <2>1, SeenEffect, StepNames
  <1>11. ASSUME StageRevocation(c) PROVE FALSE
    <2>1. call' = [call EXCEPT ![c].at = "committing", ![c].staged = Undead]
      BY <1>11 DEF StageRevocation, Proceed
    <2>2. call'[c].at = "committing"
      BY <1>0, <2>1 DEF Request
    <2> QED
      BY <2>2 DEF HasRow, At
  <1> QED
    BY <1>1, <1>2, <1>3, <1>5, <1>7, <1>8, <1>9, <1>10, <1>11 DEF Step

LEMMA RowsStayDated ==
    ASSUME Shape, AllSound, RowsAreDated, RowMoves, call' \in [Calls -> Request], AllSound',
           NEW c \in Calls, Step(c), Others(c)
    PROVE  RowsAreDated'
  <1>0. user \in User /\ user' \in User
    BY DEF Shape, RowMoves
  <1>1. \A row \in User :
          /\ row.token_version \in Nat /\ user.token_version \in Nat
          /\ user'.token_version \in Nat
    BY <1>0, RowFields DEF User
  <1> SUFFICES ASSUME NEW d \in Calls, HasRow(d)'
               PROVE  /\ call'[d].seen.token_version <= user'.token_version
                      /\ call'[d].seen.token_version = user'.token_version =>
                            /\ call'[d].seen.status_changed = user'.status_changed
                            /\ call'[d].seen.password_hash.salt = user'.password_hash.salt
    BY DEF RowsAreDated, Dated
  <1>2. CASE call'[d].seen = user'
    BY <1>0, <1>1, <1>2
  <1>3. CASE HasRow(d) /\ call'[d].seen = call[d].seen
    <2>0. PICK row \in User : row = call[d].seen
      BY <1>3 DEF AllSound, Sound
    <2>1. /\ row.token_version <= user.token_version
          /\ row.token_version = user.token_version =>
                /\ row.status_changed = user.status_changed
                /\ row.password_hash.salt = user.password_hash.salt
      BY <1>3, <2>0 DEF RowsAreDated, Dated
    <2>2. row.token_version \in Nat /\ user.token_version \in Nat /\ user'.token_version \in Nat
      BY <1>1
    <2>3. /\ row.token_version <= user'.token_version
          /\ row.token_version = user'.token_version =>
                /\ row.status_changed = user'.status_changed
                /\ row.password_hash.salt = user'.password_hash.salt
      BY <2>1, <2>2 DEF RowMoves
    <2> QED
      BY <1>3, <2>0, <2>3
  <1> QED
    <2>1. CASE d = c
      BY <1>2, <1>3, <2>1, RowsRead
    <2>2. CASE d # c
      BY <1>3, <2>2 DEF Others, HasRow, At
    <2> QED
      BY <2>1, <2>2

-----------------------------------------------------------------------------
(* An access token is minted from a row in use. *)
LEMMA AccessMinted ==
    ASSUME Shape, AllSound, NEW c \in Calls, Step(c)
    PROVE  \/ access' = access
           \/ /\ HasRow(c) /\ user'.token_version = user.token_version
              /\ user'.status_changed = user.status_changed
              /\ user'.password_hash.salt = user.password_hash.salt
              /\ \E salt \in 0..MaxServed, by \in {"password", "refresh"} :
                    /\ HandOut(call[c].seen, salt, by)
                    /\ by = "password" => salt = call[c].seen.password_hash.salt
  <1>0. user \in User /\ tokens \in Seq(Token) /\ Sound(c)
    BY DEF Shape, AllSound
  <1>1. CASE ClearFailures(c)
    <2>1. HasRow(c)
      BY <1>1 DEF ClearFailures, HasRow, At
    <2>2. call[c].seen.password_hash.salt \in 0..MaxServed
      BY <1>0, <2>1 DEF Sound, User, Hash
    <2>3. /\ user'.token_version = user.token_version
          /\ user'.status_changed = user.status_changed
          /\ user'.password_hash.salt = user.password_hash.salt
      BY <1>0, <1>1 DEF ClearFailures, User
    <2> QED
      BY <1>1, <2>1, <2>2, <2>3 DEF ClearFailures
  <1>2. CASE Reopen(c)
    <2>1. HasRow(c)
      BY <1>2 DEF Reopen, HasRow, At
    <2>2. call[c].seen.password_hash.salt \in 0..MaxServed
      BY <1>0, <2>1 DEF Sound, User, Hash
    <2> QED
      BY <1>2, <2>1, <2>2 DEF Reopen
  <1>3. CASE Rotate(c)
    <2>1. HasRow(c)
      BY <1>3 DEF Rotate, HasRow, At
    <2> DEFINE t == call[c].token
               salt == IF t = 0 THEN 0 ELSE tokens[t].salt
    <2>2. HandOut(call[c].seen, salt, "refresh") /\ user' = user
      BY <1>3 DEF Rotate
    <2>3. salt \in 0..MaxServed
      <3>1. CASE t = 0
        BY <3>1
      <3>2. CASE t # 0
        <4>1. tokens[t] \in Token
          BY <1>0, <3>2 DEF Sound
        <4> QED
          BY <3>2, <4>1 DEF Token
      <3> QED
        BY <3>1, <3>2
    <2> HIDE DEF salt
    <2> QED
      BY <2>1, <2>2, <2>3
  <1>4. CASE \/ \E p \in Passwords : Login(c, p) \/ ChangePassword(c, p)
             \/ \E t \in 0..Len(tokens) : Refresh(c, t)
             \/ \E k \in {"logout", "logoutAll"} : SignOut(c, k)
             \/ \E l \in DOMAIN links, p \in Passwords : ResetPassword(c, l, p)
             \/ \E s \in {"active", "suspended"} : SetUserStatus(c, s)
             \/ ForgotPassword(c)
    BY <1>4 DEF Login, ChangePassword, Refresh, SignOut, ResetPassword, SetUserStatus,
         ForgotPassword
  <1>5. CASE \/ RecordFailedLogin(c) \/ UpgradePasswordHash(c) \/ OpenSession(c)
             \/ CutShort(c) \/ Consume(c) \/ Diagnose(c) \/ Migrate(c)
    BY <1>5 DEF RecordFailedLogin, UpgradePasswordHash, OpenSession, CutShort, Consume,
         Diagnose, Migrate
  <1>6. CASE \/ RevokeFamily(c) \/ BumpTokenVersion(c)
             \/ RevokeAll(c) \/ Forget(c) \/ Compare(c) \/ Change(c)
             \/ StageRevocation(c) \/ CommitStatus(c)
    BY <1>6 DEF RevokeFamily, BumpTokenVersion, RevokeAll, Forget, Compare, Change,
         StageRevocation, CommitStatus
  <1> QED
    BY <1>1, <1>2, <1>3, <1>4, <1>5, <1>6 DEF Step

LEMMA AccessStaysDated ==
    ASSUME Shape, AllSound, RowsAreDated, AccessIsDated, RowMoves,
           NEW c \in Calls, Step(c)
    PROVE  access' \subseteq Access /\ AccessIsDated'
  <1>0. user \in User /\ user' \in User /\ access \subseteq Access
    BY DEF Shape, RowMoves
  <1>1. user.token_version \in Nat /\ user'.token_version \in Nat
    BY <1>0, RowFields DEF User
  <1>2. ASSUME NEW a \in access
        PROVE  /\ a.tv <= user'.token_version
               /\ a.tv = user'.token_version =>
                     /\ a.term = user'.status_changed
                     /\ a.by = "password" => a.salt = user'.password_hash.salt
    <2>1. /\ a.tv <= user.token_version
          /\ a.tv = user.token_version =>
                /\ a.term = user.status_changed
                /\ a.by = "password" => a.salt = user.password_hash.salt
      BY DEF AccessIsDated, Dated
    <2>2. a.tv \in Nat
      BY <1>0 DEF Access
    <2> QED
      BY <1>1, <2>1, <2>2 DEF RowMoves
  <1>3. CASE access' = access
    BY <1>0, <1>2, <1>3 DEF AccessIsDated, Dated
  <1>4. CASE /\ HasRow(c) /\ user'.token_version = user.token_version
             /\ user'.status_changed = user.status_changed
             /\ user'.password_hash.salt = user.password_hash.salt
             /\ \E salt \in 0..MaxServed, by \in {"password", "refresh"} :
                   /\ HandOut(call[c].seen, salt, by)
                   /\ by = "password" => salt = call[c].seen.password_hash.salt
    <2>0. PICK row \in User : row = call[c].seen
      BY <1>4 DEF AllSound, Sound
    <2>1. /\ row.token_version <= user.token_version
          /\ row.token_version = user.token_version =>
                /\ row.status_changed = user.status_changed
                /\ row.password_hash.salt = user.password_hash.salt
      BY <1>4, <2>0 DEF RowsAreDated, Dated
    <2>2. PICK salt \in 0..MaxServed, by \in {"password", "refresh"} :
              /\ HandOut(row, salt, by)
              /\ by = "password" => salt = row.password_hash.salt
      BY <1>4, <2>0
    <2> DEFINE a == [tv |-> row.token_version, salt |-> salt, term |-> row.status_changed,
                     by |-> by]
    <2>3. access' = access \cup {a}
      BY <2>2 DEF HandOut
    <2>4. /\ a.tv = row.token_version /\ a.term = row.status_changed /\ a.salt = salt
          /\ a.by = by
      OBVIOUS
    <2>5. a \in Access
      BY DEF Access, User
    <2> HIDE DEF a
    <2>6. /\ a.tv <= user'.token_version
          /\ a.tv = user'.token_version =>
                /\ a.term = user'.status_changed
                /\ a.by = "password" => a.salt = user'.password_hash.salt
      BY <1>4, <2>1, <2>2, <2>4
    <2> QED
      BY <1>0, <1>2, <2>3, <2>5, <2>6 DEF AccessIsDated, Dated
  <1> QED
    BY <1>3, <1>4, AccessMinted

-----------------------------------------------------------------------------
(* A link works once. *)
LEMMA LinksStayUnused ==
    ASSUME Shape, WithinBudget, LinkIsUnused, LinkUsedOnce, NEW c \in Calls, Step(c), served' \in Nat,
           \/ LinkKept /\ ~ForgotPassword(c)
           \/ user'.reset_link = 0
           \/ ForgotPassword(c) /\ user'.reset_link = Len(links) + 1,
           \A l \in DOMAIN links, p \in Passwords :
               ResetPassword(c, l, p) => user'.reset_link = 0
    PROVE  LinkIsUnused' /\ LinkUsedOnce' /\ links' \in Seq(Nat)
  <1>0. links \in Seq(Nat) /\ Len(links) \in Nat /\ DOMAIN links = 1..Len(links)
    BY DEF Shape
  <1>1. CASE links' = links /\ ~ForgotPassword(c)
    BY <1>0, <1>1 DEF LinkIsUnused, LinkUsedOnce, LinkKept
  <1>2. CASE ForgotPassword(c) /\ links' = Append(links, 0)
    <2>1. /\ links' \in Seq(Nat) /\ Len(links') = Len(links) + 1
          /\ DOMAIN links' = 1..(Len(links) + 1)
          /\ \A l \in DOMAIN links : links'[l] = links[l]
          /\ links'[Len(links) + 1] = 0
      BY <1>0, <1>2
    <2> QED
      BY <1>0, <1>2, <2>1 DEF LinkIsUnused, LinkUsedOnce
  <1>3. CASE \E l \in DOMAIN links, p \in Passwords :
                 ResetPassword(c, l, p) /\ links' = [links EXCEPT ![l] = @ + 1]
    <2>1. PICK l \in DOMAIN links, p \in Passwords :
              ResetPassword(c, l, p) /\ links' = [links EXCEPT ![l] = links[l] + 1]
      BY <1>3
    <2>2. user.reset_link = l /\ links[l] = 0 /\ user'.reset_link = 0
      <3>1. user'.reset_link = 0
        BY <2>1
      <3>2. user.reset_link = l
        BY <2>1 DEF ResetPassword
      <3> QED
        BY <1>0, <3>1, <3>2 DEF LinkIsUnused
    <2>3. /\ links' \in Seq(Nat) /\ Len(links') = Len(links) /\ DOMAIN links' = DOMAIN links
          /\ links'[l] = 1 /\ \A m \in DOMAIN links : m # l => links'[m] = links[m]
      BY <1>0, <2>1, <2>2
    <2> QED
      BY <1>0, <2>2, <2>3, SMTT(30) DEF LinkIsUnused, LinkUsedOnce
  <1> QED
    BY <1>1, <1>2, <1>3, LinksEffect

-----------------------------------------------------------------------------
LEMMA TypeFromShape ==
    ASSUME Shape, AllSound, WithinBudget, FamiliesKnown, LinkUsedOnce
    PROVE  TypeOK
  <1>1. Len(tokens) \in 0..MaxServed
    BY LengthBound
  <1>2. ASSUME NEW c \in Calls
        PROVE  /\ DOMAIN call[c] = DOMAIN Idle
               /\ call[c].at \in Steps /\ call[c].kind \in Kinds \cup {"none"}
               /\ call[c].seen \in User \cup {<<>>}
               /\ call[c].token \in 0..Len(tokens)
               /\ call[c].family \in 0..(MaxServed + 1)
               /\ call[c].staged \subseteq DOMAIN tokens
    <2>1. call[c] \in Request /\ Sound(c)
      BY DEF Shape, AllSound
    <2>2. DOMAIN call[c] = DOMAIN Idle
      BY <2>1 DEF Request, Idle
    <2>3. /\ call[c].at \in Steps /\ call[c].kind \in Kinds \cup {"none"}
          /\ call[c].seen \in User \cup {<<>>}
      BY <2>1 DEF Request
    <2> QED
      BY <1>1, <2>1, <2>2, <2>3 DEF Sound
  <1>3. links \in Seq(0..MaxServed)
    <2>1. links \in Seq(Nat) /\ \A l \in DOMAIN links : links[l] \in Nat /\ links[l] <= 1
      BY DEF Shape, LinkUsedOnce
    <2>2. \A l \in DOMAIN links : links[l] \in 0..MaxServed
      <3>1. CASE MaxServed = 0
        <4>1. Len(links) = 0
          BY <3>1 DEF WithinBudget, Shape
        <4> QED
          BY <2>1, <4>1
      <3>2. CASE MaxServed # 0
        BY <2>1, <3>2
      <3> QED
        BY <3>1, <3>2
    <2> QED
      BY <2>1, <2>2
  <1>4. stolen \subseteq 1..(MaxServed + 1)
    BY <1>1 DEF FamiliesKnown
  <1> QED
    BY <1>1, <1>2, <1>3, <1>4 DEF TypeOK, Shape

(* A family reported stolen is that of a token. *)
LEMMA StolenIsKnown ==
    ASSUME Shape, AllSound, FamiliesKnown, Grown, NEW c \in Calls, Step(c)
    PROVE  stolen' \subseteq 1..Len(tokens')
  <1>1. stolen \subseteq 1..Len(tokens')
    BY DEF FamiliesKnown, Grown
  <1>2. CASE BumpTokenVersion(c)
    <2>1. call[c].kind = "refresh" => call[c].family \in 1..Len(tokens)
      <3>1. /\ call[c].family \in 0..Len(tokens)
            /\ call[c].kind = "refresh" => call[c].family # 0
        BY <1>2 DEF BumpTokenVersion, AllSound, Sound
      <3> QED
        BY <3>1 DEF Grown
    <2>2. \/ call[c].kind = "refresh" /\ stolen' = stolen \cup {call[c].family}
          \/ stolen' = stolen
      BY <1>2 DEF BumpTokenVersion
    <2>3. 1..Len(tokens) \subseteq 1..Len(tokens')
      BY DEF Grown
    <2> DEFINE S == 1..Len(tokens')
    <2>4. call[c].kind = "refresh" => call[c].family \in S
      BY <2>1, <2>3
    <2>5. stolen \subseteq S
      BY <1>1
    <2> HIDE DEF S
    <2>6. stolen' \subseteq S
      BY <2>2, <2>4, <2>5
    <2> QED
      BY <2>6 DEF S
  <1>3. CASE \/ \E p \in Passwords : Login(c, p) \/ ChangePassword(c, p)
             \/ \E t \in 0..Len(tokens) : Refresh(c, t)
             \/ \E k \in {"logout", "logoutAll"} : SignOut(c, k)
             \/ \E l \in DOMAIN links, p \in Passwords : ResetPassword(c, l, p)
             \/ \E s \in {"active", "suspended"} : SetUserStatus(c, s)
             \/ ForgotPassword(c)
    BY <1>1, <1>3 DEF Login, ChangePassword, Refresh, SignOut, ResetPassword, SetUserStatus,
         ForgotPassword, historyVars
  <1>4. CASE \/ RecordFailedLogin(c) \/ UpgradePasswordHash(c) \/ OpenSession(c)
             \/ ClearFailures(c) \/ CutShort(c) \/ Consume(c) \/ Diagnose(c) \/ Migrate(c)
             \/ Rotate(c)
    BY <1>1, <1>4 DEF RecordFailedLogin, UpgradePasswordHash, OpenSession, ClearFailures,
         CutShort, Consume, Diagnose, Migrate, Rotate, historyVars
  <1>5. CASE \/ RevokeFamily(c) \/ RevokeAll(c) \/ Forget(c) \/ Compare(c) \/ Change(c)
             \/ Reopen(c) \/ StageRevocation(c) \/ CommitStatus(c)
    BY <1>1, <1>5 DEF RevokeFamily, RevokeAll, Forget, Compare, Change, Reopen,
         StageRevocation, CommitStatus, historyVars
  <1> QED
    BY <1>2, <1>3, <1>4, <1>5 DEF Step

(* Every step of a request keeps the invariant. *)
LEMMA RequestsKeep ==
    ASSUME IInv, NEW c \in Calls, Step(c)
    PROVE  IInv'
  <1>0. /\ Shape /\ AllSound /\ WithinBudget /\ LockMatchesAttempts /\ FamiliesKnown
        /\ OneLiveTokenPerSession /\ RotationsAreAlone /\ LinkIsUnused
        /\ ChosenPasswordStands /\ LinkUsedOnce /\ RowsAreDated /\ AccessIsDated
    BY DEF IInv, PasswordStands
  <1>1. /\ WithinBudget' /\ \A n \in Counters : Count(n)' \in 0..MaxServed
        /\ Len(links') <= MaxServed
        /\ served' \in 0..MaxServed /\ faults' \in 0..MaxFaults /\ Others(c)
    BY <1>0, WithinBudgetStep
  <1>2. Numbered(user')
    <2>1. /\ Count("versions")' = user'.token_version
          /\ Count("switches")' = user'.status_changed
          /\ Count("failures")' = user'.failed_attempts
          /\ {"versions", "switches", "failures"} \subseteq Counters
      BY DEF Count, Counters
    <2> QED
      BY <1>1, <2>1 DEF Numbered
  <1>3. Dying(c) \/ Exchanging(c) \/ Issuing(c)
    BY <1>0, TokensMove
  <1>4. tokens' \in Seq(Token) /\ Grown
        /\ \A t \in DOMAIN tokens' : tokens'[t].family \in 1..Len(tokens')
    BY <1>0, <1>3, TokensStay DEF Grown
  <1>5. OneLiveTokenPerSession' /\ RotationsAreAlone'
    BY <1>0, <1>1, <1>3, SessionsNeverFork
  <1>6. ForgotPassword(c) => Len(links) + 1 \in 0..MaxServed
    <2>1. ASSUME ForgotPassword(c) PROVE Len(links) + 1 \in 0..MaxServed
      <3>1. links' = Append(links, 0)
        BY <2>1 DEF ForgotPassword
      <3> QED
        BY <1>0, <1>1, <3>1 DEF Shape
    <2> QED
      BY <2>1
  <1>7. /\ RowMoves
        /\ \/ LinkKept /\ ~ForgotPassword(c)
           \/ user'.reset_link = 0
           \/ ForgotPassword(c) /\ user'.reset_link = Len(links) + 1
        /\ \A l \in DOMAIN links, p \in Passwords :
               ResetPassword(c, l, p) => user'.reset_link = 0
    <2>1. CASE ForgotPassword(c)
      BY <1>0, <1>2, <1>6, <2>1, ArrivalsMoveRow
    <2>2. CASE ~ForgotPassword(c)
      <3>1. CASE \E l \in DOMAIN links, p \in Passwords : ResetPassword(c, l, p)
        BY <1>0, <1>2, <3>1, ArrivalsMoveRow
      <3>2. CASE \/ \E p \in Passwords : Login(c, p) \/ ChangePassword(c, p)
                 \/ \E t \in 0..Len(tokens) : Refresh(c, t)
                 \/ \E k \in {"logout", "logoutAll"} : SignOut(c, k)
                 \/ \E s \in {"active", "suspended"} : SetUserStatus(c, s)
        BY <1>0, <1>2, <2>2, <3>2, ArrivalsMoveRow
      <3>3. \A l \in DOMAIN links, p \in Passwords :
               ResetPassword(c, l, p) => user'.reset_link = 0
        BY <1>0, <1>2, ArrivalsMoveRow
      <3> QED
        BY <1>0, <1>2, <2>2, <3>1, <3>2, <3>3, LoginsMoveRow, SignOutsMoveRow DEF Step
    <2> QED
      BY <2>1, <2>2
  <1>8. call' \in [Calls -> Request] /\ AllSound'
    BY <1>0, <1>1, <1>4, <1>7, SoundStep DEF RowMoves
  <1>9. RowsAreDated' /\ access' \subseteq Access /\ AccessIsDated'
    BY <1>0, <1>1, <1>7, <1>8, RowsStayDated, AccessStaysDated
  <1>10. LinkIsUnused' /\ LinkUsedOnce' /\ links' \in Seq(Nat)
    BY <1>0, <1>1, <1>7, LinksStayUnused
  <1>11. FamiliesKnown'
    BY <1>0, <1>4, StolenIsKnown DEF FamiliesKnown
  <1>12. Shape'
    BY <1>1, <1>4, <1>7, <1>8, <1>9, <1>10 DEF Shape, RowMoves
  <1> QED
    BY <1>1, <1>5, <1>7, <1>8, <1>9, <1>10, <1>11, <1>12
       DEF IInv, PasswordStands, RowMoves

(* The clock: a lock, a link or a token that runs out. *)
LEMMA TimeKeeps ==
    ASSUME IInv, call' = call, access' = access, served' = served, faults' = faults,
           chosen' = chosen, stolen' = stolen, links' = links,
           \/ user' = user
           \/ user.lock = "locked" /\ user' = [user EXCEPT !.lock = "lapsed"]
           \/ user' = [user EXCEPT !.reset_link = 0],
           tokens' = tokens \/ \E T : Kill(T)
    PROVE  IInv'
  <1>0. /\ Shape /\ AllSound /\ WithinBudget /\ LockMatchesAttempts /\ FamiliesKnown
        /\ OneLiveTokenPerSession /\ RotationsAreAlone /\ LinkIsUnused
        /\ ChosenPasswordStands /\ LinkUsedOnce /\ RowsAreDated /\ AccessIsDated
    BY DEF IInv, PasswordStands
  <1>1. user \in User /\ tokens \in Seq(Token)
    BY <1>0 DEF Shape
  <1>2. /\ user' \in User
        /\ user'.token_version = user.token_version
        /\ user'.status_changed = user.status_changed
        /\ user'.failed_attempts = user.failed_attempts
        /\ user'.password_hash = user.password_hash
        /\ user'.reset_link \in {0, user.reset_link}
        /\ user.lock = "open" <=> user'.lock = "open"
    <2>1. CASE user' = user
      BY <1>1, <2>1
    <2>2. CASE user.lock = "locked" /\ user' = [user EXCEPT !.lock = "lapsed"]
      BY <1>1, <2>2 DEF User
    <2>3. CASE user' = [user EXCEPT !.reset_link = 0]
      BY <1>1, <2>3 DEF User
    <2> QED
      BY <2>1, <2>2, <2>3
  <1>3. /\ tokens' \in Seq(Token) /\ Len(tokens') = Len(tokens)
        /\ DOMAIN tokens' = DOMAIN tokens
        /\ \A t \in DOMAIN tokens :
             tokens'[t].family = tokens[t].family /\ (Live(t)' => Live(t))
    <2>1. CASE tokens' = tokens
      BY <1>1, <2>1 DEF Live
    <2>2. CASE \E T : Kill(T)
      BY <1>1, <2>2, KillEffect
    <2> QED
      BY <2>1, <2>2
  <1>4. Shape'
    BY <1>0, <1>2, <1>3 DEF Shape
  <1>5. AllSound'
    BY <1>0, <1>3 DEF AllSound, Sound, HasRow, At
  <1>6. WithinBudget'
    <2>1. ASSUME NEW n \in Counters
          PROVE  Count(n)' = Count(n) /\ Adders(n)' = Adders(n)
      BY <1>2, <1>3 DEF Count, Counters, Adders, MayAdd, At
    <2> QED
      BY <1>0, <2>1 DEF WithinBudget
  <1>7. LockMatchesAttempts' /\ ChosenPasswordStands' /\ LinkUsedOnce'
    BY <1>0, <1>2 DEF LockMatchesAttempts, ChosenPasswordStands, LinkUsedOnce
  <1>8. FamiliesKnown'
    BY <1>0, <1>3 DEF FamiliesKnown
  <1>9. OneLiveTokenPerSession'
    BY <1>0, <1>3 DEF OneLiveTokenPerSession
  <1>10. RotationsAreAlone'
    BY <1>0, <1>3 DEF RotationsAreAlone, At
  <1>11. LinkIsUnused'
    <2>1. Len(links) \in Nat
      BY <1>0 DEF Shape
    <2> QED
      BY <1>0, <1>2, <2>1 DEF LinkIsUnused
  <1>12. RowsAreDated' /\ AccessIsDated'
    BY <1>0, <1>2 DEF RowsAreDated, AccessIsDated, Dated, HasRow, At
  <1> QED
    BY <1>4, <1>5, <1>6, <1>7, <1>8, <1>9, <1>10, <1>11, <1>12 DEF IInv, PasswordStands

LEMMA InitInv == Init => IInv
  <1> SUFFICES ASSUME Init PROVE IInv
    OBVIOUS
  <1> USE DEF Init
  <1> DEFINE h == [of |-> First, strong |-> FALSE, salt |-> 0]
  <1>1. /\ user.token_version = 0 /\ user.status_changed = 0 /\ user.failed_attempts = 0
        /\ user.lock = "open" /\ user.reset_link = 0
        /\ user.password_hash.of = First /\ user.password_hash.salt = 0
    OBVIOUS
  <1>2. user \in User
    BY DEF User, Hash
  <1>3. /\ tokens \in Seq(Token) /\ DOMAIN tokens = {} /\ Len(tokens) = 0
        /\ links \in Seq(Nat) /\ DOMAIN links = {} /\ Len(links) = 0
    OBVIOUS
  <1>4. /\ call \in [Calls -> Request]
        /\ \A c \in Calls :
              call[c].at = "idle" /\ call[c].token = 0 /\ call[c].family = 0
              /\ call[c].staged = {}
    BY IdleIsRequest
  <1>5. Shape
    BY <1>2, <1>3, <1>4 DEF Shape
  <1>6. AllSound
    BY <1>3, <1>4 DEF AllSound, Sound, HasRow, At
  <1>7. WithinBudget
    <2>1. ASSUME NEW n \in Counters PROVE Count(n) = 0 /\ Adders(n) = {}
      BY <1>1, <1>3, <1>4 DEF Count, Counters, Adders, MayAdd, At
    <2>2. IsFiniteSet({}) /\ Cardinality({}) = 0
      BY FS_EmptySet
    <2>3. Len(links) <= served
      BY <1>3
    <2>4. ASSUME NEW n \in Counters
          PROVE  IsFiniteSet(Adders(n)) /\ Count(n) + Cardinality(Adders(n)) <= served
      <3>1. Adders(n) = {} /\ Count(n) = 0
        BY <2>1
      <3>2. IsFiniteSet(Adders(n)) /\ Cardinality(Adders(n)) = 0
        BY <2>2, <3>1, Zenon
      <3>3. served = 0
        OBVIOUS
      <3> QED
        BY <3>1, <3>2, <3>3
    <2> QED
      BY <2>3, <2>4 DEF WithinBudget
  <1>8. LockMatchesAttempts /\ PasswordStands
    BY <1>1, <1>3 DEF LockMatchesAttempts, PasswordStands, ChosenPasswordStands, LinkUsedOnce
  <1>9. FamiliesKnown /\ OneLiveTokenPerSession /\ RotationsAreAlone /\ LinkIsUnused
    BY <1>1, <1>3, <1>4
       DEF FamiliesKnown, OneLiveTokenPerSession, RotationsAreAlone, LinkIsUnused, At
  <1>10. RowsAreDated /\ AccessIsDated
    BY <1>4 DEF RowsAreDated, AccessIsDated, HasRow, At
  <1> QED
    BY <1>5, <1>6, <1>7, <1>8, <1>9, <1>10 DEF IInv

LEMMA NextInv == IInv /\ [Next]_vars => IInv'
  <1> SUFFICES ASSUME IInv, [Next]_vars PROVE IInv'
    OBVIOUS
  <1>1. ASSUME NEW c \in Calls, Step(c) PROVE IInv'
    BY <1>1, RequestsKeep
  <1>2. CASE LockLapses \/ LinkExpires \/ Quiet \/ UNCHANGED vars
    BY <1>2, TimeKeeps DEF LockLapses, LinkExpires, Quiet, vars, historyVars
  <1>3. ASSUME NEW t \in DOMAIN tokens, TokenExpires(t) PROVE IInv'
    BY <1>3, TimeKeeps DEF TokenExpires, historyVars
  <1> QED
    BY <1>1, <1>2, <1>3 DEF Next

LEMMA Inductive == Spec => []IInv
  BY InitInv, NextInv, PTL DEF Spec

-----------------------------------------------------------------------------
(* The types: no counter passes the number of requests, whoever adds to it
   in between; and the account is locked exactly from the MaxAttempts-th
   failure on, whatever failures, successes and lapses interleave. *)
THEOREM LockCounts == Spec => []StateOK
  <1>1. IInv => StateOK
    <2> SUFFICES ASSUME IInv PROVE StateOK
      OBVIOUS
    <2>1. TypeOK
      BY TypeFromShape DEF IInv, PasswordStands
    <2> QED
      BY <2>1 DEF IInv, StateOK
  <1> QED
    BY <1>1, Inductive, PTL

(* A rotation chain never forks, for any number of requests presenting the
   tokens of a session at once: consumeRefreshToken lets one of them through,
   and until it has issued the successor the family has no live token. *)
THEOREM ChainsNeverFork == Spec => []OneLiveTokenPerSession
  <1>1. IInv => OneLiveTokenPerSession
    BY DEF IInv
  <1> QED
    BY <1>1, Inductive, PTL

(* The password is the one last chosen, whatever hash upgrades were under
   way, and a reset link sets a password at most once. *)
THEOREM PasswordHolds == Spec => []PasswordStands
  <1>1. IInv => PasswordStands
    BY DEF IInv
  <1> QED
    BY <1>1, Inductive, PTL

(* An access token accepted today is of the account's present term and, when
   a sign-in handed it out, of its present password: the row it was minted
   from may be old, but then its token_version is behind. *)
THEOREM AcceptedIsCurrent == Spec => []AccessIsCurrent
  <1>1. IInv => AccessIsCurrent
    <2> SUFFICES ASSUME IInv PROVE AccessIsCurrent
      OBVIOUS
    <2> QED
      BY DEF IInv, AccessIsCurrent, ReinstatedStartsAfresh, SignInKnowsPassword, Accepted,
             AccessIsDated, Dated
  <1> QED
    BY <1>1, Inductive, PTL
=============================================================================
