---------------------------- MODULE LedgerProofs ----------------------------
(***************************************************************************)
(* The two clients of the ledger of tokens: the wallet, whose              *)
(* transactions write it, and the rewarded ads, whose credits must be      *)
(* neither repeated nor lost.                                              *)
(***************************************************************************)
EXTENDS Wallet, AdReward, FiniteSetTheorems, TLAPS

-----------------------------------------------------------------------------
(***************************************************************************)
(* walletService keeps the promise of Ledger: the transactions of its      *)
(* calls are isolated by the row lock, so that each COMMIT is one step of  *)
(* LedgerSpec and no other statement shows; and LedgerSpec keeps the       *)
(* invariants of the ledger, which the wallet therefore keeps.             *)
(*                                                                         *)
(* The inductive invariant is TypeOK with TransactionsAreIsolated: the     *)
(* invariants of the ledger say nothing of what an open transaction has    *)
(* read and written, and COMMIT publishes exactly that.                    *)
(***************************************************************************)

(* The ledger: its invariant for every set of users, every opening balance and
   any number of days and operations. *)

(* The rewarded days of a user are finitely many: their number grows by one
   with each reward. *)
FiniteDays == \A u \in Users : IsFiniteSet(claimedDays[u])

LedgerIInv == LedgerTypeOK /\ FiniteDays /\ LedgerInv

LEMMA LedgerInitInv == LedgerInit => LedgerIInv
<1> SUFFICES ASSUME LedgerInit PROVE LedgerIInv
  OBVIOUS
<1> USE DEF LedgerInit
<1>1. LedgerTypeOK
  BY OpeningAssumption DEF LedgerTypeOK
<1>2. \A u \in Users : IsFiniteSet(claimedDays[u]) /\ Cardinality(claimedDays[u]) = 0
  BY FS_EmptySet
<1>3. FiniteDays /\ OneRewardPerDay
  BY <1>2 DEF FiniteDays, OneRewardPerDay, Types
<1>4. LedgerMatchesBalance /\ Solvent /\ AdminCreditsAudited
  BY OpeningAssumption, MaxIntAssumption
  DEF LedgerMatchesBalance, Solvent, AdminCreditsAudited, Types
<1> QED
  BY <1>1, <1>3, <1>4 DEF LedgerIInv, LedgerInv

(* What one ledger row changes, and that it changes nothing else. *)
LEMMA PostEffect ==
    ASSUME NEW u \in Users, NEW n \in Int, NEW ty \in Types, LedgerTypeOK, Post(u, n, ty)
    PROVE  /\ ledger' \in [Users -> [Types -> Int]]
           /\ audited' \in [Users -> Int]
           /\ \A v \in Users, t \in Types :
                 ledger'[v][t] = ledger[v][t] + IF v = u /\ t = ty THEN n ELSE 0
           /\ \A v \in Users :
                 audited'[v] = audited[v] + IF v = u /\ ty = "admin" THEN n ELSE 0
<1>1. \A v \in Users : ledger[v] \in [Types -> Int] /\ audited[v] \in Int
  BY DEF LedgerTypeOK
<1>2. ledger' = [ledger EXCEPT ![u] = [ledger[u] EXCEPT ![ty] = ledger[u][ty] + n]]
  BY DEF Post
<1>3. ledger' \in [Users -> [Types -> Int]]
  BY <1>1, <1>2 DEF LedgerTypeOK
<1>4. \A v \in Users : ledger'[v] = IF v = u
                                    THEN [ledger[u] EXCEPT ![ty] = ledger[u][ty] + n]
                                    ELSE ledger[v]
  BY <1>2 DEF LedgerTypeOK
<1>5. \A v \in Users, t \in Types :
        ledger'[v][t] = ledger[v][t] + IF v = u /\ t = ty THEN n ELSE 0
  BY <1>1, <1>4
<1>6. /\ audited' \in [Users -> Int]
      /\ \A v \in Users :
            audited'[v] = audited[v] + IF v = u /\ ty = "admin" THEN n ELSE 0
  BY <1>1 DEF Post, LedgerTypeOK
<1> QED
  BY <1>3, <1>5, <1>6

(* The balance and the two ledgers of one user move by the same amount. *)
LEMMA MoveTogether ==
    ASSUME NEW u \in Users, NEW n \in Int, NEW ty \in Types, LedgerIInv,
           balance' = [balance EXCEPT ![u] = @ + n], balance[u] + n \in 0..MaxInt,
           Post(u, n, ty)
    PROVE  LedgerMatchesBalance' /\ Solvent' /\ AdminCreditsAudited'
<1> USE DEF LedgerIInv, LedgerInv
<1>1. \A v \in Users : balance'[v] = balance[v] + IF v = u THEN n ELSE 0
  BY DEF LedgerTypeOK
<1>2. /\ \A v \in Users, t \in Types :
            ledger'[v][t] = ledger[v][t] + IF v = u /\ t = ty THEN n ELSE 0
      /\ \A v \in Users :
            audited'[v] = audited[v] + IF v = u /\ ty = "admin" THEN n ELSE 0
  BY PostEffect
<1>3. \A v \in Users : /\ balance[v] \in Int /\ Opening[v] \in Int
                       /\ audited[v] \in Int
                       /\ \A t \in Types : ledger[v][t] \in Int
  <2>1. \A v \in Users : Opening[v] \in Int
    BY OpeningAssumption, MaxIntAssumption
  <2>2. \A v \in Users : balance[v] \in Int /\ audited[v] \in Int
    BY DEF LedgerTypeOK
  <2>3. \A v \in Users, t \in Types : ledger[v][t] \in Int
    BY DEF LedgerTypeOK
  <2> QED
    BY <2>1, <2>2, <2>3
<1>4. LedgerMatchesBalance'
  BY <1>1, <1>2, <1>3 DEF LedgerMatchesBalance, Types
<1>5. AdminCreditsAudited'
  BY <1>2, <1>3 DEF AdminCreditsAudited, Types
<1>6. Solvent'
  <2>1. \A v \in Users : balance'[v] = IF v = u THEN balance[u] + n ELSE balance[v]
    BY <1>1, <1>3
  <2> QED
    BY <2>1 DEF Solvent
<1> QED
  BY <1>4, <1>5, <1>6

(* A credit of the ledger keeps its invariant: balance, ledger row and audit
   row move by the same amount. *)
LEMMA CreditInv ==
    ASSUME NEW u \in Users, NEW n \in Nat, NEW ty \in {"refund", "admin"},
           LedgerIInv, Credit(u, n, ty)
    PROVE  LedgerIInv'
<1> USE DEF LedgerIInv, LedgerInv
<1>1. ty \in Types /\ ty # "reward" /\ n \in Int /\ balance[u] \in Int
  BY DEF Types, LedgerTypeOK
<1>2. Post(u, n, ty) /\ balance[u] + n \in 0..MaxInt
  BY <1>1, MaxIntAssumption DEF Credit, Solvent
<1>3. LedgerTypeOK'
  BY <1>1, <1>2, PostEffect DEF Credit, LedgerTypeOK
<1>4. balance' = [balance EXCEPT ![u] = @ + n]
  BY <1>1 DEF Credit, LedgerTypeOK
<1>5. LedgerMatchesBalance' /\ Solvent' /\ AdminCreditsAudited'
  BY <1>1, <1>2, <1>4, MoveTogether
<1>6. \A v \in Users : ledger'[v]["reward"] = ledger[v]["reward"]
  <2>1. \A v \in Users : ledger[v]["reward"] \in Int
    BY DEF LedgerTypeOK, Types
  <2>2. \A v \in Users, t \in Types :
          ledger'[v][t] = ledger[v][t] + IF v = u /\ t = ty THEN n ELSE 0
    BY <1>1, <1>2, PostEffect
  <2> QED
    BY <1>1, <2>1, <2>2 DEF Types
<1>7. FiniteDays' /\ OneRewardPerDay'
  BY <1>6 DEF FiniteDays, OneRewardPerDay, Credit
<1> QED
  BY <1>3, <1>5, <1>7

(* A charge keeps it too, and takes no more than there is. *)
LEMMA DebitInv ==
    ASSUME NEW u \in Users, NEW n \in Nat, NEW ty \in {"generation", "admin"},
           LedgerIInv, Debit(u, n, ty)
    PROVE  LedgerIInv'
<1> USE DEF LedgerIInv, LedgerInv
<1>1. ty \in Types /\ ty # "reward" /\ (-n) \in Int /\ balance[u] \in Int
  BY DEF Types, LedgerTypeOK
<1>2. Post(u, (-n), ty) /\ balance[u] + (-n) \in 0..MaxInt
  BY <1>1, MaxIntAssumption DEF Debit, Solvent
<1>3. LedgerTypeOK'
  BY <1>1, <1>2, PostEffect DEF Debit, LedgerTypeOK
<1>4. balance' = [balance EXCEPT ![u] = @ + (-n)]
  BY <1>1 DEF Debit, LedgerTypeOK
<1>5. LedgerMatchesBalance' /\ Solvent' /\ AdminCreditsAudited'
  BY <1>1, <1>2, <1>4, MoveTogether
<1>6. \A v \in Users : ledger'[v]["reward"] = ledger[v]["reward"]
  <2>1. \A v \in Users : ledger[v]["reward"] \in Int
    BY DEF LedgerTypeOK, Types
  <2>2. \A v \in Users, t \in Types :
          ledger'[v][t] = ledger[v][t] + IF v = u /\ t = ty THEN (-n) ELSE 0
    BY <1>1, <1>2, PostEffect
  <2> QED
    BY <1>1, <2>1, <2>2 DEF Types
<1>7. FiniteDays' /\ OneRewardPerDay'
  BY <1>6 DEF FiniteDays, OneRewardPerDay, Debit
<1> QED
  BY <1>3, <1>5, <1>7

(* The first ad of a pair touches no money. *)
LEMMA CountAdInv ==
    ASSUME NEW u \in Users, NEW d \in Days, LedgerIInv, CountAd(u, d)
    PROVE  LedgerIInv'
BY DEF LedgerIInv, LedgerInv, CountAd, LedgerTypeOK, FiniteDays,
       LedgerMatchesBalance, Solvent, OneRewardPerDay, AdminCreditsAudited

(* The second ad of a pair: a day that was not claimed is claimed by the one
   credit it earns. *)
LEMMA RewardPairInv ==
    ASSUME NEW u \in Users, NEW d \in Days, LedgerIInv, RewardPair(u, d)
    PROVE  LedgerIInv'
<1> USE DEF LedgerIInv, LedgerInv
<1>1. "reward" \in Types /\ 1 \in Int /\ balance[u] \in Int
  BY DEF Types, LedgerTypeOK
<1>2. Post(u, 1, "reward") /\ balance[u] + 1 \in 0..MaxInt
  BY <1>1, MaxIntAssumption DEF RewardPair, Solvent
<1>3. LedgerTypeOK'
  BY <1>1, <1>2, PostEffect DEF RewardPair, LedgerTypeOK
<1>4. LedgerMatchesBalance' /\ Solvent' /\ AdminCreditsAudited'
  BY <1>1, <1>2, MoveTogether DEF RewardPair
<1>5. /\ IsFiniteSet(claimedDays[u] \cup {d})
      /\ Cardinality(claimedDays[u] \cup {d}) = Cardinality(claimedDays[u]) + 1
  BY FS_AddElement DEF FiniteDays, RewardPair
<1>6. \A v \in Users : claimedDays'[v] = IF v = u THEN claimedDays[u] \cup {d}
                                         ELSE claimedDays[v]
  BY DEF LedgerTypeOK, RewardPair
<1>7. \A v \in Users :
        ledger'[v]["reward"] = ledger[v]["reward"] + IF v = u THEN 1 ELSE 0
  BY <1>1, <1>2, PostEffect
<1>8. \A v \in Users : ledger[v]["reward"] \in Int
  BY <1>1 DEF LedgerTypeOK
<1>9. FiniteDays' /\ OneRewardPerDay'
  BY <1>5, <1>6, <1>7, <1>8 DEF FiniteDays, OneRewardPerDay
<1> QED
  BY <1>3, <1>4, <1>9

(* Every step of the ledger keeps its invariant. *)
LEMMA LedgerStepInv == LedgerIInv /\ [LedgerNext]_ledgerVars => LedgerIInv'
<1> SUFFICES ASSUME LedgerIInv, [LedgerNext]_ledgerVars PROVE LedgerIInv'
  OBVIOUS
<1>1. CASE LedgerNext
  BY <1>1, AmountsAssumption, CreditInv, DebitInv, CountAdInv, RewardPairInv DEF LedgerNext
<1>2. CASE UNCHANGED ledgerVars
  BY <1>2 DEF ledgerVars, LedgerIInv, LedgerInv, LedgerTypeOK, FiniteDays,
     LedgerMatchesBalance, Solvent, OneRewardPerDay, AdminCreditsAudited
<1> QED
  BY <1>1, <1>2

(* In every behaviour of the ledger the balance is the sum of the ledger,
   within the column, with one reward a day and every adjustment audited. *)
THEOREM LedgerCorrect == LedgerSpec => [](LedgerTypeOK /\ LedgerInv)
<1>1. LedgerIInv => LedgerTypeOK /\ LedgerInv
  BY DEF LedgerIInv
<1> QED
  BY LedgerInitInv, LedgerStepInv, <1>1, PTL DEF LedgerSpec

-----------------------------------------------------------------------------
(* The wallet. *)
IInv == TypeOK /\ TransactionsAreIsolated

-----------------------------------------------------------------------------
(* The requests, field by field. *)
LEMMA RequestFields ==
    ASSUME NEW r \in Requests
    PROVE  /\ r.fn \in {"addBalance", "deductBalance", "rewardAd"}
           /\ r.user \in Users
           /\ r.type \in Types
           /\ r.amount \in Nat \ {0}
           /\ r.fn = "addBalance" => r.type \in {"refund", "admin"} /\ r.amount \in Amounts
           /\ r.fn = "deductBalance" => r.type \in {"generation", "admin"} /\ r.amount \in Amounts
           /\ r.fn = "rewardAd" => r.type = "reward" /\ r.amount = 1
<1>1. CASE r \in [fn : {"addBalance"}, type : {"refund", "admin"}, user : Users,
                  amount : Amounts]
  BY <1>1, AmountsAssumption DEF Types
<1>2. CASE r \in [fn : {"deductBalance"}, type : {"generation", "admin"}, user : Users,
                  amount : Amounts]
  BY <1>2, AmountsAssumption DEF Types
<1>3. CASE r \in [fn : {"rewardAd"}, type : {"reward"}, user : Users, amount : {1}]
  BY <1>3 DEF Types
<1> QED BY <1>1, <1>2, <1>3 DEF Requests

(* The same of the request of a call, with the types of what is computed from
   it. *)
LEMMA CallFields ==
    ASSUME TypeOK, NEW c \in Calls
    PROVE  /\ User(c) \in Users
           /\ req[c].type \in Types
           /\ req[c].fn \in {"addBalance", "deductBalance", "rewardAd"}
           /\ Amount(c) \in Nat \ {0}
           /\ Signed(c) \in Int
           /\ NewBalance(c) \in Int
           /\ read[c] \in Row
           /\ write[c] \in Writes
           /\ day[c] \in Days
<1>1. req[c] \in Requests /\ read[c] \in Row /\ write[c] \in Writes /\ day[c] \in Days
  BY DEF TypeOK
<1>2. /\ req[c].user \in Users /\ req[c].type \in Types
      /\ req[c].fn \in {"addBalance", "deductBalance", "rewardAd"}
      /\ req[c].amount \in Nat \ {0}
  BY <1>1, RequestFields
<1>3. read[c].balance \in Int
  BY <1>1 DEF Row
<1> QED BY <1>1, <1>2, <1>3 DEF User, Amount, Signed, NewBalance

LEMMA UnwrittenType ==
    ASSUME NEW row \in Row
    PROVE  Unwritten(row) \in Writes
BY DEF Unwritten, Writes, Row

LEMMA InitType == Init => TypeOK
<1> SUFFICES ASSUME Init PROVE TypeOK
  OBVIOUS
<1>1. LedgerTypeOK
  BY LedgerInitInv DEF Init, LedgerIInv
<1>2. (CHOOSE r \in Requests : TRUE) \in Requests
  <2>1. PICK u \in Users : TRUE
    BY UsersAssumption
  <2>2. [fn |-> "rewardAd", type |-> "reward", user |-> u, amount |-> 1] \in Requests
    BY <2>1 DEF Requests
  <2> QED BY <2>2
<1>3. NoRow \in Row /\ Unwritten(NoRow) \in Writes
  BY UnwrittenType DEF NoRow, Row
<1>4. 1 \in Days
  BY LastDayAssumption DEF Days
<1> QED BY <1>1, <1>2, <1>3, <1>4 DEF Init, TypeOK

LEMMA InitIsolated == Init => TransactionsAreIsolated
BY DEF Init, TransactionsAreIsolated, ReadsAreCurrent, WritesAreDue, HoldingRow, InTransaction

-----------------------------------------------------------------------------
(* What RETURN and COMMIT leave has the right type. *)
LEMMA ReturnType ==
    ASSUME TypeOK, NEW c \in Calls, Return(c)
    PROVE  /\ pc' \in [Calls -> {"idle", "queued"} \cup InTransaction \cup {"returned"}]
           /\ rowLock' \in [Users -> Calls \cup {NoCall}]
           /\ day' \in [Calls -> Days]
           /\ read' \in [Calls -> Row]
           /\ write' \in [Calls -> Writes]
<1>1. NoRow \in Row /\ Unwritten(NoRow) \in Writes
  BY UnwrittenType DEF NoRow, Row
<1>2. 1 \in Days
  BY LastDayAssumption DEF Days
<1>3. pc' \in [Calls -> {"idle", "queued"} \cup InTransaction \cup {"returned"}]
  BY DEF Return, TypeOK, Goto
<1>4. rowLock' \in [Users -> Calls \cup {NoCall}]
  BY DEF Return, TypeOK
<1> QED BY <1>1, <1>2, <1>3, <1>4 DEF Return, TypeOK

LEMMA CommitType ==
    ASSUME TypeOK, NEW c \in Calls, Commit(c)
    PROVE  LedgerTypeOK'
<1> DEFINE u == User(c)
           w == write[c]
<1>1. u \in Users /\ req[c].type \in Types /\ w \in Writes
  BY CallFields
<1>2. /\ w.balance \in Int /\ w.adsProgress \in {0, 1} /\ w.images \in Nat
      /\ w.posted \in Int /\ w.audited \in Int /\ w.claimed \subseteq Days
  BY <1>1 DEF Writes
<1>3. /\ balance' = [balance EXCEPT ![u] = w.balance]
      /\ adsProgress' = [adsProgress EXCEPT ![u] = w.adsProgress]
      /\ generatedImages' = [generatedImages EXCEPT ![u] = @ + w.images]
      /\ audited' = [audited EXCEPT ![u] = @ + w.audited]
      /\ claimedDays' = [claimedDays EXCEPT ![u] = @ \cup w.claimed]
      /\ ledger' = [ledger EXCEPT ![u][req[c].type] = @ + w.posted]
  BY DEF Commit, PublishRow
<1> HIDE DEF u, w
<1>4. LedgerTypeOK
  BY DEF TypeOK
<1>5. ledger' \in [Users -> [Types -> Int]]
  BY <1>1, <1>2, <1>3, <1>4 DEF LedgerTypeOK
<1>6. claimedDays' \in [Users -> SUBSET Days]
  BY <1>1, <1>2, <1>3, <1>4 DEF LedgerTypeOK
<1> QED BY <1>1, <1>2, <1>3, <1>4, <1>5, <1>6 DEF LedgerTypeOK

(* Every statement of a transaction keeps the types of what it writes. *)
LEMMA WriteType ==
    ASSUME TypeOK, NEW c \in Calls,
           \/ StopAtDailyLimit(c) \/ UpdateAdsProgress(c) \/ UpdateBalance(c)
           \/ ClaimDay(c) \/ RecordTransaction(c) \/ RecordAudit(c)
    PROVE  write'[c] \in Writes /\ \A d \in Calls \ {c} : write'[d] = write[d]
<1>1. /\ write[c] \in Writes /\ NewBalance(c) \in Int /\ Signed(c) \in Int
      /\ day[c] \in Days /\ read[c] \in Row
  BY CallFields
<1>2. write \in [Calls -> Writes]
  BY DEF TypeOK
<1>3. CASE StopAtDailyLimit(c)
  BY <1>1, <1>2, <1>3 DEF StopAtDailyLimit
<1>4. CASE UpdateAdsProgress(c)
  BY <1>1, <1>2, <1>4 DEF UpdateAdsProgress, Writes
<1>5. CASE UpdateBalance(c)
  BY <1>1, <1>2, <1>5 DEF UpdateBalance, SetBalance, Writes, Row
<1>6. CASE ClaimDay(c)
  BY <1>1, <1>2, <1>6 DEF ClaimDay, Writes
<1>7. CASE RecordTransaction(c)
  BY <1>1, <1>2, <1>7 DEF RecordTransaction, Writes
<1>8. CASE RecordAudit(c)
  BY <1>1, <1>2, <1>8 DEF RecordAudit, Writes
<1> QED BY <1>3, <1>4, <1>5, <1>6, <1>7, <1>8

LEMMA NextType == TypeOK /\ [Next]_vars => TypeOK'
<1> SUFFICES ASSUME TypeOK, [Next]_vars PROVE TypeOK'
  OBVIOUS
<1> USE DEF InTransaction
<1>1. ASSUME NEW c \in Calls, NEW r \in Requests, Submit(c, r) PROVE TypeOK'
  BY <1>1 DEF Submit, Goto, TypeOK, LedgerTypeOK, ledgerVars
<1>2. ASSUME NEW c \in Calls, Connect(c) PROVE TypeOK'
  BY <1>2 DEF Connect, Goto, TypeOK, LedgerTypeOK, ledgerVars
<1>3. ASSUME NEW c \in Calls, LockRow(c) PROVE TypeOK'
  <2> DEFINE row == [balance |-> balance[User(c)], adsProgress |-> adsProgress[User(c)]]
  <2>1. User(c) \in Users
    BY CallFields
  <2>2. row \in Row
    BY <2>1 DEF Row, TypeOK, LedgerTypeOK
  <2>3. Unwritten(row) \in Writes
    BY <2>2, UnwrittenType
  <2>4. LedgerTypeOK'
    BY <1>3 DEF LockRow, SelectRow, TypeOK, LedgerTypeOK, ledgerVars
  <2>5. read' = [read EXCEPT ![c] = row] /\ write' = [write EXCEPT ![c] = Unwritten(row)]
    BY <1>3 DEF LockRow, SelectRow
  <2> HIDE DEF row
  <2> QED BY <1>3, <2>1, <2>2, <2>3, <2>4, <2>5 DEF LockRow, SelectRow, Goto, TypeOK
<1>4. ASSUME NEW c \in Calls,
             \/ StopAtDailyLimit(c) \/ UpdateAdsProgress(c) \/ UpdateBalance(c)
             \/ ClaimDay(c) \/ RecordTransaction(c) \/ RecordAudit(c)
      PROVE TypeOK'
  <2>1. /\ UNCHANGED <<ledgerVars, req, day, read, rowLock, today>>
        /\ \E l \in InTransaction : Goto(c, l)
    BY <1>4 DEF StopAtDailyLimit, UpdateAdsProgress, UpdateBalance, SetBalance, ClaimDay,
                RecordTransaction, RecordAudit
  <2>2. write' \in [Calls -> Writes]
    <3>1. write'[c] \in Writes /\ \A d \in Calls \ {c} : write'[d] = write[d]
      BY <1>4, WriteType
    <3>2. write \in [Calls -> Writes]
      BY DEF TypeOK
    <3>3. DOMAIN write' = Calls /\ write' = [d \in Calls |-> write'[d]]
      BY <1>4, <3>2 DEF StopAtDailyLimit, UpdateAdsProgress, UpdateBalance, SetBalance,
                        ClaimDay, RecordTransaction, RecordAudit
    <3> QED BY <3>1, <3>2, <3>3
  <2>3. LedgerTypeOK'
    BY <2>1 DEF TypeOK, LedgerTypeOK, ledgerVars
  <2> QED BY <2>1, <2>2, <2>3 DEF Goto, TypeOK
<1>5. ASSUME NEW c \in Calls, Refuse(c) \/ Fault(c) PROVE TypeOK'
  <2>1. Return(c) /\ UNCHANGED <<ledgerVars, req, today>>
    BY <1>5 DEF Refuse, Fault
  <2>2. LedgerTypeOK'
    BY <2>1 DEF TypeOK, LedgerTypeOK, ledgerVars
  <2> QED BY <2>1, <2>2, ReturnType DEF TypeOK
<1>6. ASSUME NEW c \in Calls, Commit(c) PROVE TypeOK'
  <2>1. Return(c) /\ UNCHANGED <<req, today>>
    BY <1>6 DEF Commit
  <2> QED BY <1>6, <2>1, ReturnType, CommitType DEF TypeOK
<1>7. CASE NewDay
  BY <1>7, LastDayAssumption DEF NewDay, TypeOK, LedgerTypeOK, ledgerVars, callVars, Days
<1>8. CASE UNCHANGED vars
  BY <1>8 DEF vars, TypeOK, LedgerTypeOK, ledgerVars, callVars
<1> QED BY <1>1, <1>2, <1>3, <1>4, <1>5, <1>6, <1>7, <1>8 DEF Next, Step, AllReturned

-----------------------------------------------------------------------------
(* TransactionsAreIsolated for one call. *)
Isolated(c) ==
    /\ pc[c] \in HoldingRow =>
        /\ rowLock[User(c)] = c
        /\ read[c] = [balance |-> balance[User(c)], adsProgress |-> adsProgress[User(c)]]
    /\ pc[c] = "locked" => write[c] = Unwritten(read[c])
    /\ pc[c] = "claimed" => req[c].fn = "rewardAd"
    /\ pc[c] = "recorded" => req[c].type = "admin"
    /\ pc[c] \in HoldingRow \ {"locked"} =>
          \/ /\ pc[c] = "ready" /\ LimitReached(c)
             /\ write[c] = Unwritten(read[c])
          \/ /\ pc[c] = "ready" /\ FirstAd(c) /\ ~LimitReached(c)
             /\ write[c] = [Unwritten(read[c]) EXCEPT !.adsProgress = 1]
          \/ /\ ~LimitReached(c) /\ ~FirstAd(c) /\ NewBalance(c) \in 0..MaxInt
             /\ write[c] = Due(c)

LEMMA IsolatedCalls == TransactionsAreIsolated <=> \A c \in Calls : Isolated(c)
BY DEF TransactionsAreIsolated, ReadsAreCurrent, WritesAreDue, Isolated

LEMMA IsolatedCallsNext ==
    (\A c \in Calls : Isolated(c)') => TransactionsAreIsolated'
BY DEF TransactionsAreIsolated, ReadsAreCurrent, WritesAreDue, Isolated

(* A step that touches neither a call nor the row it holds leaves it
   isolated. *)
LEMMA Frame ==
    ASSUME NEW d \in Calls, Isolated(d),
           pc'[d] = pc[d], req'[d] = req[d], day'[d] = day[d],
           read'[d] = read[d], write'[d] = write[d],
           pc[d] \in HoldingRow =>
               /\ rowLock'[User(d)] = rowLock[User(d)]
               /\ balance'[User(d)] = balance[User(d)]
               /\ adsProgress'[User(d)] = adsProgress[User(d)]
               /\ claimedDays'[User(d)] = claimedDays[User(d)]
    PROVE  Isolated(d)'
<1>1. /\ User(d)' = User(d) /\ Signed(d)' = Signed(d) /\ NewBalance(d)' = NewBalance(d)
      /\ FirstAd(d)' = FirstAd(d)
  BY DEF User, Signed, Amount, NewBalance, FirstAd
<1>2. Due(d)' = Due(d)
  BY <1>1 DEF Due
<1>3. pc[d] \in HoldingRow => LimitReached(d)' = LimitReached(d)
  BY <1>1 DEF LimitReached
<1>4. Unwritten(read[d])' = Unwritten(read[d])
  BY DEF Unwritten
<1>5. CASE pc[d] \notin HoldingRow
  BY <1>5 DEF Isolated, HoldingRow, InTransaction
<1>6. CASE pc[d] \in HoldingRow
  BY <1>1, <1>2, <1>3, <1>4, <1>6 DEF Isolated
<1> QED BY <1>5, <1>6

(* A call that returns frees no row but its own. *)
LEMMA ReturnFrame ==
    ASSUME TypeOK, TransactionsAreIsolated, NEW c \in Calls, Return(c),
           req' = req,
           \A u \in Users : rowLock[u] # c =>
               /\ balance'[u] = balance[u] /\ adsProgress'[u] = adsProgress[u]
               /\ claimedDays'[u] = claimedDays[u]
    PROVE  TransactionsAreIsolated'
<1> SUFFICES ASSUME NEW d \in Calls PROVE Isolated(d)'
  BY IsolatedCallsNext
<1>1. CASE d = c
  <2>1. pc'[c] = "returned"
    BY DEF Return, Goto, TypeOK
  <2> QED BY <1>1, <2>1 DEF Isolated, HoldingRow, InTransaction
<1>2. CASE d # c
  <2>1. Isolated(d)
    BY IsolatedCalls
  <2>2. /\ pc'[d] = pc[d] /\ req'[d] = req[d] /\ day'[d] = day[d]
        /\ read'[d] = read[d] /\ write'[d] = write[d]
    BY <1>2 DEF Return, Goto, TypeOK
  <2>3. User(d) \in Users
    BY CallFields
  <2>4. ASSUME pc[d] \in HoldingRow
        PROVE  rowLock[User(d)] = d /\ rowLock'[User(d)] = rowLock[User(d)]
    BY <1>2, <2>1, <2>3, <2>4 DEF Isolated, Return
  <2> QED BY <1>2, <2>1, <2>2, <2>3, <2>4, Frame
<1> QED BY <1>1, <1>2

(* What a call leaves alone when it issues a statement, seen by the others. *)
LEMMA StatementFrame ==
    ASSUME TypeOK, TransactionsAreIsolated, NEW c \in Calls, NEW d \in Calls, d # c,
           UNCHANGED ledgerVars,
           pc'[d] = pc[d], req'[d] = req[d], day'[d] = day[d],
           read'[d] = read[d], write'[d] = write[d],
           rowLock[User(d)] = d => rowLock'[User(d)] = rowLock[User(d)]
    PROVE  Isolated(d)'
<1>1. Isolated(d)
  BY IsolatedCalls
<1>2. pc[d] \in HoldingRow => rowLock[User(d)] = d
  BY <1>1 DEF Isolated
<1>3. /\ balance' = balance /\ adsProgress' = adsProgress /\ claimedDays' = claimedDays
  BY DEF ledgerVars
<1> QED BY <1>1, <1>2, <1>3, Frame

LEMMA LockRowIsolated ==
    ASSUME TypeOK, TransactionsAreIsolated, NEW c \in Calls, LockRow(c)
    PROVE  TransactionsAreIsolated'
<1> SUFFICES ASSUME NEW d \in Calls PROVE Isolated(d)'
  BY IsolatedCallsNext
<1> DEFINE row == [balance |-> balance[User(c)], adsProgress |-> adsProgress[User(c)]]
<1>1. /\ pc[c] = "begun" /\ pc' = [pc EXCEPT ![c] = "locked"]
      /\ rowLock[User(c)] = NoCall /\ rowLock' = [rowLock EXCEPT ![User(c)] = c]
      /\ read' = [read EXCEPT ![c] = row] /\ write' = [write EXCEPT ![c] = Unwritten(row)]
      /\ UNCHANGED <<ledgerVars, req, day, today>>
  BY DEF LockRow, SelectRow, Goto
<1>2. User(c) \in Users
  BY CallFields
<1>3. CASE d = c
  <2>1. pc'[c] = "locked" /\ rowLock'[User(c)] = c /\ read'[c] = row
        /\ write'[c] = Unwritten(row)
    BY <1>1, <1>2 DEF TypeOK
  <2>2. User(c)' = User(c) /\ balance' = balance /\ adsProgress' = adsProgress
    BY <1>1 DEF User, ledgerVars
  <2>3. Unwritten(read'[c]) = Unwritten(row)
    BY <2>1
  <2> HIDE DEF row
  <2>4. Unwritten(read[c])' = Unwritten(row)
    BY <2>1 DEF Unwritten
  <2>5. row = [balance |-> balance'[User(c)'], adsProgress |-> adsProgress'[User(c)']]
    BY <2>2 DEF row
  <2> QED BY <1>3, <2>1, <2>2, <2>4, <2>5 DEF Isolated
<1>4. CASE d # c
  <2>1. User(d) \in Users
    BY CallFields
  <2>2. /\ pc'[d] = pc[d] /\ req'[d] = req[d] /\ day'[d] = day[d]
        /\ read'[d] = read[d] /\ write'[d] = write[d]
    BY <1>1, <1>4 DEF TypeOK
  <2>3. rowLock[User(d)] = d => rowLock'[User(d)] = rowLock[User(d)]
    BY <1>1, <1>2, <2>1, NoCallAssumption DEF TypeOK
  <2> QED BY <1>1, <1>4, <2>2, <2>3, StatementFrame
<1> QED BY <1>3, <1>4

(* A statement of c that changes pc, req, day and write of c only. *)
LEMMA StatementIsolated ==
    ASSUME TypeOK, TransactionsAreIsolated, NEW c \in Calls, Isolated(c)',
           UNCHANGED <<ledgerVars, read, rowLock>>,
           \A d \in Calls \ {c} :
              pc'[d] = pc[d] /\ req'[d] = req[d] /\ day'[d] = day[d] /\ write'[d] = write[d]
    PROVE  TransactionsAreIsolated'
<1> SUFFICES ASSUME NEW d \in Calls, d # c PROVE Isolated(d)'
  BY IsolatedCallsNext
<1> QED BY StatementFrame

(* The statements between the SELECT and the COMMIT, for the call itself. *)
LEMMA StatementSelf ==
    ASSUME TypeOK, TransactionsAreIsolated, NEW c \in Calls,
           \/ StopAtDailyLimit(c) \/ UpdateAdsProgress(c) \/ UpdateBalance(c)
           \/ ClaimDay(c) \/ RecordTransaction(c) \/ RecordAudit(c)
    PROVE  Isolated(c)'
<1>1. Isolated(c)
  BY IsolatedCalls
<1>2. UNCHANGED <<ledgerVars, req, day, read, rowLock, today>>
  BY DEF StopAtDailyLimit, UpdateAdsProgress, UpdateBalance, SetBalance, ClaimDay,
         RecordTransaction, RecordAudit
<1>3. pc \in [Calls -> {"idle", "queued"} \cup InTransaction \cup {"returned"}]
      /\ write \in [Calls -> Writes]
  BY DEF TypeOK
<1>4. /\ User(c)' = User(c) /\ Signed(c)' = Signed(c) /\ NewBalance(c)' = NewBalance(c)
      /\ FirstAd(c)' = FirstAd(c) /\ LimitReached(c)' = LimitReached(c)
      /\ Unwritten(read[c])' = Unwritten(read[c])
      /\ balance' = balance /\ adsProgress' = adsProgress /\ read'[c] = read[c]
      /\ req'[c] = req[c] /\ rowLock' = rowLock /\ day'[c] = day[c]
  BY <1>2 DEF User, Signed, Amount, NewBalance, FirstAd, LimitReached, Unwritten, ledgerVars
<1>5. pc[c] \in HoldingRow
  BY DEF StopAtDailyLimit, UpdateAdsProgress, UpdateBalance, SetBalance, ClaimDay,
         RecordTransaction, RecordAudit, HoldingRow, InTransaction
<1>6. rowLock[User(c)] = c
      /\ read[c] = [balance |-> balance[User(c)], adsProgress |-> adsProgress[User(c)]]
  BY <1>1, <1>5 DEF Isolated
<1>7. rowLock'[User(c)'] = c
      /\ read'[c] = [balance |-> balance'[User(c)'], adsProgress |-> adsProgress'[User(c)']]
  BY <1>4, <1>6
<1>8. CASE StopAtDailyLimit(c)
  <2>1. pc[c] = "locked" /\ pc'[c] = "ready" /\ LimitReached(c) /\ write'[c] = write[c]
    BY <1>3, <1>8 DEF StopAtDailyLimit, Goto
  <2>2. write[c] = Unwritten(read[c])
    BY <1>1, <2>1 DEF Isolated
  <2> QED BY <1>4, <1>7, <2>1, <2>2 DEF Isolated
<1>9. CASE UpdateAdsProgress(c)
  <2>1. /\ pc[c] = "locked" /\ pc'[c] = "ready" /\ ~LimitReached(c) /\ FirstAd(c)
        /\ write'[c] = [write[c] EXCEPT !.adsProgress = 1]
    BY <1>3, <1>9 DEF UpdateAdsProgress, Goto
  <2>2. write[c] = Unwritten(read[c])
    BY <1>1, <2>1 DEF Isolated
  <2>3. write'[c] = [Unwritten(read[c]) EXCEPT !.adsProgress = 1]
    BY <2>1, <2>2
  <2>4. write'[c] = [Unwritten(read[c])' EXCEPT !.adsProgress = 1]
    BY <1>4, <2>3
  <2> QED BY <1>4, <1>7, <2>1, <2>4 DEF Isolated
<1>10. CASE UpdateBalance(c)
  <2> DEFINE ads == IF req[c].fn = "rewardAd" THEN 0 ELSE read[c].adsProgress
             images == IF req[c].type = "generation" THEN 1 ELSE 0
  <2>1. /\ pc[c] = "locked" /\ pc'[c] = "updated" /\ ~LimitReached(c) /\ ~FirstAd(c)
        /\ NewBalance(c) \in 0..MaxInt
    BY <1>3, <1>10 DEF UpdateBalance, SetBalance, Goto
  <2>2. write'[c] = [balance |-> NewBalance(c), adsProgress |-> ads, images |-> images,
                     posted |-> 0, audited |-> 0, claimed |-> {}]
    BY <1>3, <1>10 DEF UpdateBalance, SetBalance
  <2>3. write'[c] = Due(c)'
    BY <1>4, <2>1, <2>2 DEF Due
  <2> QED BY <1>4, <1>7, <2>1, <2>3 DEF Isolated
<1>11. ASSUME pc[c] \in {"updated", "claimed", "recorded"}
       PROVE  /\ ~LimitReached(c) /\ ~FirstAd(c) /\ NewBalance(c) \in 0..MaxInt
              /\ write[c] = Due(c)
  BY <1>1, <1>11 DEF Isolated, HoldingRow, InTransaction
<1>12. ASSUME pc'[c] \in {"claimed", "recorded", "ready"}, write'[c] = Due(c)',
              pc[c] \in {"updated", "claimed", "recorded"},
              pc'[c] = "claimed" => req[c].fn = "rewardAd",
              pc'[c] = "recorded" => req[c].type = "admin"
       PROVE  Isolated(c)'
  BY <1>4, <1>7, <1>11, <1>12 DEF Isolated
<1>13. CASE ClaimDay(c)
  <2>1. /\ pc[c] = "updated" /\ pc'[c] = "claimed" /\ req[c].fn = "rewardAd"
        /\ write'[c] = [write[c] EXCEPT !.claimed = {day[c]}]
    BY <1>3, <1>13 DEF ClaimDay, Goto
  <2>2. write'[c] = Due(c)'
    BY <1>4, <1>11, <2>1, SMTT(30) DEF Due
  <2> QED BY <1>12, <2>1, <2>2
<1>14. CASE RecordTransaction(c)
  <2>1. /\ pc[c] = IF req[c].fn = "rewardAd" THEN "claimed" ELSE "updated"
        /\ pc'[c] = IF req[c].type = "admin" THEN "recorded" ELSE "ready"
        /\ write'[c] = [write[c] EXCEPT !.posted = Signed(c)]
    BY <1>3, <1>14 DEF RecordTransaction, Goto
  <2>2. write'[c] = Due(c)'
    BY <1>4, <1>11, <2>1, SMTT(30) DEF Due
  <2> QED BY <1>12, <2>1, <2>2
<1>15. CASE RecordAudit(c)
  <2>1. /\ pc[c] = "recorded" /\ pc'[c] = "ready"
        /\ write'[c] = [write[c] EXCEPT !.audited = Signed(c)]
    BY <1>3, <1>15 DEF RecordAudit, Goto
  <2>2. req[c].type = "admin"
    BY <1>1, <2>1 DEF Isolated
  <2>3. write'[c] = Due(c)'
    BY <1>4, <1>11, <2>1, <2>2, SMTT(30) DEF Due
  <2> QED BY <1>12, <2>1, <2>3
<1> QED BY <1>8, <1>9, <1>10, <1>13, <1>14, <1>15

LEMMA NextIsolated == IInv /\ [Next]_vars => TransactionsAreIsolated'
<1> SUFFICES ASSUME TypeOK, TransactionsAreIsolated, [Next]_vars
             PROVE  TransactionsAreIsolated'
  BY DEF IInv
<1>1. ASSUME NEW c \in Calls,
             (\E r \in Requests : Submit(c, r)) \/ Connect(c)
      PROVE  TransactionsAreIsolated'
  <2>1. /\ pc'[c] \notin HoldingRow /\ UNCHANGED <<ledgerVars, read, rowLock, write>>
        /\ \A d \in Calls \ {c} : pc'[d] = pc[d] /\ req'[d] = req[d] /\ day'[d] = day[d]
    BY <1>1 DEF Submit, Connect, Goto, TypeOK, HoldingRow, InTransaction
  <2>2. Isolated(c)'
    BY <2>1 DEF Isolated, HoldingRow, InTransaction
  <2> QED BY <2>1, <2>2, StatementIsolated
<1>2. ASSUME NEW c \in Calls, LockRow(c) PROVE TransactionsAreIsolated'
  BY <1>2, LockRowIsolated
<1>3. ASSUME NEW c \in Calls,
             \/ StopAtDailyLimit(c) \/ UpdateAdsProgress(c) \/ UpdateBalance(c)
             \/ ClaimDay(c) \/ RecordTransaction(c) \/ RecordAudit(c)
      PROVE  TransactionsAreIsolated'
  <2>1. /\ UNCHANGED <<ledgerVars, read, rowLock>>
        /\ \A d \in Calls \ {c} : pc'[d] = pc[d] /\ req'[d] = req[d] /\ day'[d] = day[d]
    BY <1>3 DEF StopAtDailyLimit, UpdateAdsProgress, UpdateBalance, SetBalance, ClaimDay,
                RecordTransaction, RecordAudit, Goto, TypeOK
  <2>2. \A d \in Calls \ {c} : write'[d] = write[d]
    BY <1>3, WriteType
  <2>3. Isolated(c)'
    BY <1>3, StatementSelf
  <2> QED BY <2>1, <2>2, <2>3, StatementIsolated
<1>4. ASSUME NEW c \in Calls, Refuse(c) \/ Fault(c) PROVE TransactionsAreIsolated'
  <2>1. Return(c) /\ UNCHANGED <<ledgerVars, req>>
    BY <1>4 DEF Refuse, Fault
  <2> QED BY <2>1, ReturnFrame DEF ledgerVars
<1>5. ASSUME NEW c \in Calls, Commit(c) PROVE TransactionsAreIsolated'
  <2>1. Return(c) /\ req' = req /\ pc[c] = "ready"
    BY <1>5 DEF Commit
  <2>2. rowLock[User(c)] = c
    BY <2>1, IsolatedCalls DEF Isolated, HoldingRow, InTransaction
  <2>3. ASSUME NEW u \in Users, rowLock[u] # c
        PROVE  /\ balance'[u] = balance[u] /\ adsProgress'[u] = adsProgress[u]
               /\ claimedDays'[u] = claimedDays[u]
    BY <1>5, <2>2, <2>3 DEF Commit, PublishRow, TypeOK, LedgerTypeOK
  <2> QED BY <2>1, <2>3, ReturnFrame
<1>6. CASE NewDay \/ UNCHANGED vars
  <2>1. UNCHANGED <<ledgerVars, callVars>>
    BY <1>6 DEF NewDay, vars
  <2> SUFFICES ASSUME NEW d \in Calls PROVE Isolated(d)'
    BY IsolatedCallsNext
  <2>2. Isolated(d)
    BY IsolatedCalls
  <2> QED BY <2>1, <2>2, Frame DEF ledgerVars, callVars
<1> QED BY <1>1, <1>2, <1>3, <1>4, <1>5, <1>6 DEF Next, Step, AllReturned

-----------------------------------------------------------------------------
(* COMMIT is a step of the ledger, one of the five operations, or none when a
   rewarded ad was past its daily limit. *)
LEMMA CommitIsLedgerStep ==
    ASSUME IInv, NEW c \in Calls, Commit(c)
    PROVE  [LedgerNext]_ledgerVars
<1> DEFINE u == User(c)
           ty == req[c].type
           w == write[c]
<1>1. TypeOK /\ Isolated(c) /\ pc[c] = "ready"
  BY IsolatedCalls DEF IInv, Commit
<1>2. /\ u \in Users /\ ty \in Types /\ read[c] \in Row /\ day[c] \in Days
      /\ Amount(c) \in Nat \ {0} /\ Signed(c) \in Int /\ req[c] \in Requests
  BY <1>1, CallFields DEF TypeOK
<1>3. /\ balance' = [balance EXCEPT ![u] = w.balance]
      /\ adsProgress' = [adsProgress EXCEPT ![u] = w.adsProgress]
      /\ generatedImages' = [generatedImages EXCEPT ![u] = @ + w.images]
      /\ audited' = [audited EXCEPT ![u] = @ + w.audited]
      /\ claimedDays' = [claimedDays EXCEPT ![u] = @ \cup w.claimed]
      /\ ledger' = [ledger EXCEPT ![u][ty] = @ + w.posted]
  BY DEF Commit, PublishRow
<1>4. read[c].balance = balance[u] /\ read[c].adsProgress = adsProgress[u]
  BY <1>1 DEF Isolated, HoldingRow, InTransaction
<1>5. /\ balance \in [Users -> Int] /\ adsProgress \in [Users -> {0, 1}]
      /\ generatedImages \in [Users -> Nat] /\ ledger \in [Users -> [Types -> Int]]
      /\ audited \in [Users -> Int] /\ claimedDays \in [Users -> SUBSET Days]
  BY <1>1 DEF TypeOK, LedgerTypeOK
<1>6. \/ LimitReached(c) /\ w = Unwritten(read[c])
      \/ FirstAd(c) /\ ~LimitReached(c) /\ w = [Unwritten(read[c]) EXCEPT !.adsProgress = 1]
      \/ ~LimitReached(c) /\ ~FirstAd(c) /\ NewBalance(c) \in 0..MaxInt /\ w = Due(c)
  BY <1>1 DEF Isolated, HoldingRow, InTransaction
(* Nothing written. *)
<1>7. CASE LimitReached(c) /\ w = Unwritten(read[c])
  <2>1. /\ w.balance = balance[u] /\ w.adsProgress = adsProgress[u]
        /\ w.images = 0 /\ w.posted = 0 /\ w.audited = 0 /\ w.claimed = {}
    BY <1>4, <1>7 DEF Unwritten
  <2>2. /\ generatedImages[u] + 0 = generatedImages[u] /\ audited[u] + 0 = audited[u]
        /\ ledger[u][ty] + 0 = ledger[u][ty]
    BY <1>2, <1>5
  <2> HIDE DEF u, ty, w
  <2>3. ledger' = ledger
    BY <1>2, <1>3, <1>5, <2>1, <2>2
  <2>4. claimedDays' = claimedDays
    BY <1>2, <1>3, <1>5, <2>1
  <2>5. balance' = balance /\ adsProgress' = adsProgress
    BY <1>2, <1>3, <1>5, <2>1
  <2>6. generatedImages' = generatedImages /\ audited' = audited
    BY <1>2, <1>3, <1>5, <2>1, <2>2
  <2> QED BY <2>3, <2>4, <2>5, <2>6 DEF ledgerVars
(* The first ad of a pair. *)
<1>8. CASE FirstAd(c) /\ ~LimitReached(c)
           /\ w = [Unwritten(read[c]) EXCEPT !.adsProgress = 1]
  <2>1. Unwritten(read[c]) = [balance |-> balance[u], adsProgress |-> adsProgress[u],
                              images |-> 0, posted |-> 0, audited |-> 0, claimed |-> {}]
    BY <1>4 DEF Unwritten
  <2>2. /\ w.balance = balance[u] /\ w.adsProgress = 1
        /\ w.images = 0 /\ w.posted = 0 /\ w.audited = 0 /\ w.claimed = {}
    BY <1>8, <2>1
  <2>3. /\ generatedImages[u] + 0 = generatedImages[u] /\ audited[u] + 0 = audited[u]
        /\ ledger[u][ty] + 0 = ledger[u][ty]
    BY <1>2, <1>5
  <2>4. day[c] \notin claimedDays[u] /\ adsProgress[u] = 0
    BY <1>4, <1>8 DEF LimitReached, FirstAd
  <2> HIDE DEF u, ty, w
  <2>5. ledger' = ledger
    BY <1>2, <1>3, <1>5, <2>2, <2>3
  <2>6. claimedDays' = claimedDays
    BY <1>2, <1>3, <1>5, <2>2
  <2>7. balance' = balance /\ adsProgress' = [adsProgress EXCEPT ![u] = 1]
    BY <1>2, <1>3, <1>5, <2>2
  <2>8. generatedImages' = generatedImages /\ audited' = audited
    BY <1>2, <1>3, <1>5, <2>2, <2>3
  <2>9. CountAd(u, day[c])
    BY <2>4, <2>5, <2>6, <2>7, <2>8 DEF CountAd
  <2> QED BY <1>2, <2>9 DEF LedgerNext
(* The three operations that change the balance. *)
<1>9. CASE ~LimitReached(c) /\ ~FirstAd(c) /\ NewBalance(c) \in 0..MaxInt /\ w = Due(c)
  <2>1. /\ w.balance = balance[u] + Signed(c)
        /\ w.adsProgress = IF req[c].fn = "rewardAd" THEN 0 ELSE adsProgress[u]
        /\ w.images = IF ty = "generation" THEN 1 ELSE 0
        /\ w.posted = Signed(c)
        /\ w.audited = IF ty = "admin" THEN Signed(c) ELSE 0
        /\ w.claimed = IF req[c].fn = "rewardAd" THEN {day[c]} ELSE {}
    BY <1>1, <1>4, <1>9 DEF Due, NewBalance
  <2>2. balance[u] + Signed(c) \in 0..MaxInt
    BY <1>4, <1>9 DEF NewBalance
  <2>3. CASE req[c].fn = "addBalance"
    <3>1. ty \in {"refund", "admin"} /\ Amount(c) \in Amounts /\ Signed(c) = Amount(c)
      BY <1>2, <2>3, RequestFields DEF Amount, Signed
    <3> DEFINE n == Amount(c)
    <3> HIDE DEF u, ty, w, n
    <3>2. balance' = [balance EXCEPT ![u] = @ + n] /\ balance[u] + n <= MaxInt
      BY <1>2, <1>3, <1>5, <2>1, <2>2, <3>1, MaxIntAssumption DEF n
    <3>3. adsProgress' = adsProgress
      BY <1>2, <1>3, <1>5, <2>1, <2>3
    <3>4. claimedDays' = claimedDays
      BY <1>2, <1>3, <1>5, <2>1, <2>3
    <3>5. generatedImages' = generatedImages
      <4>1. w.images = 0 /\ generatedImages[u] + 0 = generatedImages[u]
        BY <1>2, <1>5, <2>1, <3>1
      <4> QED BY <1>2, <1>3, <1>5, <4>1
    <3>6. Post(u, n, ty)
      <4>1. ledger' = [ledger EXCEPT ![u][ty] = @ + n]
        BY <1>3, <2>1, <3>1 DEF n
      <4>2. CASE ty = "admin"
        BY <1>3, <2>1, <3>1, <4>1, <4>2 DEF Post, n
      <4>3. CASE ty # "admin"
        <5>1. w.audited = 0 /\ audited[u] + 0 = audited[u]
          BY <1>2, <1>5, <2>1, <4>3
        <5>2. audited' = audited
          BY <1>2, <1>3, <1>5, <5>1
        <5> QED BY <4>1, <4>3, <5>2 DEF Post
      <4> QED BY <4>2, <4>3
    <3>7. Credit(u, n, ty)
      BY <3>2, <3>3, <3>4, <3>5, <3>6 DEF Credit
    <3> QED BY <1>2, <3>1, <3>7 DEF LedgerNext, n
  <2>4. CASE req[c].fn = "deductBalance"
    <3>1. ty \in {"generation", "admin"} /\ Amount(c) \in Amounts /\ Signed(c) = -Amount(c)
      BY <1>2, <2>4, RequestFields DEF Amount, Signed
    <3> DEFINE n == Amount(c)
    <3>a. n \in Nat
      BY <1>2
    <3> HIDE DEF u, ty, w, n
    <3>b. Signed(c) = -n
      BY <3>1 DEF n
    <3>2. balance' = [balance EXCEPT ![u] = @ - n] /\ balance[u] >= n
      <4>1. balance[u] \in Int
        BY <1>2, <1>5
      <4>2. balance[u] + (-n) = balance[u] - n /\ balance[u] - n \in 0..MaxInt
        BY <2>2, <3>a, <3>b, <4>1
      <4>3. balance[u] >= n
        BY <3>a, <4>1, <4>2, MaxIntAssumption
      <4>4. w.balance = balance[u] - n
        BY <2>1, <3>b, <4>2
      <4> QED BY <1>3, <4>3, <4>4
    <3>3. adsProgress' = adsProgress
      BY <1>2, <1>3, <1>5, <2>1, <2>4
    <3>4. claimedDays' = claimedDays
      BY <1>2, <1>3, <1>5, <2>1, <2>4
    <3>5. generatedImages' = IF ty = "generation" THEN [generatedImages EXCEPT ![u] = @ + 1]
                             ELSE generatedImages
      <4>1. CASE ty = "generation"
        BY <1>3, <2>1, <4>1
      <4>2. CASE ty # "generation"
        <5>1. w.images = 0 /\ generatedImages[u] + 0 = generatedImages[u]
          BY <1>2, <1>5, <2>1, <4>2
        <5>2. generatedImages' = generatedImages
          BY <1>2, <1>3, <1>5, <5>1
        <5> QED BY <4>2, <5>2
      <4> QED BY <4>1, <4>2
    <3>6. Post(u, -n, ty)
      <4>1. ledger' = [ledger EXCEPT ![u][ty] = @ + (-n)]
        BY <1>3, <2>1, <3>b
      <4>2. CASE ty = "admin"
        BY <1>3, <2>1, <3>b, <4>1, <4>2 DEF Post
      <4>3. CASE ty # "admin"
        <5>1. w.audited = 0 /\ audited[u] + 0 = audited[u]
          BY <1>2, <1>5, <2>1, <4>3
        <5>2. audited' = audited
          BY <1>2, <1>3, <1>5, <5>1
        <5> QED BY <4>1, <4>3, <5>2 DEF Post
      <4> QED BY <4>2, <4>3
    <3>7. Debit(u, n, ty)
      BY <3>2, <3>3, <3>4, <3>5, <3>6 DEF Debit
    <3> QED BY <1>2, <3>1, <3>7 DEF LedgerNext, n
  <2>5. CASE req[c].fn = "rewardAd"
    <3>1. ty = "reward" /\ Signed(c) = 1
      BY <1>2, <2>5, RequestFields DEF Amount, Signed
    <3>2. day[c] \notin claimedDays[u] /\ adsProgress[u] = 1
      BY <1>2, <1>4, <1>5, <1>9, <2>5 DEF LimitReached, FirstAd
    <3> HIDE DEF u, ty, w
    <3>3. balance' = [balance EXCEPT ![u] = @ + 1] /\ balance[u] + 1 <= MaxInt
      BY <1>2, <1>3, <1>5, <2>1, <2>2, <3>1, MaxIntAssumption
    <3>4. adsProgress' = [adsProgress EXCEPT ![u] = 0]
          /\ claimedDays' = [claimedDays EXCEPT ![u] = @ \cup {day[c]}]
      BY <1>3, <2>1, <2>5
    <3>5. generatedImages' = generatedImages
      <4>1. w.images = 0 /\ generatedImages[u] + 0 = generatedImages[u]
        BY <1>2, <1>5, <2>1, <3>1
      <4> QED BY <1>2, <1>3, <1>5, <4>1
    <3>6. audited' = audited
      <4>1. w.audited = 0 /\ audited[u] + 0 = audited[u]
        BY <1>2, <1>5, <2>1, <3>1
      <4> QED BY <1>2, <1>3, <1>5, <4>1
    <3>7. Post(u, 1, "reward")
      BY <1>3, <2>1, <3>1, <3>6 DEF Post
    <3>8. RewardPair(u, day[c])
      BY <3>2, <3>3, <3>4, <3>5, <3>7 DEF RewardPair
    <3> QED BY <1>2, <3>8 DEF LedgerNext
  <2> QED BY <1>1, <2>3, <2>4, <2>5, CallFields
<1> QED BY <1>6, <1>7, <1>8, <1>9

LEMMA NextIsLedgerStep == IInv /\ [Next]_vars => [LedgerNext]_ledgerVars
<1> SUFFICES ASSUME IInv, [Next]_vars PROVE [LedgerNext]_ledgerVars
  OBVIOUS
<1>1. ASSUME NEW c \in Calls, Commit(c) PROVE [LedgerNext]_ledgerVars
  BY <1>1, CommitIsLedgerStep
<1>2. ASSUME NEW c \in Calls,
             \/ \E r \in Requests : Submit(c, r)
             \/ Connect(c) \/ LockRow(c) \/ StopAtDailyLimit(c) \/ UpdateAdsProgress(c)
             \/ UpdateBalance(c) \/ ClaimDay(c) \/ RecordTransaction(c) \/ RecordAudit(c)
             \/ Refuse(c) \/ Fault(c)
      PROVE UNCHANGED ledgerVars
  BY <1>2 DEF Submit, Connect, LockRow, SelectRow, StopAtDailyLimit, UpdateAdsProgress,
              UpdateBalance, SetBalance, ClaimDay, RecordTransaction, RecordAudit, Refuse, Fault
<1>3. CASE NewDay \/ UNCHANGED vars
  BY <1>3 DEF NewDay, vars
<1> QED BY <1>1, <1>2, <1>3 DEF Next, Step, AllReturned

-----------------------------------------------------------------------------
(* Type correctness of walletService, for any calls, users, pool and
   amounts. *)
THEOREM WalletTypeCorrect == Spec => []TypeOK
<1> QED BY InitType, NextType, PTL DEF Spec

(* Every transaction of walletService is alone with the row it locked and due
   what it wrote, whatever the other calls do and wherever they fail. *)
THEOREM WalletIsolated == Spec => []TransactionsAreIsolated
<1>1. Init => IInv
  BY InitType, InitIsolated DEF IInv
<1>2. IInv /\ [Next]_vars => IInv'
  BY NextType, NextIsolated DEF IInv
<1>3. IInv => TransactionsAreIsolated
  BY DEF IInv
<1> QED BY <1>1, <1>2, <1>3, PTL DEF Spec

(* walletService implements the ledger: each of its steps is a step of
   LedgerSpec or leaves the committed tables alone. *)
THEOREM WalletImplementsLedger == Spec => LedgerSpec
<1>1. Init => LedgerInit
  BY DEF Init
<1>2. Spec => [](TypeOK /\ TransactionsAreIsolated)
  BY WalletTypeCorrect, WalletIsolated, PTL
<1>3. IInv /\ [Next]_vars => [LedgerNext]_ledgerVars
  BY NextIsLedgerStep
<1> QED BY <1>1, <1>2, <1>3, PTL DEF Spec, LedgerSpec, IInv

(* The committed balance is the sum of the ledger, never negative and within
   its column, with one reward a day and every adjustment by an admin
   audited. *)
THEOREM WalletKeepsLedgerInv == Spec => []LedgerInv
<1> QED BY WalletImplementsLedger, LedgerCorrect, PTL

-----------------------------------------------------------------------------
(***************************************************************************)
(* No ad pays twice and none is lost without a cause, for every set of     *)
(* users, transactions and deliveries, finite or not, and any number of    *)
(* faults and crashes.                                                     *)
(*                                                                         *)
(* The inductive invariant says what a claimed id stands for: a delivery   *)
(* that has the reward to give, a reward given, or a loss with a cause.    *)
(***************************************************************************)

(* A delivery names a transaction exactly while it is under way. *)
Sound == \A d \in Deliveries : stage[d] # "idle" <=> tx[d] \in Transactions

(* Whoever has the reward of an id to give, or to release. *)
Claimed(t) == \E d \in Deliveries : stage[d] \in Claimant /\ tx[d] = t

(* An ad that can still be rewarded has not been, but for commits whose answer
   was lost. *)
Countable ==
    \A t \in Transactions :
        /\ doubtful[t] <= counted[t]
        /\ counted[t] <= 1 + doubtful[t]
        /\ t \notin processed \/ Claimed(t) => counted[t] <= doubtful[t]

(* One pair for each time an ad of the user went through rewardAd. *)
Passes(u) ==
    {p \in Transactions \X Nat : Owner[p[1]] = u /\ p[2] < counted[p[1]]}

Earned ==
    \A u \in Users :
        /\ IsFiniteSet(Passes(u)) /\ IsFiniteSet(Payable(u))
        /\ 2 * ledger[u]["reward"] + adsProgress[u] <= Cardinality(Passes(u))

(* An id that is claimed, or has been answered 200, without its reward. *)
Accounted ==
    \A t \in Transactions :
        counted[t] = 0 /\ losable[t] = {} =>
            /\ t \notin acked
            /\ t \in processed => Claimed(t)

AdIInv == AdTypeOK /\ Sound /\ OneClaimant /\ Countable /\ Earned /\ Accounted

USE OwnerAssumption, NoTransactionAssumption, AdBoundsAssumption, LastDayAssumption

LEMMA AdInitIInv == AdInit => AdIInv
  <1> SUFFICES ASSUME AdInit PROVE AdIInv
    OBVIOUS
  <1>1. LedgerTypeOK
    BY OpeningAssumption, MaxIntAssumption DEF AdInit, LedgerInit, LedgerTypeOK
  <1>2. AdTypeOK
    BY <1>1 DEF AdInit, AdTypeOK, Days
  <1>3. Sound /\ OneClaimant /\ Countable /\ Accounted
    BY DEF AdInit, Sound, OneClaimant, Countable, Accounted, Claimed, Claimant
  <1>4. \A u \in Users : Passes(u) = {} /\ Payable(u) = {}
    BY DEF AdInit, Passes, Payable
  <1>5. \A u \in Users : ledger[u]["reward"] = 0 /\ adsProgress[u] = 0
    BY DEF AdInit, LedgerInit, Types
  <1>6. ASSUME NEW u \in Users
        PROVE IsFiniteSet(Passes(u)) /\ IsFiniteSet(Payable(u)) /\ Cardinality(Passes(u)) = 0
    BY <1>4, FS_EmptySet
  <1>7. Earned
    BY <1>5, <1>6 DEF Earned
  <1> QED
    BY <1>2, <1>3, <1>7 DEF AdIInv

-----------------------------------------------------------------------------
(* One ad goes through rewardAd: a credit for two of them, or nothing. *)
LEMMA RewardAdEffect ==
    ASSUME AdTypeOK, NEW u \in Users, RewardAd(u)
    PROVE  /\ LedgerTypeOK'
           /\ \A v \in Users : /\ ledger'[v]["reward"] \in Int /\ adsProgress'[v] \in Int
                              /\ ledger[v]["reward"] \in Int /\ adsProgress[v] \in Int
           /\ \A v \in Users : v # u =>
                 ledger'[v]["reward"] = ledger[v]["reward"] /\ adsProgress'[v] = adsProgress[v]
           /\ 2 * ledger'[u]["reward"] + adsProgress'[u]
                 <= 2 * ledger[u]["reward"] + adsProgress[u] + 1
  <1>0. /\ LedgerTypeOK /\ sqlDate \in Days
        /\ \A v \in Users : ledger[v] \in [Types -> Int] /\ ledger[v]["reward"] \in Int
        /\ \A v \in Users : adsProgress[v] \in {0, 1}
    BY DEF AdTypeOK, LedgerTypeOK, Types
  <1>1. CASE CountAd(u, sqlDate)
    <2>1. LedgerTypeOK' /\ ledger' = ledger
      BY <1>0, <1>1 DEF CountAd, LedgerTypeOK
    <2>2. adsProgress[u] = 0 /\ adsProgress'[u] = 1
          /\ \A v \in Users : v # u => adsProgress'[v] = adsProgress[v]
      BY <1>0, <1>1 DEF CountAd, LedgerTypeOK
    <2> QED
      BY <1>0, <2>1, <2>2
  <1>2. CASE RewardPair(u, sqlDate)
    <2>1. ledger' = [ledger EXCEPT ![u]["reward"] = @ + 1] /\ audited' = audited
      BY <1>2 DEF RewardPair, Post
    <2>2. ledger' \in [Users -> [Types -> Int]]
      BY <1>0, <2>1 DEF LedgerTypeOK, Types
    <2>3. LedgerTypeOK'
      BY <1>0, <1>2, <2>1, <2>2 DEF RewardPair, LedgerTypeOK
    <2>4. /\ ledger'[u]["reward"] = ledger[u]["reward"] + 1
          /\ \A v \in Users : v # u => ledger'[v]["reward"] = ledger[v]["reward"]
      BY <1>0, <2>1 DEF LedgerTypeOK, Types
    <2>5. adsProgress[u] = 1 /\ adsProgress'[u] = 0
          /\ \A v \in Users : v # u => adsProgress'[v] = adsProgress[v]
      BY <1>0, <1>2 DEF RewardPair, LedgerTypeOK
    <2> QED
      BY <1>0, <2>3, <2>4, <2>5
  <1>3. CASE UNCHANGED ledgerVars
    BY <1>0, <1>3 DEF ledgerVars, LedgerTypeOK
  <1> QED
    BY <1>1, <1>2, <1>3 DEF RewardAd

LEMMA LedgerKept ==
    AdTypeOK /\ UNCHANGED ledgerVars => LedgerTypeOK' /\ ledger' = ledger /\ adsProgress' = adsProgress
  BY DEF AdTypeOK, LedgerTypeOK, ledgerVars

(* Types: every action keeps them. *)
LEMMA AdTypeStep == AdIInv /\ [AdNext]_adVars => AdTypeOK'
  <1> SUFFICES ASSUME AdIInv, [AdNext]_adVars PROVE AdTypeOK'
    OBVIOUS
  <1>0. AdTypeOK /\ Sound
    BY DEF AdIInv
  <1> USE <1>0, LedgerKept DEF AdTypeOK, Live, Claimant, historyVars, boundVars, handlerVars
  <1>1. CASE UNCHANGED adVars
    BY <1>1 DEF adVars
  <1>2. CASE Crash
    <2>1. losable' \in [Transactions -> SUBSET Losses]
      BY <1>2 DEF Crash, Losses
    <2> QED
      BY <1>2, <2>1 DEF Crash
  <1>3. CASE NextDay
    BY <1>3 DEF NextDay, Days
  <1>4. ASSUME NEW d \in Deliveries, NEW t \in Transactions, Deliver(d, t) PROVE AdTypeOK'
    BY <1>4 DEF Deliver
  <1>5. ASSUME NEW d \in Deliveries, AdStep(d) \/ Fails(d) PROVE AdTypeOK'
    <2>0. tx[d] \in Transactions /\ Viewer(d) \in Users
      BY <1>5 DEF Viewer, Sound, AdStep, Fails, Claim, Duplicate, Reward, Release, ClaimFails,
           RewardFails, ReleaseFails
    <2>00. ASSUME NEW why \in Losses, MayLose(tx[d], why)
           PROVE  losable' \in [Transactions -> SUBSET Losses]
      BY <2>0, <2>00 DEF MayLose
    <2>000. {"crash", "claim in doubt", "claim not released", "overlap"} \subseteq Losses
      BY DEF Losses
    <2>0000. Faulty \/ AnswerLost => faults' \in 0..MaxFaults /\ UNCHANGED crashes
      BY DEF Faulty, AnswerLost
    <2> USE DEF Move, Respond
    <2>1. CASE Claim(d)
      BY <2>0, <2>1 DEF Claim
    <2>2. CASE Duplicate(d)
      <3>1. losable' \in [Transactions -> SUBSET Losses]
        BY <2>2, <2>00, <2>000 DEF Duplicate
      <3> QED
        BY <2>0, <2>2, <3>1 DEF Duplicate
    <2>3. CASE Reward(d)
      <3>1. LedgerTypeOK'
        BY <2>0, <2>3, RewardAdEffect DEF Reward
      <3> QED
        BY <2>0, <2>3, <3>1 DEF Reward, Count
    <2>4. CASE Release(d)
      BY <2>0, <2>4 DEF Release
    <2>5. CASE ClaimFails(d)
      <3>1. losable' \in [Transactions -> SUBSET Losses] /\ processed' \subseteq Transactions
        BY <2>0, <2>5, <2>00, <2>000 DEF ClaimFails
      <3>2. faults' \in 0..MaxFaults /\ UNCHANGED crashes
        BY <2>5, <2>0000 DEF ClaimFails
      <3> QED
        BY <2>0, <2>5, <3>1, <3>2 DEF ClaimFails
    <2>6. CASE RewardFails(d)
      <3>1. LedgerTypeOK'
        BY <2>0, <2>6, RewardAdEffect DEF RewardFails
      <3>2. /\ counted' \in [Transactions -> Nat] /\ doubtful' \in [Transactions -> Nat]
            /\ faults' \in 0..MaxFaults /\ UNCHANGED crashes
        BY <2>0, <2>6, <2>0000 DEF RewardFails, Count
      <3> QED
        BY <2>0, <2>6, <3>1, <3>2 DEF RewardFails
    <2>7. CASE ReleaseFails(d)
      <3>1. losable' \in [Transactions -> SUBSET Losses]
        BY <2>7, <2>00, <2>000 DEF ReleaseFails
      <3>2. faults' \in 0..MaxFaults /\ UNCHANGED crashes
        BY <2>7, <2>0000 DEF ReleaseFails
      <3> QED
        BY <2>0, <2>7, <3>1, <3>2 DEF ReleaseFails
    <2> QED
      BY <1>5, <2>1, <2>2, <2>3, <2>4, <2>5, <2>6, <2>7 DEF AdStep, Fails
  <1> QED
    BY <1>1, <1>2, <1>3, <1>4, <1>5 DEF AdNext

-----------------------------------------------------------------------------
(* What a step of a delivery does to its id. *)
Untouched(d) == \A e \in Deliveries : e # d => stage'[e] = stage[e] /\ tx'[e] = tx[e]

(* Only tx[d] is touched, and it is rewarded once more at most. *)
OthersKept(d) ==
    \A t \in Transactions : t # tx[d] =>
        /\ counted'[t] = counted[t] /\ doubtful'[t] = doubtful[t]
        /\ t \in processed' <=> t \in processed
        /\ t \in acked' <=> t \in acked
        /\ losable'[t] = losable[t]

LEMMA OneDelivery ==
    ASSUME AdTypeOK, Sound, NEW d \in Deliveries, AdStep(d) \/ Fails(d)
    PROVE  Untouched(d) /\ OthersKept(d) /\ tx[d] \in Transactions
  <1> USE DEF AdTypeOK, Sound, Untouched, OthersKept, Move, Respond, MayLose, Count, historyVars
  <1>1. CASE Claim(d) \/ Release(d)
    BY <1>1 DEF Claim, Release
  <1>2. CASE Duplicate(d) \/ Reward(d)
    BY <1>2 DEF Duplicate, Reward
  <1>3. CASE ClaimFails(d) \/ ReleaseFails(d)
    BY <1>3 DEF ClaimFails, ReleaseFails
  <1>4. CASE RewardFails(d)
    BY <1>4 DEF RewardFails
  <1> QED
    BY <1>1, <1>2, <1>3, <1>4 DEF AdStep, Fails

(* A delivery under way names a transaction. *)
LEMMA SoundStep == AdIInv /\ [AdNext]_adVars => Sound'
  <1> SUFFICES ASSUME AdIInv, [AdNext]_adVars PROVE Sound'
    OBVIOUS
  <1>0. AdTypeOK /\ Sound
    BY DEF AdIInv
  <1> USE DEF Sound
  <1>1. CASE UNCHANGED adVars \/ NextDay
    BY <1>0, <1>1 DEF adVars, handlerVars, NextDay
  <1>2. CASE Crash
    BY <1>2 DEF Crash
  <1>3. ASSUME NEW d \in Deliveries, NEW t \in Transactions, Deliver(d, t) PROVE Sound'
    BY <1>0, <1>3 DEF Deliver, AdTypeOK
  <1>4. ASSUME NEW d \in Deliveries, AdStep(d) \/ Fails(d) PROVE Sound'
    <2>1. Untouched(d) /\ tx[d] \in Transactions
      BY <1>0, <1>4, OneDelivery
    <2>2. \/ stage'[d] = "idle" /\ tx'[d] = NoTransaction
          \/ stage'[d] # "idle" /\ tx'[d] = tx[d]
      BY <1>0, <1>4 DEF AdTypeOK, Move, Respond, AdStep, Fails, Claim, Duplicate, Reward, Release,
           ClaimFails, RewardFails, ReleaseFails
    <2> QED
      BY <1>0, <2>1, <2>2 DEF Untouched
  <1> QED
    BY <1>1, <1>2, <1>3, <1>4 DEF AdNext

(* One claimant for an id: every action keeps it. *)
LEMMA ClaimantStep == AdIInv /\ [AdNext]_adVars => OneClaimant'
  <1> SUFFICES ASSUME AdIInv, [AdNext]_adVars PROVE OneClaimant'
    OBVIOUS
  <1>0. AdTypeOK /\ Sound /\ OneClaimant
    BY DEF AdIInv
  <1> USE DEF OneClaimant, Claimant
  <1>1. CASE UNCHANGED adVars \/ NextDay
    BY <1>0, <1>1 DEF adVars, handlerVars, NextDay
  <1>2. CASE Crash
    BY <1>2 DEF Crash
  <1>3. ASSUME NEW d \in Deliveries, NEW t \in Transactions, Deliver(d, t) PROVE OneClaimant'
    BY <1>0, <1>3 DEF Deliver, AdTypeOK
  <1>4. ASSUME NEW d \in Deliveries, AdStep(d) \/ Fails(d) PROVE OneClaimant'
    <2>0. Untouched(d) /\ OthersKept(d) /\ tx[d] \in Transactions
      BY <1>0, <1>4, OneDelivery
    <2> USE DEF Untouched, Move, Respond, AdTypeOK
    <2>1. CASE Claim(d)
      BY <1>0, <2>0, <2>1 DEF Claim
    <2>2. CASE Duplicate(d) \/ Reward(d)
      BY <1>0, <2>0, <2>2 DEF Duplicate, Reward
    <2>3. CASE Release(d)
      BY <1>0, <2>0, <2>3 DEF Release
    <2>4. CASE ClaimFails(d) \/ ReleaseFails(d)
      BY <1>0, <2>0, <2>4 DEF ClaimFails, ReleaseFails
    <2>5. CASE RewardFails(d)
      BY <1>0, <2>0, <2>5 DEF RewardFails
    <2> QED
      BY <1>4, <2>1, <2>2, <2>3, <2>4, <2>5 DEF AdStep, Fails
  <1> QED
    BY <1>1, <1>2, <1>3, <1>4 DEF AdNext

-----------------------------------------------------------------------------
(* An ad is counted again only where the answer of its commit was lost. *)
LEMMA CountableStep == AdIInv /\ [AdNext]_adVars => Countable'
  <1> SUFFICES ASSUME AdIInv, [AdNext]_adVars PROVE Countable'
    OBVIOUS
  <1>0. AdTypeOK /\ Sound /\ OneClaimant /\ Countable
    BY DEF AdIInv
  <1> USE DEF Claimant
  <1>1. CASE UNCHANGED adVars \/ NextDay
    BY <1>0, <1>1 DEF adVars, handlerVars, historyVars, NextDay, Countable, Claimed
  <1>2. CASE Crash
    BY <1>0, <1>2 DEF Crash, Countable, Claimed
  <1>3. ASSUME NEW d \in Deliveries, NEW t \in Transactions, Deliver(d, t) PROVE Countable'
    BY <1>0, <1>3 DEF Deliver, historyVars, AdTypeOK, Countable, Claimed
  <1>4. ASSUME NEW d \in Deliveries, AdStep(d) \/ Fails(d) PROVE Countable'
    <2>0. Untouched(d) /\ OthersKept(d) /\ tx[d] \in Transactions
      BY <1>0, <1>4, OneDelivery
    <2>1. PICK t \in Transactions : t = tx[d]
      BY <2>0
    <2>2. /\ counted[t] \in Nat /\ doubtful[t] \in Nat
          /\ doubtful[t] <= counted[t] /\ counted[t] <= 1 + doubtful[t]
          /\ t \notin processed \/ Claimed(t) => counted[t] <= doubtful[t]
      BY <1>0 DEF AdTypeOK, Countable
    <2>3. tx'[d] \in {t, NoTransaction} /\ (tx'[d] # t => stage'[d] = "idle")
      BY <1>0, <1>4, <2>1 DEF AdTypeOK, Move, Respond, AdStep, Fails, Claim, Duplicate, Reward,
           Release, ClaimFails, RewardFails, ReleaseFails
    <2>4. \A s \in Transactions : s # t => (Claimed(s)' => Claimed(s))
      BY <2>0, <2>1, <2>3 DEF Untouched, Claimed
    <2>5. \A s \in Transactions : s # t =>
            /\ doubtful'[s] <= counted'[s] /\ counted'[s] <= 1 + doubtful'[s]
            /\ s \notin processed' \/ Claimed(s)' => counted'[s] <= doubtful'[s]
      BY <1>0, <2>0, <2>1, <2>4 DEF OthersKept, Countable
    <2> DEFINE Mine == /\ doubtful'[t] <= counted'[t] /\ counted'[t] <= 1 + doubtful'[t]
                       /\ t \notin processed' \/ Claimed(t)' => counted'[t] <= doubtful'[t]
    <2>6. Mine
      <3> USE DEF AdTypeOK, Move, Respond
      <3>1. CASE Claim(d) \/ Duplicate(d) \/ ClaimFails(d)
        <4>1. /\ counted' = counted /\ doubtful' = doubtful
              /\ t \notin processed' => t \notin processed
              /\ Claimed(t)' => t \notin processed \/ Claimed(t)
          BY <1>0, <2>0, <2>1, <2>3, <3>1
             DEF Claim, Duplicate, ClaimFails, Claimed, Untouched, historyVars
        <4> QED
          BY <2>2, <4>1
      <3>2. CASE Release(d) \/ ReleaseFails(d)
        <4>1. counted' = counted /\ doubtful' = doubtful /\ Claimed(t)
          BY <2>1, <3>2 DEF Release, ReleaseFails, Claimed, historyVars
        <4> QED
          BY <2>2, <4>1
      <3>3. CASE Reward(d)
        <4>1. /\ counted'[t] = counted[t] + 1 /\ doubtful' = doubtful /\ Claimed(t)
              /\ processed' = processed
          BY <1>0, <2>1, <3>3 DEF Reward, Count, Claimed
        <4>2. t \in processed /\ ~Claimed(t)'
          BY <1>0, <2>0, <2>1, <3>3 DEF Reward, OneClaimant, Untouched, Claimed
        <4> QED
          BY <2>2, <4>1, <4>2
      <3>4. CASE RewardFails(d)
        <4>1. Claimed(t)
          BY <2>1, <3>4 DEF RewardFails, Claimed
        <4>2. \/ counted' = counted /\ doubtful' = doubtful
              \/ counted'[t] = counted[t] + 1 /\ doubtful'[t] = doubtful[t] + 1
          BY <1>0, <2>1, <3>4 DEF RewardFails, Count
        <4> QED
          BY <2>2, <4>1, <4>2
      <3> QED
        BY <1>4, <3>1, <3>2, <3>3, <3>4 DEF AdStep, Fails
    <2> HIDE DEF Mine
    <2> QED
      BY <2>5, <2>6 DEF Countable, Mine
  <1> QED
    BY <1>1, <1>2, <1>3, <1>4 DEF AdNext

(* An id answered or claimed without its reward is lost with a cause. *)
LEMMA AccountedStep == AdIInv /\ [AdNext]_adVars => Accounted'
  <1> SUFFICES ASSUME AdIInv, [AdNext]_adVars PROVE Accounted'
    OBVIOUS
  <1>0. AdTypeOK /\ Sound /\ OneClaimant /\ Accounted
    BY DEF AdIInv
  <1> USE DEF Claimant
  <1>1. CASE UNCHANGED adVars \/ NextDay
    BY <1>0, <1>1 DEF adVars, handlerVars, historyVars, NextDay, Accounted, Claimed
  <1>2. CASE Crash
    <2>1. \A t \in Transactions : losable'[t] = {} => losable[t] = {} /\ ~Claimed(t)
      BY <1>0, <1>2 DEF Crash, Claimed, AdTypeOK
    <2> QED
      BY <1>0, <1>2, <2>1 DEF Crash, Accounted
  <1>3. ASSUME NEW d \in Deliveries, NEW t \in Transactions, Deliver(d, t) PROVE Accounted'
    BY <1>0, <1>3 DEF Deliver, historyVars, AdTypeOK, Accounted, Claimed
  <1>4. ASSUME NEW d \in Deliveries, AdStep(d) \/ Fails(d) PROVE Accounted'
    <2>0. Untouched(d) /\ OthersKept(d) /\ tx[d] \in Transactions
      BY <1>0, <1>4, OneDelivery
    <2>1. PICK t \in Transactions : t = tx[d]
      BY <2>0
    <2>2. \A s \in Transactions : s # t => (Claimed(s) => Claimed(s)')
      BY <2>0, <2>1 DEF Untouched, Claimed
    <2>3. \A s \in Transactions : s # t /\ counted'[s] = 0 /\ losable'[s] = {} =>
            s \notin acked' /\ (s \in processed' => Claimed(s)')
      BY <1>0, <2>0, <2>1, <2>2 DEF OthersKept, Accounted
    <2> DEFINE Mine == counted'[t] = 0 /\ losable'[t] = {} =>
                         t \notin acked' /\ (t \in processed' => Claimed(t)')
    <2>4. Mine
      <3>0. counted[t] = 0 /\ losable[t] = {} =>
              t \notin acked /\ (t \in processed => Claimed(t))
        BY <1>0 DEF Accounted
      <3> USE DEF AdTypeOK, Move, Respond
      <3>1. CASE Claim(d)
        <4>1. Claimed(t)' /\ UNCHANGED <<counted, losable, acked>>
          BY <1>0, <2>1, <3>1 DEF Claim, Claimed, historyVars
        <4> QED
          BY <3>0, <4>1
      <3>2. CASE Duplicate(d)
        <4>1. counted' = counted /\ t \in processed
          BY <2>1, <3>2 DEF Duplicate
        <4>2. CASE Claimed(t)
          <5>1. MayLose(t, "overlap")
            BY <2>1, <3>2, <4>2 DEF Duplicate, Claimed
          <5>2. "overlap" \in losable'[t]
            BY <1>0, <5>1 DEF MayLose
          <5> QED
            BY <5>2
        <4>3. CASE ~Claimed(t)
          <5>1. losable' = losable
            BY <2>1, <3>2, <4>3 DEF Duplicate, Claimed
          <5> QED
            BY <3>0, <4>1, <4>3, <5>1
        <4> QED
          BY <4>2, <4>3
      <3>3. CASE Reward(d)
        BY <1>0, <2>1, <3>3 DEF Reward, Count
      <3>4. CASE Release(d)
        <4>1. t \notin processed' /\ UNCHANGED <<counted, losable, acked>>
          BY <2>1, <3>4 DEF Release, historyVars
        <4> QED
          BY <3>0, <4>1
      <3>5. CASE ClaimFails(d)
        <4>1. \/ UNCHANGED <<processed, losable>>
              \/ losable'[t] # {}
          <5>1. UNCHANGED <<processed, losable>> \/ MayLose(t, "claim in doubt")
            BY <2>1, <3>5 DEF ClaimFails
          <5>2. CASE MayLose(t, "claim in doubt")
            <6>1. "claim in doubt" \in losable'[t]
              BY <1>0, <5>2 DEF MayLose
            <6> QED
              BY <6>1
          <5> QED
            BY <5>1, <5>2
        <4>2. UNCHANGED <<counted, acked>>
          BY <3>5 DEF ClaimFails
        <4>3. Claimed(t) => Claimed(t)'
          BY <1>0, <2>0, <2>1, <3>5 DEF ClaimFails, Untouched, Claimed
        <4> QED
          BY <3>0, <4>1, <4>2, <4>3
      <3>6. CASE RewardFails(d)
        <4>1. Claimed(t)' /\ UNCHANGED <<losable, acked>>
          BY <1>0, <2>1, <3>6 DEF RewardFails, Claimed
        <4>2. counted'[t] = 0 => counted[t] = 0
          BY <1>0, <2>1, <3>6 DEF RewardFails, Count
        <4> QED
          BY <3>0, <4>1, <4>2
      <3>7. CASE ReleaseFails(d)
        <4>1. losable'[t] # {}
          BY <1>0, <2>1, <3>7 DEF ReleaseFails, MayLose
        <4> QED
          BY <4>1
      <3> QED
        BY <1>4, <3>1, <3>2, <3>3, <3>4, <3>5, <3>6, <3>7 DEF AdStep, Fails
    <2> HIDE DEF Mine
    <2> QED
      BY <2>3, <2>4 DEF Accounted, Mine
  <1> QED
    BY <1>1, <1>2, <1>3, <1>4 DEF AdNext

-----------------------------------------------------------------------------
(* What was earned.  The pairs change with the counts alone. *)
LEMMA PairsKept ==
    ASSUME NEW u \in Users,
           \A t \in Transactions : Owner[t] = u =>
               counted'[t] = counted[t] /\ doubtful'[t] = doubtful[t]
    PROVE  Passes(u)' = Passes(u) /\ Payable(u)' = Payable(u)
  <1>1. Passes(u)' = Passes(u)
    BY DEF Passes
  <1>2. \A p : p \in Payable(u)' <=> p \in Payable(u)
    BY DEF Payable
  <1> QED
    BY <1>1, <1>2

(* One more pass of an ad is one more pair. *)
LEMMA PairsGrow ==
    ASSUME AdTypeOK, Countable, NEW t \in Transactions, NEW u \in Users, u = Owner[t],
           IsFiniteSet(Passes(u)), IsFiniteSet(Payable(u)),
           counted' = [counted EXCEPT ![t] = @ + 1],
           doubtful' = doubtful \/ doubtful' = [doubtful EXCEPT ![t] = @ + 1]
    PROVE  /\ IsFiniteSet(Passes(u)') /\ IsFiniteSet(Payable(u)')
           /\ Cardinality(Passes(u)') = Cardinality(Passes(u)) + 1
           /\ Cardinality(Passes(u)) \in Nat
  <1>0. counted \in [Transactions -> Nat] /\ doubtful \in [Transactions -> Nat]
        /\ doubtful[t] <= counted[t]
    BY DEF AdTypeOK, Countable
  <1>1. Passes(u)' = Passes(u) \cup {<<t, counted[t]>>} /\ <<t, counted[t]>> \notin Passes(u)
    <2>1. \A p \in Transactions \X Nat :
            p \in Passes(u)' <=> p \in Passes(u) \/ (p[1] = t /\ p[2] = counted[t])
      BY <1>0 DEF Passes
    <2>2. \A p \in Transactions \X Nat :
            p[1] = t /\ p[2] = counted[t] <=> p = <<t, counted[t]>>
      BY <1>0
    <2>3. <<t, counted[t]>> \in Transactions \X Nat
      BY <1>0
    <2>4. Passes(u)' \subseteq Transactions \X Nat /\ Passes(u) \subseteq Transactions \X Nat
      BY DEF Passes
    <2>5. <<t, counted[t]>> \notin Passes(u)
      BY <1>0 DEF Passes
    <2> QED
      BY <2>1, <2>2, <2>3, <2>4, <2>5
  <1>2. /\ IsFiniteSet(Passes(u)')
        /\ Cardinality(Passes(u)') = Cardinality(Passes(u)) + 1
    <2>1. /\ IsFiniteSet(Passes(u) \cup {<<t, counted[t]>>})
          /\ Cardinality(Passes(u) \cup {<<t, counted[t]>>})
               = IF <<t, counted[t]>> \in Passes(u) THEN Cardinality(Passes(u))
                 ELSE Cardinality(Passes(u)) + 1
      BY FS_AddElement
    <2> QED
      BY <1>1, <2>1
  <1>3. IsFiniteSet(Payable(u)')
    <2> DEFINE S == Payable(u) \cup {<<t, 0>>}
               T == S \cup {<<t, doubtful'[t]>>}
    <2>1. IsFiniteSet(S)
      BY FS_AddElement
    <2>2. IsFiniteSet(T)
      <3> HIDE DEF S
      <3> QED
        BY <2>1, FS_AddElement
    <2>3. ASSUME NEW p \in Payable(u)' PROVE p \in T
      <3>1. PICK s \in Transactions : Owner[s] = u /\ counted'[s] > 0 /\ p \in {s} \X (0..doubtful'[s])
        BY <2>3 DEF Payable
      <3>2. PICK n \in 0..doubtful'[s] : p = <<s, n>>
        BY <3>1
      <3>3. CASE s # t
        <4>1. counted[s] > 0 /\ n \in 0..doubtful[s]
          BY <1>0, <3>1, <3>2, <3>3
        <4>2. p \in {s} \X (0..doubtful[s])
          BY <3>2, <4>1
        <4>3. p \in Payable(u)
          BY <3>1, <4>1, <4>2 DEF Payable
        <4> QED
          BY <4>3
      <3>4. CASE s = t /\ n = doubtful'[t]
        BY <3>2, <3>4
      <3>5. CASE s = t /\ n # doubtful'[t]
        <4>1. n \in 0..doubtful[t]
          BY <1>0, <3>2, <3>5
        <4>2. CASE counted[t] = 0
          <5>1. n = 0
            BY <1>0, <4>1, <4>2
          <5> QED
            BY <3>2, <3>5, <5>1
        <4>3. CASE counted[t] # 0
          <5>1. counted[t] > 0 /\ p \in {t} \X (0..doubtful[t])
            BY <1>0, <3>2, <3>5, <4>1, <4>3
          <5>2. p \in Payable(u)
            BY <5>1 DEF Payable
          <5> QED
            BY <5>2
        <4> QED
          BY <4>2, <4>3
      <3> QED
        BY <3>3, <3>4, <3>5
    <2> HIDE DEF T
    <2>4. Payable(u)' \in SUBSET T
      BY <2>3
    <2> QED
      BY <2>2, <2>4, FS_Subset
  <1>4. Cardinality(Passes(u)) \in Nat
    BY FS_CardinalityType
  <1> QED
    BY <1>2, <1>3, <1>4

(* No ad earns what it was not shown for: every action keeps it. *)
LEMMA EarnedStep == AdIInv /\ [AdNext]_adVars => Earned'
  <1> SUFFICES ASSUME AdIInv, [AdNext]_adVars PROVE Earned'
    OBVIOUS
  <1>0. AdTypeOK /\ Sound /\ Countable /\ Earned
    BY DEF AdIInv
  <1>1. ASSUME UNCHANGED <<ledgerVars, counted, doubtful>> PROVE Earned'
    <2>1. \A u \in Users : Passes(u)' = Passes(u) /\ Payable(u)' = Payable(u)
      BY <1>1, PairsKept
    <2>2. ledger' = ledger /\ adsProgress' = adsProgress
      BY <1>1 DEF ledgerVars
    <2> QED
      BY <1>0, <2>1, <2>2 DEF Earned
  <1>2. ASSUME NEW d \in Deliveries, stage[d] # "idle", RewardAd(Viewer(d)), Count(tx[d]),
               doubtful' = doubtful \/ doubtful' = [doubtful EXCEPT ![tx[d]] = @ + 1]
        PROVE  Earned'
    <2>1. PICK t \in Transactions : t = tx[d]
      BY <1>0, <1>2 DEF Sound
    <2>2. PICK u \in Users : u = Owner[t]
      BY <2>1
    <2>3. /\ \A v \in Users : /\ ledger'[v]["reward"] \in Int /\ adsProgress'[v] \in Int
                             /\ ledger[v]["reward"] \in Int /\ adsProgress[v] \in Int
          /\ \A v \in Users : v # u =>
                ledger'[v]["reward"] = ledger[v]["reward"] /\ adsProgress'[v] = adsProgress[v]
          /\ 2 * ledger'[u]["reward"] + adsProgress'[u]
                <= 2 * ledger[u]["reward"] + adsProgress[u] + 1
      BY <1>0, <1>2, <2>1, <2>2, RewardAdEffect DEF Viewer
    <2>4. /\ IsFiniteSet(Passes(u)') /\ IsFiniteSet(Payable(u)')
          /\ Cardinality(Passes(u)') = Cardinality(Passes(u)) + 1
          /\ Cardinality(Passes(u)) \in Nat
      <3>1. IsFiniteSet(Passes(u)) /\ IsFiniteSet(Payable(u))
        BY <1>0 DEF Earned
      <3>2. counted' = [counted EXCEPT ![t] = @ + 1]
        BY <1>2, <2>1 DEF Count
      <3>3. doubtful' = doubtful \/ doubtful' = [doubtful EXCEPT ![t] = @ + 1]
        BY <1>2, <2>1
      <3> QED
        BY <1>0, <2>2, <3>1, <3>2, <3>3, PairsGrow
    <2>5. \A v \in Users : v # u => Passes(v)' = Passes(v) /\ Payable(v)' = Payable(v)
      <3>1. \A s \in Transactions : s # t => counted'[s] = counted[s] /\ doubtful'[s] = doubtful[s]
        BY <1>0, <1>2, <2>1 DEF Count, AdTypeOK
      <3> QED
        BY <2>2, <3>1, PairsKept
    <2>6. \A v \in Users : /\ IsFiniteSet(Passes(v)) /\ IsFiniteSet(Payable(v))
                           /\ 2 * ledger[v]["reward"] + adsProgress[v] <= Cardinality(Passes(v))
      BY <1>0 DEF Earned
    <2>7. 2 * ledger'[u]["reward"] + adsProgress'[u] <= Cardinality(Passes(u)')
      BY <2>3, <2>4, <2>6
    <2> QED
      BY <2>3, <2>4, <2>5, <2>6, <2>7 DEF Earned
  <1>3. CASE UNCHANGED adVars \/ NextDay \/ Crash
    BY <1>1, <1>3 DEF adVars, historyVars, NextDay, Crash
  <1>4. ASSUME NEW d \in Deliveries, NEW t \in Transactions, Deliver(d, t) PROVE Earned'
    BY <1>1, <1>4 DEF Deliver, historyVars
  <1>5. ASSUME NEW d \in Deliveries, AdStep(d) \/ Fails(d) PROVE Earned'
    <2>1. CASE Claim(d) \/ Duplicate(d) \/ Release(d) \/ ClaimFails(d) \/ ReleaseFails(d)
      BY <1>1, <2>1 DEF Claim, Duplicate, Release, ClaimFails, ReleaseFails, historyVars
    <2>2. CASE Reward(d)
      BY <1>2, <2>2 DEF Reward
    <2>3. CASE RewardFails(d)
      BY <1>1, <1>2, <2>3 DEF RewardFails
    <2> QED
      BY <1>5, <2>1, <2>2, <2>3 DEF AdStep, Fails
  <1> QED
    BY <1>3, <1>4, <1>5 DEF AdNext

(* Each pass of an ad but one had its answer lost. *)
LEMMA PassesArePayable ==
    ASSUME AdIInv, NEW u \in Users
    PROVE  Cardinality(Passes(u)) <= Cardinality(Payable(u))
  <1>1. ASSUME NEW p \in Passes(u) PROVE p \in Payable(u)
    <2>1. PICK t \in Transactions, n \in Nat : p = <<t, n>> /\ Owner[t] = u /\ n < counted[t]
      BY <1>1 DEF Passes
    <2>2. /\ counted[t] \in Nat /\ doubtful[t] \in Nat /\ counted[t] <= 1 + doubtful[t]
      BY DEF AdIInv, AdTypeOK, Countable
    <2>3. counted[t] > 0 /\ p \in {t} \X (0..doubtful[t])
      BY <2>1, <2>2
    <2> QED
      BY <2>1, <2>3 DEF Payable
  <1>2. Passes(u) \in SUBSET Payable(u) /\ IsFiniteSet(Payable(u))
    BY <1>1 DEF AdIInv, Earned
  <1> QED
    BY <1>2, FS_Subset

-----------------------------------------------------------------------------
LEMMA AdIInvAlways == AdSpec => []AdIInv
  <1>1. AdIInv /\ [AdNext]_adVars => AdIInv'
    BY AdTypeStep, SoundStep, ClaimantStep, CountableStep, EarnedStep, AccountedStep DEF AdIInv
  <1> QED
    BY AdInitIInv, <1>1, PTL DEF AdSpec

(* Of any number of deliveries of one transaction one at most has the reward to
   give, and the id is claimed while it does (verifyRewardedAd). *)
THEOREM OneClaimantEach == AdSpec => []StateOK
  <1>1. AdIInv => StateOK
    BY DEF AdIInv, StateOK
  <1> QED
    BY AdIInvAlways, <1>1, PTL

(* No ad pays twice but for commits whose answer was lost, no user earns more
   than the ads shown, and a transaction answered 200 without its reward was
   lost to one of the four accidents, however AdMob repeats and overlaps its
   callbacks (verifyRewardedAd). *)
THEOREM AdsAccountedFor == AdSpec => []AdsAreAccountedFor
  <1>1. AdIInv => AdsAreAccountedFor
    <2> SUFFICES ASSUME AdIInv PROVE AdsAreAccountedFor
      OBVIOUS
    <2>1. CountedAtMostOnce
      BY DEF AdIInv, Countable, CountedAtMostOnce
    <2>2. EarnedByDistinctAds
      <3> SUFFICES ASSUME NEW u \in Users
                   PROVE  2 * ledger[u]["reward"] + adsProgress[u] <= Cardinality(Payable(u))
        BY DEF EarnedByDistinctAds
      <3>1. /\ 2 * ledger[u]["reward"] + adsProgress[u] <= Cardinality(Passes(u))
            /\ IsFiniteSet(Passes(u)) /\ IsFiniteSet(Payable(u))
        BY DEF AdIInv, Earned
      <3>2. ledger[u]["reward"] \in Int /\ adsProgress[u] \in Int
        BY DEF AdIInv, AdTypeOK, LedgerTypeOK, Types
      <3>3. Cardinality(Passes(u)) \in Nat /\ Cardinality(Payable(u)) \in Nat
        BY <3>1, FS_CardinalityType
      <3> QED
        BY <3>1, <3>2, <3>3, PassesArePayable
    <2>3. LossesHaveACause
      BY DEF AdIInv, Accounted, LossesHaveACause
    <2> QED
      BY <2>1, <2>2, <2>3 DEF AdsAreAccountedFor, RewardedOnce
  <1> QED
    BY AdIInvAlways, <1>1, PTL

LEMMA AdIsLedgerStep == AdIInv /\ [AdNext]_adVars => [LedgerNext]_ledgerVars
  <1> SUFFICES ASSUME AdIInv, [AdNext]_adVars PROVE [LedgerNext]_ledgerVars
    OBVIOUS
  <1>1. ASSUME NEW d \in Deliveries, stage[d] # "idle", RewardAd(Viewer(d))
        PROVE  [LedgerNext]_ledgerVars
    <2>1. PICK u \in Users : u = Viewer(d)
      BY <1>1 DEF AdIInv, Sound, Viewer
    <2>2. sqlDate \in Days
      BY DEF AdIInv, AdTypeOK
    <2> QED
      BY <1>1, <2>1, <2>2 DEF RewardAd, LedgerNext
  <1>2. ASSUME NEW d \in Deliveries, AdStep(d) \/ Fails(d)
        PROVE  UNCHANGED ledgerVars \/ (stage[d] # "idle" /\ RewardAd(Viewer(d)))
    BY <1>2 DEF AdStep, Fails, Claim, Duplicate, Reward, Release, ClaimFails, RewardFails,
                ReleaseFails
  <1>3. ASSUME NEW d \in Deliveries, NEW t \in Transactions, Deliver(d, t)
        PROVE  UNCHANGED ledgerVars
    BY <1>3 DEF Deliver
  <1>4. CASE Crash \/ NextDay \/ UNCHANGED adVars
    BY <1>4 DEF Crash, NextDay, adVars
  <1> QED
    BY <1>1, <1>2, <1>3, <1>4 DEF AdNext

(* However AdMob repeats and overlaps its callbacks, and wherever they fail or
   die, credits move by steps of the ledger only: an ad counted or a pair
   rewarded (verifyRewardedAd, rewardAd). *)
THEOREM AdsMoveTheLedger == AdSpec => LedgerSpec
  <1>1. AdInit => LedgerInit
    BY DEF AdInit
  <1> QED
    BY AdIInvAlways, AdIsLedgerStep, <1>1, PTL DEF AdSpec, LedgerSpec

(* Balances stay the sum of the ledger and solvent, and no day has two
   rewards, under any sequence of callbacks (verifyRewardedAd). *)
THEOREM AdsKeepLedgerInv == AdSpec => []LedgerInv
  <1> QED
    BY AdsMoveTheLedger, LedgerCorrect, PTL
=============================================================================
