------------------------------- MODULE Wallet -------------------------------
(***************************************************************************)
(* walletService over the connection pool: every call takes a client of    *)
(* the pool, opens a transaction, locks the user's row and issues its      *)
(* statements one by one; other calls run between any two of them.         *)
(*                                                                         *)
(* The variables of Ledger hold what is committed.  What a transaction has *)
(* written and not committed is in write, visible to nobody else.          *)
(***************************************************************************)
EXTENDS Ledger

CONSTANTS
    Calls,     \* invocations of addBalance, deductBalance and rewardAd
    PoolMax,   \* DB_POOL_MAX
    NoCall     \* no transaction holds the row

ASSUME PoolAssumption == PoolMax \in Nat \ {0}
ASSUME NoCallAssumption == NoCall \notin Calls
ASSUME UsersAssumption == Users # {}

VARIABLES
    pc,        \* how far each call is
    req,       \* what each call was asked to do
    day,       \* CURRENT_DATE of each call's transaction
    read,      \* what each call's SELECT ... FOR UPDATE returned
    write,     \* what each call's transaction has written so far
    rowLock,   \* the call whose transaction holds the lock on a user's row
    today      \* the database's date

callVars == <<pc, req, day, read, write, rowLock>>
vars == <<ledgerVars, callVars, today>>

(* The calls the code makes: only an adjustment by an admin has an actor, and
   only a generation is charged by anyone else. *)
Requests ==
    [fn : {"addBalance"}, type : {"refund", "admin"}, user : Users, amount : Amounts]
    \cup [fn : {"deductBalance"}, type : {"generation", "admin"}, user : Users,
          amount : Amounts]
    \cup [fn : {"rewardAd"}, type : {"reward"}, user : Users, amount : {1}]

(* The row of users as SELECTed, and the changes of one open transaction: new
   values of balance and adsProgress, the increment of generatedImages, the
   amounts posted to the two ledgers, the days claimed. *)
Row == [balance : Int, adsProgress : {0, 1}]
Writes == [balance : Int, adsProgress : {0, 1}, images : {0, 1}, posted : Int,
           audited : Int, claimed : SUBSET Days]

Unwritten(row) ==
    [balance |-> row.balance, adsProgress |-> row.adsProgress, images |-> 0,
     posted |-> 0, audited |-> 0, claimed |-> {}]

NoRow == [balance |-> 0, adsProgress |-> 0]

InTransaction == {"begun", "locked", "updated", "claimed", "recorded", "ready"}
HoldingRow == InTransaction \ {"begun"}

TypeOK ==
    /\ LedgerTypeOK
    /\ pc \in [Calls -> {"idle", "queued"} \cup InTransaction \cup {"returned"}]
    /\ req \in [Calls -> Requests]
    /\ day \in [Calls -> Days]
    /\ read \in [Calls -> Row]
    /\ write \in [Calls -> Writes]
    /\ rowLock \in [Users -> Calls \cup {NoCall}]
    /\ today \in Days

Init ==
    /\ LedgerInit
    /\ pc = [c \in Calls |-> "idle"]
    /\ req = [c \in Calls |-> CHOOSE r \in Requests : TRUE]
    /\ day = [c \in Calls |-> 1]
    /\ read = [c \in Calls |-> NoRow]
    /\ write = [c \in Calls |-> Unwritten(NoRow)]
    /\ today = 1
    /\ rowLock = [u \in Users |-> NoCall]

-----------------------------------------------------------------------------
User(c) == req[c].user
Amount(c) == req[c].amount

(* The amount of the ledger row: negative for a deduction. *)
Signed(c) == IF req[c].fn = "deductBalance" THEN -Amount(c) ELSE Amount(c)

(* The balance a call means to write. *)
NewBalance(c) == read[c].balance + Signed(c)

(* SELECT ... FROM daily_rewards WHERE reward_date = CURRENT_DATE. *)
LimitReached(c) == req[c].fn = "rewardAd" /\ day[c] \in claimedDays[User(c)]
FirstAd(c) == req[c].fn = "rewardAd" /\ read[c].adsProgress = 0

Goto(c, l) == pc' = [pc EXCEPT ![c] = l]

(* A controller calls the service. *)
Submit(c, r) ==
    /\ pc[c] = "idle"
    /\ req' = [req EXCEPT ![c] = r]
    /\ Goto(c, "queued")
    /\ UNCHANGED <<ledgerVars, day, read, write, rowLock, today>>

(* db.pool.connect() and BEGIN: a client of the pool is free, and the
   transaction's CURRENT_DATE is fixed from here on. *)
Connect(c) ==
    /\ pc[c] = "queued"
    /\ Cardinality({x \in Calls : pc[x] \in InTransaction}) < PoolMax
    /\ day' = [day EXCEPT ![c] = today]
    /\ Goto(c, "begun")
    /\ UNCHANGED <<ledgerVars, req, read, write, rowLock, today>>

(* SELECT balance, ads_progress: the row as committed. *)
SelectRow(c) ==
    LET row == [balance |-> balance[User(c)], adsProgress |-> adsProgress[User(c)]]
    IN  /\ read' = [read EXCEPT ![c] = row]
        /\ write' = [write EXCEPT ![c] = Unwritten(row)]
        /\ Goto(c, "locked")
        /\ UNCHANGED <<ledgerVars, req, day, today>>

(* FOR UPDATE forgotten: nobody waits for anybody. *)
LockRowForgotten(c) ==
    /\ pc[c] = "begun"
    /\ rowLock' = rowLock
    /\ SelectRow(c)

(* SELECT ... FOR UPDATE waits for the transaction that holds the row. *)
LockRow(c) ==
    /\ pc[c] = "begun"
    /\ rowLock[User(c)] = NoCall
    /\ rowLock' = [rowLock EXCEPT ![User(c)] = c]
    /\ SelectRow(c)

(* rewardAd finds today's daily_rewards row: it commits having written
   nothing. *)
StopAtDailyLimit(c) ==
    /\ pc[c] = "locked"
    /\ LimitReached(c)
    /\ Goto(c, "ready")
    /\ UNCHANGED <<ledgerVars, req, day, read, write, rowLock, today>>

(* UPDATE users SET ads_progress, the first ad of a pair. *)
UpdateAdsProgress(c) ==
    /\ pc[c] = "locked"
    /\ FirstAd(c)
    /\ ~LimitReached(c)
    /\ write' = [write EXCEPT ![c].adsProgress = 1]
    /\ Goto(c, "ready")
    /\ UNCHANGED <<ledgerVars, req, day, read, rowLock, today>>

(* UPDATE users SET balance, an absolute value computed from the row read
   under the lock; generated_images with it for a generation charge,
   ads_progress for the second ad. *)
SetBalance(c, ads) ==
    /\ pc[c] = "locked"
    /\ ~LimitReached(c) /\ ~FirstAd(c)
    /\ write' = [write EXCEPT ![c] =
                    [balance |-> NewBalance(c),
                     adsProgress |-> IF req[c].fn = "rewardAd" THEN ads
                                     ELSE read[c].adsProgress,
                     images |-> IF req[c].type = "generation" THEN 1 ELSE 0,
                     posted |-> 0, audited |-> 0, claimed |-> {}]]
    /\ Goto(c, "updated")
    /\ UNCHANGED <<ledgerVars, req, day, read, rowLock, today>>

(* adsProgress++ stored and not reset with the reward. *)
UpdateBalanceKeepingAds(c) ==
    /\ NewBalance(c) \in 0..MaxInt
    /\ SetBalance(c, read[c].adsProgress + 1)

UpdateBalance(c) ==
    /\ NewBalance(c) \in 0..MaxInt
    /\ SetBalance(c, 0)

(* INSERT INTO daily_rewards ... ON CONFLICT DO UPDATE. *)
ClaimDay(c) ==
    /\ pc[c] = "updated"
    /\ req[c].fn = "rewardAd"
    /\ write' = [write EXCEPT ![c].claimed = {day[c]}]
    /\ Goto(c, "claimed")
    /\ UNCHANGED <<ledgerVars, req, day, read, rowLock, today>>

(* recordTransaction, on the same client. *)
RecordTransaction(c) ==
    /\ pc[c] = IF req[c].fn = "rewardAd" THEN "claimed" ELSE "updated"
    /\ write' = [write EXCEPT ![c].posted = Signed(c)]
    /\ Goto(c, IF req[c].type = "admin" THEN "recorded" ELSE "ready")
    /\ UNCHANGED <<ledgerVars, req, day, read, rowLock, today>>

(* recordAdminBalanceAudit, on the same client. *)
RecordAudit(c) ==
    /\ pc[c] = "recorded"
    /\ write' = [write EXCEPT ![c].audited = Signed(c)]
    /\ Goto(c, "ready")
    /\ UNCHANGED <<ledgerVars, req, day, read, rowLock, today>>

-----------------------------------------------------------------------------
(* The end of a transaction: its lock is gone, and so are its local values. *)
Return(c) ==
    /\ Goto(c, "returned")
    /\ rowLock' = [u \in Users |-> IF rowLock[u] = c THEN NoCall ELSE rowLock[u]]
    /\ day' = [day EXCEPT ![c] = 1]
    /\ read' = [read EXCEPT ![c] = NoRow]
    /\ write' = [write EXCEPT ![c] = Unwritten(NoRow)]

(* What COMMIT makes visible, the ledger row apart. *)
PublishRow(c) ==
    LET u == User(c)
        w == write[c]
    IN  /\ balance' = [balance EXCEPT ![u] = w.balance]
        /\ adsProgress' = [adsProgress EXCEPT ![u] = w.adsProgress]
        /\ generatedImages' = [generatedImages EXCEPT ![u] = @ + w.images]
        /\ audited' = [audited EXCEPT ![u] = @ + w.audited]
        /\ claimedDays' = [claimedDays EXCEPT ![u] = @ \cup w.claimed]

(* recordTransaction on a connection of its own, lost when that one fails. *)
CommitWithoutLedger(c) ==
    /\ pc[c] = "ready"
    /\ PublishRow(c)
    /\ Return(c)
    /\ UNCHANGED <<ledger, req, today>>

(* COMMIT.  Whether the caller hears of it is a question for the caller's
   model: a transaction whose COMMIT took effect and whose answer was lost
   looks to it like a Fault. *)
Commit(c) ==
    /\ pc[c] = "ready"
    /\ PublishRow(c)
    /\ ledger' = [ledger EXCEPT ![User(c)][req[c].type] = @ + write[c].posted]
    /\ Return(c)
    /\ UNCHANGED <<req, today>>

(* "Insufficient balance", or an UPDATE the INTEGER column refuses: ROLLBACK. *)
Refuse(c) ==
    /\ pc[c] = "locked"
    /\ ~LimitReached(c) /\ ~FirstAd(c)
    /\ NewBalance(c) \notin 0..MaxInt
    /\ Return(c)
    /\ UNCHANGED <<ledgerVars, req, today>>

(* The ROLLBACK in the catch block forgotten: the client goes back to the pool
   with its transaction open. *)
FaultWithoutRollback(c) ==
    /\ pc[c] \in {"queued"} \cup InTransaction
    /\ rowLock' = rowLock
    /\ Goto(c, "returned")
    /\ UNCHANGED <<ledgerVars, req, day, read, write, today>>

(* Any statement fails (statement_timeout, a lock wait too long, the audit
   insert, a lost connection, the process itself): ROLLBACK.  Before a client
   was free: connectionTimeoutMillis. *)
Fault(c) ==
    /\ pc[c] \in {"queued"} \cup InTransaction
    /\ Return(c)
    /\ UNCHANGED <<ledgerVars, req, today>>

NewDay ==
    /\ today < LastDay
    /\ today' = today + 1
    /\ UNCHANGED <<ledgerVars, callVars>>

AllReturned ==
    /\ \A c \in Calls : pc[c] = "returned"
    /\ UNCHANGED vars

Step(c) ==
    \/ Connect(c) \/ LockRow(c) \/ StopAtDailyLimit(c) \/ UpdateAdsProgress(c)
    \/ UpdateBalance(c) \/ ClaimDay(c) \/ RecordTransaction(c) \/ RecordAudit(c)
    \/ Refuse(c) \/ Commit(c)

Next ==
    \/ \E c \in Calls :
        \/ \E r \in Requests : Submit(c, r)
        \/ Step(c)
        \/ Fault(c)
    \/ NewDay
    \/ AllReturned

(* Node keeps running the continuation of every call and Postgres answers the
   statements it is sent: a call that can go on does.  Nothing is assumed
   about the order in which waiters get a client or a row, and no fault, no
   statement_timeout in particular, ever needs to happen. *)
Fairness == \A c \in Calls : WF_vars(Step(c))

Spec == Init /\ [][Next]_vars /\ Fairness

-----------------------------------------------------------------------------
(* A call returns, whatever other calls hold: there is no cycle of waits
   through the pool of clients and the row locks, no client and no lock is
   kept by a call that has returned. *)
EveryCallReturns == \A c \in Calls : (pc[c] = "queued") ~> (pc[c] = "returned")

(* Every call past its SELECT ... FOR UPDATE works on the row as committed, so
   that the absolute balance it writes is still the right one when it
   commits. *)
ReadsAreCurrent ==
    \A c \in Calls : pc[c] \in HoldingRow =>
        /\ rowLock[User(c)] = c
        /\ read[c] = [balance |-> balance[User(c)], adsProgress |-> adsProgress[User(c)]]

(* What an UPDATE of users and the INSERTs that follow it have written so far. *)
Due(c) ==
    [balance |-> NewBalance(c),
     adsProgress |-> IF req[c].fn = "rewardAd" THEN 0 ELSE read[c].adsProgress,
     images |-> IF req[c].type = "generation" THEN 1 ELSE 0,
     posted |-> IF pc[c] \in {"recorded", "ready"} THEN Signed(c) ELSE 0,
     audited |-> IF pc[c] = "ready" /\ req[c].type = "admin" THEN Signed(c) ELSE 0,
     claimed |-> IF pc[c] # "updated" /\ req[c].fn = "rewardAd" THEN {day[c]} ELSE {}]

(* At COMMIT a transaction has written everything its call stands for, and
   nothing else: the ledger row with every change of the balance, the audit
   row with every adjustment by an admin, the day with every reward. *)
WritesAreDue ==
    \A c \in Calls :
        /\ pc[c] = "locked" => write[c] = Unwritten(read[c])
        /\ pc[c] = "claimed" => req[c].fn = "rewardAd"
        /\ pc[c] = "recorded" => req[c].type = "admin"
        /\ pc[c] \in HoldingRow \ {"locked"} =>
              \/ /\ pc[c] = "ready" /\ LimitReached(c)
                 /\ write[c] = Unwritten(read[c])
              \/ /\ pc[c] = "ready" /\ FirstAd(c) /\ ~LimitReached(c)
                 /\ write[c] = [Unwritten(read[c]) EXCEPT !.adsProgress = 1]
              \/ /\ ~LimitReached(c) /\ ~FirstAd(c) /\ NewBalance(c) \in 0..MaxInt
                 /\ write[c] = Due(c)

(* A transaction is alone with the row it locked and due what it wrote: why
   the committed balance stays the sum of the ledger. *)
TransactionsAreIsolated == ReadsAreCurrent /\ WritesAreDue
=============================================================================
