------------------------------- MODULE Ledger -------------------------------
(***************************************************************************)
(* What the wallet promises its callers: every credit, every charge and    *)
(* every rewarded ad takes effect at once, on the balance, on the          *)
(* wallet_transactions ledger and on the tables that go with them.         *)
(*                                                                         *)
(* Wallet.tla is the code that keeps this promise, SQL statement by SQL    *)
(* statement; Generation.tla and AdReward.tla are callers that rely on it. *)
(*                                                                         *)
(* Only sums of the ledger are kept: ledger[u][ty] is the total of the     *)
(* committed wallet_transactions rows of user u and type ty since the      *)
(* start, audited[u] the total the committed admin_audit_log rows of the   *)
(* balance adjustments report.                                             *)
(***************************************************************************)
EXTENDS Integers, FiniteSets

CONSTANTS
    Users,     \* users.id
    LastDay,   \* bound: CURRENT_DATE runs from day 1 to LastDay
    Amounts,   \* the amounts callers pass (validateAmount: positive integers)
    MaxInt,    \* the largest value of the INTEGER column users.balance
    Opening    \* the balance of each user at the start

ASSUME LastDayAssumption == LastDay \in Nat \ {0}
ASSUME AmountsAssumption == Amounts \subseteq Nat \ {0}
ASSUME MaxIntAssumption == MaxInt \in Nat
ASSUME OpeningAssumption == Opening \in [Users -> 0..MaxInt]

VARIABLES
    balance,          \* users.balance
    adsProgress,      \* users.ads_progress
    generatedImages,  \* users.generated_images
    ledger,           \* totals of wallet_transactions by user and type
    audited,          \* totals of the balance adjustments in admin_audit_log
    claimedDays       \* reward_date of the daily_rewards rows of each user

ledgerVars ==
    <<balance, adsProgress, generatedImages, ledger, audited, claimedDays>>

Days == 1..LastDay

\* "purchase" is allowed by the schema and written by no code.
Types == {"reward", "generation", "refund", "admin"}

LedgerTypeOK ==
    /\ balance \in [Users -> Int]
    /\ adsProgress \in [Users -> {0, 1}]
    /\ generatedImages \in [Users -> Nat]
    /\ ledger \in [Users -> [Types -> Int]]
    /\ audited \in [Users -> Int]
    /\ claimedDays \in [Users -> SUBSET Days]

LedgerInit ==
    /\ balance = Opening
    /\ adsProgress \in [Users -> {0, 1}]
    /\ generatedImages = [u \in Users |-> 0]
    /\ ledger = [u \in Users |-> [ty \in Types |-> 0]]
    /\ audited = [u \in Users |-> 0]
    /\ claimedDays = [u \in Users |-> {}]

-----------------------------------------------------------------------------
(* One ledger row of n credits, positive or negative, and its audit row when
   an admin is the actor. *)
Post(u, n, ty) ==
    /\ ledger' = [ledger EXCEPT ![u][ty] = @ + n]
    /\ audited' = IF ty = "admin" THEN [audited EXCEPT ![u] = @ + n] ELSE audited

(* addBalance: refunds and upward adjustments by an admin. *)
Credit(u, n, ty) ==
    /\ balance[u] + n <= MaxInt
    /\ balance' = [balance EXCEPT ![u] = @ + n]
    /\ Post(u, n, ty)
    /\ UNCHANGED <<adsProgress, generatedImages, claimedDays>>

(* deductBalance: generation charges and downward adjustments by an admin. *)
Debit(u, n, ty) ==
    /\ balance[u] >= n
    /\ balance' = [balance EXCEPT ![u] = @ - n]
    /\ generatedImages' = IF ty = "generation"
                          THEN [generatedImages EXCEPT ![u] = @ + 1]
                          ELSE generatedImages
    /\ Post(u, -n, ty)
    /\ UNCHANGED <<adsProgress, claimedDays>>

(* rewardAd, first ad of a pair. *)
CountAd(u, d) ==
    /\ d \notin claimedDays[u]
    /\ adsProgress[u] = 0
    /\ adsProgress' = [adsProgress EXCEPT ![u] = 1]
    /\ UNCHANGED <<balance, generatedImages, ledger, audited, claimedDays>>

(* rewardAd, second ad of a pair: one credit, at most once a day. *)
RewardPair(u, d) ==
    /\ d \notin claimedDays[u]
    /\ adsProgress[u] = 1
    /\ balance[u] + 1 <= MaxInt
    /\ balance' = [balance EXCEPT ![u] = @ + 1]
    /\ adsProgress' = [adsProgress EXCEPT ![u] = 0]
    /\ claimedDays' = [claimedDays EXCEPT ![u] = @ \cup {d}]
    /\ Post(u, 1, "reward")
    /\ UNCHANGED generatedImages

LedgerNext ==
    \E u \in Users :
        \/ \E n \in Amounts, ty \in {"refund", "admin"} : Credit(u, n, ty)
        \/ \E n \in Amounts, ty \in {"generation", "admin"} : Debit(u, n, ty)
        \/ \E d \in Days : CountAd(u, d) \/ RewardPair(u, d)

(* The promise. Wallet.tla is checked and proved to implement it: each
   committed transaction of walletService is one of these steps, and nothing
   else the service does shows outside its transactions. *)
LedgerSpec == LedgerInit /\ [][LedgerNext]_ledgerVars

-----------------------------------------------------------------------------
(* The balance column agrees with the ledger: what walletService writes to
   users.balance is the opening balance plus every committed
   wallet_transactions row. A lost update, or a balance written without its
   row, breaks it. *)
LedgerMatchesBalance ==
    \A u \in Users :
        balance[u] = Opening[u] + ledger[u]["reward"] + ledger[u]["generation"]
                     + ledger[u]["refund"] + ledger[u]["admin"]

(* No sequence of charges, however they overlap, takes a balance below zero
   (the CHECK constraint of the column is not what keeps it so), and no credit
   takes it past the column's width. *)
Solvent == \A u \in Users : balance[u] \in 0..MaxInt

(* rewardAd grants one credit for each daily_rewards row and never two for
   one day, whatever callbacks overlap. *)
OneRewardPerDay ==
    \A u \in Users : ledger[u]["reward"] = Cardinality(claimedDays[u])

(* The fail-closed half of the audit: no admin moves credits without the same
   amount standing in admin_audit_log. *)
AdminCreditsAudited == \A u \in Users : audited[u] = ledger[u]["admin"]

LedgerInv ==
    /\ LedgerMatchesBalance
    /\ Solvent
    /\ OneRewardPerDay
    /\ AdminCreditsAudited
=============================================================================
