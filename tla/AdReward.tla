------------------------------ MODULE AdReward ------------------------------
(***************************************************************************)
(* AdMob's server-side verification callbacks, handled by                  *)
(* walletController.verifyRewardedAd: claim the transaction_id, reward the *)
(* ad, or release the id when the reward fails, and answer.                *)
(*                                                                         *)
(* AdMob repeats a callback until it is answered 200 and may deliver it    *)
(* more than once at a time.  Signatures are taken as valid: a callback    *)
(* whose signature is not is answered 400 before any of this.  The wallet  *)
(* is that of Ledger; no balance comes near the width of its column.       *)
(***************************************************************************)
EXTENDS Ledger

CONSTANTS
    Transactions,  \* transaction_id values
    Owner,         \* the user named by the custom_data of each
    Deliveries,    \* HTTP requests in the process at a time
    NoTransaction, \* a delivery not under way
    LostAnswers,   \* a statement may take effect and its answer be lost
    MaxFaults,     \* bound: failing statements
    MaxCrashes     \* bound: crashes of the process

ASSUME OwnerAssumption == Owner \in [Transactions -> Users]
ASSUME NoTransactionAssumption == NoTransaction \notin Transactions
ASSUME AdBoundsAssumption ==
    LostAnswers \in BOOLEAN /\ MaxFaults \in Nat /\ MaxCrashes \in Nat

VARIABLES
    stage,           \* how far each delivery is
    tx,              \* its transaction_id
    processed,       \* processed_ad_transactions
    acked,           \* transactions answered 200 to AdMob
    sqlDate,         \* the database's date
    counted,         \* how often the ad of each transaction went through rewardAd
    doubtful,        \* how often it did so with the answer lost
    losable,         \* what may have cost a transaction its reward
    faults, crashes  \* how often the bounded events happened

handlerVars == <<stage, tx, acked>>
historyVars == <<counted, doubtful, losable>>
boundVars == <<faults, crashes>>
adVars == <<ledgerVars, handlerVars, processed, sqlDate, historyVars, boundVars>>

Claimant == {"rewarding", "releasing"}
Live == {"claiming"} \cup Claimant
Losses == {"crash", "claim in doubt", "claim not released", "overlap"}

AdTypeOK ==
    /\ LedgerTypeOK
    /\ stage \in [Deliveries -> {"idle"} \cup Live]
    /\ tx \in [Deliveries -> Transactions \cup {NoTransaction}]
    /\ processed \subseteq Transactions
    /\ acked \subseteq Transactions
    /\ sqlDate \in Days
    /\ counted \in [Transactions -> Nat]
    /\ doubtful \in [Transactions -> Nat]
    /\ losable \in [Transactions -> SUBSET Losses]
    /\ faults \in 0..MaxFaults
    /\ crashes \in 0..MaxCrashes

AdInit ==
    /\ LedgerInit
    /\ adsProgress = [u \in Users |-> 0]
    /\ stage = [d \in Deliveries |-> "idle"]
    /\ tx = [d \in Deliveries |-> NoTransaction]
    /\ processed = {}
    /\ acked = {}
    /\ sqlDate = 1
    /\ counted = [t \in Transactions |-> 0]
    /\ doubtful = [t \in Transactions |-> 0]
    /\ losable = [t \in Transactions |-> {}]
    /\ faults = 0 /\ crashes = 0

-----------------------------------------------------------------------------
Viewer(d) == Owner[tx[d]]

Move(d, l) == stage' = [stage EXCEPT ![d] = l] /\ UNCHANGED <<tx, acked>>

(* The response: 200 tells AdMob to stop, anything else to try again. *)
Respond(d, ok) ==
    /\ stage' = [stage EXCEPT ![d] = "idle"]
    /\ tx' = [tx EXCEPT ![d] = NoTransaction]
    /\ acked' = IF ok THEN acked \cup {tx[d]} ELSE acked

Faulty == faults < MaxFaults /\ faults' = faults + 1 /\ UNCHANGED crashes
AnswerLost == LostAnswers /\ Faulty

MayLose(t, why) == losable' = [losable EXCEPT ![t] = @ \cup {why}]
Count(t) == counted' = [counted EXCEPT ![t] = @ + 1]

(* A callback arrives, the first, a retry or a duplicate; its parameters are
   there and its signature verifies. *)
Deliver(d, t) ==
    /\ stage[d] = "idle"
    /\ stage' = [stage EXCEPT ![d] = "claiming"]
    /\ tx' = [tx EXCEPT ![d] = t]
    /\ UNCHANGED <<ledgerVars, acked, processed, sqlDate, historyVars, boundVars>>

(* SELECT first, INSERT ... ON CONFLICT DO NOTHING afterwards: whoever is past
   the SELECT goes on to the reward. *)
ClaimIfUncounted(d) ==
    /\ stage[d] = "claiming"
    /\ counted[tx[d]] = 0
    /\ processed' = processed \cup {tx[d]}
    /\ Move(d, "rewarding")
    /\ UNCHANGED <<ledgerVars, sqlDate, historyVars, boundVars>>

(* INSERT ... ON CONFLICT DO NOTHING, rowCount 1. *)
Claim(d) ==
    /\ stage[d] = "claiming"
    /\ tx[d] \notin processed
    /\ processed' = processed \cup {tx[d]}
    /\ Move(d, "rewarding")
    /\ UNCHANGED <<ledgerVars, sqlDate, historyVars, boundVars>>

(* A duplicate answered 409. *)
DuplicateRejected(d) ==
    /\ stage[d] = "claiming"
    /\ tx[d] \in processed
    /\ Respond(d, FALSE)
    /\ UNCHANGED <<ledgerVars, processed, sqlDate, historyVars, boundVars>>

(* rowCount 0: "Duplicate transaction ignored", 200, whatever becomes of the
   delivery that holds the claim. *)
Duplicate(d) ==
    /\ stage[d] = "claiming"
    /\ tx[d] \in processed
    /\ Respond(d, TRUE)
    /\ IF \E e \in Deliveries : stage[e] \in Claimant /\ tx[e] = tx[d]
       THEN MayLose(tx[d], "overlap")
       ELSE UNCHANGED losable
    /\ UNCHANGED <<ledgerVars, processed, sqlDate, counted, doubtful, boundVars>>

(* The INSERT throws: without effect, or after it. 500, and nothing is
   released. *)
ClaimFails(d) ==
    /\ stage[d] = "claiming"
    /\ \/ /\ Faulty
          /\ UNCHANGED <<processed, losable>>
       \/ /\ AnswerLost
          /\ tx[d] \notin processed
          /\ processed' = processed \cup {tx[d]}
          /\ MayLose(tx[d], "claim in doubt")
    /\ Respond(d, FALSE)
    /\ UNCHANGED <<ledgerVars, sqlDate, counted, doubtful>>

-----------------------------------------------------------------------------
(* rewardAd takes effect: an ad counted, a pair rewarded, or nothing once the
   day's credit is claimed. *)
RewardAd(u) ==
    \/ CountAd(u, sqlDate)
    \/ RewardPair(u, sqlDate)
    \/ sqlDate \in claimedDays[u] /\ UNCHANGED ledgerVars

Reward(d) ==
    /\ stage[d] = "rewarding"
    /\ RewardAd(Viewer(d))
    /\ Count(tx[d])
    /\ Respond(d, TRUE)
    /\ UNCHANGED <<processed, sqlDate, doubtful, losable, boundVars>>

(* rewardAd throws: rolled back, or committed with its answer lost. *)
RewardFails(d) ==
    /\ stage[d] = "rewarding"
    /\ \/ /\ Faulty
          /\ UNCHANGED <<ledgerVars, counted, doubtful>>
       \/ /\ AnswerLost
          /\ RewardAd(Viewer(d))
          /\ Count(tx[d])
          /\ doubtful' = [doubtful EXCEPT ![tx[d]] = @ + 1]
    /\ Move(d, "releasing")
    /\ UNCHANGED <<processed, sqlDate, losable>>

(* The catch block without its DELETE. *)
ReleaseForgotten(d) ==
    /\ stage[d] = "releasing"
    /\ Respond(d, FALSE)
    /\ UNCHANGED <<ledgerVars, processed, sqlDate, historyVars, boundVars>>

(* DELETE FROM processed_ad_transactions, then 500. *)
Release(d) ==
    /\ stage[d] = "releasing"
    /\ processed' = processed \ {tx[d]}
    /\ Respond(d, FALSE)
    /\ UNCHANGED <<ledgerVars, sqlDate, historyVars, boundVars>>

ReleaseFails(d) ==
    /\ stage[d] = "releasing"
    /\ Faulty
    /\ MayLose(tx[d], "claim not released")
    /\ Respond(d, FALSE)
    /\ UNCHANGED <<ledgerVars, processed, sqlDate, counted, doubtful>>

(* The process dies: the callbacks it was handling get no answer, the ids they
   claimed stay claimed. *)
Crash ==
    /\ crashes < MaxCrashes
    /\ crashes' = crashes + 1
    /\ stage' = [d \in Deliveries |-> "idle"]
    /\ tx' = [d \in Deliveries |-> NoTransaction]
    /\ losable' = [t \in Transactions |->
                      IF \E d \in Deliveries : stage[d] \in Claimant /\ tx[d] = t
                      THEN losable[t] \cup {"crash"} ELSE losable[t]]
    /\ UNCHANGED <<ledgerVars, acked, processed, sqlDate, counted, doubtful, faults>>

NextDay ==
    /\ sqlDate < LastDay
    /\ sqlDate' = sqlDate + 1
    /\ UNCHANGED <<ledgerVars, handlerVars, processed, historyVars, boundVars>>

AdStep(d) == Claim(d) \/ Duplicate(d) \/ Reward(d) \/ Release(d)
Fails(d) == ClaimFails(d) \/ RewardFails(d) \/ ReleaseFails(d)

(* AdMob tries a transaction again as long as it has not been answered 200 and
   no attempt is under way. *)
Retry(t) ==
    /\ t \notin acked
    /\ \A d \in Deliveries : tx[d] # t
    /\ \E d \in Deliveries : Deliver(d, t)

AdNext ==
    \/ \E d \in Deliveries :
        \/ \E t \in Transactions : Deliver(d, t)
        \/ AdStep(d) \/ Fails(d)
    \/ Crash
    \/ NextDay

(* The handler runs on, and AdMob keeps trying. *)
AdFairness ==
    /\ \A d \in Deliveries : WF_adVars(AdStep(d))
    /\ \A t \in Transactions : SF_adVars(Retry(t))

AdSpec == AdInit /\ [][AdNext]_adVars /\ AdFairness

-----------------------------------------------------------------------------
(* Of any number of deliveries of one transaction, at the same time or one
   after the other, one at most has the reward to give, and the id is claimed
   while it does. *)
OneClaimant ==
    \A d \in Deliveries : stage[d] \in Claimant =>
        /\ tx[d] \in processed
        /\ \A e \in Deliveries : stage[e] \in Claimant /\ tx[e] = tx[d] => e = d

(* No ad is rewarded twice, except where the COMMIT of rewardAd took effect and
   its answer was lost: the id is released all the same, and the retry counts
   the ad again. *)
CountedAtMostOnce ==
    \A t \in Transactions : counted[t] <= 1 + doubtful[t]

(* An ad shown to the user may pay once, and once more for each of its commits
   whose answer was lost. *)
Payable(u) ==
    UNION {{t} \X (0..doubtful[t]) : t \in {t \in Transactions : Owner[t] = u /\ counted[t] > 0}}

(* What a user has earned, two ads to a credit, never exceeds the distinct ads
   the user was shown and the doubtful commits. *)
EarnedByDistinctAds ==
    \A u \in Users : 2 * ledger[u]["reward"] + adsProgress[u] <= Cardinality(Payable(u))

(* The types, and one claimant for each id. *)
StateOK == AdTypeOK /\ OneClaimant

(* No ad pays twice, counted by its transaction and by what its user earned. *)
RewardedOnce == CountedAtMostOnce /\ EarnedByDistinctAds

(* A transaction AdMob has given up on, because it was answered 200, went
   through rewardAd, unless one of the four accidents befell it. *)
Quiet(t) == \A d \in Deliveries : tx[d] # t

LossesHaveACause ==
    \A t \in Transactions :
        t \in acked /\ Quiet(t) /\ counted[t] = 0 => losable[t] # {}

(* Each ad is accounted for: it pays once, or its loss has a cause. *)
AdsAreAccountedFor == RewardedOnce /\ LossesHaveACause

(* AdMob is answered 200 for every transaction in the end: no id is left in a
   state that makes the handler fail for ever. *)
EveryAdAcknowledged == \A t \in Transactions : <>(t \in acked)

(* What walletController.js says of its DELETE: it is there "so AdMob's retry
   of the same callback isn't permanently swallowed". *)
NeverSwallowed ==
    \A t \in Transactions : t \in acked /\ Quiet(t) => counted[t] > 0
=============================================================================
