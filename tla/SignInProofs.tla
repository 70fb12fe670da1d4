---------------------------- MODULE SignInProofs ----------------------------
(***************************************************************************)
(* Signing in: the admin, with a second factor, and the users, with links  *)
(* that are mailed to them.                                                *)
(***************************************************************************)
EXTENDS AdminLogin, Accounts, FiniteSetTheorems, TLAPS

-----------------------------------------------------------------------------
(***************************************************************************)
(* One code, one login, of the secret in force: AdminLogin implements      *)
(* OneTime; one more for each re-enrolment under it, and none beyond that. *)
(* One budget of attempts for both factors, and a code presented and       *)
(* accepted for every token.                                               *)
(***************************************************************************)

(* The secret in force was generated; a login past the password check of an
   enrolled account holds a code of the form it is being checked as. *)
Consistent ==
    /\ admin.secret <= script.issue
    /\ admin.mfa_enabled => admin.secret # 0
    /\ script.at \in {"confirming", "enabling"} => admin.secret < script.issue
    /\ script.at \in {"confirming", "enabling", "issuing"} => script.issue # 0
    /\ \A l \in Logins :
        /\ LoginAt(l, "burning") =>
               admin.mfa_enabled /\ login[l].code \in Totp /\ login[l].code.issue <= admin.secret
        /\ LoginAt(l, "verifying") =>
               admin.mfa_enabled /\ login[l].code.kind = "totp" /\ login[l].secret <= admin.secret
        /\ LoginAt(l, "consuming") => login[l].code \in Recovery

(* The last enrolment whose recovery codes may have been issued. *)
Frontier ==
    IF script.at \in {"confirming", "enabling", "issuing"} THEN script.issue - 1 ELSE script.issue

(* A code that let a login through is of an enrolment that took place, and is
   not good any more. *)
Spent ==
    \A c \in Code : uses[c] # 0 =>
        /\ c.kind = "totp" => c.issue <= admin.secret
        /\ c.kind = "recovery" => c.issue <= Frontier
        /\ c \notin Good

(* A code was accepted once for each enrolment that has taken place with its
   secret or after it, and once less while its time step is not burnt. *)
Accountable ==
    \A c \in Code :
        /\ c.kind = "recovery" => uses[c] <= 1 /\ overtaken[c] = 0
        /\ c.kind = "totp" /\ c.issue > admin.secret => Accepted(c) = 0
        /\ c.kind = "totp" /\ c.issue <= admin.secret =>
               /\ Accepted(c) <= 1 + admin.secret - c.issue
               /\ admin.last_timestep < c.n => Accepted(c) <= admin.secret - c.issue

(* Recovery codes at hand are of a batch that was issued. *)
Issued == \A c \in recovery : c.issue <= Frontier

AdminIInv == AdminTypeOK /\ Consistent /\ Spent /\ Issued /\ Accountable

USE LockoutAssumption, FactorAssumption, AdminBoundsAssumption

(* What a login may become. *)
LEMMA LoginType ==
    /\ \A c \in Submission, step \in LoginSteps, enrolled \in BOOLEAN :
           Doing(step, enrolled, c) \in Login
    /\ \A c \in Submission, row \in Admin :
           [at |-> "verifying", code |-> c, enrolled |-> TRUE, secret |-> row.secret,
            key |-> row.key, last_timestep |-> row.last_timestep] \in Login
    /\ NoLogin \in Login
    /\ NoCode \in Submission
    /\ \A r \in Login : r.code \in Submission
  <1>1. NoCode \in Submission
    BY DEF Submission
  <1>2. \A c \in Submission, row \in Admin :
           [at |-> "verifying", code |-> c, enrolled |-> TRUE, secret |-> row.secret,
            key |-> row.key, last_timestep |-> row.last_timestep] \in Login
    BY DEF Login, LoginSteps, Admin
  <1>3. \A c \in Submission, step \in LoginSteps, enrolled \in BOOLEAN :
           Doing(step, enrolled, c) \in Login
    BY DEF Doing, Login, NoStep
  <1>4. NoLogin \in Login
    BY <1>1, <1>3 DEF NoLogin, LoginSteps
  <1>5. \A r \in Login : r.code \in Submission
    BY DEF Login
  <1> QED
    BY <1>1, <1>2, <1>3, <1>4, <1>5

(* A code is one or the other. *)
LEMMA CodeKinds ==
    /\ \A c \in Code : c \in Totp <=> c.kind = "totp"
    /\ \A c \in Code : c \in Recovery <=> c.kind = "recovery"
    /\ Totp \subseteq Code /\ Recovery \subseteq Code
    /\ \A c \in Totp : c.issue \in Enrolments /\ c.n \in TimeSteps
    /\ \A c \in Recovery : c.issue \in Enrolments
    /\ \A i \in Enrolments, n \in TimeSteps : [kind |-> "totp", issue |-> i, n |-> n] \in Totp
    /\ \A c \in Submission : c.issue # 0 => c \in Code
    /\ Submissions \subseteq Submission
  BY DEF Code, Totp, Recovery, Submission, Submissions, Guess, NoCode, Enrolments

LEMMA AdminInitIInv == AdminInit => AdminIInv
  <1> SUFFICES ASSUME AdminInit PROVE AdminIInv
    OBVIOUS
  <1>1. AdminTypeOK
    BY LoginType DEF AdminInit, AdminTypeOK, Admin, NoStep
  <1>2. Consistent
    BY DEF AdminInit, Consistent, LoginAt, NoLogin, Doing
  <1>3. Spent /\ Issued
    BY DEF AdminInit, Spent, Issued
  <1>4. Accountable
    BY CodeKinds DEF AdminInit, Accountable, Accepted, Code, Enrolments
  <1> QED
    BY <1>1, <1>2, <1>3, <1>4 DEF AdminIInv

(* Types: every action keeps them. *)
LEMMA TypeStep == AdminIInv /\ [AdminNext]_adminVars => AdminTypeOK'
  <1> SUFFICES ASSUME AdminIInv, [AdminNext]_adminVars PROVE AdminTypeOK'
    OBVIOUS
  <1> USE DEF AdminIInv, AdminTypeOK, accepted
  <1>1. CASE UNCHANGED adminVars
    BY <1>1 DEF adminVars
  <1>2. CASE ChangeKey
    BY <1>2, LoginType DEF ChangeKey, AdminFault
  <1>3. CASE Tick
    BY <1>3 DEF Tick
  <1>4. CASE Lapse
    BY <1>4 DEF Lapse, Admin
  <1>5. CASE Enrol
    <2>1. CASE Generate
      BY <2>1 DEF Generate
    <2>2. CASE EnableMfa
      BY <2>2 DEF EnableMfa, Admin
    <2>3. CASE IssueRecoveryCodes
      BY <2>3 DEF IssueRecoveryCodes
    <2>4. CASE ScriptFails
      BY <2>4 DEF ScriptFails, AdminFault
    <2>5. ASSUME NEW code \in Submissions, Confirm(code) PROVE AdminTypeOK'
      BY <2>5 DEF Confirm
    <2> QED
      BY <1>5, <2>1, <2>2, <2>3, <2>4, <2>5 DEF Enrol
  <1>6. ASSUME NEW l \in Logins, Handle(l) PROVE AdminTypeOK'
    <2>1. ASSUME NEW right \in BOOLEAN, NEW code \in Submissions, Submit(l, right, code)
          PROVE AdminTypeOK'
      <3>1. login' \in [Logins -> Login]
        <4>1. code \in Submission
          BY CodeKinds
        <4>2. Doing("failing", FALSE, NoCode) \in Login /\ Doing("resetting", FALSE, NoCode) \in Login
          BY LoginType DEF LoginSteps
        <4>3. Doing("selecting", TRUE, code) \in Login
          BY <4>1, LoginType DEF LoginSteps
        <4>4. [at |-> "verifying", code |-> code, enrolled |-> TRUE, secret |-> admin.secret,
               key |-> admin.key, last_timestep |-> admin.last_timestep] \in Login
          BY <4>1, LoginType
        <4> QED
          BY <2>1, <4>2, <4>3, <4>4 DEF Submit, Fail
      <3> QED
        BY <2>1, <3>1 DEF Submit
    <2>2. CASE RecordFailedAttempt(l)
      <3>1. admin' \in Admin
        <4> DEFINE attempts == IF admin.lock = "lapsed" THEN 1 ELSE admin.failed_attempts + 1
                   lock == CASE admin.lock = "lapsed" -> "open"
                             [] admin.lock # "lapsed"
                                  /\ admin.failed_attempts + 1 >= MaxAttempts -> "locked"
                             [] OTHER -> admin.lock
        <4>1. admin' = [admin EXCEPT !.failed_attempts = attempts, !.lock = lock]
          BY <2>2, Zenon DEF RecordFailedAttempt, Failed
        <4>2. attempts \in Nat /\ lock \in {"open", "locked", "lapsed"}
          BY DEF Admin
        <4> HIDE DEF attempts, lock
        <4> QED
          BY <4>1, <4>2 DEF Admin
      <3> QED
        BY <2>2, <3>1, LoginType DEF RecordFailedAttempt, AnswerLogin
    <2>3. CASE VerifyTotp(l)
      <3>1. Doing("burning", TRUE, login[l].code) \in Login
        BY LoginType DEF LoginSteps
      <3>2. Doing("failing", FALSE, NoCode) \in Login
        BY LoginType DEF LoginSteps
      <3>3. Take(l, "burning") \/ Fail(l)
        BY <2>3 DEF VerifyTotp
      <3>4. login' \in [Logins -> Login]
        BY <3>1, <3>2, <3>3 DEF Take, Fail
      <3> QED
        BY <2>3, <3>4 DEF VerifyTotp
    <2>4. CASE BurnTimestep(l)
      <3>1. login[l].code \in Totp
        BY <2>4 DEF BurnTimestep, Consistent
      <3>2. login[l].code \in Code
        BY <3>1, CodeKinds
      <3>3. login' \in [Logins -> Login]
        BY <2>4, LoginType DEF BurnTimestep, Accept, Fail, LoginSteps
      <3>4. admin' \in Admin
        BY <2>4, <3>1, CodeKinds DEF BurnTimestep, Burns, Admin
      <3>5. uses' \in [Code -> Nat] /\ overtaken' \in [Code -> Nat]
        BY <2>4, <3>2 DEF BurnTimestep, Burns
      <3> QED
        BY <2>4, <3>3, <3>4, <3>5 DEF BurnTimestep
    <2>5. CASE SelectRecoveryCodes(l)
      <3>1. Doing("consuming", TRUE, login[l].code) \in Login
        BY LoginType DEF LoginSteps
      <3>2. Doing("failing", FALSE, NoCode) \in Login
        BY LoginType DEF LoginSteps
      <3> QED
        BY <2>5, <3>1, <3>2 DEF SelectRecoveryCodes, Take, Fail
    <2>6. CASE ConsumeRecoveryCode(l)
      <3>1. login[l].code \in Code
        BY <2>6, CodeKinds DEF ConsumeRecoveryCode, Consistent, LoginAt
      <3>2. login' \in [Logins -> Login]
        BY <2>6, LoginType DEF ConsumeRecoveryCode, Accept, Fail, LoginSteps
      <3> QED
        BY <2>6, <3>1, <3>2 DEF ConsumeRecoveryCode
    <2>7. CASE Succeed(l)
      <3>1. admin' \in Admin
        BY <2>7 DEF Succeed, Admin
      <3> QED
        BY <2>7, <3>1, LoginType DEF Succeed, AnswerLogin
    <2>8. CASE LoginFails(l)
      BY <2>8, LoginType DEF LoginFails, AdminFault, AnswerLogin, LoginAt
    <2> QED
      BY <1>6, <2>1, <2>2, <2>3, <2>4, <2>5, <2>6, <2>7, <2>8 DEF Handle
  <1> QED
    BY <1>1, <1>2, <1>3, <1>4, <1>5, <1>6 DEF AdminNext

(* What logins and the script have reached stays consistent. *)
LEMMA ConsistentStep == AdminIInv /\ [AdminNext]_adminVars => Consistent'
  <1> SUFFICES ASSUME AdminIInv, [AdminNext]_adminVars PROVE Consistent'
    OBVIOUS
  <1> USE DEF AdminIInv, AdminTypeOK, Consistent, LoginAt
  <1>0. admin.secret \in Nat /\ script.issue \in Nat
    BY DEF Admin
  <1>00. /\ \A c \in Totp : c.issue \in Nat
         /\ \A l \in Logins : login[l].secret \in Nat
    BY CodeKinds DEF Login, Enrolments
  <1>1. CASE UNCHANGED adminVars
    BY <1>1 DEF adminVars
  <1>2. CASE ChangeKey
    BY <1>2 DEF ChangeKey, NoLogin, Doing
  <1>3. CASE Tick
    BY <1>3 DEF Tick
  <1>4. CASE Lapse
    BY <1>4 DEF Lapse, Admin
  <1>5. CASE Enrol
    <2>1. CASE Generate
      BY <1>0, <2>1 DEF Generate
    <2>2. CASE EnableMfa
      <3>1. /\ admin'.secret = script.issue /\ admin'.mfa_enabled /\ admin.secret < script.issue
            /\ script'.issue = script.issue /\ script'.at = "issuing" /\ script.issue # 0
            /\ login' = login
        BY <2>2 DEF EnableMfa, Admin
      <3>2. \A l \in Logins :
               /\ LoginAt(l, "burning") => login[l].code.issue <= script.issue
               /\ LoginAt(l, "verifying") => login[l].secret <= script.issue
        BY <1>0, <1>00, <3>1
      <3> QED
        BY <1>0, <3>1, <3>2
    <2>3. CASE IssueRecoveryCodes
      BY <1>0, <2>3 DEF IssueRecoveryCodes
    <2>4. CASE ScriptFails
      BY <1>0, <2>4 DEF ScriptFails
    <2>5. ASSUME NEW code \in Submissions, Confirm(code) PROVE Consistent'
      BY <1>0, <2>5 DEF Confirm
    <2> QED
      BY <1>5, <2>1, <2>2, <2>3, <2>4, <2>5 DEF Enrol
  <1>6. ASSUME NEW l \in Logins, Handle(l) PROVE Consistent'
    <2> USE DEF Fail, Accept, Take, AnswerLogin, NoLogin, Doing
    <2>1. ASSUME NEW right \in BOOLEAN, NEW code \in Submissions, Submit(l, right, code)
          PROVE Consistent'
      BY <1>0, <2>1 DEF Submit
    <2>2. CASE RecordFailedAttempt(l)
      <3>1. /\ admin'.secret = admin.secret
            /\ admin'.mfa_enabled = admin.mfa_enabled
        BY <2>2 DEF RecordFailedAttempt, Failed, Admin
      <3> QED
        BY <2>2, <3>1 DEF RecordFailedAttempt
    <2>3. CASE VerifyTotp(l)
      <3>1. login[l].code \in Submission /\ login[l].code.kind = "totp" /\ admin.mfa_enabled
        BY <2>3, LoginType DEF VerifyTotp
      <3>2. CASE Matches(login[l].code, login[l].secret)
        <4>1. login[l].code \in Totp /\ login[l].code.issue <= admin.secret
          BY <2>3, <3>1, <3>2, CodeKinds DEF Matches, VerifyTotp
        <4> QED
          BY <2>3, <3>1, <4>1 DEF VerifyTotp
      <3>3. CASE ~Matches(login[l].code, login[l].secret)
        BY <2>3, <3>3 DEF VerifyTotp
      <3> QED
        BY <3>2, <3>3
    <2>4. CASE BurnTimestep(l)
      BY <2>4 DEF BurnTimestep, Burns, Admin
    <2>5. CASE SelectRecoveryCodes(l)
      BY <2>5 DEF SelectRecoveryCodes
    <2>6. CASE ConsumeRecoveryCode(l)
      BY <2>6 DEF ConsumeRecoveryCode
    <2>7. CASE Succeed(l)
      BY <2>7 DEF Succeed, Admin
    <2>8. CASE LoginFails(l)
      BY <2>8 DEF LoginFails
    <2> QED
      BY <1>6, <2>1, <2>2, <2>3, <2>4, <2>5, <2>6, <2>7, <2>8 DEF Handle
  <1> QED
    BY <1>1, <1>2, <1>3, <1>4, <1>5, <1>6 DEF AdminNext

(* What a step preserves and what it is to OneTime. *)
Refined == Spent' /\ Issued' /\ [Factor!Next]_(Factor!vars)

(* A code is accepted that was overtaken: what was good and older is not good
   any more, and to OneTime nothing was used. *)
LEMMA OvertakenStep ==
    ASSUME AdminIInv, UNCHANGED <<script, uses, recovery>>,
           NEW n \in TimeSteps, admin.last_timestep < n,
           admin' = [admin EXCEPT !.last_timestep = n]
    PROVE  Refined
  <1>1. /\ Frontier' = Frontier /\ admin'.secret = admin.secret
        /\ admin'.mfa_enabled = admin.mfa_enabled /\ admin'.last_timestep = n
        /\ admin.last_timestep \in Int
    BY DEF Frontier, AdminIInv, AdminTypeOK, Admin, TimeSteps, NoStep
  <1>2. Good' \subseteq Good
    BY <1>1, CodeKinds DEF Good, TimeSteps
  <1>3. Spent'
    BY <1>1, <1>2 DEF AdminIInv, Spent
  <1>4. Issued'
    BY <1>1 DEF AdminIInv, Issued
  <1>5. Factor!Issue
    BY <1>2, CodeKinds DEF Factor!Issue, Good, AdminIInv, AdminTypeOK, Spent
  <1> QED
    BY <1>3, <1>4, <1>5 DEF Refined, Factor!Next

(* A step that touches no code stutters. *)
LEMMA CodesKept ==
    ASSUME AdminIInv, Frontier' \in Nat, Frontier' >= Frontier,
           uses' = uses, recovery' = recovery, admin'.mfa_enabled = admin.mfa_enabled,
           admin'.secret = admin.secret, admin'.last_timestep = admin.last_timestep
    PROVE  Refined
  <1>1. Frontier \in Int
    BY DEF AdminIInv, AdminTypeOK, Frontier
  <1>2. Good' = Good
    BY DEF Good
  <1>3. \A c \in Code : c.issue \in Int
    BY CodeKinds DEF Code, Enrolments
  <1>4. Spent'
    BY <1>1, <1>2, <1>3 DEF AdminIInv, Spent
  <1>5. Issued'
    BY <1>1, <1>3, CodeKinds DEF AdminIInv, Issued, AdminTypeOK
  <1>6. UNCHANGED Factor!vars
    BY <1>2 DEF Factor!vars
  <1> QED
    BY <1>4, <1>5, <1>6 DEF Refined

(* A step is a step of OneTime or stutters. *)
LEMMA RefinedStep == AdminIInv /\ [AdminNext]_adminVars => Refined
  <1> SUFFICES ASSUME AdminIInv, [AdminNext]_adminVars PROVE Refined
    OBVIOUS
  <1>0. /\ script \in [at : {"idle", "confirming", "enabling", "issuing"}, issue : 0..MaxEnrolments]
        /\ admin \in Admin /\ recovery \subseteq Recovery /\ uses \in [Code -> Nat]
        /\ script.at \in {"confirming", "enabling", "issuing"} => script.issue # 0
        /\ admin.secret \in 0..MaxEnrolments /\ admin.last_timestep \in TimeSteps \cup {NoStep}
        /\ Consistent
    BY DEF AdminIInv, AdminTypeOK, Consistent, Admin
  <1>00. Frontier \in Nat
    BY <1>0 DEF Frontier
  <1>000. \A c \in Code : c.issue \in 1..MaxEnrolments
    BY CodeKinds DEF Code, Enrolments
  <1>1. CASE UNCHANGED adminVars
    BY <1>1, <1>00, CodesKept DEF adminVars, Frontier, accepted
  <1>2. CASE ChangeKey
    BY <1>2, <1>00, CodesKept DEF ChangeKey, Frontier, accepted
  <1>3. CASE Tick
    BY <1>3, <1>00, CodesKept DEF Tick, Frontier, accepted
  <1>4. CASE Lapse
    BY <1>4, <1>0, <1>00, CodesKept DEF Lapse, Frontier, Admin, accepted
  <1>5. CASE Enrol
    <2>1. CASE Generate
      <3>1. Frontier' = Frontier
        BY <1>0, <2>1 DEF Generate, Frontier
      <3> QED
        BY <2>1, <3>1, <1>00, CodesKept DEF Generate, accepted
    <2>2. CASE EnableMfa
      <3>1. /\ Frontier' = Frontier /\ UNCHANGED <<uses, recovery>>
            /\ admin'.secret = script.issue /\ admin.secret < script.issue
        BY <1>0, <2>2 DEF EnableMfa, Frontier, Consistent, Admin, accepted
      <3>2. Issued'
        BY <3>1 DEF AdminIInv, Issued
      <3>3. ASSUME NEW c \in Code, uses[c] # 0 PROVE c \notin Good'
        <4>1. CASE c.kind = "totp"
          <5>1. c.issue # admin'.secret
            BY <1>0, <1>000, <3>1, <3>3, <4>1 DEF AdminIInv, Spent
          <5>2. c \notin Recovery
            BY <4>1, CodeKinds
          <5> QED
            BY <1>0, <3>1, <5>1, <5>2 DEF Good
        <4>2. CASE c.kind # "totp"
          BY <3>1, <3>3, <4>2, CodeKinds DEF AdminIInv, Spent, Good
        <4> QED
          BY <4>1, <4>2
      <3>4. Spent'
        BY <1>0, <1>000, <3>1, <3>3 DEF AdminIInv, Spent
      <3>5. Factor!Issue
        BY <1>0, <3>1, <3>3, CodeKinds DEF Factor!Issue, Good
      <3> QED
        BY <3>2, <3>4, <3>5 DEF Refined, Factor!Next
    <2>3. CASE IssueRecoveryCodes
      <3>1. /\ Frontier' = script.issue /\ Frontier = script.issue - 1
            /\ UNCHANGED <<uses, admin>>
            /\ recovery' = {c \in Recovery : c.issue = script.issue}
        BY <1>0, <2>3 DEF IssueRecoveryCodes, Frontier, accepted
      <3>2. Issued'
        BY <3>1, <1>0 DEF Issued
      <3>3. ASSUME NEW c \in Code, uses[c] # 0 PROVE c \notin Good'
        <4>1. c \notin recovery'
          BY <1>0, <1>000, <3>1, <3>3, CodeKinds DEF AdminIInv, Spent
        <4> QED
          BY <3>1, <3>3, <4>1 DEF AdminIInv, Spent, Good
      <3>4. Spent'
        BY <1>0, <1>000, <3>1, <3>3 DEF AdminIInv, Spent
      <3>5. Factor!Issue
        BY <1>0, <3>1, <3>3, CodeKinds DEF Factor!Issue, Good
      <3> QED
        BY <3>2, <3>4, <3>5 DEF Refined, Factor!Next
    <2>4. CASE ScriptFails
      <3>1. Frontier' \in Nat /\ Frontier' >= Frontier
        BY <1>0, <2>4 DEF ScriptFails, Frontier
      <3> QED
        BY <2>4, <3>1, CodesKept DEF ScriptFails, accepted
    <2>5. ASSUME NEW code \in Submissions, Confirm(code) PROVE Refined
      <3>1. Frontier' \in Nat /\ Frontier' >= Frontier
        BY <1>0, <2>5 DEF Confirm, Frontier
      <3> QED
        BY <2>5, <3>1, CodesKept DEF Confirm, accepted
    <2> QED
      BY <1>5, <2>1, <2>2, <2>3, <2>4, <2>5 DEF Enrol
  <1>6. ASSUME NEW l \in Logins, Handle(l) PROVE Refined
    <2>0. UNCHANGED script => Frontier' = Frontier
      BY DEF Frontier
    <2>1. ASSUME NEW right \in BOOLEAN, NEW code \in Submissions, Submit(l, right, code)
          PROVE Refined
      BY <2>0, <2>1, <1>00, CodesKept DEF Submit, accepted
    <2>2. CASE RecordFailedAttempt(l)
      <3>1. /\ admin'.secret = admin.secret /\ admin'.mfa_enabled = admin.mfa_enabled
            /\ admin'.last_timestep = admin.last_timestep
        BY <1>0, <2>2 DEF RecordFailedAttempt, Failed, Admin
      <3> QED
        BY <2>0, <2>2, <3>1, <1>00, CodesKept DEF RecordFailedAttempt, accepted
    <2>3. CASE VerifyTotp(l)
      BY <2>0, <2>3, <1>00, CodesKept DEF VerifyTotp, accepted
    <2>4. CASE BurnTimestep(l)
      <3>0. login[l].code \in Totp /\ login[l].code \in Code /\ login[l].code.n \in TimeSteps
            /\ login[l].code.issue \in Enrolments /\ admin.mfa_enabled
            /\ login[l].code.issue <= admin.secret
        BY <1>0, <2>4, CodeKinds DEF Consistent, BurnTimestep
      <3>1. CASE admin.last_timestep < login[l].code.n /\ login[l].code.issue = admin.secret
        <4> DEFINE b == login[l].code
        <4>2. b \in Totp /\ b.issue = admin.secret /\ b.kind = "totp"
          BY <3>0, <3>1, CodeKinds
        <4>3. b \in Good /\ b \in Code
          BY <3>0, <3>1, <4>2, CodeKinds DEF Good
        <4>4. /\ UNCHANGED <<script, recovery>> /\ Frontier' = Frontier
              /\ admin'.mfa_enabled = admin.mfa_enabled /\ admin'.secret = admin.secret
              /\ admin'.last_timestep = b.n
              /\ uses' = [uses EXCEPT ![b] = @ + 1]
          BY <1>0, <2>0, <2>4, <3>1, <4>2 DEF BurnTimestep, Burns, Admin
        <4>1. admin.last_timestep < b.n /\ b.n \in TimeSteps
          BY <3>0, <3>1
        <4> HIDE DEF b
        <4>5. b \notin recovery
          BY <1>0, <4>2, <4>3, CodeKinds
        <4>6. Good' \subseteq Good \ {b}
          BY <1>0, <4>1, <4>2, <4>4, <4>5, CodeKinds DEF Good, TimeSteps, NoStep
        <4>7. Factor!Use(b)
          BY <4>3, <4>4, <4>6 DEF Factor!Use
        <4>8. \A c \in Code : uses'[c] # 0 => c = b \/ uses[c] # 0
          BY <1>0, <4>3, <4>4
        <4>9. Spent'
          BY <1>0, <1>000, <4>2, <4>4, <4>6, <4>8 DEF AdminIInv, Spent
        <4>10. Issued'
          BY <4>4 DEF AdminIInv, Issued
        <4> QED
          BY <4>3, <4>7, <4>9, <4>10 DEF Refined, Factor!Next
      <3>3. CASE admin.last_timestep < login[l].code.n /\ login[l].code.issue # admin.secret
        <4>1. UNCHANGED <<script, uses, recovery>>
              /\ admin' = [admin EXCEPT !.last_timestep = login[l].code.n]
          BY <2>4, <3>3 DEF BurnTimestep, Burns
        <4> QED
          BY <3>0, <3>3, <4>1, OvertakenStep
      <3>2. CASE ~(admin.last_timestep < login[l].code.n)
        BY <2>0, <2>4, <3>2, <1>00, CodesKept DEF BurnTimestep, accepted
      <3> QED
        BY <3>1, <3>2, <3>3
    <2>5. CASE SelectRecoveryCodes(l)
      BY <2>0, <2>5, <1>00, CodesKept DEF SelectRecoveryCodes, accepted
    <2>6. CASE ConsumeRecoveryCode(l)
      <3>1. CASE login[l].code \in recovery
        <4> DEFINE b == login[l].code
        <4>1. b \in Good /\ b \in Code /\ b.kind = "recovery" /\ b \notin Totp
          BY <1>0, <3>1, CodeKinds DEF Good
        <4>2. /\ UNCHANGED <<script, admin>> /\ Frontier' = Frontier
              /\ recovery' = recovery \ {b}
              /\ uses' = [uses EXCEPT ![b] = @ + 1]
          BY <2>0, <2>6, <3>1 DEF ConsumeRecoveryCode
        <4> HIDE DEF b
        <4>3. Good' \subseteq Good \ {b}
          BY <4>1, <4>2 DEF Good
        <4>4. Factor!Use(b)
          BY <4>1, <4>2, <4>3 DEF Factor!Use
        <4>5. \A c \in Code : uses'[c] # 0 => c = b \/ uses[c] # 0
          BY <1>0, <4>1, <4>2
        <4>6. b.issue <= Frontier
          BY <3>1 DEF AdminIInv, Issued, b
        <4>7. Spent'
          BY <4>1, <4>2, <4>3, <4>5, <4>6 DEF AdminIInv, Spent
        <4>8. Issued'
          BY <4>2 DEF AdminIInv, Issued
        <4> QED
          BY <4>1, <4>4, <4>7, <4>8 DEF Refined, Factor!Next
      <3>2. CASE login[l].code \notin recovery
        BY <2>0, <2>6, <3>2, <1>00, CodesKept DEF ConsumeRecoveryCode
      <3> QED
        BY <3>1, <3>2
    <2>7. CASE Succeed(l)
      <3>1. /\ admin'.secret = admin.secret /\ admin'.mfa_enabled = admin.mfa_enabled
            /\ admin'.last_timestep = admin.last_timestep
        BY <1>0, <2>7 DEF Succeed, Admin
      <3> QED
        BY <2>0, <2>7, <3>1, <1>00, CodesKept DEF Succeed, accepted
    <2>8. CASE LoginFails(l)
      BY <2>0, <2>8, <1>00, CodesKept DEF LoginFails, accepted
    <2> QED
      BY <1>6, <2>1, <2>2, <2>3, <2>4, <2>5, <2>6, <2>7, <2>8 DEF Handle
  <1> QED
    BY <1>1, <1>2, <1>3, <1>4, <1>5, <1>6 DEF AdminNext

(* What each code was accepted for: only a burnt time step, a recovery code
   and a re-enrolment make a difference. *)
LEMMA AccountedStep == AdminIInv /\ [AdminNext]_adminVars => Accountable'
  <1> SUFFICES ASSUME AdminIInv, [AdminNext]_adminVars PROVE Accountable'
    OBVIOUS
  <1>0. /\ admin \in Admin /\ recovery \subseteq Recovery
        /\ uses \in [Code -> Nat] /\ overtaken \in [Code -> Nat]
        /\ admin.secret \in Nat /\ admin.last_timestep \in Int /\ script.issue \in Nat
        /\ Consistent /\ Accountable /\ Spent
    BY DEF AdminIInv, AdminTypeOK, Admin, TimeSteps, NoStep
  <1>00. \A c \in Code : c.issue \in Nat /\ c.n \in Int /\ (c.kind = "totp" \/ c.kind = "recovery")
    BY DEF Code, Totp, Recovery, Enrolments, TimeSteps
  <1>1. ASSUME UNCHANGED <<uses, overtaken>>, admin'.secret = admin.secret,
               admin'.last_timestep = admin.last_timestep
        PROVE  Accountable'
    BY <1>0, <1>1 DEF Accountable, Accepted
  <1>2. CASE UNCHANGED adminVars \/ ChangeKey \/ Tick
    BY <1>1, <1>2 DEF adminVars, ChangeKey, Tick, accepted
  <1>3. CASE Lapse
    <2>1. admin'.secret = admin.secret /\ admin'.last_timestep = admin.last_timestep
      BY <1>0, <1>3 DEF Lapse, Admin
    <2> QED
      BY <1>1, <1>3, <2>1 DEF Lapse, accepted
  <1>4. CASE Enrol
    <2>1. CASE EnableMfa
      <3>1. /\ UNCHANGED <<uses, overtaken>> /\ admin'.secret = script.issue
            /\ admin.secret < script.issue
        BY <1>0, <2>1 DEF EnableMfa, Admin, Consistent, accepted
      <3>2. ASSUME NEW c \in Code, c.kind = "totp"
            PROVE  /\ c.issue > script.issue => Accepted(c) = 0
                   /\ c.issue <= script.issue => Accepted(c) <= script.issue - c.issue
                   /\ Accepted(c) \in Nat
        <4>1. Accepted(c) \in Nat
          BY <1>0 DEF Accepted
        <4>2. CASE c.issue <= admin.secret
          BY <1>0, <1>00, <3>1, <3>2, <4>1, <4>2 DEF Accountable
        <4>3. CASE c.issue > admin.secret
          BY <1>0, <1>00, <3>1, <3>2, <4>1, <4>3 DEF Accountable
        <4> QED
          BY <1>0, <1>00, <4>1, <4>2, <4>3
      <3>3. \A c \in Code : Accepted(c)' = Accepted(c)
        BY <3>1 DEF Accepted
      <3>4. \A c \in Code : c.kind = "recovery" => uses'[c] <= 1 /\ overtaken'[c] = 0
        BY <1>0, <3>1 DEF Accountable
      <3>5. \A c \in Code : c.kind = "totp" =>
               /\ c.issue > admin'.secret => Accepted(c)' = 0
               /\ c.issue <= admin'.secret => Accepted(c)' <= admin'.secret - c.issue
                                              /\ Accepted(c)' <= 1 + admin'.secret - c.issue
        BY <1>0, <1>00, <3>1, <3>2, <3>3
      <3> QED
        BY <3>4, <3>5 DEF Accountable
    <2>2. CASE ~EnableMfa
      BY <1>1, <1>4, <2>2 DEF Enrol, Generate, IssueRecoveryCodes, ScriptFails, Confirm, accepted
    <2> QED
      BY <2>1, <2>2
  <1>5. ASSUME NEW l \in Logins, Handle(l) PROVE Accountable'
    <2>1. CASE RecordFailedAttempt(l) \/ Succeed(l)
      <3>1. admin'.secret = admin.secret /\ admin'.last_timestep = admin.last_timestep
        BY <1>0, <2>1 DEF RecordFailedAttempt, Succeed, Failed, Admin
      <3> QED
        BY <1>1, <2>1, <3>1 DEF RecordFailedAttempt, Succeed, accepted
    <2>2. CASE BurnTimestep(l) /\ admin.last_timestep < login[l].code.n
      <3>0. PICK b \in Code : b = login[l].code
        BY <1>0, <2>2, CodeKinds DEF Consistent, BurnTimestep
      <3>1. b.kind = "totp" /\ b.issue <= admin.secret
        BY <1>0, <2>2, <3>0, CodeKinds DEF Consistent, BurnTimestep
      <3>2. admin'.secret = admin.secret /\ admin'.last_timestep = b.n
        BY <1>0, <2>2, <3>0 DEF BurnTimestep, Burns, Admin
      <3>3. \/ uses' = [uses EXCEPT ![b] = @ + 1] /\ overtaken' = overtaken
            \/ overtaken' = [overtaken EXCEPT ![b] = @ + 1] /\ uses' = uses
        BY <2>2, <3>0 DEF BurnTimestep, Burns
      <3>4. admin.last_timestep < b.n
        BY <2>2, <3>0
      <3>5. ASSUME NEW c \in Code, c # b
            PROVE  uses'[c] = uses[c] /\ overtaken'[c] = overtaken[c] /\ Accepted(c)' = Accepted(c)
        <4>1. uses'[c] = uses[c] /\ overtaken'[c] = overtaken[c]
          BY <1>0, <3>1, <3>3, <3>5
        <4> QED
          BY <4>1 DEF Accepted
      <3>6. Accepted(b)' = Accepted(b) + 1 /\ Accepted(b) \in Nat
        BY <1>0, <3>1, <3>3 DEF Accepted
      <3>7. Accepted(b) <= admin.secret - b.issue
        BY <1>0, <3>1, <3>4 DEF Accountable
      <3>8. Accepted(b)' <= 1 + admin'.secret - b.issue /\ ~(admin'.last_timestep < b.n)
        BY <1>0, <1>00, <3>1, <3>2, <3>6, <3>7
      <3>9. ASSUME NEW c \in Code, c # b
            PROVE  /\ c.kind = "recovery" => uses'[c] <= 1 /\ overtaken'[c] = 0
                   /\ c.kind = "totp" /\ c.issue > admin'.secret => Accepted(c)' = 0
                   /\ c.kind = "totp" /\ c.issue <= admin'.secret =>
                          /\ Accepted(c)' <= 1 + admin'.secret - c.issue
                          /\ admin'.last_timestep < c.n => Accepted(c)' <= admin'.secret - c.issue
        <4>1. uses'[c] = uses[c] /\ overtaken'[c] = overtaken[c] /\ Accepted(c)' = Accepted(c)
          BY <3>5, <3>9
        <4>2. admin'.last_timestep < c.n => admin.last_timestep < c.n
          BY <1>0, <1>00, <3>1, <3>2, <3>4
        <4> QED
          BY <1>0, <3>2, <4>1, <4>2 DEF Accountable
      <3>10. b.issue <= admin'.secret /\ ~(b.issue > admin'.secret)
        BY <1>0, <1>00, <3>1, <3>2
      <3> QED
        BY <3>1, <3>8, <3>9, <3>10 DEF Accountable
    <2>3. CASE ConsumeRecoveryCode(l) /\ login[l].code \in recovery
      <3>0. PICK b \in Code : b = login[l].code
        BY <1>0, <2>3, CodeKinds
      <3>1. b.kind = "recovery" /\ b \in Good
        BY <1>0, <2>3, <3>0, CodeKinds DEF Good
      <3>2. admin' = admin /\ overtaken' = overtaken /\ uses' = [uses EXCEPT ![b] = @ + 1]
        BY <2>3, <3>0 DEF ConsumeRecoveryCode
      <3>3. uses[b] = 0
        BY <3>1 DEF AdminIInv, Spent
      <3>4. \A c \in Code : c # b => uses'[c] = uses[c] /\ Accepted(c)' = Accepted(c)
        BY <1>0, <3>1, <3>2 DEF Accepted
      <3>5. uses'[b] = 1
        BY <1>0, <3>1, <3>2, <3>3
      <3> QED
        BY <1>0, <3>1, <3>2, <3>4, <3>5 DEF Accountable
    <2>4. CASE LoginFails(l) \/ VerifyTotp(l) \/ SelectRecoveryCodes(l)
      BY <1>1, <2>4 DEF LoginFails, VerifyTotp, SelectRecoveryCodes, accepted
    <2>5. ASSUME NEW right \in BOOLEAN, NEW code \in Submissions, Submit(l, right, code)
          PROVE  Accountable'
      BY <1>1, <2>5 DEF Submit, accepted
    <2>6. CASE BurnTimestep(l) /\ ~(admin.last_timestep < login[l].code.n)
      BY <1>1, <2>6 DEF BurnTimestep, accepted
    <2>7. CASE ConsumeRecoveryCode(l) /\ login[l].code \notin recovery
      BY <1>1, <2>7 DEF ConsumeRecoveryCode
    <2> QED
      BY <1>5, <2>1, <2>2, <2>3, <2>4, <2>5, <2>6, <2>7 DEF Handle
  <1> QED
    BY <1>2, <1>3, <1>4, <1>5 DEF AdminNext

LEMMA AdminIInvAlways == AdminSpec => []AdminIInv
  <1>1. AdminIInv /\ [AdminNext]_adminVars => AdminIInv'
    BY TypeStep, ConsistentStep, RefinedStep, AccountedStep DEF AdminIInv, Refined
  <1> QED
    BY AdminInitIInv, <1>1, PTL DEF AdminSpec

(* Type correctness of the rows, the logins and the script, for any number of
   logins, codes and enrolments (adminController.login, enrollAdminMfa). *)
THEOREM TypeCorrect == AdminSpec => []AdminTypeOK
  <1>1. AdminIInv => AdminTypeOK
    BY DEF AdminIInv
  <1> QED
    BY AdminIInvAlways, <1>1, PTL

(* However logins and crashes interleave, the conditional updates of verifyTotp
   and verifyRecoveryCode implement one-time codes, for the recovery codes and
   the time steps of the secret in force. *)
THEOREM FactorsAreOneTime == AdminSpec => OneTimeUse
  <1>1. AdminInit => Factor!Init
    <2> SUFFICES ASSUME AdminInit PROVE Factor!Init
      OBVIOUS
    <2>1. Good = {}
      BY DEF AdminInit, Good
    <2> QED
      BY <2>1 DEF AdminInit, Factor!Init
  <1>2. AdminIInv /\ [AdminNext]_adminVars => [Factor!Next]_(Factor!vars)
    BY RefinedStep DEF Refined
  <1> QED
    BY AdminIInvAlways, <1>1, <1>2, PTL DEF AdminSpec, OneTimeUse, Factor!Spec

(* A code that is presented lets one login through, and one more for each
   re-enrolment under it: nothing but enableMfa gives a burnt time step back,
   for any number of logins that present it (verifyTotp, enableMfa). *)
THEOREM NoMoreThanEnrolments == AdminSpec => []OncePerEnrolment
  <1>1. AdminIInv => OncePerEnrolment
    <2> SUFFICES ASSUME AdminIInv, NEW c \in Code PROVE Accepted(c) <= 1 + EnrolmentsSince(c)
      BY DEF OncePerEnrolment
    <2>1. /\ admin.secret \in Nat /\ c.issue \in Nat /\ (c.kind = "totp" \/ c.kind = "recovery")
          /\ Accepted(c) \in Nat /\ uses[c] \in Nat /\ Accountable
      BY DEF AdminIInv, AdminTypeOK, Admin, Code, Totp, Recovery, Enrolments, Accepted
    <2>2. CASE c.kind = "recovery"
      BY <2>1, <2>2 DEF Accountable, Accepted, EnrolmentsSince
    <2>3. CASE c.kind = "totp" /\ c.issue > admin.secret
      BY <2>1, <2>3 DEF Accountable, EnrolmentsSince
    <2>4. CASE c.kind = "totp" /\ c.issue <= admin.secret
      BY <2>1, <2>4 DEF Accountable, EnrolmentsSince
    <2> QED
      BY <2>1, <2>2, <2>3, <2>4
  <1> QED
    BY AdminIInvAlways, <1>1, PTL

-----------------------------------------------------------------------------
(* The logins under way, those a token is due to, the times a code let
   somebody through. *)
Busy == {l \in Logins : ~LoginAt(l, "idle")}
Due == {l \in Logins : LoginAt(l, "resetting") /\ login[l].enrolled}
Paid == {p \in Code \X Enrolments : p[2] <= Accepted(p[1])}

(* Whoever gets past a lock was under way when it fell, and each of them
   adds one failure at most. *)
BudgetInv ==
    /\ admin.lock = "open" <=> admin.failed_attempts < MaxAttempts
    /\ admin.failed_attempts < MaxAttempts + Cardinality(Logins)
    /\ admin.lock = "locked" =>
           admin.failed_attempts + Cardinality(Busy) < MaxAttempts + Cardinality(Logins)

PaidInv ==
    /\ IsFiniteSet(Paid)
    /\ tokens + Cardinality(Due) <= Cardinality(Paid)

LEMMA InitBudget == AdminInit => BudgetInv /\ PaidInv
  <1> SUFFICES ASSUME AdminInit PROVE BudgetInv /\ PaidInv
    OBVIOUS
  <1>1. Cardinality(Logins) \in Nat
    BY LoginsAssumption, FS_CardinalityType
  <1>2. Due = {}
    BY DEF AdminInit, Due, LoginAt, NoLogin, Doing
  <1>5. Paid = {}
    BY DEF AdminInit, Paid, Accepted, Enrolments
  <1>3. BudgetInv
    BY <1>1 DEF AdminInit, BudgetInv
  <1>4. PaidInv
    BY <1>2, <1>5, FS_EmptySet DEF AdminInit, PaidInv
  <1> QED
    BY <1>3, <1>4

(* The sets of logins are finite. *)
LEMMA LoginSets ==
    /\ Cardinality(Logins) \in Nat
    /\ IsFiniteSet(Busy) /\ Cardinality(Busy) \in Nat
    /\ IsFiniteSet(Due) /\ Cardinality(Due) \in Nat
  <1>1. \A S \in SUBSET Logins : IsFiniteSet(S) /\ Cardinality(S) \in Nat
    BY LoginsAssumption, FS_Subset, FS_CardinalityType
  <1>2. Busy \in SUBSET Logins /\ Due \in SUBSET Logins /\ Logins \in SUBSET Logins
    BY DEF Busy, Due
  <1> QED
    BY <1>1, <1>2

LEMMA IdleIsIdle == NoLogin.at = "idle" /\ NoLogin.enrolled = FALSE
  BY DEF NoLogin, Doing

(* What becomes of them when one login moves on. *)
LEMMA OneLogin ==
    ASSUME login \in [Logins -> Login], NEW l \in Logins, NEW r,
           login' = [login EXCEPT ![l] = r]
    PROVE  /\ Busy' = IF r.at = "idle" THEN Busy \ {l} ELSE Busy \cup {l}
           /\ Due' = IF r.at = "resetting" /\ r.enrolled THEN Due \cup {l} ELSE Due \ {l}
  <1>1. \A k \in Logins : login'[k] = IF k = l THEN r ELSE login[k]
    OBVIOUS
  <1>2. Busy' = IF r.at = "idle" THEN Busy \ {l} ELSE Busy \cup {l}
    BY <1>1 DEF Busy, LoginAt
  <1>3. Due' = IF r.at = "resetting" /\ r.enrolled THEN Due \cup {l} ELSE Due \ {l}
    BY <1>1 DEF Due, LoginAt
  <1> QED
    BY <1>2, <1>3

(* The budget is not touched: a locked account takes no new login. *)
LEMMA BudgetKept ==
    ASSUME BudgetInv, admin'.lock = admin.lock,
           admin'.failed_attempts = admin.failed_attempts,
           admin.failed_attempts \in Nat,
           admin.lock # "locked" \/ Busy' \subseteq Busy
    PROVE  BudgetInv'
  <1>1. CASE admin.lock # "locked"
    BY <1>1 DEF BudgetInv
  <1>2. CASE Busy' \subseteq Busy
    <2>1. Cardinality(Busy') <= Cardinality(Busy) /\ Cardinality(Busy') \in Nat
      BY <1>2, LoginSets, FS_Subset, FS_CardinalityType
    <2> QED
      BY <2>1, LoginSets DEF BudgetInv
  <1> QED
    BY <1>1, <1>2

(* One budget: every action keeps it. *)
LEMMA BudgetStep == AdminIInv /\ BudgetInv /\ [AdminNext]_adminVars => BudgetInv'
  <1> SUFFICES ASSUME AdminIInv, BudgetInv, [AdminNext]_adminVars PROVE BudgetInv'
    OBVIOUS
  <1>0. /\ admin \in Admin /\ admin.failed_attempts \in Nat
        /\ login \in [Logins -> Login]
    BY DEF AdminIInv, AdminTypeOK, Admin
  <1>1. CASE UNCHANGED adminVars
    BY <1>0, <1>1, BudgetKept DEF adminVars, Busy, LoginAt
  <1>2. CASE ChangeKey
    <2>1. Busy' = {}
      BY <1>2 DEF ChangeKey, Busy, LoginAt, NoLogin, Doing
    <2> QED
      BY <1>0, <1>2, <2>1, BudgetKept DEF ChangeKey
  <1>3. CASE Tick
    BY <1>0, <1>3, BudgetKept DEF Tick, Busy, LoginAt
  <1>4. CASE Lapse
    <2>1. admin'.lock = "lapsed" /\ admin'.failed_attempts = admin.failed_attempts
      BY <1>0, <1>4 DEF Lapse, Admin
    <2> QED
      BY <1>4, <2>1 DEF Lapse, BudgetInv
  <1>5. CASE Enrol
    <2>1. /\ admin'.lock = admin.lock /\ admin'.failed_attempts = admin.failed_attempts
          /\ login' = login
      BY <1>0, <1>5 DEF Enrol, Generate, EnableMfa, IssueRecoveryCodes, ScriptFails, Confirm, Admin
    <2> QED
      BY <1>0, <2>1, BudgetKept DEF Busy, LoginAt
  <1>6. ASSUME NEW l \in Logins, Handle(l) PROVE BudgetInv'
    <2>1. ASSUME NEW right \in BOOLEAN, NEW code \in Submissions, Submit(l, right, code)
          PROVE BudgetInv'
      BY <1>0, <2>1, BudgetKept DEF Submit
    <2>2. CASE RecordFailedAttempt(l)
      <3>1. login' = [login EXCEPT ![l] = NoLogin] /\ l \in Busy
        BY <2>2 DEF RecordFailedAttempt, AnswerLogin, Busy, LoginAt
      <3>2. Busy' = Busy \ {l}
        BY <1>0, <3>1, OneLogin, IdleIsIdle
      <3>3. Cardinality(Busy') = Cardinality(Busy) - 1 /\ Cardinality(Busy') \in Nat
        BY <3>1, <3>2, LoginSets, FS_RemoveElement, FS_CardinalityType
      <3>4. Cardinality(Busy) <= Cardinality(Logins)
        BY LoginsAssumption, FS_Subset DEF Busy
      <3>5. CASE admin.lock = "lapsed"
        <4>1. admin'.failed_attempts = 1 /\ admin'.lock = "open"
          BY <1>0, <2>2, <3>5 DEF RecordFailedAttempt, Failed, Admin
        <4> QED
          BY <4>1, LoginSets DEF BudgetInv
      <3>6. CASE admin.lock # "lapsed" /\ admin.failed_attempts + 1 >= MaxAttempts
        <4>1. admin'.failed_attempts = admin.failed_attempts + 1 /\ admin'.lock = "locked"
          BY <1>0, <2>2, <3>6 DEF RecordFailedAttempt, Failed, Admin
        <4>2. admin.lock \in {"open", "locked"}
          BY <1>0, <3>6 DEF Admin
        <4>3. Cardinality(Busy) \in Nat /\ Cardinality(Logins) \in Nat
          BY LoginSets
        <4>4. admin'.failed_attempts < MaxAttempts + Cardinality(Logins)
          BY <1>0, <3>3, <3>4, <3>6, <4>1, <4>2, <4>3 DEF BudgetInv
        <4>5. admin'.failed_attempts + Cardinality(Busy') < MaxAttempts + Cardinality(Logins)
          BY <1>0, <3>3, <3>4, <3>6, <4>1, <4>2, <4>3 DEF BudgetInv
        <4> QED
          BY <1>0, <3>6, <4>1, <4>4, <4>5 DEF BudgetInv
      <3>7. CASE admin.lock # "lapsed" /\ ~(admin.failed_attempts + 1 >= MaxAttempts)
        <4>1. admin'.failed_attempts = admin.failed_attempts + 1 /\ admin'.lock = admin.lock
          BY <1>0, <2>2, <3>7 DEF RecordFailedAttempt, Failed, Admin
        <4>2. admin.lock = "open"
          BY <1>0, <3>7 DEF BudgetInv
        <4> QED
          BY <1>0, <3>7, <4>1, <4>2, LoginSets DEF BudgetInv
      <3> QED
        BY <3>5, <3>6, <3>7
    <2>3. CASE VerifyTotp(l)
      BY <1>0, <2>3, OneLogin, BudgetKept DEF VerifyTotp, Take, Fail, Doing, Busy, LoginAt
    <2>4. CASE BurnTimestep(l)
      <3>1. /\ admin'.lock = admin.lock /\ admin'.failed_attempts = admin.failed_attempts
            /\ Accept(l) \/ Fail(l)
        BY <1>0, <2>4 DEF BurnTimestep, Burns, Admin
      <3> QED
        BY <1>0, <2>4, <3>1, OneLogin, BudgetKept DEF BurnTimestep, Accept, Fail, Doing, Busy, LoginAt
    <2>5. CASE SelectRecoveryCodes(l)
      BY <1>0, <2>5, OneLogin, BudgetKept DEF SelectRecoveryCodes, Take, Fail, Doing, Busy, LoginAt
    <2>6. CASE ConsumeRecoveryCode(l)
      BY <1>0, <2>6, OneLogin, BudgetKept DEF ConsumeRecoveryCode, Accept, Fail, Doing, Busy, LoginAt
    <2>7. CASE Succeed(l)
      <3>1. admin'.lock = "open" /\ admin'.failed_attempts = 0
        BY <1>0, <2>7 DEF Succeed, Admin
      <3> QED
        BY <3>1, LoginSets DEF BudgetInv
    <2>8. CASE LoginFails(l)
      BY <1>0, <2>8, OneLogin, IdleIsIdle, BudgetKept DEF LoginFails, AnswerLogin
    <2> QED
      BY <1>6, <2>1, <2>2, <2>3, <2>4, <2>5, <2>6, <2>7, <2>8 DEF Handle
  <1> QED
    BY <1>1, <1>2, <1>3, <1>4, <1>5, <1>6 DEF AdminNext

(* No token is due that was not. *)
LEMMA PaidKept ==
    ASSUME PaidInv, tokens \in Nat, tokens' = tokens, UNCHANGED accepted, Due' \subseteq Due
    PROVE  PaidInv'
  <1>1. Cardinality(Due') <= Cardinality(Due) /\ Cardinality(Due') \in Nat
    BY LoginSets, FS_Subset, FS_CardinalityType
  <1>2. Paid' = Paid
    BY DEF Paid, Accepted, accepted
  <1>3. Cardinality(Paid) \in Nat
    BY FS_CardinalityType DEF PaidInv
  <1> QED
    BY <1>1, <1>2, <1>3, LoginSets DEF PaidInv

(* One more token is due, for a code that was accepted once more. *)
LEMMA PaidByCode ==
    ASSUME PaidInv, AdminTypeOK, NEW l \in Logins, NEW c \in Code,
           Accepted(c) + 1 \in Enrolments,
           \/ uses' = [uses EXCEPT ![c] = @ + 1] /\ overtaken' = overtaken
           \/ overtaken' = [overtaken EXCEPT ![c] = @ + 1] /\ uses' = uses,
           tokens' = tokens, Due' = Due \cup {l}
    PROVE  PaidInv'
  <1>1. Cardinality(Due') <= Cardinality(Due) + 1 /\ Cardinality(Due') \in Nat
    <2>1. /\ IsFiniteSet(Due \cup {l})
          /\ Cardinality(Due \cup {l}) = IF l \in Due THEN Cardinality(Due)
                                         ELSE Cardinality(Due) + 1
      BY LoginSets, FS_AddElement
    <2> QED
      BY <2>1, LoginSets
  <1>2. Paid' = Paid \cup {<<c, Accepted(c) + 1>>} /\ <<c, Accepted(c) + 1>> \notin Paid
    <2>1. \A d \in Code : Accepted(d) \in Nat
      BY DEF Accepted, AdminTypeOK
    <2>2. \A d \in Code : Accepted(d)' = IF d = c THEN Accepted(c) + 1 ELSE Accepted(d)
      BY DEF Accepted, AdminTypeOK
    <2>3. \A d \in Code, n \in Enrolments :
             <<d, n>> \in Paid' <=> <<d, n>> \in Paid \/ (d = c /\ n = Accepted(c) + 1)
      BY <2>1, <2>2 DEF Paid, Enrolments
    <2>4. <<c, Accepted(c) + 1>> \notin Paid
      BY <2>1 DEF Paid
    <2>5. Paid \subseteq Code \X Enrolments /\ Paid' \subseteq Code \X Enrolments
      BY DEF Paid
    <2> QED
      BY <2>3, <2>4, <2>5
  <1>3. IsFiniteSet(Paid') /\ Cardinality(Paid') = Cardinality(Paid) + 1
    BY <1>2, FS_AddElement DEF PaidInv
  <1>4. Cardinality(Paid) \in Nat
    BY FS_CardinalityType DEF PaidInv
  <1> QED
    BY <1>1, <1>3, <1>4, LoginSets DEF PaidInv, AdminTypeOK

(* A code paid for every token: every action keeps it. *)
LEMMA PaidStep == AdminIInv /\ PaidInv /\ [AdminNext]_adminVars => PaidInv'
  <1> SUFFICES ASSUME AdminIInv, PaidInv, [AdminNext]_adminVars PROVE PaidInv'
    OBVIOUS
  <1>0. /\ admin \in Admin /\ tokens \in Nat /\ AdminTypeOK /\ Consistent
        /\ login \in [Logins -> Login] /\ uses \in [Code -> Nat] /\ overtaken \in [Code -> Nat]
        /\ admin.secret \in 0..MaxEnrolments /\ Spent /\ Accountable
    BY DEF AdminIInv, AdminTypeOK, Admin
  <1>1. CASE UNCHANGED adminVars
    BY <1>0, <1>1, PaidKept DEF adminVars, Due, LoginAt
  <1>2. CASE ChangeKey
    <2>1. Due' = {}
      BY <1>2 DEF ChangeKey, Due, LoginAt, NoLogin, Doing
    <2> QED
      BY <1>0, <1>2, <2>1, PaidKept DEF ChangeKey
  <1>3. CASE Tick
    BY <1>0, <1>3, PaidKept DEF Tick, Due, LoginAt
  <1>4. CASE Lapse
    BY <1>0, <1>4, PaidKept DEF Lapse, Due, LoginAt
  <1>5. CASE Enrol
    BY <1>0, <1>5, PaidKept DEF Enrol, Generate, EnableMfa, IssueRecoveryCodes, ScriptFails,
                                Confirm, Due, LoginAt
  <1>6. ASSUME NEW l \in Logins, Handle(l) PROVE PaidInv'
    <2> USE DEF Doing
    <2>1. ASSUME NEW right \in BOOLEAN, NEW code \in Submissions, Submit(l, right, code)
          PROVE PaidInv'
      <3>1. Due' \subseteq Due
        BY <1>0, <2>1, OneLogin DEF Submit, Fail
      <3> QED
        BY <1>0, <2>1, <3>1, PaidKept DEF Submit
    <2>2. CASE RecordFailedAttempt(l)
      <3>1. Due' \subseteq Due
        BY <1>0, <2>2, OneLogin, IdleIsIdle DEF RecordFailedAttempt, AnswerLogin
      <3> QED
        BY <1>0, <2>2, <3>1, PaidKept DEF RecordFailedAttempt
    <2>3. CASE VerifyTotp(l)
      <3>1. Due' \subseteq Due
        BY <1>0, <2>3, OneLogin DEF VerifyTotp, Take, Fail
      <3> QED
        BY <1>0, <2>3, <3>1, PaidKept DEF VerifyTotp
    <2>4. CASE BurnTimestep(l)
      <3>1. CASE admin.last_timestep < login[l].code.n
        <4>1. login[l].code \in Code /\ Accepted(login[l].code) + 1 \in Enrolments
          <5> DEFINE c == login[l].code
          <5>1. /\ c \in Code /\ c.kind = "totp" /\ c.issue \in Enrolments
                /\ c.issue <= admin.secret /\ admin.last_timestep < c.n
            BY <1>0, <2>4, <3>1, CodeKinds DEF Consistent, BurnTimestep
          <5> HIDE DEF c
          <5>2. Accepted(c) <= admin.secret - c.issue /\ Accepted(c) \in Nat
            BY <1>0, <5>1 DEF Accountable, Accepted
          <5>3. Accepted(c) + 1 \in Enrolments
            BY <1>0, <5>1, <5>2 DEF Enrolments
          <5> QED
            BY <5>1, <5>3 DEF c
        <4>3. \/ /\ uses' = [uses EXCEPT ![login[l].code] = @ + 1] /\ overtaken' = overtaken
              \/ /\ overtaken' = [overtaken EXCEPT ![login[l].code] = @ + 1] /\ uses' = uses
          BY <2>4, <3>1 DEF BurnTimestep, Burns
        <4>2. Due' = Due \cup {l}
          BY <1>0, <2>4, <3>1, OneLogin DEF BurnTimestep, Accept
        <4> QED
          BY <1>0, <2>4, <4>1, <4>2, <4>3, PaidByCode DEF BurnTimestep
      <3>2. CASE ~(admin.last_timestep < login[l].code.n)
        BY <1>0, <2>4, <3>2, OneLogin, PaidKept DEF BurnTimestep, Fail
      <3> QED
        BY <3>1, <3>2
    <2>5. CASE SelectRecoveryCodes(l)
      <3>1. Due' \subseteq Due
        BY <1>0, <2>5, OneLogin DEF SelectRecoveryCodes, Take, Fail
      <3> QED
        BY <1>0, <2>5, <3>1, PaidKept DEF SelectRecoveryCodes
    <2>6. CASE ConsumeRecoveryCode(l)
      <3>1. CASE login[l].code \in recovery
        <4>1. login[l].code \in Code /\ Accepted(login[l].code) + 1 \in Enrolments
          <5>1. /\ login[l].code \in Code /\ login[l].code \in Good
                /\ login[l].code.kind = "recovery" /\ login[l].code.issue \in Enrolments
            BY <1>0, <3>1, CodeKinds DEF AdminTypeOK, Good
          <5>2. uses[login[l].code] = 0 /\ overtaken[login[l].code] = 0
            BY <1>0, <5>1 DEF Spent, Accountable
          <5> QED
            BY <5>1, <5>2 DEF Accepted, Enrolments
        <4>2. Due' = Due \cup {l}
          BY <1>0, <2>6, <3>1, OneLogin DEF ConsumeRecoveryCode, Accept
        <4> QED
          BY <1>0, <2>6, <3>1, <4>1, <4>2, PaidByCode DEF ConsumeRecoveryCode
      <3>2. CASE login[l].code \notin recovery
        BY <1>0, <2>6, <3>2, OneLogin, PaidKept DEF ConsumeRecoveryCode, Fail, accepted
      <3> QED
        BY <3>1, <3>2
    <2>7. CASE Succeed(l)
      <3>1. Due' = Due \ {l}
        BY <1>0, <2>7, OneLogin, IdleIsIdle DEF Succeed, AnswerLogin
      <3>2. CASE login[l].enrolled
        <4>1. l \in Due /\ tokens' = tokens + 1 /\ UNCHANGED accepted
          BY <2>7, <3>2 DEF Succeed, Due
        <4>2. Cardinality(Due') = Cardinality(Due) - 1
          BY <3>1, <4>1, LoginSets, FS_RemoveElement
        <4>3. Paid' = Paid
          BY <4>1 DEF Paid, Accepted, accepted
        <4>4. Cardinality(Paid) \in Nat
          BY FS_CardinalityType DEF PaidInv
        <4> QED
          BY <1>0, <4>1, <4>2, <4>3, <4>4, LoginSets DEF PaidInv
      <3>3. CASE ~login[l].enrolled
        BY <1>0, <2>7, <3>1, <3>3, PaidKept DEF Succeed
      <3> QED
        BY <3>2, <3>3
    <2>8. CASE LoginFails(l)
      <3>1. Due' \subseteq Due
        BY <1>0, <2>8, OneLogin, IdleIsIdle DEF LoginFails, AnswerLogin
      <3> QED
        BY <1>0, <2>8, <3>1, PaidKept DEF LoginFails
    <2> QED
      BY <1>6, <2>1, <2>2, <2>3, <2>4, <2>5, <2>6, <2>7, <2>8 DEF Handle
  <1> QED
    BY <1>1, <1>2, <1>3, <1>4, <1>5, <1>6 DEF AdminNext

(* A wrong password and a wrong second factor draw on one budget, for any
   number of logins at once: an account is open only with attempts left, and no
   more than the logins under way get past a lock (recordFailedAttempt). *)
THEOREM OneBudget == AdminSpec => []AdminStateOK
  <1>1. AdminIInv /\ BudgetInv => AdminStateOK
    BY DEF AdminIInv, BudgetInv, AdminStateOK, BudgetHolds
  <1> QED
    BY AdminIInvAlways, InitBudget, BudgetStep, <1>1, PTL DEF AdminSpec

(* Every token of a login that found the account enrolled was paid for by a
   code that was presented and accepted, and no code pays for two but across
   a re-enrolment, whatever failed between burning the code and minting the
   token (verifyTotp, verifyRecoveryCode, adminController.login). *)
THEOREM EveryTokenPaidFor == AdminSpec => []CodesPayForTokens
  <1>1. AdminIInv /\ OncePerEnrolment /\ PaidInv => TokensPaidFor
    <2> SUFFICES ASSUME AdminIInv, OncePerEnrolment, PaidInv PROVE TokensPaidFor
      OBVIOUS
    <2>1. \A c \in Code : Accepted(c) \in Nat /\ EnrolmentsSince(c) \in Int
      BY DEF AdminIInv, AdminTypeOK, Accepted, EnrolmentsSince, Admin, Code, Totp, Recovery,
             Enrolments
    <2>2. \A c \in Code, n \in Enrolments :
             n <= Accepted(c) => n <= 1 + EnrolmentsSince(c)
      BY <2>1 DEF OncePerEnrolment, Enrolments
    <2>3. Payments = Paid
      BY <2>2 DEF Payments, Paid
    <2> QED
      BY <2>3 DEF PaidInv, TokensPaidFor, Due
  <1>2. OncePerEnrolment /\ TokensPaidFor => CodesPayForTokens
    BY DEF CodesPayForTokens
  <1> QED
    BY AdminIInvAlways, NoMoreThanEnrolments, InitBudget, PaidStep, <1>1, <1>2, PTL DEF AdminSpec

-----------------------------------------------------------------------------
(***************************************************************************)
(* Accounts: a row with its foreign keys and welcome, a link in the        *)
(* mailbox for every unverified account, and links that verify once; for   *)
(* every set of emails, every pool and any finite set of requests.         *)
(*                                                                         *)
(* The inductive invariant says what a request relies on between its       *)
(* statements: a row that is not committed is of an address and a link     *)
(* nobody else has, a resent link is of one account, and a number is left  *)
(* for the link of every request that is yet to issue one.                 *)
(***************************************************************************)

(* A link for every request that waits for one. *)
EnoughLinks == issued + Cardinality(Waiting) <= MaxLinks

(* Links are numbered as they are issued; those of the accounts are unused and
   each is of one account. *)
LinksFit ==
    /\ \A k \in Links : k > issued => opened[k] = 0
    /\ \A e \in Emails :
        /\ account[e].link <= issued
        /\ account[e].link # 0 => opened[account[e].link] = 0
        /\ \A f \in Emails \ {e} : account[e].link # 0 => account[f].link # account[e].link

(* What request p relies on while its job is j: a row that is not committed is
   of an address nobody else has or is about to have, with a link of its own,
   mailed by the time of its COMMIT; a link to be resent is of one account; an
   account that was found is there. *)
JobFits(p, j) ==
    /\ j.at \in {"mail", "commit", "resend"} => j.link \in 1..issued
    /\ j.at \in {"mail", "commit"} =>
        /\ ~Exists(j.email) /\ opened[j.link] = 0
        /\ \A e \in Emails : account[e].link # j.link
        /\ \A q \in Requests \ {p} :
            /\ job[q].at \in {"mail", "commit"} => job[q].email # j.email
            /\ job[q].at \in {"mail", "commit", "resend"} => job[q].link # j.link
    /\ j.at = "commit" /\ MailConfigured => j.link \in mailbox[j.email]
    /\ j.at = "resend" =>
        j.link \in resent /\ \A e \in Emails : account[e].link = j.link => e = j.email
    /\ j.at \in {"updateToken", "linkUser", "createProfile", "welcome"} => Exists(j.email)
    /\ j.at \in {"byGoogleId", "byEmail", "linkUser", "createUser"} => j.google \in Googles
    /\ j.at = "welcome" => account[j.email].profile

JobsFit == \A p \in Requests : JobFits(p, job[p])

IInv == TypeOK /\ EnoughLinks /\ LinksFit /\ JobsFit /\ NobodyIsStranded /\ AccountsAreWhole

(* What a request is doing. *)
Handling == [at : Steps, email : Emails \cup {None}, google : Googles \cup {None},
             link : {0} \cup Links]

USE NoneAssumption, PoolAssumption, RequestsAssumption, AccountBoundsAssumption

LEMMA HandlingType ==
    /\ Idle \in Handling
    /\ TypeOK => \A p \in Requests, step \in Steps : [job[p] EXCEPT !.at = step] \in Handling
    /\ \A step \in Steps, e \in Emails, g \in Googles \cup {None} :
           [at |-> step, email |-> e, google |-> g, link |-> 0] \in Handling
  BY DEF Idle, Handling, Steps, TypeOK

(* Rows as the statements write them. *)
LEMMA AccountType ==
    /\ NoAccount \in Account
    /\ \A k \in Links : Registered(k) \in Account /\ Registered(k).password
    /\ \A g \in Googles : [NoAccount EXCEPT !.google_id = g, !.verified = TRUE] \in Account
  BY DEF NoAccount, Account, Registered

(* ... and what it leaves of a row that was there. *)
LEMMA RowUpdates ==
    ASSUME NEW r \in Account
    PROVE  /\ [r EXCEPT !.profile = TRUE] \in Account
           /\ [r EXCEPT !.welcome = TRUE] \in Account
           /\ [r EXCEPT !.expired = TRUE] \in Account
           /\ [r EXCEPT !.verified = TRUE, !.link = 0] \in Account
           /\ \A g \in Googles : [r EXCEPT !.google_id = g, !.verified = TRUE] \in Account
  BY DEF Account

LEMMA InitIInv == Init => IInv
  <1> SUFFICES ASSUME Init PROVE IInv
    OBVIOUS
  <1> USE DEF Init
  <1>1. TypeOK
    <2>1. job \in [Requests -> Handling] /\ \A p \in Requests : job[p].at = "idle"
      BY HandlingType DEF Idle
    <2>2. account \in [Emails -> Account] /\ \A e \in Emails : account[e] = NoAccount
      BY AccountType
    <2>3. opened \in [Links -> Nat] /\ mailbox \in [Emails -> SUBSET Links]
      OBVIOUS
    <2>4. issued \in 0..MaxLinks /\ faults \in 0..MaxFaults /\ resent \subseteq Links
      OBVIOUS
    <2>5. \A p \in Requests : job[p].at # "idle" => job[p].email # None
      BY <2>1
    <2>6. starved \in BOOLEAN
      BY Zenon
    <2>7. job \in [Requests -> [at : Steps, email : Emails \cup {None},
                             google : Googles \cup {None}, link : {0} \cup Links]]
      BY <2>1 DEF Handling
    <2> QED
      BY <2>2, <2>3, <2>4, <2>5, <2>6, <2>7 DEF TypeOK
  <1>2. Waiting = {}
    BY DEF Waiting, Idle
  <1>3. EnoughLinks
    BY <1>2, FS_EmptySet DEF EnoughLinks
  <1>4. LinksFit
    BY DEF LinksFit, NoAccount
  <1>5. JobsFit
    BY DEF JobsFit, JobFits, Idle
  <1>6. NobodyIsStranded /\ AccountsAreWhole
    BY DEF NobodyIsStranded, AccountsAreWhole, Exists, NoAccount
  <1> QED
    BY <1>1, <1>3, <1>4, <1>5, <1>6 DEF IInv

(* The types of what a step leaves behind: a job as it was or as it may be,
   one row of an account that is there afterwards, or none. *)
LEMMA JobTyped ==
    ASSUME TypeOK, NEW p \in Requests, NEW j \in Handling, job' = [job EXCEPT ![p] = j],
           j.at # "idle" => j.email # None
    PROVE  /\ job' \in [Requests -> [at : Steps, email : Emails \cup {None},
                                      google : Googles \cup {None}, link : {0} \cup Links]]
           /\ \A q \in Requests : job'[q].at # "idle" => job'[q].email # None
  BY DEF TypeOK, Handling

LEMMA AccountTyped ==
    ASSUME TypeOK, NEW e \in Emails, NEW row \in Account, account' = [account EXCEPT ![e] = row],
           row.password \/ row.google_id # None
    PROVE  /\ account' \in [Emails -> Account]
           /\ \A f \in Emails : Exists(f)' \/ account'[f] = NoAccount
  BY DEF TypeOK, Exists

(* The links that are kept for requests: what the job of one request adds to
   them. *)
LEMMA WaitingMoves ==
    ASSUME TypeOK, NEW p \in Requests, NEW j \in Handling, job' = [job EXCEPT ![p] = j]
    PROVE  /\ Cardinality(Waiting) \in Nat /\ Cardinality(Waiting') \in Nat
           /\ p \in Waiting => Cardinality(Waiting') <= Cardinality(Waiting)
           /\ Cardinality(Waiting') <= Cardinality(Waiting) + 1
           /\ p \notin Waiting' => Cardinality(Waiting') <= Cardinality(Waiting)
           /\ p \in Waiting /\ p \notin Waiting' => Cardinality(Waiting') + 1 <= Cardinality(Waiting)
  <1>1. Waiting \subseteq Requests /\ Waiting \cup {p} \subseteq Requests
    BY DEF Waiting
  <1>2. IsFiniteSet(Waiting) /\ IsFiniteSet(Waiting \cup {p}) /\ IsFiniteSet(Waiting \ {p})
    BY <1>1, FS_Subset
  <1>3. \A q \in Requests \ {p} : job'[q] = job[q]
    BY DEF TypeOK
  <1>4. Waiting' \subseteq Waiting \cup {p} /\ (p \notin Waiting' => Waiting' \subseteq Waiting \ {p})
    BY <1>3 DEF Waiting
  <1>5. /\ Cardinality(Waiting) \in Nat /\ Cardinality(Waiting') \in Nat
        /\ Cardinality(Waiting') <= Cardinality(Waiting \cup {p})
        /\ p \notin Waiting' => Cardinality(Waiting') <= Cardinality(Waiting \ {p})
    BY <1>2, <1>4, FS_Subset, FS_CardinalityType
  <1>6. /\ Cardinality(Waiting \cup {p}) = IF p \in Waiting THEN Cardinality(Waiting) ELSE Cardinality(Waiting) + 1
        /\ Cardinality(Waiting \ {p}) = IF p \in Waiting THEN Cardinality(Waiting) - 1 ELSE Cardinality(Waiting)
    BY <1>2, FS_AddElement, FS_RemoveElement
  <1> QED
    BY <1>5, <1>6

(* What bounds a step: starved only becomes true, and faults are counted. *)
Bounded == starved' \in BOOLEAN /\ (starved => starved') /\ faults' \in faults..MaxFaults

(* A request moves on, and no row changes with it; mails may arrive. *)
LEMMA Advances ==
    ASSUME IInv, Bounded, NEW p \in Requests, NEW j \in Handling, job' = [job EXCEPT ![p] = j],
           j.at # "idle" => j.email # None,
           UNCHANGED <<account, issued, opened, resent>>,
           mailbox' \in [Emails -> SUBSET Links],
           \A e \in Emails : mailbox[e] \subseteq mailbox'[e],
           JobFits(p, j)',
           j.at \in {"mail", "commit"} => job[p].at \in {"mail", "commit"},
           j.at = "resend" => job[p].at = "resend",
           j.at \in {"mail", "commit", "resend"} => j.link = job[p].link /\ j.email = job[p].email,
           p \in Waiting' => p \in Waiting \/ Room,
           At(p, "resend") /\ MailConfigured =>
               j = job[p] \/ job[p].link \in mailbox'[job[p].email] \/ faults' > 0,
           job[p].at \in {"createProfile", "welcome"} =>
               \/ j.at \in {"createProfile", "welcome"} /\ j.email = job[p].email
               \/ starved' \/ faults' > 0
    PROVE  IInv'
  <1> USE DEF IInv
  <1>1. \A q \in Requests : job'[q] = IF q = p THEN j ELSE job[q]
    BY DEF TypeOK
  <1>2. TypeOK'
    <2>1. \A e \in Emails : Exists(e)' \/ account'[e] = NoAccount
      BY DEF TypeOK, Exists
    <2>2. faults' \in 0..MaxFaults
      BY DEF TypeOK, Bounded
    <2> QED
      BY <2>1, <2>2, JobTyped DEF TypeOK, Bounded
  <1>3. EnoughLinks'
    <2>1. issued \in Nat /\ issued' = issued
      BY DEF TypeOK
    <2>2. /\ Cardinality(Waiting) \in Nat /\ Cardinality(Waiting') \in Nat
          /\ Cardinality(Waiting') <= Cardinality(Waiting) + 1
          /\ p \in Waiting \/ p \notin Waiting' => Cardinality(Waiting') <= Cardinality(Waiting)
      BY WaitingMoves
    <2>3. EnoughLinks /\ (p \in Waiting' => p \in Waiting \/ Room)
      OBVIOUS
    <2> QED
      BY <2>1, <2>2, <2>3 DEF EnoughLinks, Room
  <1>4. LinksFit'
    BY DEF LinksFit
  <1>5. JobsFit'
    <2> SUFFICES ASSUME NEW q \in Requests, q # p PROVE JobFits(q, job[q])'
      BY <1>1 DEF JobsFit
    <2>1. JobFits(q, job[q]) /\ job'[q] = job[q]
      BY <1>1 DEF JobsFit
    <2>2. JobFits(p, job[p])
      BY DEF JobsFit
    <2>3. \A e \in Emails : Exists(e)' <=> Exists(e)
      BY DEF Exists
    <2>4. job[q].at # "idle" => job[q].email \in Emails
      BY DEF TypeOK
    <2> QED
      BY <1>1, <2>1, <2>2, <2>3, <2>4 DEF JobFits
  <1>6. NobodyIsStranded'
    <2> SUFFICES ASSUME MailConfigured, NEW e \in Emails, Exists(e), ~account[e].verified
                 PROVE  \/ account[e].link \in mailbox'[e]
                        \/ \E q \in Requests : At(q, "resend")' /\ job'[q].link = account[e].link
                        \/ faults' > 0 /\ account[e].link \in resent
      BY DEF NobodyIsStranded, Exists
    <2>1. CASE account[e].link \in mailbox[e]
      BY <2>1
    <2>2. ASSUME NEW q \in Requests, At(q, "resend"), job[q].link = account[e].link
          PROVE  \/ account[e].link \in mailbox'[e]
                 \/ \E r \in Requests : At(r, "resend")' /\ job'[r].link = account[e].link
                 \/ faults' > 0 /\ account[e].link \in resent
      <3>1. job[q].email = e /\ job[q].link \in resent
        BY <2>2 DEF JobsFit, JobFits, At
      <3>2. CASE q # p
        BY <1>1, <2>2, <3>2 DEF At
      <3>3. CASE q = p
        BY <1>1, <2>2, <3>1, <3>3 DEF At
      <3> QED
        BY <3>2, <3>3
    <2>3. CASE faults > 0 /\ account[e].link \in resent
      BY <2>3 DEF Bounded, TypeOK
    <2> QED
      BY <2>1, <2>2, <2>3 DEF NobodyIsStranded
  <1>7. AccountsAreWhole'
    <2> SUFFICES ASSUME NEW e \in Emails, Exists(e), ~(account[e].profile /\ account[e].welcome)
                 PROVE  /\ ~account[e].password
                        /\ \/ \E q \in Requests :
                                job'[q].email = e /\ job'[q].at \in {"createProfile", "welcome"}
                           \/ starved' \/ faults' > 0
      BY DEF AccountsAreWhole, Exists
    <2>1. faults > 0 => faults' > 0
      BY DEF Bounded, TypeOK
    <2> QED
      BY <1>1, <2>1 DEF AccountsAreWhole, Bounded
  <1> QED
    BY <1>2, <1>3, <1>4, <1>5, <1>6, <1>7

(* A request writes the row of its account: the link stays, what there was of
   the account stays, and no other transaction is about to insert it. *)
LEMMA Fills ==
    ASSUME IInv, Bounded, NEW p \in Requests, NEW j \in Handling, job' = [job EXCEPT ![p] = j],
           NEW e \in Emails, job[p].email = e, j.at # "idle" => j.email = e,
           NEW row \in Account, account' = [account EXCEPT ![e] = row],
           UNCHANGED <<mailbox, issued, opened, resent>>,
           row.link = account[e].link, row.password = account[e].password,
           row.password \/ row.google_id # None,
           account[e].profile => row.profile, account[e].welcome => row.welcome,
           row.verified \/ (Exists(e) /\ row.verified = account[e].verified),
           ~Exists(e) => \A q \in Requests : job[q].at \in {"mail", "commit"} => job[q].email # e,
           JobFits(p, j)',
           j.at \notin {"mail", "commit", "resend"}, job[p].at # "resend",
           p \notin Waiting',
           \/ row.profile /\ row.welcome
           \/ j.at \in {"createProfile", "welcome"}
           \/ starved' \/ faults' > 0
           \/ Exists(e) /\ job[p].at \notin {"createProfile", "welcome"}
    PROVE  IInv'
  <1> USE DEF IInv
  <1>1. \A q \in Requests : job'[q] = IF q = p THEN j ELSE job[q]
    BY DEF TypeOK
  <1>2. \A f \in Emails : account'[f] = IF f = e THEN row ELSE account[f]
    BY DEF TypeOK
  <1>3. /\ \A f \in Emails : account'[f].link = account[f].link
        /\ \A f \in Emails \ {e} : Exists(f)' <=> Exists(f)
        /\ Exists(e)'
    BY <1>2 DEF Exists
  <1>4. TypeOK'
    <2>1. \A f \in Emails : Exists(f)' \/ account'[f] = NoAccount
      BY <1>2, <1>3 DEF TypeOK
    <2>2. faults' \in 0..MaxFaults
      BY DEF TypeOK, Bounded
    <2>3. j.at # "idle" => j.email # None
      OBVIOUS
    <2> QED
      BY <2>1, <2>2, <2>3, JobTyped, AccountTyped DEF TypeOK, Bounded
  <1>5. EnoughLinks'
    <2>1. issued \in Nat /\ issued' = issued
      BY DEF TypeOK
    <2>2. /\ Cardinality(Waiting) \in Nat /\ Cardinality(Waiting') \in Nat
          /\ Cardinality(Waiting') <= Cardinality(Waiting)
      BY WaitingMoves
    <2> QED
      BY <2>1, <2>2 DEF EnoughLinks
  <1>6. LinksFit'
    BY <1>3 DEF LinksFit
  <1>7. JobsFit'
    <2> SUFFICES ASSUME NEW q \in Requests, q # p PROVE JobFits(q, job[q])'
      BY <1>1 DEF JobsFit
    <2>1. JobFits(q, job[q]) /\ job'[q] = job[q]
      BY <1>1 DEF JobsFit
    <2>2. job[q].at # "idle" => job[q].email \in Emails
      BY DEF TypeOK
    <2>3. job[q].at \in {"mail", "commit"} => job[q].email # e
      BY <2>1 DEF JobFits
    <2>4. account[job[q].email].profile => account'[job[q].email].profile
      BY <1>2, <2>2 DEF TypeOK
    <2> QED
      BY <1>1, <1>3, <2>1, <2>2, <2>3, <2>4 DEF JobFits
  <1>8. NobodyIsStranded'
    <2> SUFFICES ASSUME MailConfigured, NEW f \in Emails, Exists(f)', ~account'[f].verified
                 PROVE  \/ account[f].link \in mailbox[f]
                        \/ \E q \in Requests : At(q, "resend")' /\ job'[q].link = account[f].link
                        \/ faults' > 0 /\ account[f].link \in resent
      BY <1>3 DEF NobodyIsStranded
    <2>1. Exists(f) /\ ~account[f].verified
      BY <1>2, <1>3
    <2>2. \A q \in Requests : At(q, "resend") => At(q, "resend")' /\ job'[q] = job[q]
      BY <1>1 DEF At
    <2> QED
      BY <2>1, <2>2 DEF NobodyIsStranded, Bounded, TypeOK
  <1>9. AccountsAreWhole'
    <2> SUFFICES ASSUME NEW f \in Emails, Exists(f)', ~(account'[f].profile /\ account'[f].welcome)
                 PROVE  /\ ~account'[f].password
                        /\ \/ \E q \in Requests :
                                job'[q].email = f /\ job'[q].at \in {"createProfile", "welcome"}
                           \/ starved' \/ faults' > 0
      BY DEF AccountsAreWhole
    <2>1. faults > 0 => faults' > 0
      BY DEF Bounded, TypeOK
    <2>2. account[f].profile = TRUE => account'[f].profile
      BY <1>2
    <2>3. Exists(f) => ~(account[f].profile /\ account[f].welcome)
      BY <1>2
    <2>4. CASE f # e
      BY <1>1, <1>2, <1>3, <2>1, <2>3, <2>4 DEF AccountsAreWhole, Bounded
    <2>5. CASE f = e
      BY <1>1, <1>2, <1>3, <2>1, <2>3, <2>5 DEF AccountsAreWhole, Bounded, Exists
    <2> QED
      BY <2>4, <2>5
  <1> QED
    BY <1>4, <1>5, <1>6, <1>7, <1>8, <1>9

(* COMMIT, or one whose answer is lost. *)
LEMMA Commits ==
    ASSUME IInv, Bounded, NEW p \in Requests, At(p, "commit"), CommitRow(p),
           NEW j \in Handling, job' = [job EXCEPT ![p] = j],
           j.at \in {"idle", "rollback"}, j.at # "idle" => j.email # None,
           UNCHANGED <<mailbox, issued, opened, resent>>
    PROVE  IInv'
  <1> USE DEF IInv, At
  <1>1. \A q \in Requests : job'[q] = IF q = p THEN j ELSE job[q]
    BY DEF TypeOK
  <1>0. job[p].email \in Emails /\ job[p].link \in Links /\ job[p].link \in 1..issued
    BY DEF TypeOK, JobsFit, JobFits
  <1>2. PICK e \in Emails, k \in Links : e = job[p].email /\ k = job[p].link /\ k \in 1..issued
    BY <1>0
  <1>3. /\ ~Exists(e) /\ opened[k] = 0 /\ (MailConfigured => k \in mailbox[e])
        /\ \A f \in Emails : account[f].link # k
        /\ \A q \in Requests \ {p} :
            /\ job[q].at \in {"mail", "commit"} => job[q].email # e
            /\ job[q].at \in {"mail", "commit", "resend"} => job[q].link # k
    BY <1>2 DEF JobsFit, JobFits
  <1>4. account' = [account EXCEPT ![e] = Registered(k)] /\ Registered(k) \in Account
    BY <1>2, AccountType DEF CommitRow
  <1>5. /\ \A f \in Emails \ {e} : account'[f] = account[f] /\ (Exists(f)' <=> Exists(f))
        /\ account'[e] = Registered(k)
    BY <1>2, <1>4 DEF TypeOK, Exists
  <1>6. /\ Registered(k).link = k /\ Registered(k).password
        /\ Registered(k).profile /\ Registered(k).welcome
    BY DEF Registered, NoAccount
  <1>7. Exists(e)'
    BY <1>5, <1>6 DEF Exists
  <1>8. TypeOK'
    <2>1. \A f \in Emails : Exists(f)' \/ account'[f] = NoAccount
      BY <1>5, <1>7 DEF TypeOK
    <2>2. faults' \in 0..MaxFaults
      BY DEF TypeOK, Bounded
    <2> QED
      BY <1>2, <1>4, <1>6, <2>1, <2>2, JobTyped, AccountTyped DEF TypeOK, Bounded
  <1>9. EnoughLinks'
    <2>1. issued \in Nat /\ issued' = issued
      BY DEF TypeOK
    <2>2. p \notin Waiting'
      BY <1>1 DEF Waiting
    <2>3. /\ Cardinality(Waiting) \in Nat /\ Cardinality(Waiting') \in Nat
          /\ Cardinality(Waiting') <= Cardinality(Waiting)
      BY <2>2, WaitingMoves
    <2> QED
      BY <2>1, <2>3 DEF EnoughLinks
  <1>10. LinksFit'
    BY <1>2, <1>3, <1>5, <1>6 DEF LinksFit, TypeOK
  <1>11. JobsFit'
    <2>1. JobFits(p, j)'
      BY DEF JobFits
    <2> SUFFICES ASSUME NEW q \in Requests, q # p PROVE JobFits(q, job[q])'
      BY <1>1, <2>1 DEF JobsFit
    <2>2. JobFits(q, job[q]) /\ job'[q] = job[q]
      BY <1>1 DEF JobsFit
    <2>3. job[q].at # "idle" => job[q].email \in Emails
      BY DEF TypeOK
    <2> QED
      BY <1>1, <1>3, <1>5, <1>6, <1>7, <2>2, <2>3 DEF JobFits
  <1>12. NobodyIsStranded'
    <2> SUFFICES ASSUME MailConfigured, NEW f \in Emails, Exists(f)', ~account'[f].verified
                 PROVE  \/ account'[f].link \in mailbox[f]
                        \/ \E q \in Requests : At(q, "resend")' /\ job'[q].link = account'[f].link
                        \/ faults' > 0 /\ account'[f].link \in resent
      BY DEF NobodyIsStranded
    <2>1. \A q \in Requests : At(q, "resend") => At(q, "resend")' /\ job'[q] = job[q]
      BY <1>1
    <2> QED
      BY <1>3, <1>5, <1>6, <2>1 DEF NobodyIsStranded, Bounded, TypeOK
  <1>13. AccountsAreWhole'
    <2>1. faults > 0 => faults' > 0
      BY DEF Bounded, TypeOK
    <2> SUFFICES ASSUME NEW f \in Emails \ {e}, Exists(f), ~(account[f].profile /\ account[f].welcome)
                 PROVE  /\ ~account[f].password
                        /\ \/ \E q \in Requests :
                                job'[q].email = f /\ job'[q].at \in {"createProfile", "welcome"}
                           \/ starved' \/ faults' > 0
      BY <1>5, <1>6 DEF AccountsAreWhole
    <2> QED
      BY <1>1, <2>1 DEF AccountsAreWhole, Bounded
  <1> QED
    BY <1>8, <1>9, <1>10, <1>11, <1>12, <1>13

(* The UPDATE of a resend, to be mailed or, its answer lost, not. *)
LEMMA Relinks ==
    ASSUME IInv, Bounded, NEW p \in Requests, At(p, "updateToken"), NewLink(p),
           NEW j \in Handling, job' = [job EXCEPT ![p] = j],
           \/ j.at = "resend" /\ j.link = issued + 1 /\ j.email = job[p].email
           \/ j.at = "idle" /\ faults' > 0,
           UNCHANGED <<mailbox, opened>>
    PROVE  IInv'
  <1> USE DEF IInv, At
  <1> DEFINE e == job[p].email
             k == issued + 1
             row == [account[e] EXCEPT !.link = k, !.expired = FALSE]
  <1>1. \A q \in Requests : job'[q] = IF q = p THEN j ELSE job[q]
    BY DEF TypeOK
  <1>2. e \in Emails /\ Exists(e) /\ issued \in Nat
    BY DEF TypeOK, JobsFit, JobFits
  <1>3. p \in Waiting /\ p \notin Waiting'
    BY <1>1 DEF Waiting
  <1>4. EnoughLinks' /\ k \in Links
    <2>1. /\ Cardinality(Waiting) \in Nat /\ Cardinality(Waiting') \in Nat
          /\ Cardinality(Waiting') + 1 <= Cardinality(Waiting)
      BY <1>3, WaitingMoves
    <2> QED
      BY <1>2, <2>1 DEF EnoughLinks, NewLink, Links
  <1>5. account' = [account EXCEPT ![e] = row] /\ issued' = k /\ resent' = resent \cup {k}
    BY DEF NewLink
  <1>6. account[e] \in Account
    BY <1>2 DEF TypeOK
  <1>7. /\ row \in Account /\ row.link = k /\ row.password = account[e].password
        /\ row.google_id = account[e].google_id /\ row.verified = account[e].verified
        /\ row.profile = account[e].profile /\ row.welcome = account[e].welcome
    BY <1>4, <1>6 DEF Account
  <1>8. /\ \A f \in Emails \ {e} : account'[f] = account[f]
        /\ account'[e] = row
        /\ \A f \in Emails : Exists(f)' <=> Exists(f)
    BY <1>2, <1>5, <1>7 DEF TypeOK, Exists
  <1>9. TypeOK'
    <2>1. \A f \in Emails : Exists(f)' \/ account'[f] = NoAccount
      BY <1>2, <1>8 DEF TypeOK
    <2>2. faults' \in 0..MaxFaults
      BY DEF TypeOK, Bounded
    <2>3. issued' \in 0..MaxLinks
      BY <1>2, <1>4, <1>5 DEF Links
    <2>4. row.password \/ row.google_id # None
      BY <1>2, <1>7 DEF Exists
    <2>5. resent' \subseteq Links
      BY <1>4, <1>5 DEF TypeOK
    <2>6. j.at # "idle" => j.email # None
      BY <1>2
    <2>7. account' \in [Emails -> Account]
      BY <1>2, <1>5, <1>7, <2>4, AccountTyped
    <2> QED
      BY <2>1, <2>2, <2>3, <2>5, <2>6, <2>7, JobTyped DEF TypeOK, Bounded
  <1>10. opened[k] = 0 /\ \A f \in Emails : account[f].link # k
    BY <1>2, <1>4 DEF LinksFit, TypeOK, Account
  <1>11. LinksFit'
    <2>1. \A f \in Emails : account[f].link \in Nat
      BY DEF TypeOK, Account, Links
    <2> QED
      BY <1>2, <1>5, <1>7, <1>8, <1>10, <2>1 DEF LinksFit, Links
  <1>12. JobsFit'
    <2>1. j.at = "resend" => \A f \in Emails : account'[f].link = k => f = e
      BY <1>8, <1>10
    <2>2. JobFits(p, j)'
      BY <1>1, <1>2, <1>5, <2>1 DEF JobFits
    <2> SUFFICES ASSUME NEW q \in Requests, q # p PROVE JobFits(q, job[q])'
      BY <1>1, <2>2 DEF JobsFit
    <2>3. JobFits(q, job[q]) /\ job'[q] = job[q]
      BY <1>1 DEF JobsFit
    <2>4. job[q].at # "idle" => job[q].email \in Emails
      BY DEF TypeOK
    <2>5. job[q].at \in {"mail", "commit", "resend"} => job[q].link \in 1..issued /\ job[q].link # k
      BY <1>2, <2>3 DEF JobFits
    <2>6. job[q].at \in {"mail", "commit", "resend"} =>
            \A f \in Emails : account'[f].link = job[q].link => account[f].link = job[q].link
      BY <1>7, <1>8, <2>5, ZenonT(40)
    <2>7. job[q].at = "welcome" => account'[job[q].email].profile
      BY <1>7, <1>8, <2>3, <2>4 DEF JobFits
    <2> QED
      BY <1>1, <1>2, <1>5, <1>8, <2>3, <2>4, <2>5, <2>6, <2>7 DEF JobFits
  <1>13. NobodyIsStranded'
    <2> SUFFICES ASSUME MailConfigured, NEW f \in Emails, Exists(f)', ~account'[f].verified
                 PROVE  \/ account'[f].link \in mailbox[f]
                        \/ \E q \in Requests : At(q, "resend")' /\ job'[q].link = account'[f].link
                        \/ faults' > 0 /\ account'[f].link \in resent'
      BY DEF NobodyIsStranded
    <2>1. \A q \in Requests : At(q, "resend") => At(q, "resend")' /\ job'[q] = job[q]
      BY <1>1
    <2>2. CASE f = e
      <3>1. account'[f].link = k /\ k \in resent'
        BY <1>5, <1>7, <1>8, <2>2
      <3>2. j.at = "resend" => job'[p].at = "resend" /\ job'[p].link = k
        BY <1>1
      <3> QED
        BY <3>1, <3>2
    <2>3. CASE f # e
      BY <1>5, <1>8, <2>1, <2>3 DEF NobodyIsStranded, Bounded, TypeOK
    <2> QED
      BY <2>2, <2>3
  <1>14. AccountsAreWhole'
    <2>1. faults > 0 => faults' > 0
      BY DEF Bounded, TypeOK
    <2>2. \A f \in Emails : /\ account'[f].password = account[f].password
                            /\ account'[f].profile = account[f].profile
                            /\ account'[f].welcome = account[f].welcome
      BY <1>7, <1>8
    <2> QED
      BY <1>1, <1>8, <2>1, <2>2 DEF AccountsAreWhole, Bounded
  <1> QED
    BY <1>4, <1>9, <1>11, <1>12, <1>13, <1>14

(* A request is answered. *)
LEMMA Answered ==
    ASSUME IInv, Bounded, NEW p \in Requests, Answer(p),
           UNCHANGED <<account, mailbox, issued, opened, resent>>,
           At(p, "resend") => faults' > 0,
           job[p].at \in {"createProfile", "welcome"} => starved' \/ faults' > 0
    PROVE  IInv'
  <1>1. job' = [job EXCEPT ![p] = Idle] /\ Idle \in Handling /\ Idle.at = "idle"
    BY HandlingType DEF Answer, Idle
  <1>2. JobFits(p, Idle)'
    BY DEF JobFits, Idle
  <1>3. p \notin Waiting'
    BY <1>1 DEF Waiting, IInv, TypeOK
  <1>4. mailbox' \in [Emails -> SUBSET Links]
    BY DEF IInv, TypeOK
  <1> QED
    BY <1>1, <1>2, <1>3, <1>4, Advances

(* A request goes on to a step that mails nothing. *)
LEMMA GoesOn ==
    ASSUME IInv, Bounded, NEW p \in Requests,
           NEW step \in Steps \ {"idle", "mail", "commit", "resend"}, To(p, step),
           UNCHANGED <<account, mailbox, issued, opened, resent>>,
           job[p].at \notin {"idle", "resend"},
           step \in {"updateToken", "linkUser", "createProfile", "welcome"} => Exists(job[p].email),
           step \in {"byEmail", "linkUser", "createUser"} => job[p].google \in Googles,
           step \notin {"userCheck", "selectUnverified", "byGoogleId", "welcome"},
           step \in {"connect", "insert", "updateToken"} => p \in Waiting,
           job[p].at \in {"createProfile", "welcome"} => starved' \/ faults' > 0
    PROVE  IInv'
  <1>1. PICK j \in Handling : j = [job[p] EXCEPT !.at = step] /\ job' = [job EXCEPT ![p] = j]
    BY HandlingType DEF To, IInv
  <1>2. job[p] \in Handling
    BY DEF IInv, TypeOK, Handling
  <1>3. j.at = step /\ j.email = job[p].email /\ j.google = job[p].google /\ j.link = job[p].link
    BY <1>1, <1>2 DEF Handling
  <1>4. j.email # None
    BY <1>3 DEF IInv, TypeOK
  <1>5. JobFits(p, j)'
    <2>1. Exists(job[p].email) => account[job[p].email].password \/ account[job[p].email].google_id # None
      BY DEF Exists
    <2> QED
      BY <1>3, <2>1 DEF JobFits, Exists
  <1>6. p \in Waiting' => p \in Waiting
    BY <1>1, <1>3 DEF Waiting, IInv, TypeOK
  <1>7. mailbox' \in [Emails -> SUBSET Links]
    BY DEF IInv, TypeOK
  <1> QED
    BY <1>1, <1>3, <1>4, <1>5, <1>6, <1>7, Advances DEF At

(* A request comes in. *)
LEMMA Starts ==
    ASSUME IInv, NEW p \in Requests, At(p, "idle"), NEW e \in Emails, NEW g \in Googles \cup {None},
           NEW step \in {"userCheck", "selectUnverified", "byGoogleId"}, Start(p, step, e, g),
           step # "byGoogleId" => Room, step = "byGoogleId" => g \in Googles,
           UNCHANGED <<account, mailbox, history, faults>>
    PROVE  IInv'
  <1> DEFINE j == [at |-> step, email |-> e, google |-> g, link |-> 0]
  <1>1. job' = [job EXCEPT ![p] = j] /\ j \in Handling
    BY HandlingType DEF Start, Steps, Querying
  <1>2. JobFits(p, j)'
    BY DEF JobFits
  <1>3. p \in Waiting' => Room
    BY <1>1 DEF Waiting, IInv, TypeOK
  <1>4. mailbox' \in [Emails -> SUBSET Links] /\ Bounded
    BY DEF IInv, TypeOK, Bounded, history
  <1> QED
    BY <1>1, <1>2, <1>3, <1>4, Advances DEF At, history

LEMMA InsertStep == ASSUME IInv, NEW p \in Requests, Insert(p) PROVE IInv'
  <1>1. Bounded
    BY DEF Insert, Bounded, IInv, TypeOK
  <1>2. CASE Exists(job[p].email)
    BY <1>1, <1>2, GoesOn DEF Insert, Runs, At, Steps, Holding
  <1>3. CASE ~Exists(job[p].email)
    <2> USE DEF IInv, At
    <2>1. job[p].email \in Emails /\ issued \in Nat /\ At(p, "insert") /\ issued' = issued + 1
      BY <1>3 DEF TypeOK, Insert, Runs
    <2>2. PICK j : j = [job[p] EXCEPT !.at = "mail", !.link = issued + 1]
      OBVIOUS
    <2>3. job' = [job EXCEPT ![p] = j]
      BY <1>3, <2>2 DEF Insert
    <2>4. p \in Waiting
      BY <2>1 DEF Waiting
    <2>5. job[p] \in Handling
      BY DEF TypeOK, Handling
    <2>6. j.at = "mail" /\ j.link = issued + 1 /\ j.email = job[p].email
      BY <2>2, <2>5 DEF Handling
    <2>7. \A q \in Requests : job'[q] = IF q = p THEN j ELSE job[q]
      BY <2>3 DEF TypeOK
    <2>8. p \notin Waiting'
      BY <2>6, <2>7 DEF Waiting
    <2>9. \A k \in {issued + 1} : k \in Links => j \in Handling
      BY <2>2, <2>5 DEF Handling, Steps, Holding
    <2>10. 1 <= Cardinality(Waiting) /\ Cardinality(Waiting) \in Nat
      <3>1. IsFiniteSet(Waiting)
        BY FS_Subset DEF Waiting
      <3> QED
        BY <2>4, <3>1, FS_EmptySet, FS_CardinalityType
    <2>11. issued + 1 \in Links
      BY <2>1, <2>10 DEF EnoughLinks, Links
    <2>12. j \in Handling
      BY <2>9, <2>11
    <2>13. UNCHANGED <<account, mailbox, opened, resent, starved, faults>>
      BY DEF Insert
    <2>14. TypeOK'
      <3>1. \A f \in Emails : Exists(f)' \/ account'[f] = NoAccount
        BY <2>13 DEF TypeOK, Exists
      <3>2. issued' \in 0..MaxLinks
        BY <2>1, <2>11 DEF Links
      <3>3. j.at # "idle" => j.email # None
        BY <2>1, <2>6
      <3> QED
        BY <2>3, <2>12, <2>13, <3>1, <3>2, <3>3, JobTyped DEF TypeOK
    <2>15. EnoughLinks'
      <3>1. /\ Cardinality(Waiting) \in Nat /\ Cardinality(Waiting') \in Nat
            /\ Cardinality(Waiting') + 1 <= Cardinality(Waiting)
        BY <2>3, <2>4, <2>8, <2>12, WaitingMoves
      <3> QED
        BY <2>1, <3>1 DEF EnoughLinks
    <2>16. LinksFit'
      <3>1. \A f \in Emails : account[f].link \in Nat
        BY DEF TypeOK, Account, Links
      <3> QED
        BY <2>1, <2>13, <3>1 DEF LinksFit, Links
    <2>17. JobsFit'
      <3>1. JobFits(p, j)'
        <4>1. \A q \in Requests \ {p} :
                /\ job[q].at \in {"mail", "commit"} => job[q].link \in 1..issued
                /\ job[q].at = "resend" => job[q].link \in 1..issued
          BY DEF JobsFit, JobFits
        <4>2. \A q \in Requests \ {p} :
                job[q].at \in {"mail", "commit"} => job[q].email # job[p].email
          <5>1. \A q \in Requests : job[q].at \in {"mail", "commit"} => job[q].link # 0
            BY DEF JobsFit, JobFits
          <5> QED
            BY <5>1 DEF Insert, Uncommitted
        <4>3. opened[issued + 1] = 0 /\ \A f \in Emails : account[f].link # issued + 1
          BY <2>1, <2>11 DEF LinksFit, TypeOK, Account
        <4>4. ~Exists(j.email)'
          BY <1>3, <2>6, <2>13 DEF Exists
        <4> QED
          BY <2>1, <2>6, <2>7, <2>13, <4>1, <4>2, <4>3, <4>4 DEF JobFits
      <3> SUFFICES ASSUME NEW q \in Requests, q # p PROVE JobFits(q, job[q])'
        BY <2>7, <3>1 DEF JobsFit
      <3>2. JobFits(q, job[q]) /\ job'[q] = job[q]
        BY <2>7 DEF JobsFit
      <3>3. job[q].at \in {"mail", "commit"} => job[q].email # job[p].email
        <4>1. job[q].at \in {"mail", "commit"} => job[q].link # 0
          BY <3>2 DEF JobFits
        <4> QED
          BY <4>1 DEF Insert, Uncommitted
      <3> QED
        BY <2>1, <2>6, <2>7, <2>13, <3>2, <3>3 DEF JobFits, Exists
    <2>18. NobodyIsStranded'
      <3>1. \A q \in Requests : At(q, "resend") => At(q, "resend")' /\ job'[q] = job[q]
        BY <2>1, <2>7
      <3> QED
        BY <2>13, <3>1 DEF NobodyIsStranded, Exists
    <2>19. AccountsAreWhole'
      BY <2>1, <2>7, <2>13 DEF AccountsAreWhole, Exists
    <2> QED
      BY <2>14, <2>15, <2>16, <2>17, <2>18, <2>19
  <1> QED
    BY <1>2, <1>3

(* A mail is sent: for a registration, whose COMMIT is next or which ends, or
   for a resend. *)
LEMMA SendEmailStep == ASSUME IInv, NEW p \in Requests, SendEmail(p) PROVE IInv'
  <1> USE DEF IInv
  <1>1. /\ At(p, "mail") /\ Bounded /\ UNCHANGED <<account, issued, opened, resent>>
        /\ Deliver(p) \/ UNCHANGED mailbox
    BY DEF SendEmail, Runs, Bounded, Fault, TypeOK, history
  <1>2. job[p].email \in Emails /\ job[p].link \in Links /\ job[p] \in Handling
    BY <1>1 DEF At, TypeOK, JobsFit, JobFits, Handling, Links
  <1>3. /\ mailbox' \in [Emails -> SUBSET Links]
        /\ \A e \in Emails : mailbox[e] \subseteq mailbox'[e]
        /\ MailConfigured /\ Deliver(p) => job[p].link \in mailbox'[job[p].email]
    BY <1>1, <1>2 DEF Deliver, TypeOK
  <1>4. PICK step \in {"commit", "rollback"} : To(p, step) /\ (step = "commit" => Deliver(p))
    BY DEF SendEmail
  <1>5. PICK j \in Handling : j = [job[p] EXCEPT !.at = step] /\ job' = [job EXCEPT ![p] = j]
    BY <1>4, HandlingType DEF To, Steps, Holding
  <1>6. j.at = step /\ j.email = job[p].email /\ j.link = job[p].link
    BY <1>2, <1>5 DEF Handling
  <1>7. JobFits(p, j)'
    <2>1. JobFits(p, job[p])
      BY DEF JobsFit
    <2>2. \A q \in Requests \ {p} : job'[q] = job[q]
      BY <1>5 DEF TypeOK
    <2>3. ~Exists(j.email) => ~Exists(j.email)'
      BY <1>1 DEF Exists
    <2> QED
      BY <1>1, <1>3, <1>4, <1>6, <2>1, <2>2, <2>3 DEF JobFits, At
  <1>8. p \notin Waiting'
    BY <1>5, <1>6 DEF Waiting, TypeOK
  <1> QED
    BY <1>1, <1>2, <1>3, <1>5, <1>6, <1>7, <1>8, Advances DEF At

LEMMA ResendStep == ASSUME IInv, NEW p \in Requests, Resend(p) PROVE IInv'
  <1> USE DEF IInv
  <1>1. /\ At(p, "resend") /\ Bounded /\ UNCHANGED <<account, issued, opened, resent>>
        /\ Deliver(p) \/ (UNCHANGED mailbox /\ faults' > 0)
    BY DEF Resend, Runs, Bounded, Fault, TypeOK, history
  <1>2. job[p].email \in Emails /\ job[p].link \in Links
    BY <1>1 DEF At, TypeOK, JobsFit, JobFits, Links
  <1>3. /\ mailbox' \in [Emails -> SUBSET Links]
        /\ \A e \in Emails : mailbox[e] \subseteq mailbox'[e]
        /\ MailConfigured /\ Deliver(p) => job[p].link \in mailbox'[job[p].email]
    BY <1>1, <1>2 DEF Deliver, TypeOK
  <1>4. job' = [job EXCEPT ![p] = Idle] /\ Idle \in Handling /\ Idle.at = "idle"
    BY HandlingType DEF Resend, Answer, Idle
  <1>5. JobFits(p, Idle)'
    BY DEF JobFits, Idle
  <1>6. p \notin Waiting'
    BY <1>4 DEF Waiting, TypeOK
  <1> QED
    BY <1>1, <1>3, <1>4, <1>5, <1>6, Advances DEF At

(* The identity of Google is written to the account of its address. *)
LEMMA WriteLinkStep ==
    ASSUME IInv, Bounded, NEW p \in Requests, At(p, "linkUser"), WriteLink(p),
           UNCHANGED <<mailbox, issued, opened, resent>>,
           To(p, "linkProfile") \/ Answer(p)
    PROVE  IInv'
  <1> USE DEF IInv
  <1>1. job[p].email \in Emails /\ Exists(job[p].email) /\ job[p].google \in Googles
    BY DEF At, TypeOK, JobsFit, JobFits
  <1>2. PICK e \in Emails, row \in Account :
            e = job[p].email /\ row = [account[e] EXCEPT !.google_id = job[p].google, !.verified = TRUE]
    BY <1>1, RowUpdates DEF TypeOK
  <1>3. /\ account' = [account EXCEPT ![e] = row]
        /\ row.link = account[e].link /\ row.password = account[e].password
        /\ row.google_id # None /\ row.verified
        /\ row.profile = account[e].profile /\ row.welcome = account[e].welcome
    BY <1>1, <1>2 DEF WriteLink, TypeOK, Account
  <1>4. PICK j \in Handling : /\ job' = [job EXCEPT ![p] = j] /\ j.at \in {"idle", "linkProfile"}
                              /\ j.at # "idle" => j.email = e
    BY <1>2, HandlingType DEF To, Answer, Idle, Steps, Querying, TypeOK
  <1>5. JobFits(p, j)' /\ p \notin Waiting'
    BY <1>4 DEF JobFits, Waiting, TypeOK
  <1>6. Exists(e)
    BY <1>1, <1>2
  <1> QED
    BY <1>2, <1>3, <1>4, <1>5, <1>6, Fills, ZenonT(40) DEF At

(* The account that Google makes. *)
LEMMA WriteUserStep ==
    ASSUME IInv, Bounded, NEW p \in Requests, At(p, "createUser"), WriteUser(p),
           ~Conflict(p), ~Uncommitted(job[p].email),
           UNCHANGED <<mailbox, issued, opened, resent>>,
           To(p, "createProfile") \/ (Answer(p) /\ faults' > 0)
    PROVE  IInv'
  <1> USE DEF IInv
  <1>1. job[p].email \in Emails /\ ~Exists(job[p].email) /\ job[p].google \in Googles
    BY DEF At, TypeOK, JobsFit, JobFits, Conflict
  <1>2. PICK e \in Emails, row \in Account :
            e = job[p].email /\ row = [NoAccount EXCEPT !.google_id = job[p].google, !.verified = TRUE]
    BY <1>1, AccountType
  <1>3. account[e] = NoAccount /\ ~Exists(e)
    BY <1>1, <1>2 DEF TypeOK
  <1>4. /\ account' = [account EXCEPT ![e] = row]
        /\ row.link = account[e].link /\ row.password = account[e].password
        /\ row.google_id # None /\ row.verified
        /\ ~account[e].profile /\ ~account[e].welcome
    BY <1>1, <1>2, <1>3 DEF WriteUser, NoAccount
  <1>5. PICK j \in Handling : /\ job' = [job EXCEPT ![p] = j]
                              /\ j.at = "createProfile" \/ (j.at = "idle" /\ faults' > 0)
                              /\ j.at # "idle" => j.email = e
    BY <1>2, HandlingType DEF To, Answer, Idle, Steps, Querying, TypeOK
  <1>6. Exists(e)'
    BY <1>4 DEF Exists, TypeOK
  <1>7. JobFits(p, j)'
    <2>1. j.at = "createProfile" => Exists(j.email)'
      BY <1>5, <1>6 DEF Exists
    <2> QED
      BY <1>5, <2>1 DEF JobFits
  <1>8. p \notin Waiting'
    BY <1>5 DEF Waiting, TypeOK
  <1>9. \A q \in Requests : job[q].at \in {"mail", "commit"} => job[q].email # e
    <2>1. \A q \in Requests : job[q].at \in {"mail", "commit"} => job[q].link # 0
      BY DEF JobsFit, JobFits
    <2> QED
      BY <1>2, <2>1 DEF Uncommitted
  <1> QED
    BY <1>2, <1>4, <1>5, <1>7, <1>8, <1>9, Fills DEF At

LEMMA WriteProfileStep ==
    ASSUME IInv, Bounded, NEW p \in Requests, At(p, "createProfile"), WriteProfile(p),
           UNCHANGED <<mailbox, issued, opened, resent>>,
           To(p, "welcome") \/ (Answer(p) /\ faults' > 0)
    PROVE  IInv'
  <1> USE DEF IInv
  <1>1. job[p].email \in Emails /\ Exists(job[p].email)
    BY DEF At, TypeOK, JobsFit, JobFits
  <1>2. PICK e \in Emails, row \in Account : e = job[p].email /\ row = [account[e] EXCEPT !.profile = TRUE]
    BY <1>1, RowUpdates DEF TypeOK
  <1>3. /\ account' = [account EXCEPT ![e] = row]
        /\ row.link = account[e].link /\ row.password = account[e].password
        /\ row.google_id = account[e].google_id /\ row.verified = account[e].verified
        /\ row.profile /\ row.welcome = account[e].welcome
    BY <1>2 DEF WriteProfile, TypeOK, Account
  <1>4. Exists(e) /\ (row.password \/ row.google_id # None)
    BY <1>1, <1>2, <1>3 DEF Exists
  <1>5. PICK j \in Handling : /\ job' = [job EXCEPT ![p] = j]
                              /\ j.at = "welcome" \/ (j.at = "idle" /\ faults' > 0)
                              /\ j.at # "idle" => j.email = e
    BY <1>2, HandlingType DEF To, Answer, Idle, Steps, Querying, TypeOK
  <1>6. Exists(e)' /\ account'[e].profile
    BY <1>3, <1>4 DEF Exists, TypeOK
  <1>7. JobFits(p, j)'
    <2>1. j.at = "welcome" => Exists(j.email)' /\ account'[j.email].profile
      BY <1>5, <1>6 DEF Exists
    <2> QED
      BY <1>5, <2>1 DEF JobFits
  <1>8. p \notin Waiting'
    BY <1>5 DEF Waiting, TypeOK
  <1> QED
    BY <1>2, <1>3, <1>4, <1>5, <1>7, <1>8, Fills, ZenonT(40) DEF At

LEMMA WelcomeStep == ASSUME IInv, NEW p \in Requests, Welcome(p) PROVE IInv'
  <1> USE DEF IInv
  <1>1. At(p, "welcome") /\ To(p, "reread") /\ UNCHANGED <<mailbox, issued, opened, resent>>
    BY DEF Welcome, history
  <1>2. job[p].email \in Emails /\ Exists(job[p].email) /\ account[job[p].email].profile
    BY <1>1 DEF At, TypeOK, JobsFit, JobFits
  <1>3. Bounded
    <2>1. starved' = starved \/ starved' = TRUE
      BY DEF Welcome, history
    <2>2. faults' \in faults..MaxFaults
      BY DEF Welcome, Fault, history, TypeOK
    <2> QED
      BY <2>1, <2>2 DEF Bounded, TypeOK
  <1>4. CASE UNCHANGED account /\ (starved' \/ faults' > 0)
    BY <1>1, <1>3, <1>4, GoesOn DEF At, Steps, Querying
  <1>5. CASE account' = [account EXCEPT ![job[p].email] = [@ EXCEPT !.welcome = TRUE]]
    <2>1. PICK e \in Emails, row \in Account : e = job[p].email /\ row = [account[e] EXCEPT !.welcome = TRUE]
      BY <1>2, RowUpdates DEF TypeOK
    <2>2. /\ account' = [account EXCEPT ![e] = row]
          /\ row.link = account[e].link /\ row.password = account[e].password
          /\ row.google_id = account[e].google_id /\ row.verified = account[e].verified
          /\ row.profile /\ row.welcome
      BY <1>2, <1>5, <2>1 DEF TypeOK, Account
    <2>3. Exists(e) /\ (row.password \/ row.google_id # None)
      BY <1>2, <2>1, <2>2 DEF Exists
    <2>4. PICK j \in Handling : job' = [job EXCEPT ![p] = j] /\ j.at = "reread" /\ j.email = e
      <3>1. [job[p] EXCEPT !.at = "reread"] \in Handling
        BY HandlingType DEF Steps, Querying
      <3>2. job[p] \in Handling
        BY DEF TypeOK, Handling
      <3> QED
        BY <1>1, <2>1, <3>1, <3>2 DEF To, Handling
    <2>5. JobFits(p, j)' /\ p \notin Waiting'
      BY <2>4 DEF JobFits, Waiting, TypeOK
    <2> QED
      BY <1>1, <1>3, <2>1, <2>2, <2>3, <2>4, <2>5, Fills DEF At
  <1> QED
    BY <1>4, <1>5 DEF Welcome, Fault, history, TypeOK

(* A row changes and no request moves: its link stays or is cleared. *)
LEMMA Touches ==
    ASSUME IInv, NEW e \in Emails, NEW row \in Account, account' = [account EXCEPT ![e] = row],
           account[e].link # 0, row.link \in {0, account[e].link},
           row.link = 0 => row.verified,
           row.password = account[e].password, row.google_id = account[e].google_id,
           row.verified \/ row.verified = account[e].verified,
           row.profile = account[e].profile, row.welcome = account[e].welcome,
           opened' = opened \/ (row.link = 0 /\ opened' = [opened EXCEPT ![account[e].link] = @ + 1]),
           UNCHANGED <<mailbox, job, issued, resent, starved, faults>>
    PROVE  IInv'
  <1> USE DEF IInv
  <1>1. \A f \in Emails : account'[f] = IF f = e THEN row ELSE account[f]
    BY DEF TypeOK
  <1>2. \A f \in Emails : Exists(f)' <=> Exists(f)
    BY <1>1 DEF Exists
  <1>3. account[e].link \in Links /\ account[e].link <= issued
    BY DEF TypeOK, Account, LinksFit
  <1>4. Exists(e)
    BY DEF TypeOK, NoAccount
  <1>5. /\ opened' \in [Links -> Nat]
        /\ \A k \in Links : opened'[k] = opened[k] \/ (k = account[e].link /\ row.link = 0)
    BY <1>3 DEF TypeOK
  <1>6. \A f \in Emails : /\ account'[f].link \in {0, account[f].link}
                          /\ f # e => account'[f].link = account[f].link
    BY <1>1
  <1>7. TypeOK'
    <2>1. \A f \in Emails : Exists(f)' \/ account'[f] = NoAccount
      BY <1>1, <1>2, <1>4 DEF TypeOK
    <2>2. account' \in [Emails -> Account]
      BY DEF TypeOK
    <2> QED
      BY <1>5, <2>1, <2>2 DEF TypeOK
  <1>8. EnoughLinks'
    BY DEF EnoughLinks, Waiting
  <1>9. LinksFit'
    <2>1. \A k \in Links : k > issued => opened'[k] = 0
      BY <1>3, <1>5 DEF LinksFit, Links, TypeOK
    <2>2. \A f \in Emails : account'[f].link <= issued
      BY <1>6 DEF LinksFit, TypeOK
    <2>3. \A f, g \in Emails :
            f # g /\ account'[f].link # 0 => account'[g].link # account'[f].link
      BY <1>6 DEF LinksFit
    <2>4. ASSUME NEW f \in Emails, account'[f].link # 0 PROVE opened'[account'[f].link] = 0
      <3>1. account'[f].link = account[f].link /\ account[f].link \in Links /\ opened[account[f].link] = 0
        BY <1>6, <2>4 DEF LinksFit, TypeOK, Account
      <3>2. account[f].link = account[e].link => f = e
        BY <2>4, <3>1 DEF LinksFit
      <3>3. row.link = 0 => f # e
        BY <1>1, <2>4
      <3> QED
        BY <1>5, <3>1, <3>2, <3>3
    <2> QED
      BY <2>1, <2>2, <2>3, <2>4 DEF LinksFit
  <1>10. JobsFit'
    <2> SUFFICES ASSUME NEW q \in Requests PROVE JobFits(q, job[q])'
      BY DEF JobsFit
    <2>1. JobFits(q, job[q])
      BY DEF JobsFit
    <2>2. job[q].at # "idle" => job[q].email \in Emails
      BY DEF TypeOK
    <2>3. job[q].at \in {"mail", "commit", "resend"} => job[q].link \in Links
      BY <2>1 DEF JobFits, Links, TypeOK
    <2>4. job[q].at \in {"mail", "commit"} => opened'[job[q].link] = 0
      BY <1>5, <2>1, <2>3 DEF JobFits
    <2>5. job[q].at \in {"mail", "commit", "resend"} =>
            \A f \in Emails : account'[f].link = job[q].link => account[f].link = job[q].link
      BY <1>6, <2>3 DEF Links
    <2>6. \A f \in Emails : account'[f].profile = account[f].profile
      BY <1>1
    <2> QED
      BY <1>2, <2>1, <2>2, <2>3, <2>4, <2>5, <2>6 DEF JobFits
  <1>11. NobodyIsStranded'
    <2> SUFFICES ASSUME MailConfigured, NEW f \in Emails, Exists(f), ~account'[f].verified
                 PROVE  \/ account'[f].link \in mailbox[f]
                        \/ \E q \in Requests : At(q, "resend") /\ job[q].link = account'[f].link
                        \/ faults > 0 /\ account'[f].link \in resent
      BY <1>2 DEF NobodyIsStranded, At
    <2>1. ~account[f].verified /\ account'[f].link = account[f].link
      BY <1>1
    <2> QED
      BY <2>1 DEF NobodyIsStranded
  <1>12. AccountsAreWhole'
    BY <1>1, <1>2 DEF AccountsAreWhole
  <1> QED
    BY <1>7, <1>8, <1>9, <1>10, <1>11, <1>12

LEMMA VerifyEmailStep == ASSUME IInv, NEW k \in Links, VerifyEmail(k) PROVE IInv'
  <1>1. PICK e \in Emails :
            /\ account[e].link = k
            /\ account' = [account EXCEPT ![e] = [@ EXCEPT !.verified = TRUE, !.link = 0]]
    BY DEF VerifyEmail
  <1>2. PICK row \in Account : row = [account[e] EXCEPT !.verified = TRUE, !.link = 0]
    BY RowUpdates DEF IInv, TypeOK
  <1>3. account[e] \in Account /\ account' = [account EXCEPT ![e] = row]
    BY <1>1, <1>2 DEF IInv, TypeOK
  <1>4. /\ row.link = 0 /\ row.verified
        /\ row.password = account[e].password /\ row.google_id = account[e].google_id
        /\ row.profile = account[e].profile /\ row.welcome = account[e].welcome
    BY <1>2, <1>3 DEF Account
  <1>5. account[e].link # 0
    BY <1>1 DEF Links
  <1> QED
    BY <1>1, <1>3, <1>4, <1>5, Touches, ZenonT(40) DEF VerifyEmail

LEMMA LinkExpiresStep == ASSUME IInv, NEW e \in Emails, LinkExpires(e) PROVE IInv'
  <1>1. PICK row \in Account : row = [account[e] EXCEPT !.expired = TRUE]
    BY RowUpdates DEF IInv, TypeOK
  <1>2. account[e] \in Account /\ account' = [account EXCEPT ![e] = row]
    BY <1>1 DEF IInv, TypeOK, LinkExpires
  <1>3. /\ row.link = account[e].link /\ row.verified = account[e].verified
        /\ row.password = account[e].password /\ row.google_id = account[e].google_id
        /\ row.profile = account[e].profile /\ row.welcome = account[e].welcome
    BY <1>1, <1>2 DEF Account
  <1>4. row.link = 0 => row.verified
    BY <1>3 DEF LinkExpires
  <1> QED
    BY <1>2, <1>3, <1>4, Touches DEF LinkExpires, history

LEMMA CrashStep == ASSUME IInv, Crash PROVE IInv'
  <1> USE DEF IInv
  <1>1. /\ UNCHANGED <<account, mailbox, issued, opened, resent, starved>>
        /\ faults' \in 0..MaxFaults /\ faults' > 0
        /\ job' \in [Requests -> Handling] /\ \A q \in Requests : job'[q] = Idle
    BY HandlingType DEF Crash, history, Fault, TypeOK
  <1>2. \A e \in Emails : Exists(e)' <=> Exists(e)
    BY <1>1 DEF Exists
  <1>3. TypeOK'
    BY <1>1, <1>2 DEF TypeOK, Handling, Idle
  <1>4. EnoughLinks'
    <2>1. Waiting' = {}
      BY <1>1 DEF Waiting, Idle
    <2>2. IsFiniteSet(Waiting)
      BY FS_Subset DEF Waiting
    <2>3. Cardinality(Waiting') = 0 /\ Cardinality(Waiting) \in Nat
      BY <2>1, <2>2, FS_EmptySet, FS_CardinalityType
    <2> QED
      BY <1>1, <2>3 DEF EnoughLinks, TypeOK
  <1>5. LinksFit'
    BY <1>1 DEF LinksFit
  <1>6. JobsFit'
    BY <1>1 DEF JobsFit, JobFits, Idle
  <1>7. NobodyIsStranded'
    <2>1. \A q \in Requests : At(q, "resend") => job[q].link \in resent
      BY DEF JobsFit, JobFits, At
    <2>2. ASSUME MailConfigured, NEW e \in Emails, Exists(e), ~account[e].verified
          PROVE  account[e].link \in mailbox[e] \/ account[e].link \in resent
      BY <2>1, <2>2 DEF NobodyIsStranded
    <2> QED
      BY <1>1, <1>2, <2>2 DEF NobodyIsStranded
  <1>8. AccountsAreWhole'
    BY <1>1, <1>2 DEF AccountsAreWhole
  <1> QED
    BY <1>3, <1>4, <1>5, <1>6, <1>7, <1>8

(* Where a request is answered or goes on, and nothing else. *)
LEMMA WalkStep ==
    ASSUME IInv, NEW p \in Requests,
           \/ UserCheck(p) \/ Connect(p) \/ Rollback(p) \/ SelectUnverified(p) \/ ByGoogleId(p)
           \/ ByEmail(p) \/ LinkProfile(p) \/ Reread(p) \/ PoolTimeout(p) \/ LockTimeout(p)
    PROVE  IInv'
  <1> USE DEF Runs, At
  <1> JobFits(p, job[p]) /\ TypeOK
    BY DEF IInv, JobsFit
  <1>0. UNCHANGED history /\ UNCHANGED faults => Bounded
    BY DEF TypeOK, Bounded, history
  <1>1. CASE UserCheck(p)
    <2>1. p \in Waiting
      BY <1>1 DEF UserCheck, Waiting
    <2> QED
      BY <1>0, <1>1, <2>1, Answered, GoesOn DEF UserCheck, Steps, history
  <1>2. CASE Connect(p)
    <2>1. p \in Waiting
      BY <1>2 DEF Connect, Waiting
    <2> QED
      BY <1>0, <1>2, <2>1, GoesOn DEF Connect, Steps, Holding, history
  <1>3. CASE Rollback(p)
    BY <1>0, <1>3, Answered DEF Rollback, history
  <1>4. CASE SelectUnverified(p)
    <2>1. p \in Waiting
      BY <1>4 DEF SelectUnverified, Waiting
    <2> QED
      BY <1>0, <1>4, <2>1, Answered, GoesOn DEF SelectUnverified, Steps, Querying, history
  <1>5. CASE ByGoogleId(p)
    BY <1>0, <1>5, Answered, GoesOn DEF ByGoogleId, Steps, Querying, JobFits, history
  <1>6. CASE ByEmail(p)
    <2>1. job[p].google \in Googles
      BY <1>6 DEF ByEmail, JobFits
    <2>2. CASE Exists(job[p].email)
      BY <1>0, <1>6, <2>1, <2>2, GoesOn DEF ByEmail, Steps, Querying, history
    <2>3. CASE ~Exists(job[p].email)
      BY <1>0, <1>6, <2>1, <2>3, GoesOn DEF ByEmail, Steps, Querying, history
    <2> QED
      BY <2>2, <2>3
  <1>7. CASE LinkProfile(p)
    BY <1>0, <1>7, Answered DEF LinkProfile, history
  <1>8. CASE Reread(p)
    BY <1>0, <1>8, Answered DEF Reread, history
  <1>9. CASE PoolTimeout(p)
    <2>1. Answer(p) /\ starved' = TRUE /\ job[p].at # "resend"
      BY <1>9 DEF PoolTimeout, NeedsClient, Holding, Querying
    <2>2. Bounded
      BY <1>9, <2>1 DEF PoolTimeout, Bounded, TypeOK
    <2> QED
      BY <1>9, <2>1, <2>2, Answered DEF PoolTimeout
  <1>10. CASE LockTimeout(p)
    BY <1>0, <1>10, Answered, GoesOn DEF LockTimeout, Steps, Holding, history
  <1> QED
    BY <1>1, <1>2, <1>3, <1>4, <1>5, <1>6, <1>7, <1>8, <1>9, <1>10

LEMMA LinkUserStep == ASSUME IInv, NEW p \in Requests, LinkUser(p) PROVE IInv'
  <1>1. Bounded /\ UNCHANGED <<mailbox, issued, opened, resent>> /\ At(p, "linkUser")
    BY DEF LinkUser, Runs, IInv, TypeOK, Bounded, history
  <1>2. CASE Answer(p) /\ UNCHANGED account
    BY <1>1, <1>2, Answered DEF At
  <1>3. CASE To(p, "linkProfile") /\ WriteLink(p)
    BY <1>1, <1>3, WriteLinkStep
  <1> QED
    BY <1>2, <1>3 DEF LinkUser

LEMMA CreateUserStep == ASSUME IInv, NEW p \in Requests, CreateUser(p) PROVE IInv'
  <1>1. Bounded /\ UNCHANGED <<mailbox, issued, opened, resent>> /\ At(p, "createUser")
    BY DEF CreateUser, Runs, IInv, TypeOK, Bounded, history
  <1>2. CASE Answer(p) /\ UNCHANGED account
    BY <1>1, <1>2, Answered DEF At
  <1>3. CASE To(p, "createProfile") /\ WriteUser(p) /\ ~Conflict(p) /\ ~Uncommitted(job[p].email)
    <2>1. To(p, "createProfile") \/ (Answer(p) /\ faults' > 0)
      BY <1>3
    <2> QED
      BY <1>1, <1>3, <2>1, WriteUserStep
  <1> QED
    BY <1>2, <1>3 DEF CreateUser

LEMMA CreateProfileStep == ASSUME IInv, NEW p \in Requests, CreateProfile(p) PROVE IInv'
  <1>1. Bounded /\ UNCHANGED <<mailbox, issued, opened, resent>> /\ At(p, "createProfile")
    BY DEF CreateProfile, Runs, IInv, TypeOK, Bounded, history
  <1>2. WriteProfile(p) /\ (To(p, "welcome") \/ (Answer(p) /\ faults' > 0))
    BY DEF CreateProfile
  <1> QED
    BY <1>1, <1>2, WriteProfileStep

LEMMA UpdateTokenStep == ASSUME IInv, NEW p \in Requests, UpdateToken(p) PROVE IInv'
  <1> USE DEF IInv
  <1>1. Bounded /\ UNCHANGED <<mailbox, opened>> /\ At(p, "updateToken") /\ NewLink(p)
    BY DEF UpdateToken, Runs, TypeOK, Bounded
  <1>2. PICK j : j = [job[p] EXCEPT !.at = "resend", !.link = issued + 1]
    OBVIOUS
  <1>3. job' = [job EXCEPT ![p] = j]
    BY <1>2 DEF UpdateToken
  <1>4. job[p] \in Handling /\ issued \in Nat
    BY DEF TypeOK, Handling
  <1>5. j.at = "resend" /\ j.link = issued + 1 /\ j.email = job[p].email
    BY <1>2, <1>4 DEF Handling
  <1>6. issued + 1 \in Links
    <2>1. p \in Waiting /\ IsFiniteSet(Waiting)
      BY <1>1, FS_Subset DEF Waiting, At
    <2>2. 1 <= Cardinality(Waiting) /\ Cardinality(Waiting) \in Nat
      BY <2>1, FS_EmptySet, FS_CardinalityType
    <2> QED
      BY <1>4, <2>2 DEF EnoughLinks, Links
  <1>7. j \in Handling
    BY <1>2, <1>4, <1>6 DEF Handling, Steps
  <1> QED
    BY <1>1, <1>3, <1>5, <1>7, Relinks

LEMMA TransactionFailsStep == ASSUME IInv, NEW p \in Requests, TransactionFails(p) PROVE IInv'
  <1> USE DEF IInv
  <1>1. /\ Bounded /\ To(p, "rollback") /\ job[p].at \in {"insert", "commit"}
        /\ UNCHANGED <<mailbox, issued, opened, resent>>
    BY DEF TransactionFails, Fault, TypeOK, Bounded, history
  <1>2. CASE UNCHANGED account
    BY <1>1, <1>2, GoesOn DEF Steps, Holding
  <1>3. CASE At(p, "commit") /\ CommitRow(p)
    <2>1. PICK j \in Handling : j = [job[p] EXCEPT !.at = "rollback"] /\ job' = [job EXCEPT ![p] = j]
      BY <1>1, HandlingType DEF To, Steps, Holding
    <2>2. j.at = "rollback" /\ j.email # None
      BY <1>1, <2>1 DEF TypeOK
    <2> QED
      BY <1>1, <1>3, <2>1, <2>2, Commits
  <1> QED
    BY <1>2, <1>3 DEF TransactionFails

LEMMA QueryFailsStep == ASSUME IInv, NEW p \in Requests, QueryFails(p) PROVE IInv'
  <1> USE DEF IInv
  <1>1. /\ Bounded /\ faults' > 0 /\ Answer(p) /\ UNCHANGED <<mailbox, opened>>
        /\ job[p].at \notin Holding \cup {"idle", "resend"}
    BY DEF QueryFails, Fault, TypeOK, Bounded, Querying, Holding
  <1>2. CASE UNCHANGED <<account, issued, resent>>
    BY <1>1, <1>2, Answered DEF At
  <1>3. CASE At(p, "updateToken") /\ NewLink(p)
    <2>1. job' = [job EXCEPT ![p] = Idle] /\ Idle \in Handling /\ Idle.at = "idle"
      BY <1>1, HandlingType DEF Answer, Idle
    <2> QED
      BY <1>1, <1>3, <2>1, Relinks
  <1>4. CASE UNCHANGED <<issued, resent>> /\ At(p, "linkUser") /\ WriteLink(p)
    BY <1>1, <1>4, WriteLinkStep
  <1>5. CASE /\ UNCHANGED <<issued, resent>> /\ At(p, "createUser") /\ WriteUser(p)
             /\ ~Conflict(p) /\ ~Uncommitted(job[p].email)
    BY <1>1, <1>5, WriteUserStep
  <1>6. CASE UNCHANGED <<issued, resent>> /\ At(p, "createProfile") /\ WriteProfile(p)
    BY <1>1, <1>6, WriteProfileStep
  <1> QED
    BY <1>2, <1>3, <1>4, <1>5, <1>6 DEF QueryFails

LEMMA CommitStep == ASSUME IInv, NEW p \in Requests, Commit(p) PROVE IInv'
  <1>1. Bounded /\ At(p, "commit") /\ CommitRow(p) /\ UNCHANGED <<mailbox, issued, opened, resent>>
    BY DEF Commit, Runs, IInv, TypeOK, Bounded, history
  <1>2. job' = [job EXCEPT ![p] = Idle] /\ Idle \in Handling /\ Idle.at = "idle"
    BY HandlingType DEF Commit, Answer, Idle
  <1> QED
    BY <1>1, <1>2, Commits

LEMMA NextIInv == IInv /\ [Next]_vars => IInv'
  <1> SUFFICES ASSUME IInv, [Next]_vars PROVE IInv'
    OBVIOUS
  <1>1. CASE UNCHANGED vars
    BY <1>1 DEF vars, history, IInv, TypeOK, EnoughLinks, Waiting, LinksFit, JobsFit, JobFits,
                NobodyIsStranded, AccountsAreWhole, Exists, At
  <1>2. ASSUME NEW p \in Requests, NEW e \in Emails, NEW answer \in Answers, Register(p, e, answer)
        PROVE  IInv'
    BY <1>2, Starts DEF Register
  <1>3. ASSUME NEW p \in Requests, NEW e \in Emails, NEW answer \in Answers,
               ResendVerification(p, e, answer)
        PROVE  IInv'
    BY <1>3, Starts DEF ResendVerification
  <1>4. ASSUME NEW p \in Requests, NEW e \in Emails, NEW answer \in Answers, NEW g \in Googles,
               GoogleSignIn(p, g, e, answer)
        PROVE  IInv'
    BY <1>4, Starts DEF GoogleSignIn
  <1>5. ASSUME NEW p \in Requests, Step(p) PROVE IInv'
    BY <1>5, WalkStep, InsertStep, SendEmailStep, CommitStep, UpdateTokenStep, ResendStep,
       LinkUserStep, CreateUserStep, WelcomeStep, CreateProfileStep DEF Step
  <1>6. ASSUME NEW p \in Requests, TransactionFails(p) \/ QueryFails(p) PROVE IInv'
    BY <1>6, TransactionFailsStep, QueryFailsStep
  <1> QED
    BY <1>1, <1>2, <1>3, <1>4, <1>5, <1>6, VerifyEmailStep, LinkExpiresStep, CrashStep DEF Next, Rest

LEMMA IInvAlways == Spec => []IInv
  BY InitIInv, NextIInv, PTL DEF Spec

(* Accounts have their types, and at every moment each of them is whole: the
   COMMIT of a registration makes all its rows, and a sign-in with Google that
   makes an account leaves half of one only by a fault or for want of a client
   (register, googleSignIn). *)
THEOREM AccountsAlwaysWhole == Spec => []StateOK
  <1>1. IInv => StateOK
    BY DEF IInv, StateOK
  <1> QED
    BY IInvAlways, <1>1, PTL

(* However registrations, resends, sign-ins, faults and crashes interleave,
   whoever has an unverified account has its link or is about to, unless a
   resend failed between its UPDATE and its mail, or no mail service is
   configured (register, resendVerification). *)
THEOREM NobodyIsEverStranded == Spec => []NobodyIsStranded
  <1>1. IInv => NobodyIsStranded
    BY DEF IInv
  <1> QED
    BY IInvAlways, <1>1, PTL

-----------------------------------------------------------------------------
(* Links that are live were issued and never opened. *)
LEMMA LiveUnopened ==
    ASSUME IInv
    PROVE  LiveLinks \subseteq {k \in Links : opened[k] = 0}
  BY DEF IInv, TypeOK, LinksFit, LiveLinks, Account

(* Only a GET /verify opens a link. *)
LEMMA OpenedOnlyByVerify ==
    ASSUME IInv, [Next]_vars
    PROVE  opened' = opened \/ \E k \in Links : VerifyEmail(k)
  <1>1. CASE UNCHANGED vars
    BY <1>1 DEF vars, history
  <1>2. ASSUME NEW p \in Requests, Step(p) \/ TransactionFails(p) \/ QueryFails(p)
        PROVE  opened' = opened
    BY <1>2 DEF Step, UserCheck, Connect, Insert, SendEmail, Commit, Rollback, SelectUnverified,
                UpdateToken, Resend, ByGoogleId, ByEmail, LinkUser, LinkProfile, CreateUser,
                CreateProfile, Welcome, Reread, PoolTimeout, LockTimeout, TransactionFails,
                QueryFails, history
  <1>3. ASSUME NEW p \in Requests, NEW e \in Emails, NEW answer \in Answers,
               \/ Register(p, e, answer)
               \/ ResendVerification(p, e, answer)
               \/ \E g \in Googles : GoogleSignIn(p, g, e, answer)
        PROVE  opened' = opened
    BY <1>3 DEF Register, ResendVerification, GoogleSignIn, history
  <1>4. ASSUME (\E e \in Emails : LinkExpires(e)) \/ Crash \/ Rest
        PROVE  opened' = opened
    BY <1>4 DEF LinkExpires, Crash, Rest, vars, history
  <1> QED
    BY <1>1, <1>2, <1>3, <1>4 DEF Next

LEMMA VerifyIsUse ==
    ASSUME IInv, NEW k \in Links, VerifyEmail(k)
    PROVE  Link!Use(k)
  <1>1. PICK e \in Emails :
            /\ account[e].link = k /\ ~account[e].expired
            /\ account' = [account EXCEPT ![e] = [@ EXCEPT !.verified = TRUE, !.link = 0]]
    BY DEF VerifyEmail
  <1>2. k \in LiveLinks /\ account[e].link # 0
    BY <1>1 DEF LiveLinks, Links
  <1>3. account'[e].link = 0 /\ \A f \in Emails \ {e} : account'[f] = account[f]
    BY <1>1 DEF IInv, TypeOK, Account
  <1>4. LiveLinks' \subseteq LiveLinks \ {k}
    BY <1>1, <1>2, <1>3 DEF LiveLinks, IInv, LinksFit
  <1> QED
    BY <1>2, <1>4 DEF VerifyEmail, Link!Use

(* The verification links of concurrent registrations and resends implement
   codes that are good for one use: a link verifies once, and never after
   another was issued for its account (verifyEmail, resendVerification). *)
THEOREM MailedLinksAreOneTime == Spec => LinksAreOneTime
  <1>1. Init => Link!Init
    BY DEF Init, Link!Init, LiveLinks, NoAccount
  <1>2. IInv /\ [Next]_vars /\ IInv' => [Link!Next]_(Link!vars)
    <2> SUFFICES ASSUME IInv, [Next]_vars, IInv' PROVE Link!Next
      OBVIOUS
    <2>1. CASE opened' = opened
      <3>1. LiveLinks' \subseteq {k \in Links : opened'[k] = 0}
        BY LiveUnopened DEF IInv, TypeOK, LinksFit, LiveLinks, Account
      <3> QED
        BY <2>1, <3>1 DEF Link!Issue, Link!Next
    <2>2. CASE \E k \in Links : VerifyEmail(k)
      BY <2>2, VerifyIsUse DEF Link!Next
    <2> QED
      BY <2>1, <2>2, OpenedOnlyByVerify
  <1> QED
    BY IInvAlways, <1>1, <1>2, PTL DEF Spec, LinksAreOneTime, Link!Spec

(* Where a password is not required of an account, a first sign-in with
   Google is turned away on its INSERT only for an address or an identity that
   was taken in the meantime (googleSignIn). *)
THEOREM GoogleUsersGetInWhereNull ==
    ASSUME NullableHash = TRUE
    PROVE  Spec => GoogleUsersGetIn
  <1>1. IInv /\ [Next]_vars =>
            [\A p \in Requests :
                At(p, "createUser") /\ At(p, "idle")' /\ Free /\ faults' = faults =>
                    Conflict(p) \/ Uncommitted(job[p].email)]_vars
    <2> SUFFICES ASSUME IInv, [Next]_vars, NEW p \in Requests,
                        At(p, "createUser"), At(p, "idle")', Free, faults' = faults,
                        ~Conflict(p), ~Uncommitted(job[p].email)
                 PROVE  FALSE
      OBVIOUS
    <2> USE DEF At
    <2>1. job[p].at # job'[p].at
      OBVIOUS
    <2>2. job \in [Requests -> Handling] /\ faults \in Nat
      BY DEF IInv, TypeOK, Handling
    <2>3. ASSUME NEW q \in Requests \ {p}, Step(q) \/ TransactionFails(q) \/ QueryFails(q)
          PROVE  FALSE
      <3>1. job'[p] = job[p]
        BY <2>2, <2>3 DEF Step, UserCheck, Connect, Insert, SendEmail, Commit, Rollback,
           SelectUnverified, UpdateToken, Resend, ByGoogleId, ByEmail, LinkUser,
           LinkProfile, CreateUser, CreateProfile, Welcome, Reread, PoolTimeout, LockTimeout,
           TransactionFails, QueryFails, To, Answer
      <3> QED
        BY <2>1, <3>1
    <2>4. ASSUME Step(p) PROVE FALSE
      <3>1. CreateUser(p) \/ PoolTimeout(p) \/ LockTimeout(p)
        BY <2>4 DEF Step, UserCheck, Connect, Insert, SendEmail, Commit, Rollback,
           SelectUnverified, UpdateToken, Resend, ByGoogleId, ByEmail, LinkUser,
           LinkProfile, CreateProfile, Welcome, Reread, Runs
      <3>2. CASE CreateUser(p)
        BY <2>2, <3>2 DEF CreateUser, To, Handling
      <3> QED
        BY <3>1, <3>2 DEF PoolTimeout, LockTimeout
    <2>5. ~TransactionFails(p) /\ ~QueryFails(p) /\ ~Crash
      BY <2>2 DEF TransactionFails, QueryFails, Crash, Fault
    <2>6. ASSUME NEW q \in Requests, NEW e \in Emails, NEW answer \in Answers,
                 \/ Register(q, e, answer)
                 \/ ResendVerification(q, e, answer)
                 \/ \E g \in Googles : GoogleSignIn(q, g, e, answer)
          PROVE  FALSE
      <3>1. q # p
        BY <2>6 DEF Register, ResendVerification, GoogleSignIn
      <3>2. job'[p] = job[p]
        BY <2>2, <2>6, <3>1 DEF Register, ResendVerification, GoogleSignIn, Start
      <3> QED
        BY <2>1, <3>2
    <2>7. ASSUME \/ \E k \in Links : VerifyEmail(k)
                 \/ \E e \in Emails : LinkExpires(e)
                 \/ Rest \/ UNCHANGED vars
          PROVE  FALSE
      BY <2>1, <2>7 DEF VerifyEmail, LinkExpires, Rest, vars
    <2> QED
      BY <2>3, <2>4, <2>5, <2>6, <2>7 DEF Next
  <1> QED
    BY IInvAlways, <1>1, PTL DEF Spec, GoogleUsersGetIn
=============================================================================
