----------------------------- MODULE AdminLogin -----------------------------
(***************************************************************************)
(* Sign-in of one administrator: password, second factor and lockout       *)
(* (adminController.login, adminMfaService), beside the script that        *)
(* enrols the account (enrollAdminMfa).                                    *)
(*                                                                         *)
(* Every statement is autocommitted but the reissue of recovery codes, a   *)
(* transaction and one action.  What a login selected first it keeps: it   *)
(* checks a time-based code against that row, whatever the row is by then. *)
(* A secret is the number of the enrolment that generated it, a time-based *)
(* code its secret and time step, a recovery code its batch and number.    *)
(***************************************************************************)
EXTENDS Integers, FiniteSets

CONSTANTS
    Logins,        \* POST /api/admin/login requests at a time
    MaxAttempts,   \* MAX_FAILED_LOGIN_ATTEMPTS
    RecoveryCodes, \* RECOVERY_CODE_COUNT
    Window,        \* TOTP_OPTIONS.window
    LastStep,      \* bound: the clock and the codes go from time step 0 to LastStep
    MaxEnrolments, \* bound: secrets generated
    MaxAdminFaults      \* bound: statements that fail, scripts killed, keys changed

ASSUME LoginsAssumption == IsFiniteSet(Logins)
ASSUME LockoutAssumption == MaxAttempts \in Nat \ {0, 1}
ASSUME FactorAssumption == RecoveryCodes \in Nat \ {0} /\ Window \in Nat
ASSUME AdminBoundsAssumption == {LastStep, MaxEnrolments, MaxAdminFaults} \subseteq Nat

VARIABLES
    admin,       \* the administrator's row of admins
    recovery,    \* rows of admin_mfa_recovery_codes that are unused
    login,       \* what each login is doing, and what it has read
    script,      \* what enrollAdminMfa is doing
    clock,       \* the time step
    key,         \* which MFA_ENCRYPTION_KEY the process has
    uses,        \* how many logins each code let through, its secret in force
    overtaken,   \* ... and after another enrolment had replaced its secret
    tokens,      \* access tokens minted for logins that found mfa_enabled
    adminFaults  \* how many faults there were

accepted == <<uses, overtaken>>
adminVars == <<admin, recovery, login, script, clock, key, accepted, tokens, adminFaults>>

NoStep == -1
Enrolments == 1..MaxEnrolments
TimeSteps == 0..LastStep

(* The codes that exist. *)
Totp == [kind : {"totp"}, issue : Enrolments, n : TimeSteps]
Recovery == [kind : {"recovery"}, issue : Enrolments, n : 1..RecoveryCodes]
Code == Totp \cup Recovery

(* What may be submitted as a code: one that exists, a guess of either form,
   or nothing. *)
Guess == [kind : {"totp", "recovery"}, issue : {0}, n : {0}]
NoCode == [kind |-> "none", issue |-> 0, n |-> 0]
Submissions ==
    {c \in Code : c.issue <= script.issue} \cup Guess \cup {NoCode}
Submission == Code \cup Guess \cup {NoCode}

(* mfa_secret: issue 0 is NULL; key says under which key it is encrypted. *)
Admin == [mfa_enabled : BOOLEAN, secret : 0..MaxEnrolments, key : 0..MaxAdminFaults,
          last_timestep : TimeSteps \cup {NoStep},
          failed_attempts : Nat, lock : {"open", "locked", "lapsed"}]

LoginSteps == {"idle", "failing", "resetting", "verifying", "burning", "selecting", "consuming"}

Login == [at : LoginSteps, code : Submission, enrolled : BOOLEAN, secret : 0..MaxEnrolments,
          key : 0..MaxAdminFaults, last_timestep : TimeSteps \cup {NoStep}]

Doing(step, enrolled, code) ==
    [at |-> step, code |-> code, enrolled |-> enrolled, secret |-> 0, key |-> 0,
     last_timestep |-> NoStep]
NoLogin == Doing("idle", FALSE, NoCode)

AdminTypeOK ==
    /\ admin \in Admin
    /\ recovery \subseteq Recovery
    /\ login \in [Logins -> Login]
    /\ script \in [at : {"idle", "confirming", "enabling", "issuing"},
                   issue : 0..MaxEnrolments]
    /\ clock \in 0..LastStep
    /\ key \in 0..MaxAdminFaults
    /\ uses \in [Code -> Nat] /\ overtaken \in [Code -> Nat]
    /\ tokens \in Nat
    /\ adminFaults \in 0..MaxAdminFaults

AdminInit ==
    /\ admin = [mfa_enabled |-> FALSE, secret |-> 0, key |-> 0, last_timestep |-> NoStep,
                failed_attempts |-> 0, lock |-> "open"]
    /\ recovery = {}
    /\ login = [l \in Logins |-> NoLogin]
    /\ script = [at |-> "idle", issue |-> 0]
    /\ clock = 0 /\ key = 0
    /\ uses = [c \in Code |-> 0] /\ overtaken = [c \in Code |-> 0]
    /\ tokens = 0 /\ adminFaults = 0

-----------------------------------------------------------------------------
LoginAt(l, step) == login[l].at = step
AnswerLogin(l) == login' = [login EXCEPT ![l] = NoLogin]

(* A login goes on with no more of what it read than it still needs. *)
Fail(l) == login' = [login EXCEPT ![l] = Doing("failing", FALSE, NoCode)]
Accept(l) == login' = [login EXCEPT ![l] = Doing("resetting", TRUE, NoCode)]
Take(l, step) == login' = [login EXCEPT ![l] = Doing(step, TRUE, login[l].code)]

AdminFault == adminFaults < MaxAdminFaults /\ adminFaults' = adminFaults + 1

(* matchTimestep: the code belongs to a step near now. *)
Matches(code, secret) ==
    /\ code.kind = "totp" /\ code.issue = secret /\ secret # 0
    /\ code.n \in (clock - Window)..(clock + Window)

(* adminController.login up to the first thing that differs: a locked account
   and a missing code are refused and leave nothing behind. *)
Submit(l, right, code) ==
    /\ LoginAt(l, "idle")
    /\ admin.lock # "locked"
    /\ \/ ~right /\ Fail(l)
       \/ /\ right /\ ~admin.mfa_enabled
          /\ login' = [login EXCEPT ![l] = Doing("resetting", FALSE, NoCode)]
       \/ /\ right /\ admin.mfa_enabled /\ code.kind = "recovery"
          /\ login' = [login EXCEPT ![l] = Doing("selecting", TRUE, code)]
       \/ /\ right /\ admin.mfa_enabled /\ code.kind = "totp"
          /\ login' = [login EXCEPT ![l] =
                 [at |-> "verifying", code |-> code, enrolled |-> TRUE, secret |-> admin.secret,
                  key |-> admin.key, last_timestep |-> admin.last_timestep]]
    /\ UNCHANGED <<admin, recovery, script, clock, key, accepted, tokens, adminFaults>>

(* Mutant: the account is locked one failure late. *)
FailedLate(row) ==
    [row EXCEPT !.failed_attempts = IF row.lock = "lapsed" THEN 1 ELSE @ + 1,
                !.lock = CASE row.lock = "lapsed" -> "open"
                           [] row.lock # "lapsed" /\ row.failed_attempts >= MaxAttempts -> "locked"
                           [] OTHER -> @]

(* recordFailedAttempt. *)
Failed(row) ==
    [row EXCEPT !.failed_attempts = IF row.lock = "lapsed" THEN 1 ELSE @ + 1,
                !.lock = CASE row.lock = "lapsed" -> "open"
                           [] row.lock # "lapsed" /\ row.failed_attempts + 1 >= MaxAttempts -> "locked"
                           [] OTHER -> @]

RecordFailedAttempt(l) ==
    /\ LoginAt(l, "failing")
    /\ admin' = Failed(admin)
    /\ AnswerLogin(l)
    /\ UNCHANGED <<recovery, script, clock, key, accepted, tokens, adminFaults>>

(* Mutant: a secret that does not decrypt is taken for no second factor. *)
VerifyTotpOpen(l) ==
    /\ LoginAt(l, "verifying")
    /\ LET row == login[l]
           ok == Matches(row.code, row.secret) /\ row.code.n > row.last_timestep
       IN CASE row.key # key -> Accept(l) [] row.key = key /\ ok -> Take(l, "burning")
            [] OTHER -> Fail(l)
    /\ UNCHANGED <<admin, recovery, script, clock, key, accepted, tokens, adminFaults>>

(* verifyTotp as far as its UPDATE: the secret it selected must decrypt. *)
VerifyTotp(l) ==
    /\ LoginAt(l, "verifying")
    /\ LET row == login[l]
           ok == row.key = key /\ Matches(row.code, row.secret) /\ row.code.n > row.last_timestep
       IN IF ok THEN Take(l, "burning") ELSE Fail(l)
    /\ UNCHANGED <<admin, recovery, script, clock, key, accepted, tokens, adminFaults>>

(* The code that was presented let a login through.  The UPDATE looks only at
   the last time step: the secret may be another's by now. *)
Burns(code) ==
    /\ admin' = [admin EXCEPT !.last_timestep = code.n]
    /\ IF code.issue = admin.secret
       THEN uses' = [uses EXCEPT ![code] = @ + 1] /\ UNCHANGED overtaken
       ELSE overtaken' = [overtaken EXCEPT ![code] = @ + 1] /\ UNCHANGED uses

(* Mutant: a bare assignment instead of the conditional UPDATE. *)
BurnTimestepBlindly(l) ==
    /\ LoginAt(l, "burning")
    /\ Burns(login[l].code)
    /\ Accept(l)
    /\ UNCHANGED <<recovery, script, clock, key, tokens, adminFaults>>

(* UPDATE admins SET mfa_last_timestep WHERE it is NULL or older. *)
BurnTimestep(l) ==
    /\ LoginAt(l, "burning")
    /\ IF admin.last_timestep < login[l].code.n
       THEN Burns(login[l].code) /\ Accept(l)
       ELSE Fail(l) /\ UNCHANGED <<admin, accepted>>
    /\ UNCHANGED <<recovery, script, clock, key, tokens, adminFaults>>

(* verifyRecoveryCode: SELECT the unused codes and compare. *)
SelectRecoveryCodes(l) ==
    /\ LoginAt(l, "selecting")
    /\ IF login[l].code \in recovery THEN Take(l, "consuming") ELSE Fail(l)
    /\ UNCHANGED <<admin, recovery, script, clock, key, accepted, tokens, adminFaults>>

(* UPDATE admin_mfa_recovery_codes SET used_at. *)
ConsumeRecoveryCode(l) ==
    /\ LoginAt(l, "consuming")
    /\ IF login[l].code \in recovery
       THEN /\ recovery' = recovery \ {login[l].code}
            /\ uses' = [uses EXCEPT ![login[l].code] = @ + 1]
            /\ Accept(l)
       ELSE Fail(l) /\ UNCHANGED <<recovery, uses>>
    /\ UNCHANGED <<admin, script, clock, key, overtaken, tokens, adminFaults>>

(* The login succeeds: the budget of attempts is restored, a token minted. *)
Succeed(l) ==
    /\ LoginAt(l, "resetting")
    /\ admin' = [admin EXCEPT !.failed_attempts = 0, !.lock = "open"]
    /\ tokens' = IF login[l].enrolled THEN tokens + 1 ELSE tokens
    /\ AnswerLogin(l)
    /\ UNCHANGED <<recovery, script, clock, key, accepted, adminFaults>>

(* A statement throws, or its answer is lost: 500. *)
LoginFails(l) ==
    /\ ~LoginAt(l, "idle")
    /\ AdminFault
    /\ AnswerLogin(l)
    /\ UNCHANGED <<admin, recovery, script, clock, key, accepted, tokens>>

-----------------------------------------------------------------------------
(* enrollAdminMfa: a secret is generated and shown. *)
Generate ==
    /\ script.at = "idle" /\ script.issue < MaxEnrolments
    /\ script' = [at |-> "confirming", issue |-> script.issue + 1]
    /\ UNCHANGED <<admin, recovery, login, clock, key, accepted, tokens, adminFaults>>

(* A code of that secret is typed in, or it does not match. *)
Confirm(code) ==
    /\ script.at = "confirming"
    /\ script' = [script EXCEPT !.at = IF Matches(code, script.issue) THEN "enabling" ELSE "idle"]
    /\ UNCHANGED <<admin, recovery, login, clock, key, accepted, tokens, adminFaults>>

EnableMfa ==
    /\ script.at = "enabling"
    /\ admin' = [admin EXCEPT !.mfa_enabled = TRUE, !.secret = script.issue, !.key = key,
                              !.last_timestep = NoStep]
    /\ script' = [script EXCEPT !.at = "issuing"]
    /\ UNCHANGED <<recovery, login, clock, key, accepted, tokens, adminFaults>>

(* issueRecoveryCodes; the row of the audit log that follows is left out. *)
IssueRecoveryCodes ==
    /\ script.at = "issuing"
    /\ recovery' = {c \in Recovery : c.issue = script.issue}
    /\ script' = [script EXCEPT !.at = "idle"]
    /\ UNCHANGED <<admin, login, clock, key, accepted, tokens, adminFaults>>

(* A statement of the script throws, or it is killed. *)
ScriptFails ==
    /\ script.at # "idle"
    /\ AdminFault
    /\ script' = [script EXCEPT !.at = "idle"]
    /\ UNCHANGED <<admin, recovery, login, clock, key, accepted, tokens>>

(* A restart with another MFA_ENCRYPTION_KEY: requests under way are lost. *)
ChangeKey ==
    /\ AdminFault
    /\ key' = adminFaults + 1
    /\ login' = [l \in Logins |-> NoLogin]
    /\ UNCHANGED <<admin, recovery, script, clock, accepted, tokens>>

Tick ==
    /\ clock < LastStep
    /\ clock' = clock + 1
    /\ UNCHANGED <<admin, recovery, login, script, key, accepted, tokens, adminFaults>>

(* LOCKOUT_MINUTES go by. *)
Lapse ==
    /\ admin.lock = "locked"
    /\ admin' = [admin EXCEPT !.lock = "lapsed"]
    /\ UNCHANGED <<recovery, login, script, clock, key, accepted, tokens, adminFaults>>

Handle(l) ==
    \/ \E right \in BOOLEAN, code \in Submissions : Submit(l, right, code)
    \/ RecordFailedAttempt(l) \/ VerifyTotp(l) \/ BurnTimestep(l)
    \/ SelectRecoveryCodes(l) \/ ConsumeRecoveryCode(l) \/ Succeed(l) \/ LoginFails(l)

Enrol ==
    \/ Generate \/ EnableMfa \/ IssueRecoveryCodes \/ ScriptFails
    \/ \E code \in Submissions : Confirm(code)

AdminNext == Enrol \/ ChangeKey \/ Tick \/ Lapse \/ \E l \in Logins : Handle(l)

AdminSpec == AdminInit /\ [][AdminNext]_adminVars

-----------------------------------------------------------------------------
(* The codes that would let a login through now or later. *)
Good ==
    {c \in Totp : admin.mfa_enabled /\ c.issue = admin.secret /\ c.n > admin.last_timestep}
        \cup recovery

Factor == INSTANCE OneTime WITH Codes <- Code, good <- Good, uses <- uses

(* Logins that present one code at once race to a conditional UPDATE: no
   recovery code, and no time step of the secret in force, lets two of them
   through (verifyTotp, verifyRecoveryCode).  A code of a secret that was
   replaced under its login is not good here, and not in uses: what it can
   still do is OncePerEnrolment's. *)
OneTimeUse == Factor!Spec

(* How many logins presented a code and were let through, and how many secrets
   were generated after its own by the time of the one in force. *)
Accepted(c) == uses[c] + overtaken[c]
EnrolmentsSince(c) ==
    IF c.kind = "totp" /\ c.issue < admin.secret THEN admin.secret - c.issue ELSE 0

(* A code that was presented lets one login through, and one more for each
   re-enrolment that reset mfa_last_timestep under the logins that presented
   it: enableMfa is the only thing that gives a burnt time step back, and no
   crash, change of key or second login does (verifyTotp, enableMfa). *)
OncePerEnrolment == \A c \in Code : Accepted(c) <= 1 + EnrolmentsSince(c)

(* adminMfaService.js:76-77 has the time step burnt so that the same code
   cannot be presented twice. *)
PresentedOnce == \A c \in Code : Accepted(c) <= 1

(* The times a code was accepted, one by one, as often as it is good for. *)
Payments ==
    {p \in Code \X Enrolments :
        p[2] <= Accepted(p[1]) /\ p[2] <= 1 + EnrolmentsSince(p[1])}

(* Every token of a login that found the account enrolled was paid for by a
   code that was presented and accepted for that login: an error after the
   code was burnt, or a key that no longer decrypts the secret, never turns
   into a login without one. *)
TokensPaidFor ==
    tokens + Cardinality({l \in Logins : LoginAt(l, "resetting") /\ login[l].enrolled})
        <= Cardinality(Payments)

(* A code that is presented pays for one token, and for no more whoever else
   presents it: accepted once for each enrolment, and no token without an
   acceptance of its own (verifyTotp, verifyRecoveryCode, enableMfa). *)
CodesPayForTokens == OncePerEnrolment /\ TokensPaidFor

(* A wrong second factor and a wrong password draw on one budget, and the
   budget holds when they are counted at once: an account is open only with
   attempts left, and no more than the logins already under way get past a
   lock (RECORD_FAILED_ADMIN_LOGIN_SQL). *)
BudgetHolds ==
    /\ admin.lock = "open" <=> admin.failed_attempts < MaxAttempts
    /\ admin.failed_attempts < MaxAttempts + Cardinality(Logins)

(* The types, and the one budget of both factors. *)
AdminStateOK == AdminTypeOK /\ BudgetHolds

=============================================================================
