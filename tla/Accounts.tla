------------------------------- MODULE Accounts -------------------------------
(***************************************************************************)
(* How accounts come to be: registration and the mailed link that verifies *)
(* it, its resending, and sign-in with Google, which finds, links or makes *)
(* an account (authController, signupControls), over the pool of database  *)
(* connections all of them share (config/db).                              *)
(*                                                                         *)
(* A registration is one transaction on one client, which it keeps while   *)
(* it mails the link; the other statements are autocommitted, and each     *)
(* takes a client for its own time.  One account for one address: the      *)
(* address stands for the id.  Sessions, suspension and passwords are in   *)
(* Sessions.                                                               *)
(***************************************************************************)
EXTENDS Naturals, FiniteSets

CONSTANTS
    Emails, Googles,
    Requests,         \* requests at a time
    PoolMax,          \* DB_POOL_MAX
    Disposable,       \* addresses of throwaway providers
    CaptchaEnabled,   \* TURNSTILE_SECRET_KEY is set
    MailConfigured,   \* RESEND_API_KEY is set, and no placeholder
    NullableHash,     \* users.password_hash may be NULL
    None,
    MaxLinks,         \* bound: links issued
    MaxFaults         \* bound: statements and mails that fail, crashes

ASSUME NoneAssumption == None \notin Emails \cup Googles
ASSUME PoolAssumption == PoolMax \in Nat \ {0}
ASSUME RequestsAssumption == IsFiniteSet(Requests)
ASSUME ControlsAssumption ==
    Disposable \subseteq Emails /\ {CaptchaEnabled, MailConfigured, NullableHash} \subseteq BOOLEAN
ASSUME AccountBoundsAssumption == MaxLinks \in Nat \ {0} /\ MaxFaults \in Nat

VARIABLES
    account,  \* public.users, with what there is of public.profiles and notifications
    mailbox,  \* the links each address has received
    job,      \* what each request is doing
    issued,   \* how many links there were
    opened,   \* how many times each link verified an account
    resent,   \* the links that were issued by resends
    starved,  \* a request went without a client
    faults

history == <<issued, opened, resent, starved>>
vars == <<account, mailbox, job, history, faults>>

Links == 1..MaxLinks

(* verification_token_hash: link 0 is NULL. *)
Account == [password : BOOLEAN, verified : BOOLEAN, google_id : Googles \cup {None},
            link : {0} \cup Links, expired : BOOLEAN, profile : BOOLEAN, welcome : BOOLEAN]

NoAccount == [password |-> FALSE, verified |-> FALSE, google_id |-> None,
              link |-> 0, expired |-> FALSE, profile |-> FALSE, welcome |-> FALSE]

Exists(e) == account[e].password \/ account[e].google_id # None

(* Statements that take a client, those of a transaction that has one, and
   the call of the mail service. *)
Querying == {"userCheck", "byGoogleId", "byEmail", "linkUser", "linkProfile", "createUser",
             "createProfile", "welcome", "reread", "selectUnverified", "updateToken"}
Holding == {"insert", "mail", "commit", "rollback"}
Steps == {"idle", "connect", "resend"} \cup Querying \cup Holding

Idle == [at |-> "idle", email |-> None, google |-> None, link |-> 0]

TypeOK ==
    /\ account \in [Emails -> Account]
    /\ \A e \in Emails : Exists(e) \/ account[e] = NoAccount
    /\ mailbox \in [Emails -> SUBSET Links]
    /\ job \in [Requests -> [at : Steps, email : Emails \cup {None},
                             google : Googles \cup {None}, link : {0} \cup Links]]
    /\ \A p \in Requests : job[p].at # "idle" => job[p].email # None
    /\ issued \in 0..MaxLinks
    /\ opened \in [Links -> Nat]
    /\ resent \subseteq Links /\ starved \in BOOLEAN /\ faults \in 0..MaxFaults

Init ==
    /\ account = [e \in Emails |-> NoAccount]
    /\ mailbox = [e \in Emails |-> {}]
    /\ job = [p \in Requests |-> Idle]
    /\ issued = 0 /\ opened = [k \in Links |-> 0]
    /\ resent = {} /\ starved = FALSE /\ faults = 0

-----------------------------------------------------------------------------
(* signupControls. A silent verifier lets everybody through, and only a body
   that has an address has it looked up. *)
VerifyCaptcha(answer) == CaptchaEnabled => answer \in {"success", "unavailable"}
Admitted(body, requireCaptcha, answer) ==
    body \notin Disposable /\ (requireCaptcha => VerifyCaptcha(answer))

At(p, step) == job[p].at = step
To(p, step) == job' = [job EXCEPT ![p].at = step]
Answer(p) == job' = [job EXCEPT ![p] = Idle]
Start(p, step, e, g) ==
    job' = [job EXCEPT ![p] = [at |-> step, email |-> e, google |-> g, link |-> 0]]

(* A client of the pool is to be had.  What needs one: createNotification is
   handed the client of the registration. *)
Free == Cardinality({p \in Requests : job[p].at \in Holding}) < PoolMax
NeedsClient(step) == step \in Querying \cup {"connect"}
Runs(p, step) == At(p, step) /\ (NeedsClient(step) => Free)

Fault == faults < MaxFaults /\ faults' = faults + 1

(* A request that will need a link may come. *)
Waiting == {p \in Requests :
    job[p].at \in {"userCheck", "connect", "insert", "selectUnverified", "updateToken"}}
Room == issued + Cardinality(Waiting) < MaxLinks

(* The row a transaction has inserted and not committed. *)
Uncommitted(e) ==
    \E p \in Requests : job[p].email = e /\ job[p].at \in {"mail", "commit", "rollback"} /\ job[p].link # 0
GoogleTaken(g, e) == \E f \in Emails \ {e} : account[f].google_id = g

-----------------------------------------------------------------------------
(* POST /register. *)
Register(p, e, answer) ==
    /\ At(p, "idle") /\ Admitted(e, TRUE, answer) /\ Room
    /\ Start(p, "userCheck", e, None)
    /\ UNCHANGED <<account, mailbox, history, faults>>

UserCheck(p) ==
    /\ Runs(p, "userCheck")
    /\ IF Exists(job[p].email) THEN Answer(p) ELSE To(p, "connect")
    /\ UNCHANGED <<account, mailbox, history, faults>>

Connect(p) ==
    /\ Runs(p, "connect") /\ To(p, "insert")
    /\ UNCHANGED <<account, mailbox, history, faults>>

(* BEGIN and the three INSERTs: an address that another transaction has
   inserted waits for it, one that is taken is a violation. *)
Insert(p) ==
    /\ Runs(p, "insert") /\ ~Uncommitted(job[p].email)
    /\ IF Exists(job[p].email)
       THEN To(p, "rollback") /\ UNCHANGED issued
       ELSE /\ issued' = issued + 1
            /\ job' = [job EXCEPT ![p] = [@ EXCEPT !.at = "mail", !.link = issued + 1]]
    /\ UNCHANGED <<account, mailbox, opened, resent, starved, faults>>

(* What a call of sendEmail that does not throw comes to: without a key it
   answers as if it had sent the mail, and sends none. *)
Deliver(p) ==
    IF MailConfigured THEN mailbox' = [mailbox EXCEPT ![job[p].email] = @ \cup {job[p].link}]
                      ELSE UNCHANGED mailbox

(* Mutant: the error is logged and no more. *)
SendEmailIgnored(p) ==
    /\ Runs(p, "mail")
    /\ To(p, "commit")
    /\ \/ Deliver(p) /\ UNCHANGED faults
       \/ Fault /\ UNCHANGED mailbox
    /\ UNCHANGED <<account, history>>

(* sendEmail answers, or throws: before the mail has gone or after. *)
SendEmail(p) ==
    /\ Runs(p, "mail")
    /\ \/ Deliver(p) /\ To(p, "commit") /\ UNCHANGED faults
       \/ /\ Fault /\ To(p, "rollback")
          /\ \/ Deliver(p)
             \/ UNCHANGED mailbox
    /\ UNCHANGED <<account, history>>

(* Mutant: no welcome. *)
RegisteredBare(k) == [NoAccount EXCEPT !.password = TRUE, !.link = k, !.profile = TRUE]

(* COMMIT makes the three rows at once. *)
Registered(k) ==
    [NoAccount EXCEPT !.password = TRUE, !.link = k, !.profile = TRUE, !.welcome = TRUE]

CommitRow(p) == account' = [account EXCEPT ![job[p].email] = Registered(job[p].link)]

Commit(p) ==
    /\ Runs(p, "commit") /\ CommitRow(p) /\ Answer(p)
    /\ UNCHANGED <<mailbox, history, faults>>

(* A statement of the transaction throws: it is rolled back. COMMIT may have
   been done all the same. *)
TransactionFails(p) ==
    /\ job[p].at \in {"insert", "commit"}
    /\ Fault
    /\ To(p, "rollback")
    /\ \/ UNCHANGED account
       \/ At(p, "commit") /\ CommitRow(p)
    /\ UNCHANGED <<mailbox, history>>

(* Mutant: the client goes back only where a row was inserted. *)
RollbackInserted(p) ==
    /\ Runs(p, "rollback") /\ job[p].link # 0 /\ Answer(p)
    /\ UNCHANGED <<account, mailbox, history, faults>>

(* ROLLBACK, and whether or not it throws the client goes back. *)
Rollback(p) ==
    /\ Runs(p, "rollback") /\ Answer(p)
    /\ UNCHANGED <<account, mailbox, history, faults>>

(* Mutant: the hash is not cleared. *)
VerifyEmailKept(k) ==
    /\ Free /\ k \in UNION {mailbox[e] : e \in Emails}
    /\ \E e \in Emails :
        /\ account[e].link = k /\ ~account[e].expired
        /\ account' = [account EXCEPT ![e] = [@ EXCEPT !.verified = TRUE]]
    /\ opened' = [opened EXCEPT ![k] = @ + 1]
    /\ UNCHANGED <<mailbox, job, issued, resent, starved, faults>>

(* GET /verify: one conditional UPDATE. A link is known from a mail. *)
VerifyEmail(k) ==
    /\ Free /\ k \in UNION {mailbox[e] : e \in Emails}
    /\ \E e \in Emails :
        /\ account[e].link = k /\ ~account[e].expired
        /\ account' = [account EXCEPT ![e] = [@ EXCEPT !.verified = TRUE, !.link = 0]]
    /\ opened' = [opened EXCEPT ![k] = @ + 1]
    /\ UNCHANGED <<mailbox, job, issued, resent, starved, faults>>

(* More than VERIFICATION_TOKEN_TTL_HOURS pass. *)
LinkExpires(e) ==
    /\ account[e].link # 0
    /\ account' = [account EXCEPT ![e] = [@ EXCEPT !.expired = TRUE]]
    /\ UNCHANGED <<mailbox, job, history, faults>>

(* POST /resend-verification.  What is selected is not looked at again. *)
ResendVerification(p, e, answer) ==
    /\ At(p, "idle") /\ Admitted(e, TRUE, answer) /\ Room
    /\ Start(p, "selectUnverified", e, None)
    /\ UNCHANGED <<account, mailbox, history, faults>>

SelectUnverified(p) ==
    /\ Runs(p, "selectUnverified")
    /\ IF Exists(job[p].email) /\ ~account[job[p].email].verified
       THEN To(p, "updateToken") ELSE Answer(p)
    /\ UNCHANGED <<account, mailbox, history, faults>>

NewLink(p) ==
    /\ issued' = issued + 1 /\ resent' = resent \cup {issued + 1}
    /\ account' = [account EXCEPT ![job[p].email] = [@ EXCEPT !.link = issued + 1, !.expired = FALSE]]

UpdateToken(p) ==
    /\ Runs(p, "updateToken")
    /\ NewLink(p)
    /\ job' = [job EXCEPT ![p] = [@ EXCEPT !.at = "resend", !.link = issued + 1]]
    /\ UNCHANGED <<mailbox, opened, starved, faults>>

Resend(p) ==
    /\ Runs(p, "resend")
    /\ \/ Deliver(p) /\ UNCHANGED faults
       \/ Fault /\ UNCHANGED mailbox
    /\ Answer(p)
    /\ UNCHANGED <<account, history>>

-----------------------------------------------------------------------------
(* POST /google, past verifyIdToken.  The body has no address to look up. *)
GoogleSignIn(p, g, e, answer) ==
    /\ At(p, "idle") /\ Admitted(None, FALSE, answer)
    /\ Start(p, "byGoogleId", e, g)
    /\ UNCHANGED <<account, mailbox, history, faults>>

(* Found, the account is signed in as it is. *)
ByGoogleId(p) ==
    /\ Runs(p, "byGoogleId")
    /\ IF \E e \in Emails : account[e].google_id = job[p].google
       THEN Answer(p) ELSE To(p, "byEmail")
    /\ UNCHANGED <<account, mailbox, history, faults>>

ByEmail(p) ==
    /\ Runs(p, "byEmail")
    /\ To(p, IF Exists(job[p].email) THEN "linkUser" ELSE "createUser")
    /\ UNCHANGED <<account, mailbox, history, faults>>

(* The identity is linked, over another if there is one. *)
WriteLink(p) ==
    account' = [account EXCEPT ![job[p].email] =
        [@ EXCEPT !.google_id = job[p].google, !.verified = TRUE]]

LinkUser(p) ==
    /\ Runs(p, "linkUser")
    /\ IF GoogleTaken(job[p].google, job[p].email) THEN Answer(p) /\ UNCHANGED account
       ELSE To(p, "linkProfile") /\ WriteLink(p)
    /\ UNCHANGED <<mailbox, history, faults>>

(* profiles.provider, which nothing here reads. *)
LinkProfile(p) ==
    /\ Runs(p, "linkProfile") /\ Answer(p)
    /\ UNCHANGED <<account, mailbox, history, faults>>

(* The INSERT of a new account, without a password. *)
Conflict(p) ==
    Exists(job[p].email) \/ GoogleTaken(job[p].google, job[p].email)

WriteUser(p) ==
    account' = [account EXCEPT ![job[p].email] =
        [NoAccount EXCEPT !.google_id = job[p].google, !.verified = TRUE]]

CreateUser(p) ==
    /\ Runs(p, "createUser") /\ ~Uncommitted(job[p].email)
    /\ IF Conflict(p) \/ ~NullableHash THEN Answer(p) /\ UNCHANGED account
       ELSE To(p, "createProfile") /\ WriteUser(p)
    /\ UNCHANGED <<mailbox, history, faults>>

WriteProfile(p) == account' = [account EXCEPT ![job[p].email] = [@ EXCEPT !.profile = TRUE]]

CreateProfile(p) ==
    /\ Runs(p, "createProfile") /\ To(p, "welcome")
    /\ WriteProfile(p)
    /\ UNCHANGED <<mailbox, history, faults>>

(* Best effort: for a fault or for want of a client there is no welcome. *)
Welcome(p) ==
    /\ At(p, "welcome") /\ To(p, "reread")
    /\ \/ /\ Free /\ account' = [account EXCEPT ![job[p].email] = [@ EXCEPT !.welcome = TRUE]]
          /\ UNCHANGED <<history, faults>>
       \/ /\ ~Free /\ starved' = TRUE
          /\ UNCHANGED <<account, issued, opened, resent, faults>>
       \/ Fault /\ UNCHANGED <<account, history>>
    /\ UNCHANGED mailbox

(* The account is read again, and a session opened. *)
Reread(p) ==
    /\ Runs(p, "reread") /\ Answer(p)
    /\ UNCHANGED <<account, mailbox, history, faults>>

-----------------------------------------------------------------------------
(* connectionTimeoutMillis pass without a client. *)
PoolTimeout(p) ==
    /\ NeedsClient(job[p].at) /\ ~At(p, "welcome") /\ ~Free
    /\ starved' = TRUE
    /\ IF job[p].at \in Holding THEN To(p, "rollback") ELSE Answer(p)
    /\ UNCHANGED <<account, mailbox, issued, opened, resent, faults>>

(* statement_timeout passes behind another transaction. *)
LockTimeout(p) ==
    /\ job[p].at \in {"insert", "createUser"} /\ Uncommitted(job[p].email)
    /\ IF At(p, "insert") THEN To(p, "rollback") ELSE Answer(p)
    /\ UNCHANGED <<account, mailbox, history, faults>>

(* Another statement throws: not done, or done and its answer lost. *)
QueryFails(p) ==
    /\ job[p].at \in Querying \cup {"connect"}
    /\ Fault /\ Answer(p)
    /\ \/ UNCHANGED <<account, issued, resent>>
       \/ At(p, "updateToken") /\ NewLink(p)
       \/ /\ UNCHANGED <<issued, resent>>
          /\ \/ At(p, "linkUser") /\ ~GoogleTaken(job[p].google, job[p].email) /\ WriteLink(p)
             \/ At(p, "createUser") /\ NullableHash /\ ~Conflict(p) /\ ~Uncommitted(job[p].email) /\ WriteUser(p)
             \/ At(p, "createProfile") /\ WriteProfile(p)
    /\ UNCHANGED <<mailbox, opened, starved>>

(* The process dies: PostgreSQL rolls back what was not committed. *)
Crash ==
    /\ Fault
    /\ \E p \in Requests : ~At(p, "idle")
    /\ job' = [p \in Requests |-> Idle]
    /\ UNCHANGED <<account, mailbox, history>>

(* No request comes in. *)
Rest == (\A p \in Requests : At(p, "idle")) /\ UNCHANGED vars

(* What a request does of itself. *)
Step(p) ==
    \/ UserCheck(p)
    \/ Connect(p)
    \/ Insert(p)
    \/ SendEmail(p)
    \/ Commit(p)
    \/ Rollback(p)
    \/ SelectUnverified(p)
    \/ UpdateToken(p)
    \/ Resend(p)
    \/ ByGoogleId(p)
    \/ ByEmail(p)
    \/ LinkUser(p)
    \/ LinkProfile(p)
    \/ CreateUser(p)
    \/ CreateProfile(p)
    \/ Welcome(p)
    \/ Reread(p)
    \/ PoolTimeout(p)
    \/ LockTimeout(p)

Answers == {"success", "rejected", "unavailable", "missing"}

Next ==
    \/ \E p \in Requests :
        \/ \E e \in Emails, answer \in Answers :
            \/ Register(p, e, answer)
            \/ ResendVerification(p, e, answer)
            \/ \E g \in Googles : GoogleSignIn(p, g, e, answer)
        \/ Step(p)
        \/ TransactionFails(p)
        \/ QueryFails(p)
    \/ \E k \in Links : VerifyEmail(k)
    \/ \E e \in Emails : LinkExpires(e)
    \/ Crash
    \/ Rest

Spec == Init /\ [][Next]_vars

(* A request goes on until it is answered: PostgreSQL, the mail service or a
   timeout of theirs answers. *)
FairSpec == Spec /\ \A p \in Requests : WF_vars(Step(p))

-----------------------------------------------------------------------------
(* The links that would verify an account. *)
LiveLinks == {account[e].link : e \in {f \in Emails : account[f].link # 0 /\ ~account[f].expired}}

(* A mailed link verifies once, and one that a resend replaced never after,
   whatever registrations and resends overlap: "one-time - only one caller
   can match a row whose hash is still set", "also invalidates older links"
   (verifyEmail, resendVerification). *)
Link == INSTANCE OneTime WITH Codes <- Links, good <- LiveLinks, uses <- opened
LinksAreOneTime == Link!Spec

(* Whoever has an unverified account can verify it until the link expires:
   the link is in the mailbox, or a request is about to mail it, in whatever
   order overlapping resends write and mail theirs.  A registration keeps
   this through every fault, its mail comes before its COMMIT; a resend
   writes first, and a fault then leaves an account whose old link is dead
   and whose new one was never mailed, until the next resend.  All of it
   takes a mail service: without a key every call answers and nobody gets a
   link (register, resendVerification, sendEmail). *)
NobodyIsStranded ==
    \A e \in Emails :
        MailConfigured /\ Exists(e) /\ ~account[e].verified =>
            \/ account[e].link \in mailbox[e]
            \/ \E p \in Requests : At(p, "resend") /\ job[p].link = account[e].link
            \/ faults > 0 /\ account[e].link \in resent

(* A registered account is whole, "so a new user never exists without their
   welcome notification"; one that Google made lacks its profile or its
   welcome only while it is being made, after a fault, or when the pool was
   empty in between: no other order of requests leaves half an account
   (register, googleSignIn). *)
AccountsAreWhole ==
    \A e \in Emails :
        Exists(e) /\ ~(account[e].profile /\ account[e].welcome) =>
            /\ ~account[e].password
            /\ \/ \E p \in Requests : job[p].email = e /\ job[p].at \in {"createProfile", "welcome"}
               \/ starved \/ faults > 0

(* The types, and accounts that are whole. *)
StateOK == TypeOK /\ AccountsAreWhole

(* Every request is answered, whoever holds the clients and the rows it waits
   for: a registration gives its client back whatever becomes of it, and
   nobody waits in a circle for clients and rows (register, config/db). *)
EveryRequestEnds == \A p \in Requests : ~At(p, "idle") ~> At(p, "idle")

(* A first sign-in with Google makes an account: on its INSERT it is not
   turned away unless the address or the identity was taken in the meantime
   ("creates a new account and issues a session for a first-time Google
   user"). *)
GoogleUsersGetIn ==
    [][\A p \in Requests :
        At(p, "createUser") /\ At(p, "idle")' /\ Free /\ faults' = faults =>
            Conflict(p) \/ Uncommitted(job[p].email)]_vars
=============================================================================
