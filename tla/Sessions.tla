------------------------------ MODULE Sessions ------------------------------
(***************************************************************************)
(* The sessions of one account: sign-in, refresh-token rotation with reuse *)
(* detection, sign-out, password change and reset, suspension              *)
(* (authController, sessionService, authMiddleware, setUserStatus).        *)
(*                                                                         *)
(* Every handler but setUserStatus is a series of autocommitted            *)
(* statements, one action each; what a handler read stays in its call.     *)
(* Accounts share no row, so one is enough.  A row of refresh_tokens that  *)
(* has expired is refused as a revoked one is and both are "dead"; a reset *)
(* link that has expired is as good as none.                               *)
(***************************************************************************)
EXTENDS Integers, Sequences, FiniteSetsExt

CONSTANTS
    Calls,       \* HTTP requests in the process at a time
    Kinds,       \* endpoints that clients use
    Passwords,   \* passwords the account has had or will have
    First,       \* the one it has
    MaxAttempts, \* MAX_FAILED_LOGIN_ATTEMPTS
    MaxServed,   \* bound: requests served
    MaxFaults    \* bound: handlers cut short

Endpoints == {"login", "refresh", "logout", "logoutAll", "changePassword",
              "forgotPassword", "resetPassword", "setUserStatus"}

ASSUME KindsAssumption == Kinds \subseteq Endpoints
ASSUME FirstAssumption == First \in Passwords
ASSUME SessionBoundsAssumption ==
    MaxAttempts \in Nat \ {0, 1} /\ MaxServed \in Nat /\ MaxFaults \in Nat

VARIABLES
    user,     \* the account's row of public.users
    tokens,   \* refresh_tokens, in order of issue
    call,     \* what each request is doing, and what it has read
    access,   \* access tokens handed out
    links,    \* for each reset link sent, how often it reset the password
    chosen,   \* the password last set by a change or a reset
    stolen,   \* families reported stolen to whoever presented the token
    served,   \* how many requests have arrived
    faults    \* how many handlers were cut short

historyVars == <<links, chosen, stolen>>
vars == <<user, tokens, call, access, historyVars, served, faults>>

(* password_hash: what it hashes, at which cost, and the salt it drew, one
   per password set. *)
Hash == [of : Passwords, strong : BOOLEAN, salt : 0..MaxServed]

User == [password_hash : Hash, token_version : 0..MaxServed,
         status : {"active", "suspended"}, status_changed : 0..MaxServed,
         failed_attempts : 0..MaxServed, lock : {"open", "locked", "lapsed"},
         reset_link : 0..MaxServed, legacy : BOOLEAN]

(* A refresh token; salt is that of the password its session began with. *)
Token == [family : 1..(MaxServed + 1), used : BOOLEAN, dead : BOOLEAN,
          salt : 0..MaxServed]

(* An access token: the tv claim and, for the properties, where it is from. *)
Access == [tv : 0..MaxServed, salt : 0..MaxServed, term : 0..MaxServed,
           by : {"password", "refresh"}]

Steps == {"idle", "upgrading", "failing", "opening", "clearing",
          "consuming", "diagnosing", "migrating", "rotating", "containing", "bumping",
          "revoking", "forgetting", "comparing", "changing", "reopening",
          "staging", "committing"}

Idle == [at |-> "idle", kind |-> "none", seen |-> <<>>, token |-> 0,
         family |-> 0, new |-> First, status |-> "active", staged |-> {}]

TypeOK ==
    /\ user \in User
    /\ tokens \in Seq(Token) /\ Len(tokens) <= MaxServed
    /\ \A c \in Calls :
        /\ DOMAIN call[c] = DOMAIN Idle
        /\ call[c].at \in Steps /\ call[c].kind \in Kinds \cup {"none"}
        /\ call[c].seen \in User \cup {<<>>}
        /\ call[c].token \in 0..Len(tokens)
        /\ call[c].family \in 0..(MaxServed + 1)
        /\ call[c].staged \subseteq DOMAIN tokens
    /\ access \subseteq Access
    /\ links \in Seq(0..MaxServed)
    /\ chosen \in Passwords
    /\ stolen \subseteq 1..(MaxServed + 1)
    /\ served \in 0..MaxServed
    /\ faults \in 0..MaxFaults

(* An account with a hash of the old cost and the session of before
   refresh_tokens, whose token is number 0. *)
Init ==
    /\ user = [password_hash |-> [of |-> First, strong |-> FALSE, salt |-> 0],
               token_version |-> 0, status |-> "active", status_changed |-> 0,
               failed_attempts |-> 0, lock |-> "open", reset_link |-> 0,
               legacy |-> TRUE]
    /\ tokens = <<>>
    /\ call = [c \in Calls |-> Idle]
    /\ access = {}
    /\ links = <<>> /\ chosen = First /\ stolen = {}
    /\ served = 0 /\ faults = 0

-----------------------------------------------------------------------------
(* The rows a transaction of setUserStatus has written and not committed:
   other statements wait for them, reads see them as they were. *)
InTransaction(c) == call[c].at \in {"staging", "committing"}
UserUnlocked == \A c \in Calls : ~InTransaction(c)
Unlocked(T) == \A c \in Calls : T \cap call[c].staged = {}

At(c, s) == call[c].at = s

(* A request arrives and its handler goes as far as state r. *)
Arrive(c, k, r) ==
    /\ At(c, "idle") /\ k \in Kinds
    /\ served < MaxServed /\ served' = served + 1
    /\ call' = [call EXCEPT ![c] = [f \in DOMAIN Idle |->
                    IF f = "kind" THEN k
                    ELSE IF f \in DOMAIN r THEN r[f] ELSE Idle[f]]]
    /\ UNCHANGED faults

Proceed(r) == call' = r /\ UNCHANGED <<served, faults>>
Goto(c, s) == Proceed([call EXCEPT ![c].at = s])
Respond(c) == Proceed([call EXCEPT ![c] = Idle])

Live(t) == ~tokens[t].used /\ ~tokens[t].dead
Undead == {t \in DOMAIN tokens : ~tokens[t].dead}
Kill(T) == tokens' = [t \in DOMAIN tokens |->
                        [tokens[t] EXCEPT !.dead = @ \/ t \in T]]

(* recordRefreshToken: without a family it starts one. *)
RecordRefreshToken(f, salt) ==
    tokens' = Append(tokens, [family |-> IF f = 0 THEN Len(tokens) + 1 ELSE f,
                              used |-> FALSE, dead |-> FALSE, salt |-> salt])

HandOut(row, salt, by) ==
    access' = access \cup {[tv |-> row.token_version, salt |-> salt,
                            term |-> row.status_changed, by |-> by]}

(* authMiddleware: the account active, the tv claim that of its row. *)
Accepted(a) == user.status = "active" /\ a.tv = user.token_version

-----------------------------------------------------------------------------
(* login.  Unknown or unverified address, lock, suspension: an answer and nothing else, as
   for the refusals on arrival of the other endpoints. *)
Login(c, p) ==
    /\ user.lock # "locked"
    /\ LET hash == user.password_hash IN
       \/ /\ p # hash.of
          /\ Arrive(c, "login", [at |-> "failing", seen |-> user])
       \/ /\ p = hash.of /\ user.status = "active"
          /\ Arrive(c, "login", [at |-> IF hash.strong THEN "opening" ELSE "upgrading",
                                 seen |-> user])
    /\ UNCHANGED <<user, tokens, access, historyVars>>

(* The counter written back from the row that was read. *)
RecordFailedLoginReadBefore(c) ==
    /\ At(c, "failing") /\ UserUnlocked
    /\ LET n == call[c].seen.failed_attempts + 1 IN
       user' = [user EXCEPT !.failed_attempts = n,
                            !.lock = IF n >= MaxAttempts THEN "locked" ELSE @]
    /\ Respond(c)
    /\ UNCHANGED <<tokens, access, historyVars>>

(* RECORD_FAILED_LOGIN_SQL: every CASE reads the row before the update. *)
RecordFailedLogin(c) ==
    /\ At(c, "failing") /\ UserUnlocked
    /\ user' = IF user.lock = "lapsed"
               THEN [user EXCEPT !.failed_attempts = 1, !.lock = "open"]
               ELSE [user EXCEPT !.failed_attempts = @ + 1,
                         !.lock = IF user.failed_attempts + 1 >= MaxAttempts
                                  THEN "locked" ELSE @]
    /\ Respond(c)
    /\ UNCHANGED <<tokens, access, historyVars>>

(* UPDATE ... WHERE id = $2, without AND password_hash = $3. *)
UpgradePasswordHashUnguarded(c) ==
    /\ At(c, "upgrading") /\ UserUnlocked
    /\ user' = [user EXCEPT !.password_hash =
                    [call[c].seen.password_hash EXCEPT !.strong = TRUE]]
    /\ Goto(c, "opening")
    /\ UNCHANGED <<tokens, access, historyVars>>

(* upgradePasswordHashIfNeeded: when it fails the login goes on. *)
UpgradePasswordHash(c) ==
    /\ At(c, "upgrading") /\ UserUnlocked
    /\ \/ /\ user.password_hash = call[c].seen.password_hash
          /\ user' = [user EXCEPT !.password_hash.strong = TRUE]
       \/ UNCHANGED user
    /\ Goto(c, "opening")
    /\ UNCHANGED <<tokens, access, historyVars>>

OpenSession(c) ==
    /\ At(c, "opening")
    /\ RecordRefreshToken(0, call[c].seen.password_hash.salt)
    /\ Goto(c, "clearing")
    /\ UNCHANGED <<user, access, historyVars>>

(* The budget of attempts restored, the legacy token dropped, the tokens
   handed out: the access token is of the row read on arrival. *)
ClearFailures(c) ==
    /\ At(c, "clearing") /\ UserUnlocked
    /\ user' = [user EXCEPT !.failed_attempts = 0, !.lock = "open", !.legacy = FALSE]
    /\ HandOut(call[c].seen, call[c].seen.password_hash.salt, "password")
    /\ Respond(c)
    /\ UNCHANGED <<tokens, historyVars>>

-----------------------------------------------------------------------------
(* refreshToken, with token t: 0 is the one known to the legacy column only. *)
Refresh(c, t) ==
    /\ user.status = "active"
    /\ Arrive(c, "refresh", [at |-> "consuming", seen |-> user, token |-> t])
    /\ UNCHANGED <<user, tokens, access, historyVars>>

(* The UPDATE without used_at IS NULL. *)
ConsumableAgain(t) == t # 0 /\ ~tokens[t].dead
Consumable(t) == t # 0 /\ Live(t)

(* consumeRefreshToken: one conditional UPDATE. *)
Consume(c) ==
    LET t == call[c].token IN
    /\ At(c, "consuming") /\ Unlocked({t})
    /\ \/ /\ Consumable(t)
          /\ tokens' = [tokens EXCEPT ![t].used = TRUE]
          /\ Proceed([call EXCEPT ![c].at = "rotating",
                                  ![c].family = tokens[t].family])
       \/ /\ ~Consumable(t)
          /\ Goto(c, "diagnosing")
          /\ UNCHANGED tokens
    /\ UNCHANGED <<user, access, historyVars>>

(* Its SELECT when the UPDATE matched no row: used comes before dead. *)
Diagnose(c) ==
    LET t == call[c].token IN
    /\ At(c, "diagnosing")
    /\ \/ t = 0 /\ Goto(c, "migrating")
       \/ /\ t # 0 /\ tokens[t].used
          /\ Proceed([call EXCEPT ![c].at = "containing",
                                  ![c].family = tokens[t].family])
       \/ t # 0 /\ ~tokens[t].used /\ Respond(c)
    /\ UNCHANGED <<user, tokens, access, historyVars>>

(* consumeLegacyRefreshToken *)
Migrate(c) ==
    /\ At(c, "migrating") /\ UserUnlocked
    /\ IF user.legacy THEN Goto(c, "rotating") ELSE Respond(c)
    /\ user' = [user EXCEPT !.legacy = FALSE]
    /\ UNCHANGED <<tokens, access, historyVars>>

(* The successor, in the family of the token, or in a new one when it comes
   from the legacy column; the access token is of the row read on arrival. *)
Rotate(c) ==
    LET t == call[c].token
        salt == IF t = 0 THEN 0 ELSE tokens[t].salt
    IN
    /\ At(c, "rotating")
    /\ RecordRefreshToken(call[c].family, salt)
    /\ HandOut(call[c].seen, salt, "refresh")
    /\ Respond(c)
    /\ UNCHANGED <<user, historyVars>>

(* Reuse: revokeRefreshFamily, bumpUserTokenVersion, 401. *)
RevokeFamily(c) ==
    LET T == {t \in Undead : tokens[t].family = call[c].family} IN
    /\ At(c, "containing") /\ Unlocked(T)
    /\ Kill(T)
    /\ Goto(c, "bumping")
    /\ UNCHANGED <<user, access, historyVars>>

BumpTokenVersion(c) ==
    /\ At(c, "bumping") /\ UserUnlocked
    /\ user' = [user EXCEPT !.token_version = @ + 1]
    /\ \/ /\ call[c].kind = "refresh"
          /\ stolen' = stolen \cup {call[c].family}
          /\ Respond(c)
       \/ /\ call[c].kind = "logoutAll"
          /\ Goto(c, "forgetting")
          /\ UNCHANGED stolen
    /\ UNCHANGED <<tokens, access, links, chosen>>

-----------------------------------------------------------------------------
(* Endpoints behind authMiddleware. *)
Authorized == \E a \in access : Accepted(a)

(* logout and logoutAll *)
SignOut(c, k) ==
    /\ Authorized
    /\ Arrive(c, k, [at |-> "revoking"])
    /\ UNCHANGED <<user, tokens, access, historyVars>>

AfterRevoking(k) ==
    CASE k = "logout" -> "forgetting"
      [] k = "logoutAll" -> "bumping"
      [] k = "changePassword" -> "reopening"

(* revokeAllUserRefreshTokens; a reset answers after it. *)
RevokeAll(c) ==
    /\ At(c, "revoking") /\ Unlocked(Undead)
    /\ Kill(Undead)
    /\ IF call[c].kind = "resetPassword" THEN Respond(c)
       ELSE Goto(c, AfterRevoking(call[c].kind))
    /\ UNCHANGED <<user, access, historyVars>>

Forget(c) ==
    /\ At(c, "forgetting") /\ UserUnlocked
    /\ user' = [user EXCEPT !.legacy = FALSE]
    /\ Respond(c)
    /\ UNCHANGED <<tokens, access, historyVars>>

ChangePassword(c, p) ==
    /\ Authorized
    /\ Arrive(c, "changePassword", [at |-> "comparing", new |-> p])
    /\ UNCHANGED <<user, tokens, access, historyVars>>

(* bcrypt.compare with the row just read: the current password, or 400. *)
Compare(c) ==
    /\ At(c, "comparing")
    /\ Goto(c, "changing") \/ Respond(c)
    /\ UNCHANGED <<user, tokens, access, historyVars>>

NewHash(p) == [of |-> p, strong |-> TRUE, salt |-> user.token_version + 1]

(* The new password and the next token_version, in one UPDATE. *)
WithPassword(p) ==
    [user EXCEPT !.password_hash = NewHash(p), !.legacy = FALSE,
                 !.token_version = @ + 1]

Change(c) ==
    /\ At(c, "changing") /\ UserUnlocked
    /\ user' = WithPassword(call[c].new)
    /\ chosen' = call[c].new
    /\ Proceed([call EXCEPT ![c].at = "revoking", ![c].seen = user'])
    /\ UNCHANGED <<tokens, access, links, stolen>>

(* The caller's own new session, minted from the row UPDATE returned. *)
Reopen(c) ==
    LET row == call[c].seen IN
    /\ At(c, "reopening")
    /\ RecordRefreshToken(0, row.password_hash.salt)
    /\ HandOut(row, row.password_hash.salt, "password")
    /\ Respond(c)
    /\ UNCHANGED <<user, historyVars>>

-----------------------------------------------------------------------------
(* A link is mailed, the only one from now on. *)
ForgotPassword(c) ==
    /\ UserUnlocked
    /\ Arrive(c, "forgotPassword", Idle)
    /\ links' = Append(links, 0)
    /\ user' = [user EXCEPT !.reset_link = Len(links) + 1]
    /\ UNCHANGED <<tokens, access, chosen, stolen>>

ResetRow(p) ==
    [WithPassword(p) EXCEPT !.reset_link = 0, !.failed_attempts = 0, !.lock = "open"]

(* postResetPassword: one UPDATE matches the link, consumes it and sets the
   password; no row matched is 400. *)
ResetPassword(c, l, p) ==
    /\ UserUnlocked
    /\ user.reset_link = l
    /\ Arrive(c, "resetPassword", [at |-> "revoking"])
    /\ user' = ResetRow(p)
    /\ links' = [links EXCEPT ![l] = @ + 1]
    /\ chosen' = p
    /\ UNCHANGED <<tokens, access, stolen>>

-----------------------------------------------------------------------------
(* setUserStatus, in a transaction; autoSuspend is the same transaction with
   "suspended", on an active account only. *)
SetUserStatus(c, s) ==
    /\ UserUnlocked
    /\ Arrive(c, "setUserStatus", [at |-> "staging", status |-> s])
    /\ UNCHANGED <<user, tokens, access, historyVars>>

StageRevocation(c) ==
    /\ At(c, "staging")
    /\ Proceed([call EXCEPT ![c].at = "committing", ![c].staged = Undead])
    /\ UNCHANGED <<user, tokens, access, historyVars>>

(* Without the bump. *)
WithStatusOnly(s) ==
    [user EXCEPT !.status = s, !.status_changed = @ + 1, !.legacy = FALSE]

WithStatus(s) ==
    [user EXCEPT !.status = s, !.status_changed = @ + 1, !.legacy = FALSE,
                 !.token_version = @ + 1]

CommitStatus(c) ==
    /\ At(c, "committing")
    /\ user' = WithStatus(call[c].status)
    /\ Kill(call[c].staged)
    /\ Respond(c)
    /\ UNCHANGED <<access, historyVars>>

-----------------------------------------------------------------------------
(* A statement throws, or the process dies, before the handler's next step:
   what is committed stays, a transaction is rolled back. *)
CutShort(c) ==
    /\ ~At(c, "idle")
    /\ faults < MaxFaults /\ faults' = faults + 1
    /\ call' = [call EXCEPT ![c] = Idle]
    /\ UNCHANGED <<user, tokens, access, historyVars, served>>

LockLapses ==
    /\ user.lock = "locked" /\ user' = [user EXCEPT !.lock = "lapsed"]
    /\ UNCHANGED <<tokens, call, access, historyVars, served, faults>>

LinkExpires ==
    /\ user.reset_link # 0 /\ user' = [user EXCEPT !.reset_link = 0]
    /\ UNCHANGED <<tokens, call, access, historyVars, served, faults>>

TokenExpires(t) ==
    /\ ~tokens[t].dead /\ Kill({t})
    /\ UNCHANGED <<user, call, access, historyVars, served, faults>>

Quiet ==
    /\ served = MaxServed /\ \A c \in Calls : At(c, "idle")
    /\ UNCHANGED vars

Step(c) ==
    \/ \E p \in Passwords : Login(c, p) \/ ChangePassword(c, p)
    \/ RecordFailedLogin(c) \/ UpgradePasswordHash(c)
    \/ OpenSession(c) \/ ClearFailures(c)
    \/ \E t \in 0..Len(tokens) : Refresh(c, t)
    \/ Consume(c) \/ Diagnose(c) \/ Migrate(c) \/ Rotate(c)
    \/ RevokeFamily(c) \/ BumpTokenVersion(c)
    \/ \E k \in {"logout", "logoutAll"} : SignOut(c, k)
    \/ RevokeAll(c) \/ Forget(c)
    \/ Compare(c) \/ Change(c) \/ Reopen(c)
    \/ ForgotPassword(c)
    \/ \E l \in DOMAIN links, p \in Passwords : ResetPassword(c, l, p)
    \/ \E s \in {"active", "suspended"} : SetUserStatus(c, s)
    \/ StageRevocation(c) \/ CommitStatus(c)
    \/ CutShort(c)

Next ==
    \/ \E c \in Calls : Step(c)
    \/ LockLapses \/ LinkExpires
    \/ \E t \in DOMAIN tokens : TokenExpires(t)
    \/ Quiet

Spec == Init /\ [][Next]_vars

-----------------------------------------------------------------------------
(* A rotation chain never forks: a session has at most one refresh token that
   can still be exchanged, however many requests present its tokens at once
   (consumeRefreshToken's single conditional UPDATE). *)
OneLiveTokenPerSession ==
    \A t, o \in DOMAIN tokens :
        Live(t) /\ Live(o) /\ tokens[t].family = tokens[o].family => t = o

(* The password of the account is the one last set by a change or a reset: a
   login that upgrades the hash it verified never brings an older one back
   (the password_hash = $3 of upgradePasswordHashIfNeeded). *)
ChosenPasswordStands == user.password_hash.of = chosen

(* A reset link sets a password at most once, whatever was going on in other
   requests (the UPDATE of postResetPassword that matches on the link). *)
LinkUsedOnce == \A l \in DOMAIN links : links[l] <= 1

(* An access token accepted today was minted since the last suspension or
   reinstatement, even by a handler that was under way when it happened
   (status and token_version move in one statement of setUserStatus). *)
ReinstatedStartsAfresh ==
    \A a \in access : Accepted(a) => a.term = user.status_changed

(* An access token accepted today that a login or a password change handed
   out was handed to someone who knew today's password, although the hash
   was read several statements before (login mints from the row it compared,
   changePassword from the row it wrote). *)
SignInKnowsPassword ==
    \A a \in access :
        Accepted(a) /\ a.by = "password" => a.salt = user.password_hash.salt

(* The account is locked exactly from the MaxAttempts-th failure on, however
   failures, successes and the end of the lock interleave ("concurrent
   failures can never lose an increment or diverge counter and lock"). *)
LockMatchesAttempts ==
    (user.failed_attempts >= MaxAttempts) <=> (user.lock # "open")

(* The types, and a lock that agrees with its counter. *)
StateOK == TypeOK /\ LockMatchesAttempts

(* The password is the last one chosen, and no link chose two. *)
PasswordStands == ChosenPasswordStands /\ LinkUsedOnce

(* Whatever an access token accepted today was minted from is still so. *)
AccessIsCurrent == ReinstatedStartsAfresh /\ SignInKnowsPassword

(* "Bumping token_version closes it at once": once no change or reset is under
   way, an access token accepted belongs to a session begun with the password
   of today (comment of changePassword). *)
PasswordChangeEndsAccess ==
    (\A c \in Calls : call[c].kind \notin {"changePassword", "resetPassword"}) =>
        \A a \in access : Accepted(a) => a.salt = user.password_hash.salt

(* "After a confirmed theft the correct outcome is that BOTH parties
   re-authenticate": the family of a token reported as reused holds no token
   that can still be exchanged (comment of migration_session_revocation). *)
TheftEndsTheSession ==
    \A t \in DOMAIN tokens : Live(t) => tokens[t].family \notin stolen
=============================================================================
