# A TLA+ verification project for the StyliAI backend

The StyliAI backend is an Express server over PostgreSQL (Supabase) that sells
image generations for credits, hands out credits for watched ads, keeps user
accounts, their sessions and their images, and lets administrators curate a
catalogue of styles. Its core logic is short; what makes it hard is that every
request is a chain of `await`s, that other requests run between any two of them,
in the same process or in another, and that a statement may fail, take effect
with its answer lost, or be cut off by the death of the process. The modules
here model those chains one `await` at a time.

Paths below are relative to the repository root (`src/...` is its own `src/`
directory, the migrations lie beside it).

## 1. The system

| component | state | operations | what makes it hard | what makes it correct |
|---|---|---|---|---|
| **Wallet** `services/wallet/walletService.js` | `users.balance`, `ads_progress`, `generated_images`; `wallet_transactions`; `daily_rewards`; the audit rows of adjustments | `addBalance`, `deductBalance`, `rewardAd`, each one transaction that locks the user's row | absolute balances computed from a row read earlier; the daily limit read and written apart; any statement may fail; a bounded pool of clients | the balance is the sum of the ledger, never negative, one ad reward a day, no admin credit without its audit row, every call returns |
| **Wallet endpoints** `controllers/walletController.js` | `processed_ad_transactions` | AdMob's callback: claim the id, reward, release on failure; `info`, `history` | AdMob repeats callbacks and delivers them at once; claim, reward and release are separate transactions | an ad is counted at most once; an acknowledged ad has been counted |
| **Generation pipeline** `generateController.js`, `stabilityController.js`, `services/generation/*`, `utils/generationBudget.js` | none of its own: the request, its charge, its provider call | charge, call the provider within a budget, store, refund on failure, answer | cancellation, refunds that fail, charges whose answer is lost, crashes after the charge | a user pays for what was delivered and for nothing else, but by a named accident |
| **Idempotency** `middleware/idempotency.js`, `generationIdempotencyModel.js` | `generation_idempotency`: one row for a user and key | claim (or take over an expired row), read, replay, refuse, complete, release | claim and read are two statements; the claim fails open; complete and release are not awaited | one holder of a key; a replay is the response of the same request; a key comes back |
| **Limiter** `concurrentGenerationLimiter.js` | a count for each user, in the process | count on entry, uncount on `finish` or `close` | both events may fire | the count is the open requests and never above the cap |
| **User sessions** `authController.js`, `sessionService.js`, `authMiddleware.js` | `users` (hash, `token_version`, status, lock, reset link), `refresh_tokens`, `token_blacklist` | login, refresh with rotation and reuse detection, logout, logoutAll, change, forgotten and reset password | nearly every step is an autocommitted statement of its own, after a row read before | a session does not fork; a password set stays; a password change, a suspension, a theft end what they should end |
| **Accounts** `authController.js`, `signupControls.js`, `config/db.js` | `users`, `profiles`, `user_settings`, notifications, the link mailed | register, verify, resend, Google sign-in | a transaction that keeps its client while a mail is sent; a resend that writes before it mails; two identities for one address | a link verifies once, an account is whole and can be verified, every request is answered |
| **Suspension** `adminController.setUserStatus`, `abuse/enforcement.js` | `users.status`, `token_version`, `refresh_tokens` | suspend, ban, reinstate; automatic suspension | logins and refreshes under way | nothing minted before is accepted after a reinstatement |
| **Abuse detection** `services/abuse/*`, `abuseFindingModel.js` | `abuse_findings`, the sweep gate of a process | sweep: detect, record, suspend, mark, score; review | separate steps; overlapping sweeps; admins in between | what was done to an account and what is on file agree; nobody who is not active is touched |
| **Play Integrity ledger** `verifyIntegrity.js`, `integrityVerdictModel.js`, `integrityLedgerSweeper.js` | `integrity_verdicts`, an in-flight map and a decode budget for each process | claim, decode once, complete, poll, sweep | stale claims taken over, several processes, retention | a token is decoded once, a verdict belongs to its request |
| **Admin sign-in** `adminController.login`, `adminMfaService.js`, `utils/enrollAdminMfa.js` | the admin's row (hash, lock, secret, last TOTP step), recovery codes | login, TOTP, recovery code, lockout, enrolment | a code presented twice at once; a re-enrolment under a login; a script that dies half way | a code signs in once for each enrolment; nobody gets a token without one |
| **Creations, covers and avatars** `imageStorageService.js`, `creationsController.js`, `creationAssetCleanup.js`, `avatarService.js`, the reconcilers | rows in Postgres, files in storage | upload then insert, delete then erase, reconcile | two stores without a common transaction; files shared by rows; a reference check apart from the removal | no row without its file; no file lost to another row |
| **Catalog** `styleController.js`, `styleModel.js`, `autoTagService.js`, `tagModel.js`, `utils/backfillTags.js`, `recommendationService.js` | `styles`, `tags`, `style_tags`; a cache of candidates | save, toggle, delete, reorder, tag by hand or by a model, backfill, recommend | transactions that wait for each other's rows; a backfill that decides on what it read; a cache | curated tags stand; reorderings are whole; what is cached is what is enabled, unless a load was overtaken |
| **Migrations** `utils/runMigration.js`, `utils/verifyRestore.js`, `utils/dr/*` | the schema and `schema_migrations` | apply, record, compare, verify | files are edited after they ran; a run may stop between a file and its row | drift does not go unnoticed |
| **Backups** `utils/backupDatabase.js`, `utils/backupStorage.js`, `backupRunModel.js` | a dump, a copy, manifests, `backup_runs` | dump, copy by pages, record, restore | the application goes on meanwhile; listings by offset; disks decay | a record is never better than the backup; a gallery comes back |
| **Storage figure** `storageUsageService.js` | a cached figure and the walk in flight | get, walk, share | callers join a walk that fails | one walk, and nobody waits for nothing |
| **Favourites, feedback, notifications**, **HTTP surface**, **monitoring**, **other scripts** | rows with single writers, logs | CRUD, reports | little | see section 7 |

How they interact. The two generation endpoints run behind the session
middleware, the limiter and the idempotency middleware, in this order, and call
the wallet twice: `deductBalance` before the provider and `addBalance` after a
failure. What they store are the files `Assets` looks after. The ad callback
calls `rewardAd`. Suspension, by an admin or by the abuse sweep, acts on the
sessions through `token_version` and `refresh_tokens`. All of them share one
pool of PostgreSQL clients (`config/db.js`). Nothing else is shared in memory
but the maps and flags of one process: the limiter's, the integrity
middleware's, the sweep gate, the candidates of recommendations, the storage
walk. The scripts (migrations, backups, reconcilers, backfill, enrolment) run
beside the server, on the same database and bucket.

## 2. The modules

| module | models | extends |
|---|---|---|
| `Ledger` | what the wallet promises: each call one atomic step | |
| `Wallet` | `walletService` statement by statement, over the pool and the row locks | `Ledger`; implements `LedgerSpec` |
| `Generation` | limiter, idempotency and both generation endpoints | `Ledger` (a caller of it) |
| `AdReward` | the AdMob callback | `Ledger` (a caller of it) |
| `Sessions` | the session endpoints, suspension and the middleware's check | |
| `OneTime` | what codes good for one use promise | |
| `AdminLogin` | admin sign-in with its second factor, and the enrolment script | implements `OneTime` |
| `Accounts` | registration, verification, resend and Google sign-in, over the pool | implements `OneTime` |
| `RiskScore` | the risk score: the table, as pure operators | |
| `Abuse` | the sweep, the suspensions and the administrators between its steps | `RiskScore` |
| `IntegrityPolicy` | what an integrity annotation means and what is done about it: the tables, as pure operators | |
| `Integrity` | the verdict ledger: `verifyIntegrity` in several processes, Google, the sweep | `IntegrityPolicy` |
| `Assets` | files and the rows that show them: creations, covers, avatars, erasure, reconcilers | |
| `Catalog` | styles, tags, automatic tagging, backfill, reordering, recommendations | |
| `Migrations` | the migration runner, its ledger, and the verifier | |
| `Backups` | dump, storage copy, their records, restoration | `Migrations` |
| `StorageUsage` | the shared, cached walk over the bucket | |
| `Operations` | the three above composed | `Backups`, `StorageUsage` |
| `LedgerProofs` | theorems about `Ledger`, `Wallet` and `AdReward` | both, `TLAPS` |
| `SignInProofs` | theorems about `AdminLogin` and `Accounts` | both, `TLAPS` |
| `ContentProofs` | theorems about `Assets` and `Catalog` | both, `TLAPS` |
| `GenerationProofs`, `SessionsProofs`, `IntegrityProofs`, `AbuseProofs`, `OperationsProofs` | theorems about the module and those it extends | the module, `TLAPS` |
| `MC...` | small instances for TLC; `Accounts` and `Assets` get theirs from their `.cfg` alone | |

Two components whose theorems stand in one module have no name in common but those of
`Ledger`: `AdReward`, `AdminLogin` and `Assets` therefore call their specification
`AdSpec`, `AdminSpec` and `AssetsSpec`, and so on, where the others say `Spec`.

Three abstract specifications are implemented by detailed ones:

* `LedgerSpec` by `Wallet`. `Generation` and `AdReward` call the wallet as single
  steps of `Ledger` (`Debit`, `Credit`, `CountAd`, `RewardPair`); `Wallet` shows,
  by proof as well as by model checking, that the real calls, with all their
  statements, locks and failures, are such steps. Both callers are proved to move the
  ledger by such steps only.
* `OneTime` by `AdminLogin`, in `Factor == INSTANCE OneTime WITH ...`. The codes
  are the time steps of every secret and the recovery codes; `good` is mapped to
  those that would let a login through (`Good`), `uses` to how many logins each
  let through.
* `OneTime` by `Accounts`, in `Link == INSTANCE OneTime WITH ...`. The codes are
  the links mailed; `good` is mapped to those whose hash stands in an unverified
  row.

### Ledger and Wallet

`Ledger` has the committed columns. `ledger[u][type]` is the total of a user's
rows of `wallet_transactions`, which is all the properties read of them.
`LedgerInit` leaves `ads_progress` open, for the column is not reset by anything
but a reward.

A call of `Wallet` goes through `queued` (waiting for a client), `begun`,
`locked` (its `SELECT ... FOR UPDATE` returned; for `rewardAd` the `daily_rewards`
read too), `updated`, `claimed`, `recorded` and `ready`, as far as its code
path takes it. `read` is what it SELECTed, `write` what its transaction has
written and nobody sees; `Commit` publishes `write` with the absolute balance
the code computed, never with an increment, so a lost update would show.
`Fault` is any statement throwing followed by ROLLBACK, `Refuse` the
insufficient balance. `Commit` may lose its answer only in the callers'
modules: for the wallet itself the call has then ended in either case.
`CURRENT_DATE` is fixed by BEGIN (`day`) while `today` moves on.

### Generation

A request enters through the limiter (`Enter`, `TooMany`), claims its key
(`Claim`: an INSERT, or the takeover of an expired row), reads the row that
refused it (`ClaimRefused`, then `RejectMismatch`, `Replay`,
`RejectInProgress` or `ClaimVanished`), is validated, charged, calls the
provider, stores, and answers. `Statement` is the choice of the wrapped `res.json` and of
the `finish` listener between complete, release and nothing; the statement is then
in `pending`, apart from the answer, for the code does not await it. `Close`
may come before or after the answer. The choice among providers, prompts,
moderation and content is success or failure. History, notification and
analytics writes are best-effort and read by no property. `Crash` empties what lives in
the process; other processes are further requests with no shared memory, and the
limiter's cap is per process, as in the code.

### AdReward

`Deliver` is a callback with a valid signature and known user. `Claim` is the
INSERT ... ON CONFLICT DO NOTHING, `Duplicate` the conflict answered 200,
`Reward` the call of `rewardAd`, `RewardFails` its failure before or after its
COMMIT took effect, `Release` the DELETE and the 500. `counted`, `doubtful` and
`losable` are history: how often an ad went through `rewardAd`, how often the
outcome of a commit was unknown, and which accident an ad may have been lost to.

### Sessions

One account, since no statement of these endpoints touches two. `Token` is a row
of `refresh_tokens`; a `dead` one is revoked or expired. Token 0 stands for the JWTs
issued before rotation existed, which `consumeLegacyRefreshToken` accepts once.
`access` is the set of access tokens ever handed out; `Accepted` is
`authMiddleware` (status and `token_version`). A hash carries a `salt`, so
that two hashes of one password differ as bcrypt's do. `salt`, `term` and `by` on an
access token record under which password, since which change of status, and
by which endpoint it was handed out; they are read by properties only.
`CutShort` ends a handler between two of its statements. `banned` is enforced
as `suspended` is, so one value stands for both.

### OneTime and AdminLogin

One administrator. A login goes through `idle`, then `failing` (to
`RecordFailedAttempt`), or, past the password, `resetting` when no second factor
is enrolled, `verifying` and `burning` for a time-based code, `selecting` and
`consuming` for a recovery code, and `resetting` again when it has succeeded
(`Succeed` restores the budget and mints the token). What it selected first
(`secret`, `key`, `last_timestep`) it keeps in `login[l]`: the code is checked
against that row, and the conditional UPDATE (`BurnTimestep`) against the row
there is by then, which looks at the last time step and not at the secret.
`Generate`, `Confirm`, `EnableMfa`, `IssueRecoveryCodes` are the
enrolment script, which `ScriptFails` may kill between any two; `ChangeKey` is a
restart with another encryption key. `Burns` books the code that was presented: in
`uses` while its secret is in force, in `overtaken` if another enrolment replaced
the secret between the login's SELECT and its UPDATE. `tokens` counts those handed
out to an enrolled account. All three are history. That the
HMAC of a code cannot be guessed, and that a secret decrypts under its own key
only, is assumed.

### Accounts

An address stands for the id of its account. A registration is `userCheck`,
`connect` (waiting for a client), `insert`, `mail`, `commit` or `rollback`, and
keeps its client from the third on; every other statement needs a client for its
own time (`NeedsClient`). `PoolTimeout` is `connectionTimeoutMillis`,
`LockTimeout` is `statement_timeout` behind another transaction's row.
`GoogleSignIn` goes by identity, then by address, then makes an account of two
autocommitted INSERTs and a welcome that is best effort. `NullableHash` is whether
`users.password_hash` may be NULL (section 4), `MailConfigured` whether there is a
`RESEND_API_KEY`: without one `sendEmail.js` sends nothing and reports no failure
(`Deliver`), so that `NobodyIsStranded` speaks of a configured service. A mailed link is a number; the row
holds the last one issued, the mailbox those that arrived.

### RiskScore and Abuse

`RiskScore` is `riskScore.js`, each factor an operator, `Math.round` and the
logarithm as integer arithmetic and a table. In `Abuse` a sweep runs the
detectors in order; each is `querying`, then for each row found `handling` (the
finding is recorded), `suspending` (the transaction of `autoSuspend`) and `marking`
(`setAction`), and at the end `scoring` and `upserting`. `log` holds the rows the
detectors' aggregates count, one for each event; what tells two events of one
subject and tick apart is a number. `MaybeSweep`
is the gate (one at a time and one per interval, for one process),
`RunSweepNow` the endpoint without a gate. `SetUserStatus` and `ReviewFinding` are
administrators between any two steps; `Crash` forgets the sweeps and the gate.

### IntegrityPolicy and Integrity

`IntegrityPolicy` is `integrityAssessment` and `integrityPolicy` with their
tables: `Assess`, `Effective` (after the certificate check) and `ResolveAction`.
A decoded payload is reduced to the fields those functions read.

In `Integrity` a request arrives in a process. The first one with a token in its
process resolves it, later ones are `joined` to its promise; `Settle` is the
promise settling, when all who share it are annotated at once, each
with its own comparison of the request hash (`Status` is `validateVerdict`).
`resolveVerdict` is `reading`, `claiming` (the INSERT), `recovering` (the UPDATE of
an overdue claim), `polling`, or `claimed`, `decoding`, `completing`. A row of
`integrity_verdicts` carries, in place of time stamps, the three comparisons the
statements make with them: `usable` (`decoded_at` within the verdict window),
`stale` (`claimed_at` before four decode timeouts) and `old` (before the ledger's
window); `ClaimOverdue`, `VerdictLapses`, `RowAges`, `TokenAges` and `WindowPasses`
let each window pass by itself, in the order of their lengths. A claim can go
stale while its owner works, since waiting for a client of the pool, which
`StartDecode` does not need but `Complete` does, has no bound of eight seconds.
`Decode` is Google: the first decode of a token is intact, later ones are
cleared. A statement that throws (`ReadFails`, `ClaimFails`, `ClaimNotMade`,
`CompleteFails`), having taken effect or not, becomes `resolve_error`; `Crash`
empties a process. `holder`, `orphaned`, `takeovers`, `rejected` and
`troubled` are history.

### Assets

An object is a folder and a name, a URL the object it addresses or `Foreign`.
`StoreOriginal`, `StoreThumbnail` and `AddCreation` are a generation's upload and
row; `SaveStyle` a cover; `StoreAvatar` and `SetAvatarUrl` an avatar.
`DeleteRow` removes a row and hands its URLs to a task, which asks of each whether
some row still shows it (`CheckTarget`) and then removes those that none does
(`RemoveTargets`). A reconciler lists a folder (`List`), asks of each object old
enough (`Classify`, `ClassifyOwner`) and removes at the end in batches
(`RemoveBatch`). `young` are the objects inside the age floor, which lapses by
`AgeAll`. `MigrateCreation` is a row written with a URL its writer was handed
before, which is how two rows come to show one file; one whose INSERT failed was
handed its URLs all the same (`RequestFails`). `late` and `strays` are
history: references written when their file was gone or cleared for removal, files
left behind by a fault, an edit or a deleted account.

### Catalog

Saves, reorderings and the writes of the backfill are transactions: a job goes
through `row`, `drop` (DELETE from `style_tags`), `add` (the INSERTs) and `commit`,
holds its `locks`, and waits for `Blockers`. `Deadlock` is PostgreSQL ending one of
a cycle, `StatementFails` any throw, both followed by `Rollback`. Automatic
tagging is `vocabulary`, `primary`, `fallback` (models that may be rate-limited,
overloaded, or fail) and `newTag`. `Backfill` selects its targets once and goes
through them. A reordering writes the `sortOrder` each item of its list carries
(`SortOrder`), and its list may name a style twice. A recommendation that finds no
cached candidates loads and then caches them (`GetCandidates`, `LoadCandidates`,
`KeepCandidates`, `LoadFails`); `Invalidate` is what a change of a style or tag does
to the cache before it is answered, and `AnswerFails` an error after the change and
before that. `curated`, `raced` and `order` are history, and so are `outrun`, the
readers whose load was overtaken by a change, and `stale`, which says that what is
cached was.

### Migrations, Backups, StorageUsage, Operations

A file of `Migrations` is known by its version; a database by the set of versions
of each file it ran (`ran`), the checksum in its ledger row (`ledger`) and the
constraints it lost. `Apply` and `Record` are the two queries for a file, `Stop` any
end in between, `EditFile`, `AddFile` and `ListFile` the engineers. `Usable` is
what the verifier asks. `Backups` numbers the images; an image is unborn,
uploaded, shown, dropped or gone. `ListPage` reads a page by its offset in the
bucket as it is at that time, so that a removal shifts the ones to come;
`slid` is history and says that it did. `TakeDump` is the snapshot `pg_dump` works
on; `WriteManifest`, `RecordCopy` and `RecordDump` follow. `Rot` is a file that
decays and `Restore` the runbook, to a scratch database that is then migrated
like production. `StorageUsage` has the walk page by page; when it ends or fails
everyone who joined is resumed in one turn of the event loop, and after a failure
each goes on by itself (`Resume`).

`Operations` composes the three. A plan chosen at the beginning says which
activities are mixed; each step is a step of one of them.

## 3. The runs

| run | instance | distinct states | shows |
|---|---|---|---|
| `wallet` | 1 user, 3 calls, 2 clients, 2 days, amount 1, column width 3 | 193 k | `LedgerSpec` as a property of the detailed service, isolation, `EveryCallReturns` |
| `generation` | 3 requests: retries of one, some of them at the other endpoint, or one without a key; 2 slots, one fault, one crash, one expiry | 1.66 M | charges, claims, replays, the limiter |
| `ads` | 2 transactions, 3 deliveries, 2 days, 2 faults, 1 crash | 130 k | double counting, losses, acknowledgement |
| `sessions` | 3 overlapping calls, 4 requests of 8 endpoints, 2 passwords, lockout at 2, 1 fault | 699 k | sessions, passwords, lockout, what access rests on |
| `integrity` | 3 requests with one token, its own request or another, 2 processes, 2 polls, 1 decode in a window, 1 accident, 2 windows passing | 943 k | decode once, verdicts and requests, claims and their owners, who is blocked |
| `abuse` | 1 account, 2 sweeps, 2 detectors, 2 ticks, 2 events, 1 decision, 1 fault | 851 k | findings and suspensions, the gate, who is left alone |
| `admin_login` | 2 logins, lockout at 2, 1 recovery code, window 1, 2 time steps, 2 enrolments, 1 fault | 2.66 M | `OneTime` as a property, codes and the tokens they pay for, one budget for both factors |
| `accounts` | 2 addresses, 1 identity, 2 requests, a pool of 1, 3 links, 1 fault | 76 k | `OneTime` as a property, whole accounts, nobody stranded, every request ends |
| `assets` | 1 generated image, 1 cover, 1 user, 2 rows, 2 requests, 1 script, 1 fault | 342 k | files and rows match, avatars stay |
| `catalog` | 2 styles, 2 tags of which one exists at first, 2 requests, 1 backfill, 1 reader, 4 kinds of save, 4 lists, 2 jobs begun, 1 retry of a model, no fallback model, 1 fault | 514 k | curated tags, reorderings, locks, what is cached |
| `catalog_curated` | the same with a fallback model, no fault | violation | `CuratedTagsStand` |
| `operations` | 3 files of 2 versions, 2 databases, 2 edits; 3 images in pages of 1, 1 upload; 3 admins, 2 pages; 1 accident, 1 fault, 2 outages; 4 plans | 3.45 M | drift, honest backups, shared walks |

Several properties are conjunctions of named parts, each of which is stated with
the code it is about in the module: `StateOK` is the types and one invariant of
the same state (`AdminStateOK` likewise; `LimiterIsExact`, `OneClaimant`, `LockMatchesAttempts`,
`DecodingHasAnOwner`, `GateHolds`, `BudgetHolds`, `AccountsAreWhole`,
`NobodyHoldsOnAfterwards`), `ClaimsAreHeld` is `HolderIsAlone /\ KeysComeBack`,
`AdsAreAccountedFor` is `RewardedOnce /\ LossesHaveACause`, `PasswordStands` is
`ChosenPasswordStands /\ LinkUsedOnce`, `AccessIsCurrent` is `ReinstatedStartsAfresh /\ SignInKnowsPassword`, `VerdictsAreEarned` is
`DecodedOnce /\ OKIsEarned`, `FilesMatchRows` is `LossHasACause /\ NothingIsLeftBehind`,
`CodesPayForTokens` is `OncePerEnrolment /\ TokensPaidFor`, `BackupsAreHonest` is `GalleriesComeBack /\ SuccessIsOnDisk`. The invariants of the
ledger (`LedgerInv`) are not listed again for `wallet`: they follow from
`LedgerSpec`, by the theorem of section 6.

Why the bounds are enough for the interesting cases to happen:

* *wallet.* Two clients and three calls: a call waits for a client, another for
  a row, a third runs. One user: calls of different users meet only in the pool,
  which calls of one user fill as well, and the proofs cover any number. The
  width 3 over an opening balance of 1 lets a credit overflow; a balance of 1
  and two charges of 1 let one be refused. Two days let a callback that began
  before midnight commit after it.
* *generation.* Three requests are a holder, the one its row refuses, and the
  one that claims after them: the chain all known trouble needs. One credit is
  a generation and the opening balance is two, so that the third charge fails.
* *ads.* Two transactions are a pair; the third delivery is a duplicate or a
  retry. Two faults are needed for a reward that fails and a release that fails.
* *sessions.* Three handlers at a time and four requests in all: one to sign in,
  one to rotate, one to disturb, one to use the result. `MaxAttempts` 2 puts the
  threshold within reach of two concurrent failures.
* *integrity.* Three requests in two processes: one that decodes, one that joins
  it or waits for it elsewhere, one that comes after. Two passing windows are a
  claim gone stale and a row or verdict gone as well. The processes have swept
  already, and sweep again once a row is old or a process restarts. Requests, and processes,
  are interchangeable (`SYMMETRY`).
* *abuse.* Two sweeps may overlap only when an administrator starts one, which is
  the case that can suspend twice. `generation_velocity` may suspend at one or two
  events, `concurrent_session_origins` loses its events to the suspension. Two
  ticks put an event in the window of one sweep and out of the next.
* *admin_login.* Two logins can hold one code; a third adds no step they do not
  have. Two enrolments are an old secret and a new one. `Window` 1 makes a step
  good before and after its time.
* *accounts.* A pool of one client is the tightest: a request that waited for a
  second one would wait for ever. Two requests are a registration and whatever
  meets it; three links are a first one, and two resends that overlap. With one
  client no request waits for another's row while it has a client of its own;
  `MCAccountsRows`, beside the runs, has a pool of two for that and finds
  `EveryRequestEnds` to hold as well.
* *assets.* Two rows can share a file, two requests can delete them at once, and
  the script overlaps either. One name is stored, removed and stored again.
* *catalog.* Two styles are the least a reordering has, and two reorderings in
  opposite orders deadlock. A backfill and a save are the two writers of a tag. Two
  tags are one to choose from and one to suggest. The lists are both orders and those
  that name a style twice. One reader can load before a change and cache after it; that
  several overwrite each other's candidates is left to the proof. The fallback model, which only
  repeats the first one's part, is left to `catalog_curated`.
* *operations.* One database restored from a dump that another run was still
  migrating; an edit before and one after. Three images in pages of one: a removal
  in front of the offset skips an object, and three full pages reach `MaxPages`.
  Three callers: the owner of a failed walk and two who waited. The four plans
  mix the activities that read each other's state and no more.
* Counters (`faults`, `crashes`, `expiries`, `served`, `today`, `edits`, `issued`
  and so on) are bounded in the guards and named in the `.cfg`; no state
  constraint is used. Only `operations` has `CHECK_DEADLOCK FALSE`: scripts end.
  Where requests stop coming (`Generation`, `AdReward`, `Sessions`, `Integrity`, `Accounts`,
  `Abuse`, `Assets`) a state without another step must allow the rest step (`Rest`, `Done`),
  which asks that nobody is under way.

Every property of a passing run has a mutated definition next to the one it
mutates (`LockRowForgotten`, `ClaimAnyRow`, `BurnTimestepBlindly`,
`RecordCopySuccess`, ...): a plausible slip in that piece of code, for which TLC
finds the property violated. Those operators are used by nothing else.

## 4. Where the code and its comments disagree

`catalog_curated` ends in a counterexample. `styleModel.js:269-273` says that a
style an admin has tagged by hand must never be touched by the backfill. The
backfill selects its targets once; a style tagged by hand between the selection
and its turn loses these tags and is marked automatic again. `CurationHolds`, in
the run `catalog`, is what holds: tags stand against a backfill that selects
afterwards.

More configurations, kept beside the runs, show other disagreements. Each item
names the configuration and the property that ends in a counterexample; where a
configuration has two, `tlc -continue` shows both:

1. `MCGenerationClaims`, `SameKeyNeverBothProceed`. `generationIdempotencyModel.js:9-11` says that two
   requests with one key can never both proceed. When the row that refused a
   claim is released before it is read (`idempotency.js:184`, `if (!existing)
   return next()`), the request goes on without a claim, beside another that
   takes the key. Both are charged.
2. `MCGenerationClaims`, `AbsentClientsAreCancelled`. `generateController.js:18-20` says that a client that
   goes away cancels the provider call. The listener is registered after the
   charge; a close before that is never seen.
3. `MCAdRewardSwallowed`. `walletController.js:182-183` says that a failed reward is
   not swallowed. A duplicate delivered meanwhile has already been answered 200, so
   there is no retry to come.
4. `MCSessionsClaims`, `PasswordChangeEndsAccess`. `authController.js:1095-1100` says that the bump of
   `token_version` closes access at once. A refresh between the bump and the
   revocation of the refresh tokens carries an old session over.
5. `MCSessionsClaims`, `TheftEndsTheSession`. `migration_session_revocation.sql:101-103` says that after a
   confirmed theft both parties sign in again. A rotation under way inserts its
   successor after the family was revoked.
6. `MCIntegrityOutage`. `integrityVerdictMap.js:74-76` says that a verdict which could
   not be obtained is never the caller's fault and must not be confused with
   the attributable states. A decode that was unavailable is stored as done
   without a verdict (`verifyIntegrity.js:263-268`); a retry of the same request reads
   that row as a replay, and with enforcement on it is refused. `BlockedHasACause`
   holds because it names this cause, `troubled`, beside what the sender did.
7. `MCAbuseReinstated`. `enforcement.js:83-86` says that a repeated sweep must not
   invalidate the sessions of a user an admin has just reinstated. The account is
   `active` again, the events are still in the window, and the next sweep
   suspends it again.
8. `MCAccountsMigrated`. The comment of the Google route promises an account for a
   first-time user; `migration.sql:8` has `password_hash NOT NULL` and
   no later migration lifts that, so on a database built from the migrations the
   INSERT of `googleSignIn` fails. With `NullableHash` it holds.
9. `MCOperationsClaims`, `CompleteIsComplete`. `backupStorage.js:58-61` says that a partial backup must
   not be presented as complete. The listing goes by offset: an object removed in
   front of the offset makes the next page skip one, and the manifest still says
   `complete`.
10. `MCOperationsClaims`, `OneWalk`. `storageUsageService.js` says that the figure is refreshed at most
   once concurrently. After a walk fails, everyone who had joined it starts
   one of his own (152-163).

11. `MCAdminReenrolled`, `PresentedOnce`. `adminMfaService.js:76-77` says that the time
   step is burnt so that the same code cannot be presented twice, and 119-122 that
   of two logins with one code only the first advances the step. The UPDATE (123-129)
   does not look at the secret, and `enableMfa` (257-262) sets `mfa_last_timestep`
   to NULL. Two logins that have verified one code, with a re-enrolment between their
   UPDATEs, both get in, the second with a code of a secret no longer in force.
   `OncePerEnrolment`, in the run `admin_login`, is what holds: an enrolment is the
   only thing that gives a code one login more.
12. `MCCatalogOvertaken`, `ChangesReflected`. `recommendationService.js:46-50` says that a
   curation change is reflected well before the 60 seconds of the cache. A load that
   was under way when the change invalidated the cache is cached afterwards (41-42)
   and stays for the 60 seconds. What is served is read again by id and filtered, so a
   disabled style is not shown; a newly enabled one is missed. `CandidatesCurrent`,
   in the run `catalog`, is what holds but for such loads and lost invalidations.

Two configurations beside the runs pass: `MCGenerationLive` (`EverythingSettles`, that
every request is answered and every key comes back, under the fairness of section 5)
and `MCAccountsRows` (section 3).

Met while translating, without a configuration:

* `validateVerdict` annotates a first decode whose app was not evaluated as
  `REPLAYED` (`verifyIntegrity.js:194`), so `UNEVALUATED`, which the policy
  table leaves at `log`, is reached only when the payload carries our package name.
* *Abuse.* A finding is identified by its window, which begins at the time of the
  sweep, so that every sweep records the same behaviour anew. `autoSuspend` is
  said never to throw; `pool.connect()` is outside its `try`.
* *Admin sign-in.* The code confirmed at enrolment is not burnt and signs in once
  more. The script writes the secret and then the recovery codes
  (`enrollAdminMfa.js:88-89`); killed in between it leaves an enrolled account
  without new codes. `bumpAdminTokenVersion` (`sessionService.js:76`) is called by
  nothing. `createAdmin.js` stores the address as typed; the login lower-cases it.
* *Accounts.* The sign-up controls look at `req.body.email`, which a Google sign-in
  does not send. Linking an identity writes over another one. An account made by
  Google is two autocommitted INSERTs. A resend replaces the link before it mails
  the new one. `sendEmail` succeeds without sending when there is no `RESEND_API_KEY`.
* *Assets.* `creationAssetCleanup.js:35-38` says that an object is deleted only when
  nothing in the database still points at it. The check and the removal are two
  steps: a row inserted between them loses its file. `FilesMatchRows` names this
  cause (`late`). A creation whose INSERT failed leaves its files, and its URLs with
  the client.
* *Catalog.* Two assignments of tags at once can leave the union of both. A change that
  took effect, but whose row cannot be read back for the answer, does not
  invalidate the cache, and reorderings never do. The backfill's `--dry-run`
  creates the tags it suggests. The line of `autoTagService` that is marked as
  unreachable (218) is reached when a model is overloaded after its last retry. `createTag` may
  hand back a tag that is disabled.
* *Operations.* A listing of exactly `maxPages` full pages is reported as
  truncated. A listing that fails leaves neither manifest nor row, a `pg_dump`
  that fails a file without a manifest and no `failed` row. The drift of the
  ledger migration itself is never printed, other drift only by a run that
  finishes, and it is forgotten once the file is reverted. The verifier looks at
  the critical constraints only, and guarded migrations do not make again one that
  was declared inside a table.

## 5. Fairness

* `Wallet`: weak fairness of each call's next step. Node runs the continuation
  of an answered statement and Postgres grants a row lock once it is free. No
  timeout is needed for `EveryCallReturns`: faults may happen at any statement
  and never have to. The pool and the locks are queues in the code; weak
  fairness is enough here because the calls are finitely many.
* `Generation`: weak fairness of a request's steps and of its statement on the way.
  The generation budget ends every provider call, whether or not it answers.
  Nothing is assumed of clients (`Close`), faults, expiry or crashes.
* `AdReward`: weak fairness of the handler, and strong fairness of AdMob's
  retries. The latter is an assumption about a service outside the repository;
  `EveryAdAcknowledged` says what the code adds to it: no id is left in a state
  in which every retry fails.
* `Accounts`: `FairSpec`, weak fairness of each request's next step. PostgreSQL and the
  mail service answer or are given up on: statements by the timeouts of
  `config/db.js`, a mail, for which the code sets none, by that of Node's `fetch`.
  Requests themselves need not come.
* The other modules state none and have no liveness property. The behaviours of
  `Integrity` are finite (requests, accidents and passing windows are bounded and
  every other step moves a request or a sweep forward), so that TLC's deadlock
  check says what liveness would: a state without any other step must allow
  `Done`, which asks that every request is annotated or died with its process.

## 6. What is proved

The theorems hold for all values of the constants that the named assumptions
allow. Beside the plain ones (positive amounts, at least one client, opening
balances within the column, bounds that are numbers) some say that a set is
finite, of what a proof counts: the logins of `AdminLogin`, the requests of
`Accounts` and `Integrity`, the users of `Abuse`, the styles of `Catalog`, the names of
`Assets`, the objects of `Backups`, the callers of `StorageUsage`. And some keep
things apart that the code cannot confuse: a request and a script
(`JobsAssumption`, `NamesAssumption`), the UUID of a user and that of a file, a URL and
what is none. Nothing else is bounded: sets of users, keys, transactions and sweeps
may be infinite, and the bounds on faults and clocks are any numbers.

The proofs have one form. An inductive invariant, of named parts, holds at first
and is kept by every step; for each action, or for each thing several actions do, a
lemma says what it makes of the parts it can disturb; and the property follows.
Where an invariant was in doubt, TLC checked it on a run of section 3 before it was
proved.

**The ledger and the wallet** (`LedgerProofs`)

* `LedgerCorrect`: `LedgerSpec => [](LedgerTypeOK /\ LedgerInv)`. The invariant
  is inductive with one addition, that the days rewarded are a finite set, which
  the proof needs to count them (`OneRewardPerDay` compares a sum with a
  cardinality). One step for each of `Credit`, `Debit`, `CountAd`, `RewardPair`.
* `WalletTypeCorrect`: `Spec => []TypeOK`.
* `WalletIsolated`: `Spec => []TransactionsAreIsolated`. Whoever is past the lock
  holds the row's lock, and then what it read is what is committed, and what it
  means to write follows from that by its progress so far. Types and isolation
  together are inductive (`IInv == TypeOK /\ TransactionsAreIsolated`): without
  the second half no step could know that the balance about to be published is
  the committed one plus the amount, and without the first none of the
  functional updates could be evaluated.
* `WalletImplementsLedger`: `Spec => LedgerSpec`. `Commit` is the only action that
  changes a ledger variable; by isolation its absolute values are the increments of
  `Credit`, `Debit`, `CountAd` or `RewardPair`, one lemma for each, and all
  other actions stutter.
* `WalletKeepsLedgerInv`: `Spec => []LedgerInv`, from the last and the first.

**Generation** (`GenerationProofs`)

* `LimiterCounts` (`StateOK`), `ChargedForWhatCame` (`ChargesMatchOutcomes`),
  `ClaimsHeld` (`ClaimsAreHeld`) and `DeliveredOnce` (`OneDeliveryPerKey`), from one
  invariant. Its first part, `AllSound`, says what a request has and has not yet at
  each point of its path. Then three counts are kept: who is in flight, who has been
  charged, who has delivered. What makes the last inductive is that a key's row and
  its holder are tied: while a request holds a key and has not delivered, there
  is room for one delivery more, and a row that is completed has the response of a
  delivered request (`ResponsesStored`). So what a row lets the next request do
  depends on what its holder has done already.
* `GenerationsMoveTheLedger`: `Spec => LedgerSpec`. What a generation, its refund, a
  lost answer or a crash does to credits is a step of the ledger or nothing, so that
  what `LedgerCorrect` says of `LedgerSpec` holds of generations too.

**Rewarded ads** (`LedgerProofs`)

* `OneClaimantEach` (`StateOK`) and `AdsAccountedFor` (`AdsAreAccountedFor`). A
  claimed id stands for a delivery that has the reward to give, a reward given, or a
  loss with a cause; `Earned` compares what a user's counters say with the set of
  distinct ads that can have paid for it.
* `AdsMoveTheLedger`: `AdSpec => LedgerSpec`, and with `LedgerCorrect`
  `AdsKeepLedgerInv`: `AdSpec => []LedgerInv`. Every step of every callback is a
  step of the ledger or leaves it alone.

**Sessions** (`SessionsProofs`)

* `LockCounts` (`StateOK`), `ChainsNeverFork` (`OneLiveTokenPerSession`),
  `PasswordHolds` (`PasswordStands`) and `AcceptedIsCurrent` (`AccessIsCurrent`).
  The handlers read a row and act on it some statements later, so the invariant
  says of every such copy that it is the present row or of an older `token_version`
  (`RowsAreDated`), of every access token the same (`AccessIsDated`), and that the
  family a rotation is about to continue has no other live token and no other
  rotation (`RotationsAreAlone`): without it, nothing would forbid a second
  successor. `WithinBudget` counts what the requests under way may add to a bounded
  counter.

**Integrity** (`IntegrityProofs`)

* `InFlightCorrect`: `Spec => []InFlightIsExact`. The property is
  inductive together with the types of the three variables it reads. Four lemmas, by
  what a step does to them: a promise settles, a resolver goes on, a request
  arrives, a process dies; all other steps leave them alone.
* `LedgerOwned` (`StateOK`), `VerdictsEarned` (`VerdictsAreEarned`) and
  `BlockedForCause` (`BlockedHasACause`). The invariant counts decodes: those made
  and those a row or a request may still make are one more than the takeovers at
  most. It says what every row and every request has to show for its status
  (`RowsAreBacked`, `RequestsAreBacked`: what Google said, of which token, to
  which hash, or which trouble stood in for it), and then what an annotation rests
  on, after row and promise are gone (`AnnotationsAreExplained`).
* `ActionWithinCeilings`, `OnlyAttributableBlocked`, `NothingUnlessEnforced` of
  `IntegrityPolicy`: what `integrityPolicy.js` says of its tables, for every
  annotation, payload, endpoint and switch. `OnlyAttributableBlocked` relates two
  tables in different files.

**Abuse** (`AbuseProofs`)

* `GateIsNeitherStuckNorShared` (`StateOK`), `SuspensionsRestOnFindings`
  (`SuspensionsAreOnFile`) and, an action property, `StatusRespected`
  (`SweepsRespectStatus`). `SuspensionsAreOnFile` is inductive with two facts about
  the sweeps: what one is suspending an account for is on file (`SuspendsOnFile`; no
  step of another sweep or of a review takes a finding away), and one that marks
  has done what it marks (`MarksItsDeeds`). The gate needs that a sweep which is
  over has let go of it (`IdleIsUngated`).
* `ScoreIsItsFactors` of `RiskScore`: for every account the score is the sum of its
  factors and at most 90, so that the clamp of `scoreAccount` never cuts
  anything off. Each factor has its weight, and two of them exclude each other:
  the lemmas the theorem rests on. The types of `Abuse` rest on it in turn.

**Admin sign-in** (`SignInProofs`)

* `TypeCorrect`, `FactorsAreOneTime` (`OneTimeUse`, the refinement of `OneTime` by the
  codes of the secret in force) and `NoMoreThanEnrolments` (`OncePerEnrolment`), which
  is about every code that was presented, of whatever secret. The inductive
  invariant adds to the types that the secret in force was generated and that a
  login holds a code of the form it is checked as (`Consistent`), that recovery
  codes at hand are of a batch that was issued (`Issued`), and that a code which
  let a login through is of an enrolment that took place and is good no more
  (`Spent`). Without `Issued` a later enrolment could issue a used code again.
  `Accountable` is the accounting of item 11 of section 4: a code was accepted once
  for each enrolment with its secret or after it, and once less while its time
  step is not burnt, so that an enrolment, which gives the step back, adds
  the one it allows.
* `OneBudget` (`AdminStateOK`): whoever gets past a lock was under way when it fell, and
  adds one failure at most; the invariant counts failures and busy logins
  together. `EveryTokenPaidFor` (`CodesPayForTokens`): tokens handed out and tokens
  about to be are no more than the acceptances of codes that were presented, each
  counted as often as `OncePerEnrolment` allows.

**Accounts** (`SignInProofs`)

* `AccountsAlwaysWhole` (`StateOK`), `NobodyIsEverStranded` (`NobodyIsStranded`) and
  `MailedLinksAreOneTime` (`LinksAreOneTime`, the refinement of `OneTime`). Neither
  property is inductive by itself. `JobsFit` says what a request relies on
  between two of its statements: a row it has inserted and not committed is of an
  address and with a link that no other request and no account has, mailed by the
  time of the COMMIT; a link about to be resent is of one account; an account found
  is there. `LinksFit` says that links of accounts are unused and each of one
  account, `EnoughLinks` that the numbers of the links still to be issued have not
  run out. Commits, resends, Google's UPDATE and a verification each disturb
  another part of it, and each has its lemma (`Commits`, `Relinks`, `Touches`).
  A link that leaves `good` for `uses` does so in `VerifyEmail` only.
* `GoogleUsersGetInWhereNull` (`GoogleUsersGetIn`) has a hypothesis, that
  `users.password_hash` may be null: with the migrated schema the property is false,
  which is item 8 of section 4.

**Files** (`ContentProofs`)

* `AssetsTyped` (`AssetsTypeOK`), `FilesAlwaysMatchRows` (`FilesMatchRows`) and
  `AvatarsAlwaysStay` (`AvatarsStay`). The inductive invariant has five parts
  beside the types. `TasksFit`: what a request or script may have on its list at each
  step; a script has avatars of deleted accounts only. `RowsFit`: what a row shows
  was handed out, and is gone or cleared for removal only with a record of why.
  `FilesFresh`: a file between its upload and its row is young, has a name no other
  request has, and is on no list of what is to be removed; without the age floor
  of the scripts this is the part that fails. `AvatarsFit`: an account that has an
  avatar of ours has its file. `ImagesHeld`: an image nobody refers to is on the
  list of some request, or was left behind. Two frame lemmas (`Frame`,
  `RequestFrame`) say what a step of one request leaves of the others' parts, and
  every action is then one lemma about its own.

**Catalog** (`ContentProofs`)

* `CatalogIsSound` (`StateOK`), `CurationAlwaysHolds` (`CurationHolds`),
  `ReordersAlwaysWhole` (`ReordersAreWhole`) and `CandidatesAlwaysCurrent`
  (`CandidatesCurrent`). The invariant says of every job which steps its kind takes
  and that it holds locks between its first write and its end only, on its own style
  or on those of its list (`JobsFit`); that what a backfill has still to do was not
  curated since, unless that is on record (`BackfillsApart`); that the positions
  reorderings gave are of styles there are (`OrderFits`); that what is cached, and what
  a reader that was not overtaken is about to cache, is what is enabled unless a
  request is still to invalidate it (`CacheFits`). That a write waits for
  whoever holds the row is what keeps two reorderings from mixing. A
  next position exists because a finite set of positions has a last one, which
  is the one place where well-founded induction is needed.

**Operations** (`OperationsProofs`)

* `DriftIsNoticed`: `Spec => []NoSilentDrift`, for any number of
  databases, runners, files and versions. The inductive invariant (`DriftInv`) says
  of every database that a ledger row is of a version it ran (`RowsAreTrue`), that
  each version it ran is answered for by its row, a run that has or will report it,
  or a run that was cut short (`VersionsAnswered`), and says the same of the
  snapshot in the dump (`DumpAnswers`): a database restored from it starts from
  there.
* `BackupsKeepTheirWord` (`BackupsAreHonest`): while a copy lists, what stood in the
  bucket from its beginning and ranks before the offset has been found
  (`FoundSoFar`), which a removal in front of the offset would break if it did
  not count as a slide; the proof counts the ranks of objects before and after.
* `WalksShared` (`WalksAreShared`): the walk in flight is the only one, unless a
  failure has just started several, and whoever waits is counted with its walk.
* `ScriptsAreWellTyped` (`StateOK`).

Model-checked only:

* liveness (`EveryCallReturns`, `EveryAdAcknowledged`, `EveryRequestEnds`,
  `EverythingSettles`), which is beyond the prover.

Every invariant and every action property of a passing run is a theorem.

## 7. What is not modelled, and why

* `purgeExpired` of the idempotency model: comments speak of a sweep, but no code
  in the repository calls it. `purgeDeadRefreshTokens` is run by operators only
  and removes rows no statement would match.
* The ledger type `purchase`: the schema allows it and no code writes it.
* The client endpoint for ad rewards, which is off unless configured; it is one
  call of `rewardAd`.
* A ROLLBACK that fails: the client would go back into the pool with its
  transaction open. It needs the pool of `pg` itself.
* Signatures of JWTs and of AdMob's callbacks: taken as valid.
* Requests without an integrity token, or with one of implausible length, which
  never reach the verdict ledger; overrides of ceilings from the environment;
  Google's access token, whose request has no timeout and is assumed to end.
* The fail-open audit row of the admin middleware, written after the response:
  nothing reads it back.
* Names and bios of a profile, single UPDATEs with one writer; the bytes of an
  image (metadata, decoding, thumbnails).
* Categories and credit packs, whose reorderings repeat the one of styles; the fields
  of a style, its image and its prompt templates, which are data; the scores of
  recommendations and the reading of the chosen styles by id, which change no state.
* Favourites, feedback, notifications: single statements on rows with one writer.
* HTTP surface: rate limits, upload parsing, request ids, logging and validation
  keep no state that the properties read. Rate limits are counters of a library.
* Incident and security event rows and the reports about them: appended and listed.
* Of the scripts, `createAdmin` (one INSERT), `backfillThumbnails` (row by row, run
  once) and `inspectSchema` (reads).

## 8. Plan

In this order:

1. `Sessions` and `Abuse` over one row of `users`, in place of the single step each has
   for the other's suspension.
2. Two processes in `Generation` and `Abuse`, with a limiter and a gate each.
3. Categories and credit packs as further instances of the reordering.
