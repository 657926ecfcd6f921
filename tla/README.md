# Nonym: a TLA+ development

This directory holds TLA+ models of the Nonym gateway (Go, `../src`), the TLC
configurations that check them on small instances, and theorems about them that
TLAPS has checked. Paths below are relative to `../src`.

Nonym is an HTTP gateway between clients and LLM providers. It finds personal
data in a request, replaces it by tokens, forwards the request, and puts the
originals back into the reply. Around that stand a provider router, an audit
database with a dashboard, API keys, and accounts.

## 1. Inventory

For each component: its state, its operations, its neighbours, what is hard in
it, and what makes it correct.

### Redaction engine (`pkg/ner/engine.go`, `grpc_client.go`)

* *State.* One `NEREngine` for the process: `tokenMap` (token to original),
  `reverseTokenMap` (written, never read), `strictMode`, `useML`, the compiled
  patterns (a Go map), an `RWMutex`.
* *Operations.* `ProcessContent` (ML pass, then every pattern, under the write
  lock), `DeAnonymizeContent` (read lock), `ShouldBlock` (no lock),
  `SetStrictMode`, `EnableML`; `GetStatus` and `ExtractTokenMap` read.
* *Neighbours.* Called by `HandleProxy`; calls the GLiNER server over gRPC.
* *Hard.* All requests write one map that is never emptied. Patterns run in the
  random order of a Go map, so overlapping matches nest differently from run to
  run. The lock is held across an ML call with a 10 s timeout. Spans come in
  characters and are used as byte offsets. A token keeps 32 bits of a hash of
  random bytes, and nobody looks whether the map has it already.
* *Correct if* no word that a pattern finds is forwarded, a client gets only its
  own words back, redacting and restoring are inverse, strict mode holds back what
  it promises, and every request ends. The second and third are true of the code
  only where no token repeats and none is swallowed.

### Proxy interceptor (`pkg/interceptor/proxy.go`)

* *State.* Three package-level counters without a lock; per request the
  provider, the details, the outcome.
* *Operations.* `HandleProxy`: route, process, block or forward, count, write an
  audit row, write a security event, restore, answer. `HandleStats` and
  `HandleStatus` read.
* *Neighbours.* Engine, router, audit log, the provider over HTTP.
* *Hard.* Increments race. Each INSERT may fail, and the handler is not told.
  The reply may break off after the request was sent. The process may stop at
  any point.
* *Correct if* the audit rows say what happened, a reply does not overtake its
  row, and the counters stay within what happened.

### Provider router (`pkg/router/providers.go`)

* *State.* Providers (`Enabled`, `Healthy`) and the ordered rule list, behind an
  `RWMutex`.
* *Operations.* `Initialize`, `determineProvider`, `UpdateProviderStatus`,
  `HealthCheck`, `AddRoutingRule`. The last three are package API: the gateway
  binary never calls them and nothing schedules the health check.
* *Hard.* The order of the list decides, `Priority` does not; `Enabled` and
  `Healthy` change separately; only headers feed the content hint.
* *Correct if* the first matching available rule decides and a request changes
  its provider only for a reason that concerns it.

### Gateway process (`cmd/gateway/main.go`)

* *State.* One HTTP server, an error channel, a cancel function nobody reads.
* *Operations.* Start; `authMiddleware` and `dashboardAuthMiddleware` (stateless
  checks, the latter with fixed test keys); on a signal, wait five seconds and
  return; on a server error, `log.Fatalf`.
* *Hard.* The server is not told to stop, and handlers are cut off.

### Audit log and dashboard (`pkg/audit`)

* *State.* Tables `transactions`, `settings`, `events`, `webhooks`; the settings in
  force, `currentRPS` and `lastUpdateTime` in package variables.
* *Operations.* `LogTransaction`, `LogEvent` and `storeEvent`, `GetStatistics`,
  `GetTransactions`, `GetEvents`, and the widgets of `dashboard_handlers.go`, each
  one to three COUNTs. Event status, webhooks and settings have handlers that
  `main.go` routes nowhere; `triggerWebhooks` and `broadcastTransaction` print.
* *Neighbours.* The proxy writes, from as many goroutines as it has requests.
* *Hard.* A report is several statements without a transaction while rows come in
  and leave its window. A page of events is a COUNT and a SELECT by offset, newest
  first, with nothing to order events of one timestamp. Errors of a COUNT read as
  0. One request rate is kept for all tenants.
* *Correct if* what one answer shows adds up but for what happened in between,
  following `has_more` shows everything, and nobody is shown others' numbers.

### API keys (`pkg/auth/apikey_handlers.go`)

* *State.* Table `api_keys` (status, owner, expiry, hash, last use).
* *Operations.* Create, list, revoke, delete, `APIKeyMiddleware` with its
  fallback to test keys when the SELECT fails.
* *Hard.* No transaction anywhere: every check and its UPDATE, and the SELECT of
  the active keys and the verdict on one, are separate statements. The clock is
  read in between. UPDATEs go by id alone.
* *Correct if* a key that is dead when a request comes in does not admit it, only
  its tenants withdraw it, and a deleted key stays deleted.

### Accounts wired to the gateway (`pkg/auth/auth.go`, `handlers.go`)

* *State.* `users`, `organizations`; a signing secret; tokens carry the rest.
* *Operations.* `RegisterUser` (one transaction with a deferred commit),
  `LoginUser`, `AuthMiddleware` with `ValidateToken`, `HandleGetMe`, `LogoutUser`
  (changes nothing).
* *Neighbours.* The admin CLI deletes rows under it; a restart takes a new secret
  unless one is configured.
* *Hard.* `err` is shadowed in the branch that creates an organization, so the
  deferred function looks at another variable than the one returned. The result
  of COMMIT comes after the results were taken. Slug and email are checked first
  and inserted later. Tokens name rows that may be gone.
* *Correct if* an organization has its founder, an answer tells the truth, a
  token opens the account it was issued to, and every registration ends.

### Auth service and repository (`pkg/auth/service`, `pkg/auth/repository`)

* *State.* Users, organizations, password resets; a pool of connections. Sessions
  and refresh tokens have tables, but nothing inserts into them.
* *Operations.* `Register`, `Login` (rehashes in a goroutine), `RefreshToken`,
  `ValidateToken`, `Logout`, `ChangePassword`, `RequestPasswordReset`,
  `ConfirmPasswordReset`, users and organizations for administrators, lists,
  `HealthCheck`; `WithTx` under two of them.
* *Neighbours.* None yet: the gateway binary uses `auth.go`. What it should do is
  said by its comments and by AUTH_FIXES.md; docs/NEW_AUTH_SYSTEM.md describes files
  that are now in `_backup`.
* *Hard.* A rehash may overwrite a changed password. A function of `WithTx` runs
  its statements on the pool, so nothing is rolled back and a second connection
  is needed while the first is held. A failed COMMIT is reported as a success.
  `CreateOrganization` is committed on its own. `UpdateUser` cannot read back the
  row it has deactivated.
* *Correct if* a password that was replaced no longer works, a spent reset token
  is refused, an inactive user stays out, tokens have accounts behind them, a
  registration is atomic, and every call ends. The last two are not true of it.

### Migrations (`pkg/auth/migrations`)

* *State.* `schema_migrations` and the schema; on Postgres also the sequence of
  the ids of organizations, which a rollback does not set back.
* *Operations.* `Up`, `Down`, `Status`, `runMigration`. `auth.Initialize` runs `Up`
  at every start; nothing calls the other two.
* *Neighbours.* The audit package opens the database, and on SQLite creates
  tables in it first; the init script of docker-compose creates more; `auth.go`
  serves on whatever schema `Up` leaves, for its error is only logged.
* *Hard.* Two instances, a crash or a failure between statements, a list of
  versions that is read once, and the default data of migration 3, which assume
  that an organization gets the id 1.
* *Correct if* the records tell what is in the schema, versions are applied in
  order, `Up` that returns nil leaves the whole schema, and overlapping starts
  end with it.

### Admin CLI (`cmd/admin`)

* *Operations.* `deleteUser`, `deleteOrganization` (modelled with the accounts),
  `resetPassword`, listings; `createUser` and `createOrganization` insert uuids into
  integer columns and fail.

### Others

The organization and security handlers change no state: `HandleRemoveTeamMember`
reads the parameter `userId` of a route that names it `id` and answers 400,
`HandleTerminateSession` answers success and does nothing. `auth/security` (bcrypt,
JWT), `auth/config`, `errors`, `validation`; `ner_pb` (generated), `python-ner` (a
statistical model); `sql_repository.go` (a second, incomplete repository) and
`_backup` (not built).

## 2. Plan

| Order | Module | Models | Abstract specification | State |
|---|---|---|---|---|
| 1 | `PiiText`, `Anonymizer` | redaction engine under concurrent requests | `Redaction` | done, proved |
| 2 | `ApiKeys` | key table and its handlers | `Access` | done, proved |
| 3 | `Router` | provider selection | | done, proved |
| 4 | `Gateway` (extends `Router`) | `HandleProxy`, counters, rows, stop | | done, proved |
| 5 | `AuthService` | the layered service over repository and pool | | done, proved |
| 6 | `Accounts` | registration, login and tokens of the gateway | | done, proved |
| 7 | `Migrator` | `Up`/`Down`/`Status`, failures, crash, instances | | done, proved |
| 8 | `Audit` | rows, reports, widgets, pages | | done, proved |

Abstract specifications of the last four were considered and dropped: what they
promise (which password opens an account, which rows stand behind an answer) is
one formula over the tables, and is stated and proved as that. What remains to be
done is in section 7.

## 3. Modules and the code

`PiiText`: bodies. A body is a sequence of units; a unit is a word of the client
or a token, perhaps behind a password label. What distinguishes words is the set
of patterns that match them. Redaction and restoration are done unit by unit,
which is what replacing byte ranges does when each match lies within a unit. The
password label is kept separate because the password pattern is the one that
matches across a token another pattern has left. It wants six characters after the
label, which `Short` words do not have and every token does: "pass: 1800" is no
password, but once CREDIT_CARD has made a token of 1800 the label and the token are.
So `Clean` speaks of words only.

`Anonymizer`: `NEREngine` with several requests. `LockForProcess` ..
`ProcessReturn` is `processContent` under the write lock, one action per loop
iteration; `Block`/`Pass` is `ShouldBlock` (no lock), `Forward` the hand-over some time
later;
`RLockForRestore` .. `RestoreReturn` is `deAnonymizeContent`. The patterns are
drawn from the set still to do, as a Go map is ranged over. A provider may
answer with any units it has received, tokens of other requests included.
`GenerateToken` is any token of the kind, one that is in the map included, as the
code does not look. Left out: empty
bodies (returned untouched), `reverseTokenMap` (never read), the wording of
tokens. `processContent` has no error that is reached, so there is no such step.
`useML` starts TRUE whenever the gRPC client object could be made; the comment
at engine.go:56 says it needs `NER_GRPC_HOST`, but the client has a default host.

`Redaction`: what the engine promises: what is forwarded is clean, what is
delivered is made of the client's own words and of those of clients that drew a
token it drew (`drawn`). `Anonymizer` refines it under the mapping of `drawn` to the
tokens in the details and of `answer` to what was delivered.

`ApiKeys`: every SQL statement is a step; a handler's check and its UPDATE are
two. `late` and `vouched` are history variables of a request. Left out:
`last_used` and permissions, which decide nothing. A validation whose row got
lost while reading is refused (`NotFound`): `rows.Err` is not looked at.

`Access`: what keys promise, without table and clock: a key lives once; a request
is let in only if its key was alive at some moment after the request came in.
`ApiKeys` refines it.

`Router`: a request is the set of path patterns it contains, whether `url.Parse`
takes its path (`Routable`), and the set of words in its headers.
`DetermineProvider` takes the least index of a rule that matches and whose
provider is available. Each operation is one step, as each runs under the mutex.

`Gateway`: `HandleProxy` as stages of `pc`, one stage per access to shared state;
`counter++` is a read step and a write step because nothing protects it (a data
race: on the platforms the binary is built for an int64 is loaded and stored
whole). `rows` and `events` are what the audit database holds, `lostRows` and
`lostEvents` remember whose INSERT failed. A provider answers with any of
`ProviderCodes`: a row "success" with 403 or 502 is one, and `ReplyCode` passes
the code on. The provider column of rows that are not a success holds the reason
of the block or the error, so it is `Nobody` here. What `ProcessContent` does to a
body is in `Anonymizer`; here a body has no details, details, or details that
strict mode blocks. `Signal`, `Exit` and `ServerError` stop the process, after
which no handler moves; a restart begins at `Init` with an empty set of requests
and is not modelled. Router operations and `SetStrictMode` are package API without
a caller in the binary: they are in the model because tests and embedding code
call them, and dropping them would only make the properties weaker.

`Accounts`: PostgreSQL with the rows of the init script; one step per statement.
Transactions run at READ COMMITTED: rows of an open one (`newOrg`, `newUser`) are
seen by itself only, an INSERT of a unique value that another has inserted waits
for its end, a failed statement dooms the transaction (`OrganizationClash`,
`UserClash`, `StatementFails`). `Commit` is the deferred function; the branch whose
`err` is shadowed also ends in a COMMIT, which Postgres turns into a rollback.
`CommitFails` leaves the caller with its 201. `DeleteUser` and `DeleteOrganization`
are the admin tool with the foreign keys' ON DELETE. `Restart` kills every
handler. A token is who it was issued to and the secret it was signed with; that
it may be 24 hours old is the choice of `RefuseToken`. Left out: password hashes
(a login is one with the right password), `last_login`, `is_active`, which nothing
sets.

`AuthService`: a call is one of the service's operations with an email, a
password or a reset token. A statement on `r.db` is `Query`: it needs a free
connection; `HoldingConnection` are those inside `WithTx`. As the functions of `WithTx`
do not use its transaction, what they write is committed at once and there is
nothing to roll back; the exception is `CreateUser` of `Register`, which is given the
transaction. `Rehash` is the goroutine of a login. `GetUserByEmail` and
`GetUserByID` see active rows only (`Finds`), `CreateUser` collides with inactive ones
as well. Organizations are soft-deleted, which no login or registration looks at.
Calls that only read are there for the connections they take. `orgs` says whose
registration or call has made an organization; only `AtomicRegistration` reads it.
Left out: rate limits and validators, which refuse before the call; audit events.

`Migrator`: the schema is a set of names and a migration is what it needs, creates,
keeps if there (IF NOT EXISTS, ON CONFLICT) and drops, for both dialects. `RunUp` and
`RunDown` are the statements of a transaction, `CommitUp` and `CommitDown` make it
visible; `Waits` are the locks it holds. `spent` is the sequence of organizations:
migration 3 and registrations draw from it, and a rollback does not give back.
The database begins empty (`postgres`), as docker-compose's init script leaves it
(`scripted`), or as a SQLite file whose `transactions` table the audit package has
made. `Register` is what `auth.go` does to the schema's rows meanwhile. Two processes
do not share a SQLite file.

`Audit`: a row is known by the request it is about. Blocked and failed requests may
have redactions; an event is made of those that did not fail (`MakesEvent`). `LogEvent`
reads a clock that need not have moved since the last event, as the table keeps
microseconds; `Pages` are the results that ORDER BY timestamp DESC LIMIT ? OFFSET ? may
have, one for each way to order the ties. `LogTransaction`, `LogEvent`,
`StoreEvent` are the writes of the proxy, `GrowOld` the clock moving a row out of the
5-minute, 24-hour or daily window. `Reports` lists the COUNTs of each report in their
order; `CountRows` runs the next one, `CountFails` is the error that `GetStatistics`
returns and the widgets drop. A walk follows `has_more` page by page
(`CountEvents`, `SelectEvents`). `CheckRate` and `UpdateRate` are
`updateRequestRate`, whose check and assignment are apart. The WHERE clauses of the
windows are PostgreSQL's; on SQLite `NOW()` and INTERVAL are errors and the widgets
show 0. `handleStatAvgLatency` counts rows with a processing time, which none has.

## 4. Runs

Mutants named in PROJECT.json show that each property can fail.

| Run | Question | Bounds | States, time |
|---|---|---|---|
| `anonymizer` | Clean forwarding, foreign tokens, round trip, strict mode switched under way, refinement | 2 requests, 4 patterns, 2 token values per kind, replies up to 2 units, 1 switch | 2 min |
| `anonymizer_ml` | Words stay with those who share a token; reported names hidden; every request ends | 2 requests, ML on or off or failing, 2 patterns, 1 switch | 70 s |
| `anonymizer_offsets` | violation: character offsets used as bytes | 1 request | |
| `apikeys` | Dead keys stay out, tenants only, refinement | 3 requests, 1 key, 1 test key, 3 users, clock to 2 | 9 s |
| `router` | Default rules in front; rerouted for a reason | 4 providers, 8 kinds of request, 3 further rules, list up to 9 | 3 k, 6 s |
| `gateway` | Rows tell the truth, row before reply, counters | 2 requests, 2 providers, codes 200 and 403 | 2 min |
| `accounts` | Founders, true answers, tokens, no wait for ever | 2 requests, 2 emails, 3 names with 2 slugs, 1 restart | 142 k, 30 s |
| `auth_service` | Passwords, reset tokens, inactive users, accounts behind tokens, every call ends or the pool is used up | 2 calls and an earlier one, 2 users, 2 passwords, 2 connections | 40 k, 35 s |
| `auth_service_pool` | violation: a transaction never ends | the same | 30 s |
| `migrator` | True records, prefix, success, default data, overlapping starts, every call ends | 2 processes, 3 databases, 3 starts, 2 rollbacks | 249 k, 85 s |
| `audit` | Statistics and widgets add up, walks show what has its own timestamp | 1 call of any kind, 2 requests, page size 1 | 1.5 M, 100 s |
| `audit_rate` | violation: another organization's rate is shown | 2 calls, 1 request | |

Why these bounds are enough to be of use:

* Requests of the engine meet only in the token map, the lock and the two
  switches. Two of them give every order of map writes and of waiting; a third
  adds a longer queue. The theorems cover any number.
* There are two token values per kind, so that two draws agree or differ, within a
  request and across the two. Bodies of one or two units contain what two patterns
  can do to each other: the same unit wanted by two, a label in front of a match,
  two values of one kind, a label before a short word that only a token makes long
  enough. Three units appear where an offset must point past a wide character.
* One key suffices because handlers touch one row by id; three requests give a
  validation, a revocation and a deletion at once. The clock goes to 2, so
  that a date lies before, at and after a reading.
* Two requests race for a counter; the proof covers any finite number.
  "Sensitive" bodies stand for other details in this run, as the two differ only
  while strict mode is on.
* Two registrations are what a unique key, a slug or an id can be fought over by;
  while they do, accounts of the init script are deleted. Three names, two of one
  slug, give a clash of names, one of slugs and the number appended. The restart is
  there for the secret.
* Two calls of the service give every pair of operations on one account or two,
  and with a rehash in the background three actors. The reset token of an earlier
  call lets both confirm the same one. Two connections are as many as the calls
  can hold inside `WithTx`: a call waits for the other's, a rehash finds none
  free, and both may hold one and wait for another (`PoolExhausted`). That state
  `EveryCallEnds` excepts and `auth_service_pool` reaches: a pool of 25 needs 25
  such requests, and nothing limits them.
* Two processes overlap in every statement; the third start comes after a death or
  a failure; two rollbacks reach a version that a rollback uncovered.
* Counts taken apart differ by what two requests did between them. One call at a
  time, as calls share only the rate, which has a run of its own. Page size 1 makes
  two events two pages, and the clock that may stand still between them a tie.

`CHECK_DEADLOCK FALSE` is given where requests end and nothing is left to do;
`router` never stops. `audit` stops exploring once its call is answered.

*Fairness.* Weak fairness of each request's own steps in `anonymizer_ml`,
`accounts`, `auth_service` and `migrator`, none elsewhere. A handler is a goroutine,
which the Go scheduler runs, or a process, which the operating system does.
`AnnotateML` has a context of 10 s and `client.Do` a timeout of 30 s, so both waits
end. Waiting for the mutex, a lock of the database or a connection is where weak
fairness of one request is not obviously enough: it is, because the others are
finitely many, each holder's own steps are fair, and `RWMutex`, PostgreSQL and
`database/sql` serve those who wait. Arrivals, failures, deaths, switches,
deletions and rehashes are not fair: liveness needs none of them.

## 5. Theorems

TLAPS checks everything in the `*Proofs` modules. Assumptions are the named
ASSUMEs of the models: words are not tokens, the ML labels ask for no kind that has
a pattern (`DefaultMLLabels`), sentinel values are not ordinary values, `Calls` and
the audited requests are finite for what is counted, the databases are the three
kinds. A theorem that needs more says so in its ASSUME. Every safety property and
action property of a passing run is now a theorem.

*AnonymizerProofs.* `TypeCorrect`, then `Invariance`: `Inv = TypeOK /\ StageInv /\
WordInv /\ ScanInv /\ MapInv` is inductive, with no assumption on which tokens are
drawn. `ScanInv` carries "a pattern that has been applied finds no word any more"
over the patterns that follow; it is why the random order does no harm to what is
forwarded. `MapInv` says that a token in anybody's details has an entry in the
map, and that the entry is the original of a detail with that token (`MapWriters`:
nothing but a redaction writes). `WordInv` tracks where words come from: an
answer's are those of the requests that share a token with its own
(`SharedWords`), for an entry overwritten meanwhile was written by one who drew
that token too (`EntryWords`). From `Inv` follow `WordsStay` and
`EngineImplementsRedaction`, the refinement.

Four more theorems relate a request's text, details and answer to its body:

* `ForeignTokensAreKept` has no hypothesis: `KeepInv` says that a unit of the reply is
  rewritten only while its token is one of the request's own.
* `RestoringUndoesRedacting`, for bodies without tokens (`PlainBodies`). `BackInv`
  says of each unit that it is the body's, or that a detail not restored yet makes
  it so (`LeadsBack`). A flat redaction takes a unit that is still the client's
  (`BackRedacts`, with `RedactRestores` for one unit and its label); a restore
  takes its own unit back and no other (`BackRestores`), which needs that no token
  was drawn twice: `FlatRoundTrip` leaves such requests out (`Redrawn`), as it
  does those where a match swallowed a token (`Nested`).
* `NamesAreHidden`, for bodies whose characters are one byte each
  (`OneByteBodies`). `FlaggedInv`: a reported place that still shows a word has
  its span pending, and no other span is. Its first step is `OffsetsAgree`, the
  equality of the two offsets that `anonymizer_offsets` violates; so wide
  characters are the one reason why a name that was found is forwarded.
* `StrictModeHoldsBack`, also for `OneByteBodies`, from `BlockInv`: a card number
  or SSN that left its place left a detail of a blocked kind. Without the
  hypothesis TLC finds an ML span that, moved by a wide character, makes a PERSON
  of an SSN. The property is about values which only the two patterns match;
  section 6 says why.

Each hypothesis is needed: without it TLC finds a counterexample of at most three
units.
What the ML server reported is kept as places, not as words: a name that stands
twice in a body may be reported once, and then the other one is forwarded.

*ApiKeysProofs.* `Invariance` for `Inv = TypeOK /\ LateIsDead /\ ListedWasActive
/\ KeyExists`. The key fact (`KeysOnlyDie`) is that no step makes a dead key
alive: statuses are overwritten, but only with other dead ones, and the clock
does not go back. Hence `DeadKeysStayOut` and `KeysImplementAccess`.
`WithdrawnOnlyByTenant` is the action property `OnlyByItsTenant`: the UPDATE does not
repeat the check of the organization, but what the check has read, who owns the key
and where that user belongs, does not change.

*RouterProofs.* `FirstRuleDecides` characterises `DetermineProvider`;
`RouterInvariance` (types, default rules in front) and `RoutesAreStable`
(`ReroutedForAReason`), which needs only that rules are appended and that an
operation on availability moves the least index for the reasons stated.

*GatewayProofs.* `GatewayInvariance`: `Inv` is the types and, for each request,
what its stage says about who has it, its outcome, its row, the provider's code and
its answer; proved
per action for the request that moves (`OwnKeeps`) and by the fact that nobody
else's part is touched (`OthersKeep`). `RowsAreTrue` and `RowsComeFirst` follow.
`CountersBounded` needs in addition `LoadsLag`: a value that was read is no larger
than the number of increments that are over. Without it a write may exceed the bound.

*AuthServiceProofs.* `ServiceInvariant`, from five strengthenings that are proved
apart, as each looks at other steps; the many steps that only read are one case
(`Move`). `PasswordInv`: whoever is about to write a hash brings the chosen password,
or its user is in `raced`. `ResetInv`: a late call is not past the check, and a used
token does not become usable. `StayInv`: a call of an inactive user is at no stage
that a found row leads to. `AccountsInv`: rows are never deleted, so an account
behind a token stays (`TokensBelongToUsers`).

*AccountsProofs.* `AccountsInvariant`: the invariant says of each stage which rows a
transaction has and what they are made of, that ids are below their sequences and
so never given twice, that unique columns are unique among committed and, for
open transactions, among all rows, and that owners and members refer to each
other. `NoOrphanOrganization` needs all of it: a row of an organization becomes
visible together with its founder's, whose id nobody else has.

*MigratorProofs.* `VersionsInOrder`, `RecordsAreTrue` and `DefaultDataIsMadeOnce`.
`AppliedPrefix` is not inductive: `UpPrefix` says that a list, however stale, only
has versions that are applied, and that the loop has passed only such ones;
`DownTop` that a rollback undoes the last; both rest on `Alone`, that no other
call is between its statements (`mixed` remembers when it was not so).
`RecordsTrue` needs `DropsOwn`, a fact about each of the twelve migrations: a
rollback drops what its migration made and nothing an earlier one made.
`DefaultDataIsMadeOnce` needs `First`, that the tables are made by one
transaction. `SuccessIsMigrated` treats the three databases apart: `Stuck` and
`LiteTable` name the statement at which every start on a scripted or a SQLite
database fails, so that only Postgres is left; there the loop has passed every
version. `StartsDoMigrate` is about any number of starts that lose races to each
other. Its invariant, `Led`, says that there is always one call that has lost none
so far (`Leads`), or all is done, or the first id is gone: when one call commits,
the others that lead may stop leading, but the one that commits goes on (`Fresh`:
open transactions are about different versions), and what it comes to next can be
run (`NextSucceeds`). `Taken` keeps the first organization id from registrations,
for `AdminAtHome`. `MigratorInvariant` puts them together.

*AuditProofs.* `StatisticsAgree` and `WidgetsAgree`, for any number of requests
and of calls at a time. The invariant, `Bounds`, says after each COUNT of a report
how far the counts it has can be from those its remaining statements would give
now. `OneMoment` relates the counts of one moment (a success is not blocked, a row
is in one period); `NumbersMove` says that a write of the proxy moves a count by
no more than it moves `added`, and a row that grows old by no more than `aged`;
`BoundsWait` and `BoundsCounted` put the two together, for a step of another and
for the next COUNT. `WalkIsComplete`, for any page size: `Walking` says that an
event a walk was promised has been seen, shares its timestamp with another, or
lies behind the offset (`Ahead` counts those that are not older). Where an event
goes that comes later does not matter: it pushes others back and never out of the
rest (`WalkRests`). A page is one of several where there are ties, but whatever
comes first in it has `n` members (`LeadingSize`), so one that is tied with no
other is on the page its place says (`PageSeen`); the last page shows what is
left, if the total is still that of the rows (`WalkSelects`; `raced` is when it is
not). `AuditInvariant` adds the bounds of all that is counted (`Tallied`).

Only model-checked: liveness (`EveryRequestEnds`, `EveryRegistrationEnds` and
`EveryCallEnds` of the service and of the migrations), which rests on fairness and so
on ENABLED, out of the prover's reach. The violations are traces of TLC.

## 6. What the violations say, and what else was found

Three runs end in a trace; PROJECT.json "findings" quotes both sides. ML offsets
are characters and used as bytes (`engine.go:206`); the transactions of the service wait
for connections that they hold themselves (`repository.go:455`); the request rate of one
organization is shown to another (`dashboard_handlers.go:591`).

Six more promises are stated in the modules as formulas that TLC refutes at once when
they are given to it, with the bounds named; no run lists them:

| Formula | Module | What is said | What the code does | Refuted with |
|---|---|---|---|---|
| `ClientsOwnWords` | `Anonymizer` | README.md:28, "secure de-anonymization" | Two requests whose 32 bits agree share one entry of the map; the earlier client is handed the later one's words (`engine.go:163`, `297`). | 1 token value, `MailBodies` |
| `EchoesRestored` | `Anonymizer` | QUICKSTART.md:129, "Converts tokens back to original data" | Details are restored in the order they were made, so a token swallowed by a later match stays (`engine.go:242`). | `LabelBodies` |
| `DeletedForGood` | `ApiKeys` | swagger.yaml:392, "Permanently deletes an API key" | A revocation checked before, or a validation that found the key out of date, writes its status afterwards (`apikey_handlers.go:252`, `475`). | clock to 1 |
| `AnonymizationsAudited` | `Gateway` | README.md:197, "Audit trail of all anonymization events" | A reply that cannot be read leaves neither row nor event (`proxy.go:127`). | as `gateway` |
| `AtomicRegistration` | `AuthService` | `auth_service.go:85`, "atomic user + organization creation"; AUTH_FIXES.md:13, "automatically rollback" | `CreateOrganization` commits on its own (`repository.go:326`): a refused registration leaves the organization, a failed COMMIT leaves it without its user. | 1 call |
| `PagesShowAll` | `Audit` | `events_api.go:210`, "Add ordering and pagination" | Two events of one timestamp change places between two pages, and one is on neither. | as `audit` |

The runs check what remains of each: words go to nobody but those who share a
token, an echo is restored where nothing was swallowed or drawn twice, an
overwritten key admits nobody, no record but the one whose INSERT failed is
missing, tokens have accounts, and an event with a timestamp of its own is shown.
In the accounts wired to the gateway a registration is atomic:
`NoOrphanOrganization` and `AnswerTellsTheTruth` are proved.

Other divergences, from modelling the code:

* Strict mode looks at the confidence of the
  detail that won the match, so a labelled SSN passes (`engine.go:259`;
  README.md:29). The same goes for a number that both PHONE and CREDIT_CARD match,
  such as 18005551234: whether strict mode blocks it depends on the order in which a
  Go map is ranged over (`engine.go:94`, `100`, `150`). `StrictHoldsBack` states what
  is left.
* `total` of the transactions is the length of the page.
* A forwarded text may match PASSWORD: a label before a short word that CREDIT_CARD
  replaces after PASSWORD has run (`engine.go:100`, `109`). What matches is a token.
* Logout changes nothing (`auth.go:548`; swagger.yaml:242).
* A deactivation is answered with an error (`auth_service.go:743`).
* On Postgres a failed migration 3 spends the first organization id, and every
  later start fails at it (`DefaultDataOnce`). On the scripted database `Up` never
  applies anything, and on SQLite it always ends at migration 6, as those objects
  exist: `SuccessMeansMigrated` holds because `Up` returns nil on Postgres only. The
  rollback of 3 cannot be redone; on SQLite that of 4 leaves its column.
* The test keys of the dashboard (`main.go`) open organization 1, whoever has it.
* No code reads `STRICT_MODE` (README.md:163); a provider that fails is not replaced
  (README.md:40, "automatic failover"); a request about money without a header goes
  to openai (README.md:39); the audit row holds `original_text` (README.md:193); the
  server is not shut down on a signal (`main.go:94`).

Hazards read in the code that no property is about, besides those in PROJECT.json:
only headers feed the content hint, joined in map order (`providers.go:306`); a
provider may be switched off between its choice and its use (`proxy.go:118`); the
success rate of `HandleStats` is negative when most requests are blocked
(`proxy.go:279`).

## 7. Not modelled

Handlers with fixed answers and those that `main.go` routes nowhere (event status,
webhooks, settings): no state that anything else reads. Configuration, validation
and error formatting: no state. Password hashing and JWT signing: a password and
a token stand for them. The listings of the admin CLI, and its two commands that
always fail. Generated protobuf code; the ML model itself, of which only the spans
it reports appear; `sql_repository.go` and `_backup`, which nothing uses. Sessions and
refresh tokens of the service are tables without an INSERT, so deleting from them
is a step that does nothing. A restart of the gateway with requests under way
begins at `Init` and is modelled for accounts and migrations only.

Worth doing next: an `audit` run with two calls and three requests; an abstract
specification of the counters of `Gateway`.
